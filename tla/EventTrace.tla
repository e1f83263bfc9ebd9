----------------------------- MODULE EventTrace -----------------------------
(***************************************************************************)
(* What the append-only event log promises those who read it, whatever the *)
(* writers do: a sequence of events that only grows at its end, except for *)
(* a crash, which cuts off an end that was not yet durable.  Events of one *)
(* writer are numbered in the order they stand in the trace.  A writer is  *)
(* told of an event only when it is in the trace and, if the log is        *)
(* synchronous, durable; or when it was spoilt: an append that failed, or  *)
(* a crash, may leave a torn line, and the one event that comes next is    *)
(* written behind it where nobody can read it.                             *)
(***************************************************************************)
EXTENDS Integers, Sequences

VARIABLES
    sync,     \* appends are acknowledged when durable
    trace,    \* the events, each with the instance that wrote it and a number
    durable,  \* how many of them no crash takes away
    acked,    \* the events whose writer was told
    lost,     \* those whose append failed, or that a crash cut
    torn,     \* the next event will be spoilt
    spoilt    \* the events written behind a torn line

vars == <<sync, trace, durable, acked, lost, torn, spoilt>>

Events(n) == {trace[k] : k \in 1..n}

Init ==
    /\ sync \in BOOLEAN
    /\ trace = <<>>
    /\ durable = 0
    /\ acked = {}
    /\ lost = {}
    /\ torn = FALSE
    /\ spoilt = {}

Add(e) ==
    /\ ~torn
    /\ e \notin acked \cup lost
    /\ \A k \in 1..Len(trace) : trace[k].instance = e.instance => trace[k].seq < e.seq
    /\ trace' = Append(trace, e)
    /\ UNCHANGED <<sync, durable, acked, lost, torn, spoilt>>

\* One event pays for a torn line; the next line is whole again.
Spoil(e) ==
    /\ torn
    /\ e \notin acked \cup lost
    /\ spoilt' = spoilt \cup {e}
    /\ torn' = FALSE
    /\ UNCHANGED <<sync, trace, durable, acked, lost>>

Acknowledge(e) ==
    /\ e \in (Events(Len(trace)) \cup spoilt) \ (acked \cup lost)
    /\ acked' = acked \cup {e}
    /\ durable' = IF sync THEN Len(trace) ELSE durable
    /\ UNCHANGED <<sync, trace, lost, torn, spoilt>>

\* An append fails, before, while or after its event is written.
Fail(e) ==
    /\ e \notin acked \cup lost
    /\ lost' = lost \cup {e}
    /\ torn' \in {torn, TRUE}
    /\ UNCHANGED <<sync, trace, durable, acked, spoilt>>

Flush ==
    /\ durable' = Len(trace)
    /\ UNCHANGED <<sync, trace, acked, lost, torn, spoilt>>

\* What a crash cuts is lost; it may leave a torn line.
Crash ==
    /\ \E kept \in durable..Len(trace) :
         /\ trace' = SubSeq(trace, 1, kept)
         /\ durable' = kept
         /\ \A k \in (kept + 1)..Len(trace) : trace[k] \in lost'
    /\ spoilt' \subseteq spoilt /\ spoilt \subseteq spoilt' \cup lost'
    /\ lost \subseteq lost'
    /\ torn' \in BOOLEAN
    /\ UNCHANGED <<sync, acked>>

Next ==
    \/ \E k \in DOMAIN trace' : Add(trace'[k])
    \/ \E e \in spoilt' : Spoil(e)
    \/ \E e \in acked' : Acknowledge(e)
    \/ \E e \in lost' : Fail(e)
    \/ Flush
    \/ Crash

Spec == Init /\ [][Next]_vars
=============================================================================
