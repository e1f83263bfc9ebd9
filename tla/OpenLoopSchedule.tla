-------------------------- MODULE OpenLoopSchedule --------------------------
(***************************************************************************)
(* What an open-loop load test promises, whatever schedules its requests:  *)
(* the schedule is fixed before the first request and a slow system under  *)
(* test never moves it; no request starts before it is due; at most Limit  *)
(* are in flight; after the test is abandoned none starts.                 *)
(***************************************************************************)
EXTENDS Integers, FiniteSets

CONSTANTS
    Limit,   \* requests in flight at most
    Never    \* the time of what has not happened

VARIABLES
    now,       \* the clock
    due,       \* when each request is scheduled
    start,     \* when it was sent
    end,       \* when it was answered
    abandoned  \* the test was given up

vars == <<now, due, start, end, abandoned>>

InFlight == {i \in DOMAIN due : start[i] # Never /\ end[i] = Never}

Init ==
    /\ now = 0
    /\ \A i, j \in DOMAIN due : i < j => due[i] <= due[j]
    /\ start = [i \in DOMAIN due |-> Never]
    /\ end = [i \in DOMAIN due |-> Never]
    /\ abandoned = FALSE

Tick ==
    /\ now' = now + 1
    /\ UNCHANGED <<due, start, end, abandoned>>

Begin(i) ==
    /\ ~abandoned
    /\ start[i] = Never
    /\ due[i] <= now
    /\ Cardinality(InFlight) < Limit
    /\ start' = [start EXCEPT ![i] = now]
    /\ UNCHANGED <<now, due, end, abandoned>>

End(i) ==
    /\ ~abandoned
    /\ i \in InFlight
    /\ end' = [end EXCEPT ![i] = now]
    /\ UNCHANGED <<now, due, start, abandoned>>

Abandon ==
    /\ ~abandoned
    /\ abandoned' = TRUE
    /\ UNCHANGED <<now, due, start, end>>

Next ==
    \/ Tick
    \/ \E i \in DOMAIN due : Begin(i) \/ End(i)
    \/ Abandon

Spec == Init /\ [][Next]_vars
=============================================================================
