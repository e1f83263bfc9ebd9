----------------------------- MODULE Settlement -----------------------------
(***************************************************************************)
(* Canary settlement of one session: MemoryAdapter.reset, plant_canary,    *)
(* is_settled, wait_settled and search (adapters/base.py) with the canary  *)
(* hooks of the adapters, as Runner.run_instance calls them: one task per  *)
(* session, reset first, then waits, then the benchmark read; an exception *)
(* ends the instance and nothing more is done before the next reset.       *)
(*                                                                         *)
(* The memory store makes what it has accepted retrievable at a time of    *)
(* its own.  Requests and answers take time; now is perf_counter.          *)
(***************************************************************************)
EXTENDS Naturals, FiniteSets

CONSTANTS
    Timeout,         \* SettlementConfig.timeout_s
    PollInterval,    \* SettlementConfig.poll_interval_s
    CleanupEnabled,  \* SettlementConfig.canary_cleanup
    CleanupRaises,   \* _canary_cleanup_impl lets a failed deletion raise
                     \* (Mem0) or swallows it (Zep, Letta)
    MaxWaits,        \* wait_settled calls per instance: 1 (policy
                     \* per_instance) or one per session (per_session)
    MaxDelay,        \* bound: how long a request or an answer is under way
    MaxStart,        \* bound: no wait starts later than this
    MaxCanaries      \* bound: canaries planted

ASSUME SettlementAssumption ==
    /\ Timeout \in Nat
    /\ PollInterval \in Nat
    /\ {CleanupEnabled, CleanupRaises} \subseteq BOOLEAN
    /\ {MaxWaits, MaxDelay, MaxStart, MaxCanaries} \subseteq Nat

VARIABLES
    now,
    pc,         \* where the task is
    since,      \* when it got there
    ready,      \* the instance goes on: reset, nothing raised, not yet read
    waits,      \* wait_settled calls since the reset
    waitStart,  \* when the current (or last) wait began
    deadline,   \* deadline of the current wait
    current,    \* _canaries[session_id]: the canary there, 0 if none
    planted,    \* canaries planted so far, also the latest one's number
    canary,     \* the CanaryRecord of each canary
    seen,       \* what the search of the poll found in the store
    store,      \* canaries in the memory system
    visible,    \* those its read path returns
    visibleAt,  \* ghost: when each became retrievable
    lastRead,   \* ghost: canaries the latest benchmark read returned
    timeouts    \* ghost: the waits that timed out: on a canary of their own
                \* or on an old one, and for how long they polled

wait   == <<waits, waitStart, deadline>>
record == <<current, planted, canary>>
memory == <<store, visible, visibleAt>>
ghosts == <<lastRead, timeouts>>
vars   == <<now, pc, since, ready, wait, record, seen, memory, ghosts>>

Canaries == 1..MaxCanaries
Latest   == MaxStart + 4 * MaxDelay + Timeout + PollInterval
Time     == 0..Latest
Unset    == Latest + 1    \* a time field that is still None

Record == [acked : Time \cup {Unset}, settled : BOOLEAN,
           cleanup : {"none", "deleted", "failed", "skipped"},
           failed : Time \cup {Unset}, first : Time \cup {Unset}]

\* acknowledged_perf, settled, cleanup, previous_failed_observation_perf,
\* first_retrievable_perf
NewRecord == [acked |-> Unset, settled |-> FALSE, cleanup |-> "none",
              failed |-> Unset, first |-> Unset]

\* writing, acking: the canary write is on its way, is stored and its answer is
\* on its way; poll: at the head of the loop; reading, observing: the search
\* is on its way, has read the store; sleeping; cleaning.
PCs == {"idle", "writing", "acking", "poll", "reading", "observing",
        "sleeping", "cleaning"}

\* Time passes while something is under way, never past its bound.
Patience ==
    CASE pc = "idle"     -> MaxStart
      [] pc = "sleeping" -> since + PollInterval
      [] pc \in {"writing", "acking", "reading", "observing"} -> since + MaxDelay
      [] OTHER           -> now

-----------------------------------------------------------------------------
Init ==
    /\ now = 0
    /\ pc = "idle"
    /\ since = 0
    /\ ready = FALSE
    /\ waits = 0
    /\ waitStart = 0
    /\ deadline = 0
    /\ current = 0
    /\ planted = 0
    /\ canary = [c \in Canaries |-> NewRecord]
    /\ seen = FALSE
    /\ store = {}
    /\ visible = {}
    /\ visibleAt = [c \in Canaries |-> Unset]
    /\ lastRead = {}
    /\ timeouts = {}

Goto(stage) == pc' = stage /\ since' = now

\* An exception leaves wait_settled (or reset) and ends the instance.
Raise == Goto("idle") /\ ready' = FALSE

-----------------------------------------------------------------------------
(* The environment.                                                        *)

Tick ==
    /\ now < Patience
    /\ now' = now + 1
    /\ UNCHANGED <<pc, since, ready, wait, record, seen, memory, ghosts>>

\* Faulty variant: the index also returns what was deleted.
Unseen == Canaries \ visible

Indexable == store \ visible

BecomeVisible(c) ==
    /\ c \in Indexable
    /\ visible' = visible \cup {c}
    /\ visibleAt' = [visibleAt EXCEPT ![c] = now]
    /\ UNCHANGED <<now, pc, since, ready, wait, record, seen, store, ghosts>>

-----------------------------------------------------------------------------
(* reset and the benchmark read                                            *)

\* _reset_impl removes everything of the session; then the record is dropped.
Reset ==
    /\ pc = "idle"
    /\ store' = {}
    /\ visible' = {}
    /\ current' = 0
    /\ ready' = TRUE
    /\ waits' = 0
    /\ lastRead' = {}
    /\ UNCHANGED <<now, pc, since, waitStart, deadline, planted, canary, seen,
                   visibleAt, timeouts>>

\* _reset_impl raises, before or after it removed anything.
ResetRaises ==
    /\ pc = "idle"
    /\ ready
    /\ ready' = FALSE
    /\ \E keep \in {store, {}} : store' = keep /\ visible' = visible \cap keep
    /\ UNCHANGED <<now, pc, since, wait, record, seen, visibleAt, ghosts>>

\* reset_all of an adapter (the scripts call it, the runner does not): the whole
\* system is emptied, but the record in _canaries stays.
ResetAll ==
    /\ pc = "idle"
    /\ store # {}
    /\ store' = {}
    /\ visible' = {}
    /\ UNCHANGED <<now, pc, since, ready, wait, record, seen, visibleAt, ghosts>>

\* search(): the question's retrieval, tagged operation=read, after the last
\* wait of the instance.
BenchmarkRead ==
    /\ pc = "idle"
    /\ ready
    /\ waits > 0
    /\ lastRead' = visible
    /\ ready' = FALSE
    /\ UNCHANGED <<now, pc, since, wait, record, seen, memory, timeouts>>

-----------------------------------------------------------------------------
(* wait_settled                                                            *)

\* A pending canary (there is a record and it has not settled) is reused, with
\* the deadline counted from its acknowledgement.
Pending == current # 0 /\ ~canary[current].settled

StartWait ==
    /\ pc = "idle"
    /\ ready
    /\ waits < MaxWaits
    /\ now <= MaxStart
    /\ waits' = waits + 1
    /\ waitStart' = now
    /\ IF Pending
       THEN /\ deadline' = canary[current].acked + Timeout
            /\ Goto("poll")
            /\ UNCHANGED planted
       ELSE /\ planted < MaxCanaries
            /\ planted' = planted + 1
            /\ Goto("writing")
            /\ UNCHANGED deadline
    /\ UNCHANGED <<now, ready, current, canary, seen, memory, ghosts>>

\* wait_settled, after the canary was planted.  Faulty variant: the deadline
\* counts from the submission.
DeadlineOfWait == waitStart + Timeout

DeadlineNow == now + Timeout

\* plant_canary: the system stores the canary, then the acknowledgement
\* arrives and the record takes its place in _canaries.
CanaryStored ==
    /\ pc = "writing"
    /\ store' = store \cup {planted}
    /\ Goto("acking")
    /\ UNCHANGED <<now, ready, wait, record, seen, visible, visibleAt, ghosts>>

CanaryAcked ==
    /\ pc = "acking"
    /\ canary' = [canary EXCEPT ![planted].acked = now]
    /\ current' = planted
    /\ deadline' = DeadlineNow
    /\ Goto("poll")
    /\ UNCHANGED <<now, ready, waits, waitStart, planted, seen, memory, ghosts>>

\* The canary write raises, stored or not: there is no record of it.
CanaryRaises ==
    /\ pc \in {"writing", "acking"}
    /\ Raise
    /\ UNCHANGED <<now, wait, record, seen, memory, ghosts>>

\* is_settled: a search for the token through the normal read path.
Poll ==
    /\ pc = "poll"
    /\ Goto("reading")
    /\ UNCHANGED <<now, ready, wait, record, seen, memory, ghosts>>

\* Faulty variant: settled as soon as the system says it stored the canary.
Stored == current \in store

Retrieved == current \in visible

StoreRead ==
    /\ pc = "reading"
    /\ seen' = Retrieved
    /\ pc' = "observing"
    /\ UNCHANGED <<now, since, ready, wait, record, memory, ghosts>>

\* Faulty variant: no deadline, no sleep.
AfterPollSpin == IF seen THEN "cleaning" ELSE "poll"

AfterPoll == IF seen \/ now >= deadline THEN "cleaning" ELSE "sleeping"

\* The answer arrives: observed_perf is taken after it.  The loop ends when it
\* settled or the deadline has passed, else it sleeps.
Observe ==
    /\ pc = "observing"
    /\ canary' = [canary EXCEPT ![current] =
           IF seen THEN [@ EXCEPT !.settled = TRUE, !.first = now]
                   ELSE [@ EXCEPT !.failed = now]]
    /\ Goto(AfterPoll)
    /\ UNCHANGED <<now, ready, wait, current, planted, seen, memory, ghosts>>

\* The search raises: no cleanup, the record stays.
PollRaises ==
    /\ pc \in {"reading", "observing"}
    /\ Raise
    /\ UNCHANGED <<now, wait, record, seen, memory, ghosts>>

Wake ==
    /\ pc = "sleeping"
    /\ now >= since + PollInterval
    /\ Goto("poll")
    /\ UNCHANGED <<now, ready, wait, record, seen, memory, ghosts>>

\* Faulty variant: a canary that timed out is not cleaned up.
CleanupIfSettled ==
    IF canary[current].settled
    THEN {[recorded |-> "deleted", left |-> store \ {current}],
          [recorded |-> "failed", left |-> store]}
    ELSE {[recorded |-> "none", left |-> store]}

\* How the deletion of the canary can end with Mem0, whose hook raises what the
\* delete raises: gone, or a failure on record, with the canary gone or not.
LoudCleanup ==
    {[recorded |-> "deleted", left |-> store \ {current}]} \cup
    {[recorded |-> "failed", left |-> left] : left \in {store, store \ {current}}}

\* The hooks of Zep and Letta hide a failure: recorded as deleted, gone or not.
QuietCleanup ==
    {[recorded |-> "deleted", left |-> left] : left \in {store, store \ {current}}}

\* How the cleanup of wait_settled can end.
CleanupOutcomes ==
    IF ~CleanupEnabled THEN {[recorded |-> "skipped", left |-> store]}
    ELSE IF CleanupRaises THEN LoudCleanup ELSE QuietCleanup

\* The end of wait_settled: cleanup, whatever the outcome, then the result.
Cleanup ==
    /\ pc = "cleaning"
    /\ \E outcome \in CleanupOutcomes :
         /\ canary' = [canary EXCEPT ![current].cleanup = outcome.recorded]
         /\ store' = outcome.left
         /\ visible' = visible \cap outcome.left
    /\ timeouts' = IF canary[current].settled THEN timeouts
                   ELSE LET fresh == canary[current].acked >= waitStart IN
                        timeouts \cup {[fresh |-> fresh,
                                        polledFor |-> now - (IF fresh THEN canary[current].acked
                                                             ELSE waitStart)]}
    /\ Goto("idle")
    /\ UNCHANGED <<now, ready, wait, current, planted, seen, visibleAt,
                   lastRead>>

-----------------------------------------------------------------------------
Task ==
    \/ CanaryStored \/ CanaryAcked \/ CanaryRaises
    \/ Poll \/ StoreRead \/ Observe \/ PollRaises \/ Wake \/ Cleanup

Next ==
    \/ Tick
    \/ \E c \in Canaries : BecomeVisible(c)
    \/ Reset \/ ResetRaises \/ ResetAll \/ BenchmarkRead \/ StartWait
    \/ Task

\* Time passes and the task runs; the store owes nothing.
Fairness == WF_vars(Tick) /\ WF_vars(Task)

Spec == Init /\ [][Next]_vars /\ Fairness

-----------------------------------------------------------------------------
TypeOK ==
    /\ now \in Time
    /\ pc \in PCs
    /\ since \in Time
    /\ ready \in BOOLEAN
    /\ waits \in 0..MaxWaits
    /\ waitStart \in Time
    /\ deadline \in 0..(Latest + Timeout)
    /\ current \in 0..planted
    /\ planted \in 0..MaxCanaries
    /\ canary \in [Canaries -> Record]
    /\ seen \in BOOLEAN
    /\ visible \subseteq store
    /\ store \subseteq Canaries
    /\ visibleAt \in [Canaries -> Time \cup {Unset}]
    /\ lastRead \subseteq Canaries
    /\ \A t \in timeouts : t.fresh \in BOOLEAN /\ t.polledFor \in Time

\* "... then deletes the canary memory [...] so it cannot occupy a retrieval
\* slot later" (README): the benchmark read returns a canary only if the
\* trace says that its cleanup failed (or was switched off), whichever waits timed out, reused a
\* canary, raised, or were followed by a reset.  (Adapters that let a failed
\* deletion raise.)
ReadSeesOnlyRecorded ==
    CleanupRaises => \A c \in lastRead : canary[c].cleanup \in {"failed", "skipped"}

\* lag_fields: the bounds visibility_lower_bound_ms and visibility_upper_bound_ms
\* put on record, as times of the clock: when the answer of the last poll that
\* missed the canary arrived (its acknowledgement if none did), and when the
\* answer of the poll that found it arrived.
Lower(c) == IF canary[c].failed = Unset THEN canary[c].acked ELSE canary[c].failed

Upper(c) == canary[c].first

\* The bounds on record for a settled canary enclose the moment it became
\* retrievable but for one request: that moment is never behind the upper
\* bound, and it is before the lower bound by no more than the request under
\* way then took (the search that missed it, or the canary write), so that the
\* bounds alone (metrics.py:162) need not enclose it; this holds whatever
\* polls, waits, answers that came late or failures went before
\* (is_settled and lag_fields, base.py:307-331, 131-154).
LagWithinOneRequest ==
    \A c \in Canaries : canary[c].settled =>
        /\ canary[c].acked <= Lower(c)
        /\ Lower(c) <= Upper(c)
        /\ visibleAt[c] <= Upper(c)
        /\ Lower(c) <= visibleAt[c] + MaxDelay

\* A wait that planted its canary and reports a timeout had polled for the
\* whole timeout, counted from the acknowledgement of that canary, whenever
\* the answers of its polls arrived (base.py:342-347).
FreshTimeoutsPolledInFull == \A t \in timeouts : t.fresh => t.polledFor >= Timeout

\* "Plant a canary (if none is pending) and poll is_settled until True or
\* timeout" (wait_settled's docstring): so had a wait on a pending canary,
\* counted from the start of the wait.
TimeoutsPolledInFull == \A t \in timeouts : t.polledFor >= Timeout

\* A wait ends, also when the canary never becomes retrievable.
WaitsEnd == pc # "idle" ~> pc = "idle"
=============================================================================
