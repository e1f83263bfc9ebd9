------------------------------ MODULE OpenLoop ------------------------------
(***************************************************************************)
(* run_open_loop (load/driver.py): one coroutine per arrival of a schedule *)
(* drawn beforehand (load/arrivals.py).  Each sleeps until its arrival is  *)
(* due, waits for a place under the in-flight limit, runs the operation,   *)
(* and records the time it should have been sent, was sent and was done.   *)
(* asyncio.Semaphore is modelled as the code uses it (Python 3.11): first  *)
(* come, first served, and a freed place is handed to the first who waits, *)
(* whose coroutine runs some time later.                                   *)
(***************************************************************************)
EXTENDS Integers, FiniteSets, Sequences

CONSTANTS
    InFlightLimit,  \* in_flight_limit
    Never,          \* model value: a time that has not come
    MaxArrivals,    \* bound: arrivals of one schedule
    Duration,       \* bound: duration_s, in ticks of the clock
    MaxTime         \* bound: the clock

ASSUME OpenLoopAssumption ==
    /\ InFlightLimit \in Nat \ {0}
    /\ {MaxArrivals, Duration, MaxTime} \subseteq Nat
    /\ Duration <= MaxTime
    /\ Never \notin Int

VARIABLES
    clock,     \* clock(), 0 at origin
    offsets,   \* the schedule: offsets[i] is when arrival i is due
    stage,     \* where coroutine one(i) is
    free,      \* the semaphore: places not taken
    waiters,   \* the semaphore: coroutines that wait and were not yet handed a
               \* place, first come first; those that were stand before them
    dispatch,  \* dispatch of coroutine i
    done,      \* done of coroutine i
    cancelled  \* the caller of run_open_loop was cancelled

vars == <<clock, offsets, stage, free, waiters, dispatch, done, cancelled>>

Arrivals == DOMAIN offsets

\* poisson_arrivals: any nondecreasing sequence of offsets below the duration.
Schedules ==
    {s \in UNION {[1..n -> 0..(Duration - 1)] : n \in 0..MaxArrivals} :
        \A i, j \in DOMAIN s : i < j => s[i] <= s[j]}

Init ==
    /\ clock = 0
    /\ offsets \in Schedules
    /\ stage = [i \in Arrivals |-> "sleeping"]
    /\ free = InFlightLimit
    /\ waiters = <<>>
    /\ dispatch = [i \in Arrivals |-> Never]
    /\ done = [i \in Arrivals |-> Never]
    /\ cancelled = FALSE

Goto(i, s) == stage' = [stage EXCEPT ![i] = s]

Tick ==
    /\ clock < MaxTime
    /\ clock' = clock + 1
    /\ UNCHANGED <<offsets, stage, free, waiters, dispatch, done, cancelled>>

\* Faulty variant: sent at once, due or not.
WakeAtOnce(i) ==
    /\ stage[i] = "sleeping"
    /\ free > 0
    /\ free' = free - 1
    /\ dispatch' = [dispatch EXCEPT ![i] = clock]
    /\ Goto(i, "running")
    /\ UNCHANGED <<clock, offsets, waiters, done, cancelled>>

\* Semaphore.locked(): no place is free, or somebody is in the queue; who was
\* handed a place leaves the queue only when its coroutine runs.
Locked == free = 0 \/ waiters # <<>> \/ \E j \in Arrivals : stage[j] = "granted"

\* The sleep is over, when due or later (the loop may be busy).  `async with
\* sem`: unless it is locked, dispatch = clock() and the operation starts; else
\* the coroutine joins the queue.
Wake(i) ==
    /\ stage[i] = "sleeping"
    /\ clock >= offsets[i]
    /\ IF ~Locked
       THEN /\ free' = free - 1
            /\ dispatch' = [dispatch EXCEPT ![i] = clock]
            /\ Goto(i, "running")
            /\ UNCHANGED waiters
       ELSE /\ waiters' = Append(waiters, i)
            /\ Goto(i, "waiting")
            /\ UNCHANGED <<free, dispatch>>
    /\ UNCHANGED <<clock, offsets, done, cancelled>>

\* Coroutine i goes to stage s with some places free; one of them, if there is
\* any, is handed to the first that waits (_wake_up_next).
HandOver(i, s, places) ==
    IF places > 0 /\ waiters # <<>>
    THEN /\ stage' = [stage EXCEPT ![i] = s, ![Head(waiters)] = "granted"]
         /\ waiters' = Tail(waiters)
         /\ free' = places - 1
    ELSE /\ Goto(i, s)
         /\ free' = places
         /\ UNCHANGED waiters

\* Faulty variant: whoever queued behind it while a place was free is left.
DispatchStrands(i) ==
    /\ stage[i] = "granted"
    /\ dispatch' = [dispatch EXCEPT ![i] = clock]
    /\ Goto(i, "running")
    /\ UNCHANGED <<clock, offsets, free, waiters, done, cancelled>>

\* A coroutine that was handed a place while it waited goes on, some time
\* later, and wakes the next one if a place was freed in between.
Dispatch(i) ==
    /\ stage[i] = "granted"
    /\ dispatch' = [dispatch EXCEPT ![i] = clock]
    /\ HandOver(i, "running", free)
    /\ UNCHANGED <<clock, offsets, done, cancelled>>

\* Faulty variant: the place is freed but no waiter is woken.
FinishStrands(i) ==
    /\ stage[i] = "running"
    /\ done' = [done EXCEPT ![i] = clock]
    /\ free' = free + 1
    /\ Goto(i, "recorded")
    /\ UNCHANGED <<clock, offsets, waiters, dispatch, cancelled>>

\* The operation returns or raises an Exception: both are recorded here, and
\* its place is handed to the first waiter, or is free again.
Finish(i) ==
    /\ stage[i] = "running"
    /\ done' = [done EXCEPT ![i] = clock]
    /\ HandOver(i, "recorded", free + 1)
    /\ UNCHANGED <<clock, offsets, dispatch, cancelled>>

\* The caller is cancelled: asyncio.gather cancels every coroutine that is not
\* done, wherever it is; none of them catches it and nothing is returned.
Cancel ==
    /\ ~cancelled
    /\ \E i \in Arrivals : stage[i] # "recorded"
    /\ cancelled' = TRUE
    /\ stage' = [i \in Arrivals |-> IF stage[i] = "recorded" THEN stage[i] ELSE "cancelled"]
    /\ waiters' = <<>>
    /\ free' = InFlightLimit
    /\ UNCHANGED <<clock, offsets, dispatch, done>>

Step(i) == Wake(i) \/ Dispatch(i) \/ Finish(i)
Next == Tick \/ Cancel \/ \E i \in Arrivals : Step(i)

\* Time passes and the event loop runs what can run.  That an operation ends
\* is assumed of the caller (the clients of the benchmark have timeouts).
Fairness == WF_vars(Tick) /\ \A i \in 1..MaxArrivals : WF_vars(i \in Arrivals /\ Step(i))

Spec == Init /\ [][Next]_vars /\ Fairness

-----------------------------------------------------------------------------
Promise == INSTANCE OpenLoopSchedule WITH
    Limit <- InFlightLimit, now <- clock, due <- offsets,
    start <- dispatch, end <- done, abandoned <- cancelled

\* "Capacity waiting deliberately occurs after the immutable schedule
\* timestamp" (driver.py:21): run_open_loop implements the abstract schedule,
\* with any pattern of slow and failing operations and cancelled at any time.
KeepsSchedule == Promise!Spec

\* No place stays free while an arrival waits for one: while some arrival is in
\* the queue every place is taken, by a running operation or by one that was
\* handed it, or one that was handed its place has still to run, and will hand
\* the free one on.  So a queue delay is that of the limit but for the moment a
\* coroutine needs to be resumed.  The queue has all that wait, each once.
NoIdlePlace ==
    /\ waiters # <<>> =>
         \/ Cardinality({i \in Arrivals : stage[i] \in {"granted", "running"}}) = InFlightLimit
         \/ \E i \in Arrivals : stage[i] = "granted"
    /\ {i \in Arrivals : stage[i] = "waiting"} = {waiters[k] : k \in 1..Len(waiters)}
    /\ \A j, k \in 1..Len(waiters) : waiters[j] = waiters[k] => j = k

\* No arrival is forgotten: unless the caller is cancelled every arrival of the
\* schedule ends in a record, also when operations fail while others queue.
EveryArrivalRecorded ==
    <>(cancelled \/ \A i \in Arrivals : stage[i] = "recorded")
=============================================================================
