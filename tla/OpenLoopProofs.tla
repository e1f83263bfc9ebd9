--------------------------- MODULE OpenLoopProofs ---------------------------
(***************************************************************************)
(* OpenLoop for any limit, schedule and clock: no place stays free while   *)
(* an arrival waits for one, and the driver implements OpenLoopSchedule.   *)
(***************************************************************************)
EXTENDS OpenLoop, FiniteSetTheorems, TLAPS

Stages == {"sleeping", "waiting", "granted", "running", "recorded", "cancelled"}

Typed ==
    /\ clock \in Nat
    /\ offsets \in Schedules
    /\ stage \in [Arrivals -> Stages]
    /\ free \in Nat
    /\ waiters \in Seq(Arrivals)
    /\ dispatch \in [Arrivals -> Nat \cup {Never}]
    /\ done \in [Arrivals -> Nat \cup {Never}]
    /\ cancelled \in BOOLEAN

\* What is recorded of an arrival matches the stage its coroutine is at.
Timed ==
    \A i \in Arrivals :
       /\ stage[i] \in {"sleeping", "waiting", "granted"} => dispatch[i] = Never /\ done[i] = Never
       /\ stage[i] = "running" => dispatch[i] # Never /\ done[i] = Never
       /\ stage[i] = "recorded" => done[i] # Never
       /\ IF cancelled THEN stage[i] \in {"recorded", "cancelled"} ELSE stage[i] # "cancelled"

\* What waits is due.
Due == \A i \in Arrivals : stage[i] \in {"waiting", "granted"} => offsets[i] <= clock

\* The coroutines that take a place.
Occupied == {i \in Arrivals : stage[i] \in {"granted", "running"}}

\* A place is free, or a coroutine has it; while somebody waits none is free, or
\* a coroutine that was handed its place will hand the free one on.
Places ==
    /\ free + Cardinality(Occupied) = InFlightLimit
    /\ waiters # <<>> => free = 0 \/ \E j \in Arrivals : stage[j] = "granted"

\* The queue holds each waiting coroutine once.
Queued ==
    /\ \A i \in Arrivals : stage[i] = "waiting" => \E k \in 1..Len(waiters) : waiters[k] = i
    /\ \A k \in 1..Len(waiters) : stage[waiters[k]] = "waiting"
    /\ \A j, k \in 1..Len(waiters) : waiters[j] = waiters[k] => j = k

IInv == Typed /\ Timed /\ Due /\ Places /\ Queued

-----------------------------------------------------------------------------
(* Facts about sets and queues.                                            *)

\* A schedule is finite, so is every set of its arrivals.
LEMMA ArrivalsFinite ==
    ASSUME offsets \in Schedules
    PROVE  /\ IsFiniteSet(Arrivals)
           /\ \A S \in SUBSET Arrivals : IsFiniteSet(S) /\ Cardinality(S) \in Nat
<1>1. PICK n \in 0..MaxArrivals : offsets \in [1..n -> 0..(Duration - 1)]
  BY DEF Schedules
<1>2. Arrivals = 1..n
  BY <1>1 DEF Arrivals
<1>3. IsFiniteSet(Arrivals)
  BY <1>2, FS_Interval, OpenLoopAssumption
<1> QED BY <1>3, FS_Subset, FS_CardinalityType

\* The times of a schedule are numbers.
LEMMA OffsetsTimes ==
    ASSUME offsets \in Schedules, NEW i \in Arrivals
    PROVE  offsets[i] \in Nat
<1>1. PICK n \in 0..MaxArrivals : offsets \in [1..n -> 0..(Duration - 1)]
  BY DEF Schedules
<1> QED BY <1>1, OpenLoopAssumption DEF Arrivals

\* The first of a queue and the rest of it.
LEMMA HeadTail ==
    ASSUME NEW S, NEW s \in Seq(S), s # <<>>
    PROVE  /\ Head(s) \in S /\ Head(s) = s[1] /\ Len(s) \in Nat /\ Len(s) > 0
           /\ Tail(s) \in Seq(S) /\ Len(Tail(s)) = Len(s) - 1
           /\ \A k \in 1..(Len(s) - 1) : Tail(s)[k] = s[k + 1]
  OBVIOUS

\* The back of a queue that one more joins.
LEMMA AppendLast ==
    ASSUME NEW S, NEW s \in Seq(S), NEW e \in S
    PROVE  /\ Append(s, e) \in Seq(S) /\ Len(s) \in Nat
           /\ Len(Append(s, e)) = Len(s) + 1
           /\ \A k \in 1..Len(s) : Append(s, e)[k] = s[k]
           /\ Append(s, e)[Len(s) + 1] = e
  OBVIOUS

-----------------------------------------------------------------------------
(* The invariant.                                                          *)

\* It holds before the first arrival is due.
LEMMA InitInv == Init => IInv
<1> SUFFICES ASSUME Init PROVE IInv
  OBVIOUS
<1>1. Typed
  <2>1. stage \in [Arrivals -> Stages] /\ dispatch \in [Arrivals -> Nat \cup {Never}]
        /\ done \in [Arrivals -> Nat \cup {Never}]
    BY DEF Init, Stages
  <2>2. waiters \in Seq(Arrivals) /\ clock \in Nat /\ free \in Nat
    BY OpenLoopAssumption DEF Init
  <2> QED BY <2>1, <2>2 DEF Init, Typed
<1>2. Timed /\ Due /\ Queued
  BY DEF Init, Timed, Due, Queued
<1>3. Occupied = {}
  BY DEF Init, Occupied
<1>4. Places
  BY <1>3, FS_EmptySet, OpenLoopAssumption DEF Init, Places
<1> QED BY <1>1, <1>2, <1>4 DEF IInv

\* A coroutine that finds a place takes it.
LEMMA WakeTakes ==
    ASSUME IInv, NEW i \in Arrivals, Wake(i), ~Locked
    PROVE  IInv'
<1> USE DEF IInv
<1>0. free > 0 /\ waiters = <<>>
  BY DEF Locked, Typed
<1>1. /\ stage[i] = "sleeping" /\ stage' = [stage EXCEPT ![i] = "running"]
      /\ dispatch' = [dispatch EXCEPT ![i] = clock] /\ free' = free - 1
      /\ UNCHANGED <<clock, offsets, waiters, done, cancelled>>
  BY DEF Wake, Goto
<1>2. Arrivals' = Arrivals
  BY <1>1 DEF Arrivals
<1>3. Typed'
  BY <1>0, <1>1, <1>2 DEF Typed, Stages
<1>4. Timed'
  <2>1. clock # Never /\ ~cancelled /\ done[i] = Never
    BY <1>1, OpenLoopAssumption DEF Typed, Timed
  <2>2. stage'[i] = "running" /\ dispatch'[i] = clock /\ done' = done /\ ~cancelled'
    BY <1>1, <2>1 DEF Typed
  <2>3. \A j \in Arrivals \ {i} : stage'[j] = stage[j] /\ dispatch'[j] = dispatch[j]
    BY <1>1 DEF Typed
  <2> QED BY <1>2, <2>1, <2>2, <2>3 DEF Timed
<1>5. Occupied' = Occupied \cup {i} /\ i \notin Occupied /\ IsFiniteSet(Occupied)
  <2>1. Occupied' = Occupied \cup {i} /\ i \notin Occupied
    BY <1>1, <1>2 DEF Occupied, Typed
  <2> QED BY <2>1, ArrivalsFinite DEF Occupied, Typed
<1>6. Cardinality(Occupied') = Cardinality(Occupied) + 1 /\ Cardinality(Occupied) \in Nat
  BY <1>5, FS_AddElement, FS_CardinalityType
<1>7. Places'
  BY <1>0, <1>1, <1>6, OpenLoopAssumption DEF Places, Typed
<1>8. Queued'
  BY <1>1, <1>2 DEF Queued, Typed
<1>10. Due'
  BY <1>1, <1>2 DEF Due, Typed
<1> QED BY <1>10, <1>3, <1>4, <1>7, <1>8

\* A coroutine that finds none joins the queue.
LEMMA WakeQueues ==
    ASSUME IInv, NEW i \in Arrivals, Wake(i), Locked
    PROVE  IInv'
<1> USE DEF IInv
<1>1. /\ stage[i] = "sleeping" /\ stage' = [stage EXCEPT ![i] = "waiting"]
      /\ waiters' = Append(waiters, i)
      /\ UNCHANGED <<clock, offsets, free, dispatch, done, cancelled>>
  BY DEF Wake, Goto
<1>2. Arrivals' = Arrivals
  BY <1>1 DEF Arrivals
<1>3. Typed'
  BY <1>1, <1>2, AppendLast DEF Typed, Stages
<1>4. Timed'
  BY <1>1, <1>2 DEF Timed, Typed
<1>5. Occupied' = Occupied
  BY <1>1, <1>2 DEF Occupied, Typed
<1>6. free = 0 \/ \E j \in Arrivals : stage[j] = "granted" /\ stage'[j] = "granted"
  BY <1>1 DEF Locked, Places, Typed
<1>7. Places'
  BY <1>1, <1>2, <1>5, <1>6 DEF Places
<1>8. Queued'
  <2>1. /\ Len(waiters') = Len(waiters) + 1 /\ Len(waiters) \in Nat
        /\ \A k \in 1..Len(waiters) : waiters'[k] = waiters[k] /\ waiters[k] # i
        /\ waiters'[Len(waiters) + 1] = i
    BY <1>1, AppendLast DEF Typed, Queued
  <2>2. \A k \in 1..Len(waiters) : waiters[k] \in Arrivals
    BY DEF Typed
  <2>3. \A k \in 1..Len(waiters') : stage'[waiters'[k]] = "waiting"
    BY <1>1, <2>1, <2>2 DEF Queued, Typed
  <2>4. \A a \in Arrivals : stage'[a] = "waiting" => \E k \in 1..Len(waiters') : waiters'[k] = a
    <3> TAKE a \in Arrivals
    <3>1. CASE a = i
      <4>1. Len(waiters) + 1 \in 1..Len(waiters')
        BY <2>1
      <4> QED BY <2>1, <3>1, <4>1
    <3>2. CASE a # i
      BY <1>1, <2>1, <3>2 DEF Queued, Typed
    <3> QED BY <3>1, <3>2
  <2>5. \A j, k \in 1..Len(waiters') : waiters'[j] = waiters'[k] => j = k
    BY <2>1 DEF Queued
  <2> QED BY <1>2, <2>3, <2>4, <2>5 DEF Queued
<1>10. Due'
  BY <1>1, <1>2 DEF Wake, Due, Typed
<1> QED BY <1>10, <1>3, <1>4, <1>7, <1>8

\* The first of the queue is handed a place by a coroutine that has one.
LEMMA HandsOn ==
    ASSUME IInv, NEW i \in Arrivals, stage[i] \in {"granted", "running"},
           NEW s \in {"running", "recorded"}, NEW places \in Nat, HandOver(i, s, places),
           places > 0, waiters # <<>>, offsets' = offsets
    PROVE  /\ Head(waiters) \in Arrivals \ {i} /\ stage[Head(waiters)] = "waiting"
           /\ stage'[i] = s /\ stage'[Head(waiters)] = "granted"
           /\ \A j \in Arrivals \ {i, Head(waiters)} : stage'[j] = stage[j]
           /\ stage' \in [Arrivals -> Stages] /\ waiters' \in Seq(Arrivals)
           /\ free' = places - 1
           /\ Queued'
<1> USE DEF IInv
<1> DEFINE first == Head(waiters)
<1>1. /\ stage' = [stage EXCEPT ![i] = s, ![first] = "granted"]
      /\ waiters' = Tail(waiters) /\ free' = places - 1
  BY DEF HandOver
<1>2. Arrivals' = Arrivals
  BY DEF Arrivals
<1>3. /\ first \in Arrivals /\ first = waiters[1] /\ Len(waiters) \in Nat /\ Len(waiters) > 0
      /\ waiters' \in Seq(Arrivals) /\ Len(waiters') = Len(waiters) - 1
      /\ \A k \in 1..(Len(waiters) - 1) : waiters'[k] = waiters[k + 1]
  BY <1>1, HeadTail DEF Typed
<1>4. stage[first] = "waiting" /\ first # i
  BY <1>3 DEF Queued
<1>5. /\ stage'[i] = s /\ stage'[first] = "granted"
      /\ \A j \in Arrivals \ {i, first} : stage'[j] = stage[j]
  BY <1>1, <1>3, <1>4 DEF Typed
<1>6. stage' \in [Arrivals -> Stages]
  BY <1>1, <1>3 DEF Typed, Stages
<1>7. Queued'
  <2>1. \A k \in 1..Len(waiters') : k + 1 \in 1..Len(waiters) /\ waiters'[k] = waiters[k + 1]
                                   /\ waiters'[k] \in Arrivals
    BY <1>3
  <2>2. \A k \in 1..Len(waiters') : waiters'[k] # first /\ waiters'[k] # i
    BY <1>3, <2>1 DEF Queued
  <2>3. \A k \in 1..Len(waiters') : stage'[waiters'[k]] = "waiting"
    BY <1>5, <2>1, <2>2 DEF Queued
  <2>4. \A a \in Arrivals : stage'[a] = "waiting" => \E k \in 1..Len(waiters') : waiters'[k] = a
    <3> SUFFICES ASSUME NEW a \in Arrivals, stage'[a] = "waiting"
                 PROVE  \E k \in 1..Len(waiters') : waiters'[k] = a
      OBVIOUS
    <3>1. a # i /\ a # first /\ stage[a] = "waiting"
      BY <1>5
    <3>2. PICK k \in 1..Len(waiters) : waiters[k] = a
      BY <3>1 DEF Queued
    <3>3. k - 1 \in 1..Len(waiters') /\ (k - 1) + 1 = k
      BY <1>3, <3>1, <3>2
    <3> QED BY <2>1, <3>2, <3>3
  <2>5. \A j, k \in 1..Len(waiters') : waiters'[j] = waiters'[k] => j = k
    BY <2>1 DEF Queued
  <2> QED BY <1>2, <2>3, <2>4, <2>5 DEF Queued
<1> QED BY <1>1, <1>3, <1>4, <1>5, <1>6, <1>7

\* A coroutine that was handed a place uses it.
LEMMA DispatchInv ==
    ASSUME IInv, NEW i \in Arrivals, Dispatch(i)
    PROVE  IInv'
<1> USE DEF IInv
<1>0. /\ stage[i] = "granted" /\ HandOver(i, "running", free)
      /\ dispatch' = [dispatch EXCEPT ![i] = clock]
      /\ UNCHANGED <<clock, offsets, done, cancelled>>
  BY DEF Dispatch
<1>2. Arrivals' = Arrivals
  BY <1>0 DEF Arrivals
<1>t. clock # Never /\ ~cancelled /\ done[i] = Never
  BY <1>0, OpenLoopAssumption DEF Typed, Timed
<1>d. dispatch' \in [Arrivals -> Nat \cup {Never}] /\ dispatch'[i] = clock
      /\ \A j \in Arrivals \ {i} : dispatch'[j] = dispatch[j]
  BY <1>0 DEF Typed
<1>3. CASE ~(free > 0 /\ waiters # <<>>)
  <2>1. stage' = [stage EXCEPT ![i] = "running"] /\ UNCHANGED <<free, waiters>>
    BY <1>0, <1>3 DEF HandOver, Goto
  <2>2. stage'[i] = "running" /\ \A j \in Arrivals \ {i} : stage'[j] = stage[j]
    BY <2>1 DEF Typed
  <2>3. Typed'
    BY <1>0, <1>2, <1>d, <2>1 DEF Typed, Stages
  <2>4. Timed'
    BY <1>0, <1>2, <1>t, <1>d, <2>2 DEF Timed
  <2>5. Occupied' = Occupied
    BY <1>0, <1>2, <2>1 DEF Occupied, Typed
  <2>6. Places' /\ Queued'
    BY <1>0, <1>2, <1>3, <2>1, <2>5 DEF Places, Queued, Typed
  <2>7. Due'
    BY <1>0, <1>2, <2>1 DEF Due, Typed
  <2> QED BY <2>3, <2>4, <2>6, <2>7
<1>4. CASE free > 0 /\ waiters # <<>>
  <2> DEFINE first == Head(waiters)
  <2>1. /\ first \in Arrivals \ {i} /\ stage[first] = "waiting"
        /\ stage'[i] = "running" /\ stage'[first] = "granted"
        /\ \A j \in Arrivals \ {i, first} : stage'[j] = stage[j]
        /\ stage' \in [Arrivals -> Stages] /\ waiters' \in Seq(Arrivals)
        /\ free' = free - 1 /\ Queued'
    BY <1>0, <1>4, HandsOn DEF Typed
  <2> HIDE DEF first
  <2>2. Typed'
    BY <1>0, <1>2, <1>4, <1>d, <2>1 DEF Typed
  <2>3. Timed'
    <3>1. dispatch[first] = Never /\ done[first] = Never
      BY <2>1 DEF Timed
    <3> QED BY <1>0, <1>2, <1>t, <1>d, <2>1, <3>1 DEF Timed
  <2>4. Places'
    <3>1. Occupied' = Occupied \cup {first} /\ first \notin Occupied
      BY <1>0, <1>2, <2>1 DEF Occupied
    <3>2. IsFiniteSet(Occupied)
      BY ArrivalsFinite DEF Occupied, Typed
    <3>3. /\ Cardinality(Occupied) \in Nat
          /\ Cardinality(Occupied \cup {first}) = Cardinality(Occupied) + 1
      <4> HIDE DEF IInv
      <4>1. Cardinality(Occupied) \in Nat
        BY <3>2, FS_CardinalityType
      <4> QED BY <3>1, <3>2, <4>1, FS_AddElement
    <3>4. Cardinality(Occupied') = Cardinality(Occupied) + 1
      BY <3>1, <3>3
    <3>5. free + Cardinality(Occupied) = InFlightLimit /\ free \in Nat
      BY DEF Places, Typed
    <3>6. free' + Cardinality(Occupied') = InFlightLimit
      <4> HIDE DEF IInv
      <4> QED BY <2>1, <3>3, <3>4, <3>5
    <3>7. \E j \in Arrivals' : stage'[j] = "granted"
      BY <1>2, <2>1
    <3> QED BY <3>6, <3>7 DEF Places
  <2>5. Due'
    BY <1>0, <1>2, <2>1 DEF Due
  <2> QED BY <2>1, <2>2, <2>3, <2>4, <2>5
<1> QED BY <1>3, <1>4

\* A place that is given back is free again, or passes to the first of the queue.
LEMMA FinishInv ==
    ASSUME IInv, NEW i \in Arrivals, Finish(i)
    PROVE  IInv'
<1> USE DEF IInv
<1>0. /\ stage[i] = "running" /\ HandOver(i, "recorded", free + 1)
      /\ done' = [done EXCEPT ![i] = clock]
      /\ UNCHANGED <<clock, offsets, dispatch, cancelled>>
  BY DEF Finish
<1>1. free \in Nat /\ free + 1 \in Nat /\ free + 1 > 0
  BY DEF Typed
<1>2. Arrivals' = Arrivals
  BY <1>0 DEF Arrivals
<1>t. clock # Never /\ ~cancelled
  BY <1>0, OpenLoopAssumption DEF Typed, Timed
<1>d. done' \in [Arrivals -> Nat \cup {Never}] /\ done'[i] = clock
      /\ \A j \in Arrivals \ {i} : done'[j] = done[j]
  BY <1>0 DEF Typed
<1>f. i \in Occupied /\ IsFiniteSet(Occupied)
  BY <1>0, ArrivalsFinite DEF Occupied, Typed
<1>c. /\ IsFiniteSet(Occupied \ {i}) /\ Cardinality(Occupied) \in Nat
      /\ Cardinality(Occupied \ {i}) = Cardinality(Occupied) - 1
  BY <1>f, FS_RemoveElement, FS_CardinalityType
<1>3. CASE waiters = <<>>
  <2>1. stage' = [stage EXCEPT ![i] = "recorded"] /\ free' = free + 1 /\ waiters' = waiters
    BY <1>0, <1>3 DEF HandOver, Goto
  <2>2. stage'[i] = "recorded" /\ \A j \in Arrivals \ {i} : stage'[j] = stage[j]
    BY <2>1 DEF Typed
  <2>3. Typed'
    BY <1>0, <1>1, <1>2, <1>d, <2>1 DEF Typed, Stages
  <2>4. Timed'
    BY <1>0, <1>2, <1>t, <1>d, <2>2 DEF Timed
  <2>5. Occupied' = Occupied \ {i}
    BY <1>0, <1>2, <2>1 DEF Occupied, Typed
  <2>6. Places'
    BY <1>1, <1>3, <1>c, <2>1, <2>5, OpenLoopAssumption DEF Places
  <2>7. Queued' /\ Due'
    BY <1>0, <1>2, <2>1 DEF Queued, Due, Typed
  <2> QED BY <2>3, <2>4, <2>6, <2>7
<1>4. CASE waiters # <<>>
  <2> DEFINE first == Head(waiters)
  <2>1. /\ first \in Arrivals \ {i} /\ stage[first] = "waiting"
        /\ stage'[i] = "recorded" /\ stage'[first] = "granted"
        /\ \A j \in Arrivals \ {i, first} : stage'[j] = stage[j]
        /\ stage' \in [Arrivals -> Stages] /\ waiters' \in Seq(Arrivals)
        /\ free' = (free + 1) - 1 /\ Queued'
    BY <1>0, <1>1, <1>4, HandsOn
  <2> HIDE DEF first
  <2>0. free' = free
    BY <1>1, <2>1
  <2>2. Typed'
    BY <1>0, <1>2, <1>d, <2>0, <2>1 DEF Typed
  <2>3. Timed'
    <3>1. dispatch[first] = Never /\ done[first] = Never
      BY <2>1 DEF Timed
    <3> QED BY <1>0, <1>2, <1>t, <1>d, <2>1, <3>1 DEF Timed
  <2>4. Places'
    <3>1. Occupied' = (Occupied \ {i}) \cup {first} /\ first \notin Occupied \ {i}
      BY <1>0, <1>2, <2>1 DEF Occupied
    <3>2. Cardinality(Occupied') = Cardinality(Occupied)
      <4>1. Cardinality((Occupied \ {i}) \cup {first}) = Cardinality(Occupied \ {i}) + 1
        BY <1>c, <3>1, FS_AddElement
      <4> QED BY <1>c, <3>1, <4>1
    <3> QED BY <1>2, <2>0, <2>1, <3>2 DEF Places
  <2>5. Due'
    BY <1>0, <1>2, <2>1 DEF Due
  <2> QED BY <2>1, <2>2, <2>3, <2>4, <2>5
<1> QED BY <1>3, <1>4

\* A cancelled driver has no coroutine left.
LEMMA CancelInv ==
    ASSUME IInv, Cancel
    PROVE  IInv'
<1> USE DEF IInv
<1>1. /\ stage' = [i \in Arrivals |-> IF stage[i] = "recorded" THEN stage[i] ELSE "cancelled"]
      /\ waiters' = <<>> /\ free' = InFlightLimit
      /\ UNCHANGED <<clock, offsets, dispatch, done>> /\ cancelled' = TRUE
  BY DEF Cancel
<1>2. Arrivals' = Arrivals
  BY <1>1 DEF Arrivals
<1>3. Typed'
  BY <1>1, <1>2, OpenLoopAssumption DEF Typed, Stages
<1>4. Timed' /\ Queued'
  BY <1>1, <1>2 DEF Timed, Queued
<1>5. Occupied' = {}
  BY <1>1, <1>2 DEF Occupied
<1>6. Places'
  BY <1>1, <1>5, FS_EmptySet, OpenLoopAssumption DEF Places
<1>10. Due'
  BY <1>1, <1>2 DEF Due
<1> QED BY <1>10, <1>3, <1>4, <1>6

\* Every step keeps the invariant.
LEMMA NextInv ==
    ASSUME IInv, [Next]_vars
    PROVE  IInv'
<1>1. CASE Tick \/ UNCHANGED vars
  <2>1. UNCHANGED <<offsets, stage, free, waiters, dispatch, done, cancelled>> /\ clock' \in Nat
    BY <1>1 DEF Tick, vars, IInv, Typed
  <2>2. Arrivals' = Arrivals /\ Occupied' = Occupied
    BY <2>1 DEF Arrivals, Occupied
  <2>3. Due'
    BY <1>1, <2>1, <2>2, OffsetsTimes DEF Tick, vars, IInv, Due, Typed
  <2> QED BY <2>1, <2>2, <2>3 DEF IInv, Typed, Timed, Places, Queued
<1>2. CASE Cancel
  BY <1>2, CancelInv
<1>3. ASSUME NEW i \in Arrivals, Step(i) PROVE IInv'
  BY <1>3, WakeTakes, WakeQueues, DispatchInv, FinishInv DEF Step
<1> QED BY <1>1, <1>2, <1>3 DEF Next

\* Whatever the schedule, the limit and the operations: while an arrival waits,
\* every place is taken, or a coroutine that was handed its place is about to run
\* and hands the free one on (load/driver.py:18-28).
THEOREM NoPlaceIdles == Spec => []NoIdlePlace
<1>1. Init => IInv
  BY InitInv
<1>2. IInv /\ [Next]_vars => IInv'
  BY NextInv
<1>3. IInv => NoIdlePlace
  <2> SUFFICES ASSUME IInv PROVE NoIdlePlace
    OBVIOUS
  <2>1. waiters # <<>> => \/ Cardinality(Occupied) = InFlightLimit
                         \/ \E j \in Arrivals : stage[j] = "granted"
    <3>1. Cardinality(Occupied) \in Nat
      BY ArrivalsFinite DEF Occupied, IInv, Typed
    <3> QED BY <3>1, OpenLoopAssumption DEF IInv, Places
  <2>2. {i \in Arrivals : stage[i] = "waiting"} = {waiters[k] : k \in 1..Len(waiters)}
    <3>1. \A k \in 1..Len(waiters) : waiters[k] \in Arrivals
      BY DEF IInv, Typed
    <3> QED BY <3>1 DEF IInv, Queued
  <2>3. \A j, k \in 1..Len(waiters) : waiters[j] = waiters[k] => j = k
    BY DEF IInv, Queued
  <2> QED BY <2>1, <2>2, <2>3 DEF NoIdlePlace, Occupied
<1> QED BY <1>1, <1>2, <1>3, PTL DEF Spec

-----------------------------------------------------------------------------
(* The refinement.                                                         *)

\* The abstract schedule counts as this module does.
LEMMA SameCardinality ==
    ASSUME NEW S
    PROVE  Promise!Cardinality(S) = Cardinality(S)
BY DEF Promise!Cardinality, Cardinality

\* While a coroutine has a place and has not started, or a place is free, fewer
\* than the limit are in flight.
LEMMA InFlightFits ==
    ASSUME IInv, NEW i \in Arrivals,
           stage[i] = "granted" \/ (stage[i] = "sleeping" /\ free > 0)
    PROVE  Cardinality(Promise!InFlight) < InFlightLimit
<1> USE DEF IInv
<1> DEFINE F == Promise!InFlight
<1>1. F = {j \in Arrivals : dispatch[j] # Never /\ done[j] = Never}
  BY DEF Promise!InFlight, Arrivals
<1>2. F \subseteq Occupied /\ i \notin F
  <2>1. ~cancelled
    BY DEF Timed
  <2>2. \A j \in F : stage[j] = "running"
    BY <1>1, <2>1 DEF Timed, Typed, Stages
  <2> QED BY <1>1, <2>2 DEF Occupied
<1>3. /\ IsFiniteSet(Occupied) /\ Cardinality(Occupied) \in Nat
      /\ IsFiniteSet(F) /\ Cardinality(F) \in Nat /\ Cardinality(F) <= Cardinality(Occupied)
  BY <1>1, <1>2, ArrivalsFinite, FS_Subset DEF Typed, Occupied
<1>4. CASE stage[i] = "granted"
  <2>1. Cardinality(F) # Cardinality(Occupied)
    BY <1>2, <1>3, <1>4, FS_Subset DEF Occupied
  <2> QED BY <1>3, <2>1, OpenLoopAssumption DEF Places, Typed
<1>5. CASE free > 0
  BY <1>3, <1>5, OpenLoopAssumption DEF Places, Typed
<1> QED BY <1>4, <1>5

\* Every step of the driver is a step of the abstract schedule, or none of it.
LEMMA NextPromised ==
    ASSUME IInv, [Next]_vars
    PROVE  [Promise!Next]_(Promise!vars)
<1> USE DEF IInv
<1>1. CASE Tick
  <2>1. Promise!Tick
    BY <1>1 DEF Tick, Promise!Tick
  <2> QED BY <2>1 DEF Promise!Next
<1>2. CASE Cancel
  <2>1. Promise!Abandon
    BY <1>2 DEF Cancel, Promise!Abandon
  <2> QED BY <2>1 DEF Promise!Next
<1>3. CASE UNCHANGED vars
  BY <1>3 DEF vars, Promise!vars
<1>4. ASSUME NEW i \in Arrivals, Wake(i) PROVE [Promise!Next]_(Promise!vars)
  <2>1. CASE ~Locked
    <3>0. free > 0
      BY <2>1 DEF Locked, Typed
    <3>1. ~cancelled /\ dispatch[i] = Never
      BY <1>4 DEF Wake, Timed
    <3>2. Cardinality(Promise!InFlight) < InFlightLimit
      BY <1>4, <3>0, InFlightFits DEF Wake
    <3>3. offsets[i] <= clock
      BY <1>4, OffsetsTimes DEF Wake, Typed
    <3>4. Promise!Begin(i)
      BY <1>4, <2>1, <3>1, <3>2, <3>3, SameCardinality DEF Wake, Promise!Begin
    <3> QED BY <3>4 DEF Promise!Next, Arrivals
  <2>2. CASE Locked
    BY <1>4, <2>2 DEF Wake, Promise!vars
  <2> QED BY <2>1, <2>2
<1>5. ASSUME NEW i \in Arrivals, Dispatch(i) PROVE [Promise!Next]_(Promise!vars)
  <2>1. ~cancelled /\ dispatch[i] = Never /\ offsets[i] <= clock
    BY <1>5 DEF Dispatch, Timed, Due
  <2>2. Cardinality(Promise!InFlight) < InFlightLimit
    BY <1>5, InFlightFits DEF Dispatch
  <2>3. Promise!Begin(i)
    BY <1>5, <2>1, <2>2, SameCardinality DEF Dispatch, Promise!Begin
  <2> QED BY <2>3 DEF Promise!Next, Arrivals
<1>6. ASSUME NEW i \in Arrivals, Finish(i) PROVE [Promise!Next]_(Promise!vars)
  <2>1. ~cancelled /\ dispatch[i] # Never /\ done[i] = Never
    BY <1>6 DEF Finish, Timed
  <2>2. Promise!End(i)
    BY <1>6, <2>1 DEF Finish, Promise!End, Promise!InFlight, Arrivals
  <2> QED BY <2>2 DEF Promise!Next, Arrivals
<1> QED BY <1>1, <1>2, <1>3, <1>4, <1>5, <1>6 DEF Next, Step

\* run_open_loop implements the abstract open-loop schedule: the schedule never
\* moves, nothing starts before it is due, at most in_flight_limit are in
\* flight, and nothing starts once the caller gave up (load/driver.py:14-29).
THEOREM DriverKeepsSchedule == Spec => KeepsSchedule
<1>1. Init => IInv /\ Promise!Init
  <2>1. Init => Promise!Init
    BY DEF Init, Promise!Init, Schedules, Arrivals
  <2> QED BY <2>1, InitInv
<1>2. IInv /\ [Next]_vars => IInv'
  BY NextInv
<1>3. IInv /\ [Next]_vars => [Promise!Next]_(Promise!vars)
  BY NextPromised
<1> QED BY <1>1, <1>2, <1>3, PTL DEF Spec, KeepsSchedule, Promise!Spec

=============================================================================
