-------------------------- MODULE SettlementProofs --------------------------
(***************************************************************************)
(* Settlement for any timeout, poll interval, delays and number of waits:  *)
(* type correctness (a wait is over by a time known beforehand), that a    *)
(* timeout was polled in full, that the recorded bounds of the lag are off *)
(* by no more than one request, and that a benchmark read meets no canary  *)
(* but those whose cleanup is on record as failed.                         *)
(***************************************************************************)
EXTENDS Settlement, TLAPS

Polling  == {"poll", "reading", "observing", "sleeping"}
Planting == {"writing", "acking"}

\* The latest a canary is acknowledged, and a poll begins.
AckedBy == MaxStart + 2 * MaxDelay
PollBy  == AckedBy + Timeout + PollInterval

-----------------------------------------------------------------------------
(* The inductive invariant.                                                *)

\* The canary that is polled or cleaned up has a record; the one that is being
\* planted, and those to come, have none.
Placed ==
    /\ pc \in Polling \cup {"cleaning"} => current # 0
    /\ pc \in Planting => planted # 0
    /\ current # 0 => canary[current].acked # Unset
    /\ \A c \in Canaries : (c > planted \/ (pc \in Planting /\ c = planted)) =>
          canary[c] = NewRecord /\ c # current
    /\ \A c \in Canaries : (c > planted \/ (pc = "writing" /\ c = planted)) =>
          c \notin store /\ visibleAt[c] = Unset

\* Every stage is left in time, the polls of a wait by its deadline.
InTime ==
    /\ since <= now /\ waitStart <= now
    /\ waitStart <= MaxStart
    /\ deadline <= AckedBy + Timeout
    /\ \A c \in Canaries : canary[c].acked # Unset => canary[c].acked <= now /\ canary[c].acked <= AckedBy
    /\ now <= PollBy + MaxDelay
    /\ pc = "writing" => since <= MaxStart /\ now <= since + MaxDelay
    /\ pc = "acking" => since <= MaxStart + MaxDelay /\ now <= since + MaxDelay
    /\ pc = "poll" => now <= PollBy
    /\ pc \in {"reading", "observing"} => since <= PollBy /\ now <= since + MaxDelay
    /\ pc = "sleeping" => since < deadline /\ now <= since + PollInterval

Typed == TypeOK /\ Placed /\ InTime

\* A wait counts its time from the acknowledgement of its canary, and ends
\* without having settled only behind the deadline.
DeadlineKept ==
    /\ pc \in Polling \cup {"cleaning"} => deadline = canary[current].acked + Timeout
    /\ pc = "cleaning" /\ ~canary[current].settled => now >= deadline
    /\ FreshTimeoutsPolledInFull

\* What is retrievable became so once and by now; the canary that is polled has
\* not settled; a poll that found it found it retrievable, one that did not was
\* sent before it became so, as the answer to the canary write is still under
\* way when the canary becomes retrievable first.
Censored ==
    /\ \A c \in visible : visibleAt[c] <= now
    /\ \A c \in store \ visible : visibleAt[c] = Unset
    /\ pc \in Polling => ~canary[current].settled
    /\ pc = "observing" /\ seen => current \in visible
    /\ pc = "observing" /\ ~seen /\ current \in visible => since <= visibleAt[current]
    /\ pc = "acking" /\ planted \in visible => since <= visibleAt[planted]
    /\ \A c \in visible : canary[c].failed # Unset => canary[c].failed <= visibleAt[c] + MaxDelay
    /\ \A c \in visible : canary[c].acked # Unset => canary[c].acked <= visibleAt[c] + MaxDelay
    /\ \A c \in Canaries : canary[c].failed # Unset =>
          canary[c].acked # Unset /\ canary[c].acked <= canary[c].failed /\ canary[c].failed <= now
    /\ \A c \in Canaries : canary[c].settled => canary[c].first <= now
    /\ LagWithinOneRequest

\* While an instance is under way nothing has been read, and what the store
\* holds is the canary that is dealt with or has its failed cleanup on record.
Recorded(c) == canary[c].cleanup \in {"failed", "skipped"}
CleanOrRecorded ==
    /\ pc # "idle" => ready
    /\ ready => lastRead = {}
    /\ CleanupRaises /\ ready => \A c \in store :
          \/ Recorded(c)
          \/ pc = "acking" /\ c = planted
          \/ pc \in Polling \cup {"cleaning"} /\ c = current
    /\ ReadSeesOnlyRecorded

-----------------------------------------------------------------------------
(* Type correctness.                                                       *)

LEMMA Constants ==
    /\ Timeout \in Nat /\ PollInterval \in Nat /\ MaxDelay \in Nat /\ MaxStart \in Nat
    /\ MaxCanaries \in Nat /\ MaxWaits \in Nat
    /\ CleanupEnabled \in BOOLEAN /\ CleanupRaises \in BOOLEAN
    /\ Latest \in Nat /\ Unset \in Nat /\ Unset = Latest + 1 /\ AckedBy \in Nat /\ PollBy \in Nat
    /\ AckedBy = MaxStart + 2 * MaxDelay /\ PollBy = AckedBy + Timeout + PollInterval
    /\ PollBy + MaxDelay <= Latest
BY SettlementAssumption DEF Latest, Unset, AckedBy, PollBy

LEMMA NewRecordType ==
    /\ NewRecord \in Record
    /\ NewRecord.acked = Unset /\ NewRecord.settled = FALSE /\ NewRecord.cleanup = "none"
    /\ NewRecord.failed = Unset /\ NewRecord.first = Unset
BY Constants DEF NewRecord, Record

LEMMA InitTyped == Init => Typed
<1> SUFFICES ASSUME Init PROVE Typed
  OBVIOUS
<1> USE Constants DEF Init
<1>1. TypeOK
  <2>1. canary \in [Canaries -> Record]
    BY NewRecordType
  <2>2. visibleAt \in [Canaries -> Time \cup {Unset}]
    OBVIOUS
  <2>3. /\ now \in Time /\ since \in Time /\ waitStart \in Time /\ deadline \in 0..(Latest + Timeout)
        /\ waits \in 0..MaxWaits /\ planted \in 0..MaxCanaries /\ current \in 0..planted
    BY DEF Time
  <2>4. pc \in PCs
    BY DEF PCs
  <2>5. ready \in BOOLEAN /\ seen \in BOOLEAN /\ visible \subseteq store /\ store \subseteq Canaries
        /\ lastRead \subseteq Canaries /\ timeouts = {}
    OBVIOUS
  <2> QED BY <2>1, <2>2, <2>3, <2>4, <2>5 DEF TypeOK
<1>2. Placed
  BY DEF Placed, Canaries, Polling, Planting
<1>3. InTime
  BY NewRecordType DEF InTime
<1> QED BY <1>1, <1>2, <1>3 DEF Typed

\* The times of a well-typed state.
LEMMA Times ==
    ASSUME Typed
    PROVE  /\ now \in Nat /\ since \in Nat /\ waitStart \in Nat /\ deadline \in Nat
           /\ now \in Time /\ now <= Latest /\ now # Unset
           /\ current \in Nat /\ planted \in Nat /\ planted <= MaxCanaries
           /\ current # 0 => current \in Canaries
           /\ planted # 0 => planted \in Canaries
           /\ \A c \in Canaries : canary[c] \in Record /\ c \in Nat /\ c # 0
BY Constants DEF Typed, TypeOK, Time, Canaries, InTime

\* The fields of a record.
LEMMA Fields ==
    ASSUME NEW r \in Record
    PROVE  /\ r.acked \in Nat /\ r.failed \in Nat /\ r.first \in Nat
           /\ r.settled \in BOOLEAN
BY Constants DEF Record, Time

LEMMA TickTyped ==
    ASSUME Typed, Tick
    PROVE  Typed'
<1> USE Constants, Times DEF Tick, wait, record, memory, ghosts
<1>1. now' = now + 1 /\ now < Patience /\ pc # "poll" /\ pc # "cleaning"
  BY DEF Patience, Typed, TypeOK, PCs
<1>2. now + 1 <= Patience
  <2>1. Patience \in Nat
    BY DEF Patience
  <2> QED BY <1>1, <2>1
<1>3. InTime'
  <2>1. \A c \in Canaries : canary[c].acked \in Nat
    BY Fields
  <2> QED BY <1>1, <1>2, <2>1 DEF Typed, InTime, Patience
<1>4. TypeOK'
  <2>1. now' \in Time
    BY <1>1, <1>3 DEF InTime, Time
  <2> QED BY <2>1 DEF Typed, TypeOK
<1>5. Placed'
  BY DEF Typed, Placed
<1> QED BY <1>3, <1>4, <1>5 DEF Typed

LEMMA VisibleTyped ==
    ASSUME Typed, NEW c \in Canaries, BecomeVisible(c)
    PROVE  Typed'
<1> USE Constants, Times DEF BecomeVisible, Indexable, wait, record, ghosts
<1>1. InTime'
  BY DEF Typed, InTime
<1>2. TypeOK'
  BY DEF Typed, TypeOK
<1>3. Placed'
  BY DEF Typed, TypeOK, Placed
<1> QED BY <1>1, <1>2, <1>3 DEF Typed

\* Between waits.
LEMMA IdleTyped ==
    ASSUME Typed, Reset \/ ResetRaises \/ ResetAll \/ BenchmarkRead
    PROVE  Typed'
<1> USE Constants, Times DEF Reset, ResetRaises, ResetAll, BenchmarkRead, wait, record, memory, ghosts
<1>1. InTime'
  BY DEF Typed, InTime
<1>2. TypeOK'
  <2>1. UNCHANGED <<now, pc, since, waitStart, deadline, planted, canary, seen, visibleAt, timeouts>>
    OBVIOUS
  <2>3. ready' \in BOOLEAN
    BY DEF Typed, TypeOK
  <2>4. waits' \in 0..MaxWaits
    <3>1. waits' = waits \/ waits' = 0
      OBVIOUS
    <3> QED BY <3>1 DEF Typed, TypeOK
  <2>5. current' \in 0..planted
    <3>1. current' = current \/ current' = 0
      OBVIOUS
    <3> QED BY <3>1 DEF Typed, TypeOK
  <2>2. visible' \subseteq store' /\ store' \subseteq store /\ lastRead' \subseteq lastRead \cup visible
    BY DEF Typed, TypeOK
  <2> QED BY <2>1, <2>2, <2>3, <2>4, <2>5 DEF Typed, TypeOK
<1>3. Placed'
  BY DEF Typed, Placed, Polling, Planting
<1> QED BY <1>1, <1>2, <1>3 DEF Typed

LEMMA StartTyped ==
    ASSUME Typed, StartWait
    PROVE  Typed'
<1> USE Constants, Times DEF StartWait, Goto, memory, ghosts
<1>1. CASE Pending
  <2>1. current \in Canaries /\ canary[current].acked # Unset /\ canary[current].acked \in Nat
    BY <1>1, Fields DEF Pending, Typed, Placed
  <2>2. pc' = "poll" /\ since' = now /\ planted' = planted /\ waits' = waits + 1 /\ waitStart' = now
        /\ deadline' = canary[current].acked + Timeout /\ now <= MaxStart /\ waits < MaxWaits
    BY <1>1
  <2>3. canary[current].acked <= AckedBy
    BY <2>1 DEF Typed, InTime
  <2>4. TypeOK'
    BY <2>1, <2>2, <2>3 DEF Typed, TypeOK, Time, PCs
  <2>5. InTime'
    BY <2>1, <2>2, <2>3 DEF Typed, InTime
  <2>6. Placed'
    BY <2>1, <2>2 DEF Typed, Placed, Polling, Planting
  <2> QED BY <2>4, <2>5, <2>6 DEF Typed
<1>2. CASE ~Pending
  <2>1. pc' = "writing" /\ since' = now /\ planted' = planted + 1 /\ waits' = waits + 1 /\ waitStart' = now
        /\ deadline' = deadline /\ now <= MaxStart /\ waits < MaxWaits /\ planted < MaxCanaries
    BY <1>2
  <2>2. TypeOK'
    BY <2>1 DEF Typed, TypeOK, Time, PCs
  <2>3. InTime'
    BY <2>1 DEF Typed, InTime
  <2>4. Placed'
    BY <2>1 DEF Typed, TypeOK, Placed, Polling, Planting
  <2> QED BY <2>2, <2>3, <2>4 DEF Typed
<1> QED BY <1>1, <1>2

LEMMA PlantTyped ==
    ASSUME Typed, CanaryStored \/ CanaryAcked \/ CanaryRaises
    PROVE  Typed'
<1> USE Constants, Times DEF Goto, Raise, wait, record, memory, ghosts
<1>1. CASE CanaryStored
  <2> USE <1>1 DEF CanaryStored
  <2>1. planted \in Canaries
    BY DEF Typed, Placed, Planting
  <2>2. TypeOK'
    BY <2>1 DEF Typed, TypeOK, Time, PCs
  <2>3. InTime'
    BY DEF Typed, InTime
  <2>4. Placed'
    BY <2>1 DEF Typed, Placed, Polling, Planting
  <2> QED BY <2>2, <2>3, <2>4 DEF Typed
<1>2. CASE CanaryAcked
  <2> USE <1>2 DEF CanaryAcked, DeadlineNow
  <2>1. planted \in Canaries
    BY DEF Typed, Placed, Planting
  <2>2. canary' = [canary EXCEPT ![planted] = [@ EXCEPT !.acked = now]]
    BY <2>1 DEF Typed, TypeOK
  <2>3. /\ canary' \in [Canaries -> Record]
        /\ canary'[planted].acked = now
        /\ \A c \in Canaries : c # planted => canary'[c] = canary[c]
    <3>1. [canary[planted] EXCEPT !.acked = now] \in Record /\ [canary[planted] EXCEPT !.acked = now].acked = now
      BY <2>1 DEF Record
    <3> QED BY <2>1, <2>2, <3>1 DEF Typed, TypeOK
  <2>4. now <= AckedBy
    BY DEF Typed, InTime
  <2>5. TypeOK'
    BY <2>1, <2>3, <2>4 DEF Typed, TypeOK, Time, PCs
  <2>6. InTime'
    BY <2>1, <2>3, <2>4 DEF Typed, InTime
  <2>7. Placed'
    BY <2>1, <2>3 DEF Typed, Placed, Polling, Planting
  <2> QED BY <2>5, <2>6, <2>7 DEF Typed
<1>3. CASE CanaryRaises
  <2> USE <1>3 DEF CanaryRaises
  <2>1. TypeOK'
    BY DEF Typed, TypeOK, Time, PCs
  <2>2. InTime'
    BY DEF Typed, InTime
  <2>3. Placed'
    BY DEF Typed, Placed, Polling, Planting
  <2> QED BY <2>1, <2>2, <2>3 DEF Typed
<1> QED BY <1>1, <1>2, <1>3

LEMMA PollTyped ==
    ASSUME Typed, Poll \/ StoreRead \/ PollRaises \/ Wake
    PROVE  Typed'
<1> USE Constants, Times DEF Poll, StoreRead, PollRaises, Wake, Goto, Raise, wait, record, memory, ghosts
<1>1. TypeOK'
  <2>1. pc' \in PCs /\ since' \in Time /\ ready' \in BOOLEAN
    BY DEF Typed, TypeOK, PCs
  <2>3. seen' \in BOOLEAN
    <3>1. ASSUME StoreRead PROVE seen' \in BOOLEAN
      <4>1. Retrieved \in BOOLEAN
        BY DEF Retrieved
      <4> QED BY <3>1, <4>1
    <3>2. ~StoreRead => seen' = seen
      OBVIOUS
    <3> QED BY <3>1, <3>2 DEF Typed, TypeOK
  <2>2. UNCHANGED <<now, waits, waitStart, deadline, current, planted, canary, store, visible, visibleAt,
                    lastRead, timeouts>>
    BY DEF ghosts
  <2> QED BY <2>1, <2>2, <2>3 DEF Typed, TypeOK
<1>2. InTime'
  BY DEF Typed, InTime
<1>3. Placed'
  BY DEF Typed, Placed, Polling, Planting
<1> QED BY <1>1, <1>2, <1>3 DEF Typed

\* What an observation puts on record.
LEMMA ObserveFacts ==
    ASSUME Typed, Observe
    PROVE  /\ current \in Canaries
           /\ canary' \in [Canaries -> Record]
           /\ \A c \in Canaries : c # current => canary'[c] = canary[c]
           /\ canary'[current].acked = canary[current].acked
           /\ canary'[current].cleanup = canary[current].cleanup
           /\ seen => /\ canary'[current].settled = TRUE /\ canary'[current].first = now
                      /\ canary'[current].failed = canary[current].failed
           /\ ~seen => /\ canary'[current].settled = canary[current].settled
                       /\ canary'[current].first = canary[current].first
                       /\ canary'[current].failed = now
<1>1. current \in Canaries /\ pc = "observing"
  BY Times DEF Observe, Typed, Placed, Polling
<1>2. canary' = [canary EXCEPT ![current] =
                   IF seen THEN [@ EXCEPT !.settled = TRUE, !.first = now]
                           ELSE [@ EXCEPT !.failed = now]]
  BY DEF Observe
<1>3. canary[current] \in Record /\ canary \in [Canaries -> Record] /\ now \in Time /\ since \in Time
  BY <1>1, Times DEF Typed, TypeOK
<1> DEFINE found == [canary[current] EXCEPT !.settled = TRUE, !.first = now]
           missed == [canary[current] EXCEPT !.failed = now]
<1>4. /\ found \in Record /\ found.settled = TRUE /\ found.first = now
      /\ found.acked = canary[current].acked /\ found.cleanup = canary[current].cleanup
      /\ found.failed = canary[current].failed
  BY <1>3 DEF Record
<1>5. /\ missed \in Record /\ missed.settled = canary[current].settled
      /\ missed.first = canary[current].first /\ missed.failed = now
      /\ missed.acked = canary[current].acked /\ missed.cleanup = canary[current].cleanup
  BY <1>3 DEF Record
<1>6. canary' = [canary EXCEPT ![current] = IF seen THEN found ELSE missed]
  BY <1>2
<1> HIDE DEF found, missed
<1> QED BY <1>1, <1>3, <1>4, <1>5, <1>6

LEMMA ObserveTyped ==
    ASSUME Typed, Observe
    PROVE  Typed'
<1> USE Constants, Times, ObserveFacts DEF Observe, Goto, AfterPoll, wait, memory, ghosts
<1>1. TypeOK'
  BY DEF Typed, TypeOK, Time, PCs
<1>2. InTime'
  <2>1. now <= PollBy + MaxDelay
    BY DEF Typed, InTime
  <2> QED BY <2>1 DEF Typed, InTime
<1>3. Placed'
  BY DEF Typed, Placed, Polling, Planting
<1> QED BY <1>1, <1>2, <1>3 DEF Typed

\* What a cleanup changes.
LEMMA CleanupFacts ==
    ASSUME Typed, Cleanup
    PROVE  /\ current \in Canaries
           /\ \E outcome \in CleanupOutcomes :
                 /\ canary'[current].cleanup = outcome.recorded
                 /\ store' = outcome.left /\ visible' = visible \cap outcome.left
                 /\ outcome.left \in {store, store \ {current}}
           /\ canary' \in [Canaries -> Record]
           /\ \A c \in Canaries : c # current => canary'[c] = canary[c]
           /\ \A c \in Canaries :
                 /\ canary'[c].acked = canary[c].acked /\ canary'[c].settled = canary[c].settled
                 /\ canary'[c].first = canary[c].first /\ canary'[c].failed = canary[c].failed
<1>1. current \in Canaries /\ canary[current] \in Record /\ canary \in [Canaries -> Record]
  BY Times DEF Cleanup, Typed, TypeOK, Placed
<1>2. PICK outcome \in CleanupOutcomes :
         /\ canary' = [canary EXCEPT ![current].cleanup = outcome.recorded]
         /\ store' = outcome.left /\ visible' = visible \cap outcome.left
  BY DEF Cleanup
<1>3. outcome.recorded \in {"deleted", "failed", "skipped"}
      /\ outcome.left \in {store, store \ {current}}
  BY DEF CleanupOutcomes, LoudCleanup, QuietCleanup
<1> DEFINE r == [canary[current] EXCEPT !.cleanup = outcome.recorded]
<1>4. r \in Record /\ r.cleanup = outcome.recorded /\ r.acked = canary[current].acked
      /\ r.settled = canary[current].settled /\ r.first = canary[current].first
      /\ r.failed = canary[current].failed
  BY <1>1, <1>3 DEF Record
<1>5. canary' = [canary EXCEPT ![current] = r]
  BY <1>2
<1> HIDE DEF r
<1>6. canary'[current] = r /\ canary' \in [Canaries -> Record]
      /\ \A c \in Canaries : c # current => canary'[c] = canary[c]
  BY <1>1, <1>4, <1>5
<1> QED BY <1>1, <1>2, <1>3, <1>4, <1>6

\* What a cleanup adds to the waits that timed out.
LEMMA TimeoutFacts ==
    ASSUME Typed, Cleanup
    PROVE  \A t \in timeouts' : t \in timeouts \/
              /\ ~canary[current].settled
              /\ t.fresh \in BOOLEAN /\ t.polledFor \in Nat /\ t.polledFor <= now
              /\ t.fresh => t.polledFor = now - canary[current].acked
<1>1. current \in Canaries
  BY Times DEF Cleanup, Typed, Placed
<1>2. canary[current].acked \in Nat /\ canary[current].acked <= now /\ waitStart <= now
      /\ waitStart \in Nat /\ now \in Nat
  BY <1>1, Times, Fields DEF Cleanup, Typed, Placed, InTime
<1> DEFINE fresh == canary[current].acked >= waitStart
           t == [fresh |-> fresh, polledFor |-> now - (IF fresh THEN canary[current].acked ELSE waitStart)]
<1>3. t.fresh \in BOOLEAN /\ t.polledFor \in Nat /\ t.polledFor <= now
      /\ (t.fresh => t.polledFor = now - canary[current].acked)
  <2>1. CASE canary[current].acked >= waitStart
    <3>1. t = [fresh |-> TRUE, polledFor |-> now - canary[current].acked]
      BY <2>1
    <3> QED BY <1>2, <3>1
  <2>2. CASE ~(canary[current].acked >= waitStart)
    <3>1. fresh = FALSE
      <4>1. fresh \in BOOLEAN
        OBVIOUS
      <4>2. ~fresh
        BY <2>2
      <4> HIDE DEF fresh
      <4> QED BY <4>1, <4>2
    <3>2. t = [fresh |-> FALSE, polledFor |-> now - waitStart]
      <4> HIDE DEF fresh
      <4> QED BY <3>1
    <3> QED BY <1>2, <3>2
  <2> QED BY <2>1, <2>2
<1>4. timeouts' = IF canary[current].settled THEN timeouts ELSE timeouts \cup {t}
  BY DEF Cleanup
<1> HIDE DEF t
<1> QED BY <1>3, <1>4

LEMMA CleanupTyped ==
    ASSUME Typed, Cleanup
    PROVE  Typed'
<1> USE Constants, Times, CleanupFacts DEF Goto, wait
<1>0. pc = "cleaning" /\ pc' = "idle" /\ since' = now
      /\ UNCHANGED <<now, ready, waits, waitStart, deadline, current, planted, seen, visibleAt, lastRead>>
  BY DEF Cleanup
<1>1. TypeOK'
  <2>1. \A t \in timeouts' : t.fresh \in BOOLEAN /\ t.polledFor \in Time
    BY TimeoutFacts DEF Typed, TypeOK, Time
  <2> QED BY <1>0, <2>1 DEF Typed, TypeOK, Time, PCs
<1>2. InTime'
  BY <1>0 DEF Typed, InTime
<1>3. Placed'
  BY <1>0 DEF Typed, Placed, Polling, Planting
<1> QED BY <1>1, <1>2, <1>3 DEF Typed

LEMMA NextTyped == Typed /\ [Next]_vars => Typed'
<1> SUFFICES ASSUME Typed, [Next]_vars PROVE Typed'
  OBVIOUS
<1>1. CASE UNCHANGED vars
  BY <1>1 DEF vars, wait, record, memory, ghosts, Typed, TypeOK, Placed, InTime
<1>2. CASE Task
  BY <1>2, PlantTyped, PollTyped, ObserveTyped, CleanupTyped DEF Task
<1> QED BY <1>1, <1>2, TickTyped, VisibleTyped, IdleTyped, StartTyped DEF Next

\* Every reachable state is well typed for all constants; in particular a wait
\* ends by a time that its start, the timeout, one poll interval and the
\* delays of three requests give (wait_settled of adapters/base.py).
THEOREM TypeCorrect == Spec => []TypeOK
<1>1. Typed => TypeOK
  BY DEF Typed
<1> QED BY <1>1, InitTyped, NextTyped, PTL DEF Spec

LEMMA AlwaysTyped == Spec => []Typed
BY InitTyped, NextTyped, PTL DEF Spec
-----------------------------------------------------------------------------
(* A timeout was polled in full.                                           *)

LEMMA InitDeadline == Init => DeadlineKept
BY DEF Init, DeadlineKept, Polling, FreshTimeoutsPolledInFull

LEMMA ObserveDeadline ==
    ASSUME Typed, DeadlineKept, Observe
    PROVE  DeadlineKept'
<1> USE ObserveFacts DEF Observe, Goto, AfterPoll, wait, memory, ghosts
<1>1. current' = current /\ deadline' = deadline /\ now' = now /\ timeouts' = timeouts
      /\ pc = "observing" /\ pc' = AfterPoll
  OBVIOUS
<1>2. deadline = canary[current].acked + Timeout
  BY <1>1 DEF DeadlineKept, Polling
<1>3. pc' = "cleaning" /\ ~canary'[current].settled => now >= deadline
  BY <1>1
<1> QED BY <1>1, <1>2, <1>3 DEF DeadlineKept, FreshTimeoutsPolledInFull

LEMMA CleanupDeadline ==
    ASSUME Typed, DeadlineKept, Cleanup
    PROVE  DeadlineKept'
<1>1. pc = "cleaning" /\ pc' = "idle"
  BY DEF Cleanup, Goto
<1>2. current \in Canaries /\ canary[current].acked \in Nat /\ now \in Nat
  BY CleanupFacts, Times, Fields
<1>3. ~canary[current].settled => now >= canary[current].acked + Timeout
  BY <1>1 DEF DeadlineKept
<1>4. ASSUME NEW t \in timeouts', t.fresh PROVE t.polledFor >= Timeout
  <2>1. CASE t \in timeouts
    BY <1>4, <2>1 DEF DeadlineKept, FreshTimeoutsPolledInFull
  <2>2. CASE t \notin timeouts
    BY <1>2, <1>3, <1>4, <2>2, TimeoutFacts, Constants
  <2> QED BY <2>1, <2>2
<1> QED BY <1>1, <1>4 DEF DeadlineKept, FreshTimeoutsPolledInFull, Polling

LEMMA NextDeadline == Typed /\ DeadlineKept /\ [Next]_vars => DeadlineKept'
<1> SUFFICES ASSUME Typed, DeadlineKept, [Next]_vars PROVE DeadlineKept'
  OBVIOUS
<1> USE DEF wait, record, memory, ghosts
<1>1. CASE UNCHANGED vars
  BY <1>1 DEF vars, DeadlineKept, FreshTimeoutsPolledInFull
<1>2. CASE Tick
  <2>1. now' = now + 1 /\ now \in Nat /\ deadline \in Nat
    BY <1>2, Times DEF Tick
  <2>2. UNCHANGED <<pc, deadline, current, canary, timeouts>>
    BY <1>2 DEF Tick
  <2>3. now >= deadline => now' >= deadline
    BY <2>1
  <2> QED BY <2>2, <2>3 DEF DeadlineKept, FreshTimeoutsPolledInFull
<1>3. CASE \E c \in Canaries : BecomeVisible(c)
  BY <1>3 DEF BecomeVisible, DeadlineKept, FreshTimeoutsPolledInFull
<1>4. CASE Reset \/ ResetRaises \/ ResetAll \/ BenchmarkRead
  BY <1>4 DEF Reset, ResetRaises, ResetAll, BenchmarkRead, DeadlineKept, Polling, FreshTimeoutsPolledInFull
<1>5. CASE StartWait
  BY <1>5 DEF StartWait, Goto, DeadlineKept, Polling, FreshTimeoutsPolledInFull
<1>6. CASE CanaryAcked
  <2>1. planted \in Canaries
    BY <1>6, Times DEF CanaryAcked, Typed, Placed, Planting
  <2>2. canary'[planted].acked = now
    BY <1>6, <2>1 DEF CanaryAcked, Typed, TypeOK, Record
  <2> QED BY <1>6, <2>2 DEF CanaryAcked, DeadlineNow, Goto, DeadlineKept, FreshTimeoutsPolledInFull
<1>7. CASE CanaryStored \/ CanaryRaises \/ Poll \/ StoreRead \/ PollRaises \/ Wake
  BY <1>7 DEF CanaryStored, CanaryRaises, Poll, StoreRead, PollRaises, Wake, Goto, Raise,
              DeadlineKept, Polling, FreshTimeoutsPolledInFull
<1> QED BY <1>1, <1>2, <1>3, <1>4, <1>5, <1>6, <1>7, ObserveDeadline, CleanupDeadline DEF Next, Task

\* A wait that planted its canary and reports a timeout polled for the whole
\* timeout from the acknowledgement of that canary (wait_settled of
\* adapters/base.py), for all delays of its requests.
THEOREM TimeoutsWaited == Spec => []FreshTimeoutsPolledInFull
<1>1. DeadlineKept => FreshTimeoutsPolledInFull
  BY DEF DeadlineKept
<1> QED BY <1>1, AlwaysTyped, InitDeadline, NextDeadline, PTL DEF Spec
-----------------------------------------------------------------------------
(* The interval of the settlement lag.                                     *)

LEMMA InitCensored == Init => Censored
<1> SUFFICES ASSUME Init PROVE Censored
  OBVIOUS
<1>1. \A c \in Canaries : canary[c].failed = Unset /\ canary[c].settled = FALSE
  BY NewRecordType DEF Init
<1> QED BY <1>1 DEF Init, Censored, Polling, LagWithinOneRequest, Lower, Upper

\* The times the interval is made of.
LEMMA IntervalTimes ==
    ASSUME Typed
    PROVE  \A c \in Canaries :
              /\ visibleAt[c] \in Nat /\ canary[c].acked \in Nat /\ canary[c].failed \in Nat
              /\ canary[c].first \in Nat /\ canary[c].settled \in BOOLEAN
              /\ canary[c].acked # Unset => canary[c].acked <= now
BY Times, Fields, Constants DEF Typed, TypeOK, InTime, Time

LEMMA TickCensored ==
    ASSUME Typed, Censored, Tick
    PROVE  Censored'
<1>1. now' = now + 1 /\ now \in Nat
  BY Times DEF Tick
<1>2. UNCHANGED <<pc, since, current, planted, canary, seen, store, visible, visibleAt>>
  BY DEF Tick, record, memory
<1>3. \A n \in Nat : n <= now => n <= now'
  BY <1>1
<1>4. visible \subseteq Canaries
  BY DEF Typed, TypeOK
<1>5. LagWithinOneRequest'
  BY <1>2 DEF Censored, LagWithinOneRequest, Lower, Upper
<1> QED BY <1>2, <1>3, <1>4, <1>5, IntervalTimes DEF Censored

LEMMA VisibleCensored ==
    ASSUME Typed, Censored, NEW c \in Canaries, BecomeVisible(c)
    PROVE  Censored'
<1>1. /\ c \in store \ visible /\ visible' = visible \cup {c} /\ store' = store
      /\ visibleAt' = [visibleAt EXCEPT ![c] = now] /\ visibleAt \in [Canaries -> Time \cup {Unset}]
      /\ UNCHANGED <<now, pc, since, current, planted, canary, seen>>
  BY DEF BecomeVisible, Indexable, record, Typed, TypeOK
<1>2. visibleAt'[c] = now /\ \A d \in Canaries : d # c => visibleAt'[d] = visibleAt[d]
  BY <1>1
<1>3. visibleAt[c] = Unset
  BY <1>1 DEF Censored
<1>4. ~canary[c].settled
  <2>1. SUFFICES ASSUME canary[c].settled PROVE FALSE
    OBVIOUS
  <2>2. Unset <= canary[c].first /\ canary[c].first <= now
    BY <1>3, <2>1 DEF Censored, LagWithinOneRequest, Lower, Upper
  <2>3. now < Unset
    BY Times, Constants
  <2> QED BY <2>2, <2>3, IntervalTimes, Times, Constants
<1>5. /\ now <= now /\ since <= now
      /\ canary[c].failed # Unset => canary[c].failed <= now + MaxDelay
      /\ canary[c].acked # Unset => canary[c].acked <= now + MaxDelay
  BY Times, Constants, IntervalTimes DEF Censored, Typed, InTime
<1>6. visible \subseteq Canaries /\ store \subseteq Canaries
  BY DEF Typed, TypeOK
<1>7. LagWithinOneRequest'
  BY <1>1, <1>2, <1>4 DEF Censored, LagWithinOneRequest, Lower, Upper
<1> QED BY <1>1, <1>2, <1>5, <1>6, <1>7 DEF Censored

LEMMA IdleCensored ==
    ASSUME Typed, Censored, Reset \/ ResetRaises \/ ResetAll \/ BenchmarkRead
    PROVE  Censored'
<1>1. /\ pc = "idle" /\ UNCHANGED <<now, pc, since, canary, seen, visibleAt>>
      /\ visible' \subseteq visible /\ store' \ visible' \subseteq store \ visible
  BY DEF Reset, ResetRaises, ResetAll, BenchmarkRead, record, memory
<1> QED BY <1>1 DEF Censored, Polling, LagWithinOneRequest, Lower, Upper

LEMMA StartCensored ==
    ASSUME Typed, Censored, StartWait
    PROVE  Censored'
<1>1. /\ UNCHANGED <<now, current, canary, store, visible, visibleAt>>
      /\ pc' = "writing" \/ (pc' = "poll" /\ ~canary[current].settled)
  BY DEF StartWait, Goto, Pending, memory
<1> QED BY <1>1 DEF Censored, Polling, LagWithinOneRequest, Lower, Upper

LEMMA StoredCensored ==
    ASSUME Typed, Censored, CanaryStored
    PROVE  Censored'
<1>1. /\ pc' = "acking" /\ store' = store \cup {planted}
      /\ UNCHANGED <<now, current, canary, visible, visibleAt>>
  BY DEF CanaryStored, Goto, record
<1>2. visibleAt[planted] = Unset /\ planted' = planted /\ planted \notin visible
  BY Times DEF CanaryStored, Typed, TypeOK, Placed, Planting, record
<1> QED BY <1>1, <1>2 DEF Censored, Polling, LagWithinOneRequest, Lower, Upper

\* What an acknowledgement puts on record.
LEMMA AckedFacts ==
    ASSUME Typed, CanaryAcked
    PROVE  /\ planted \in Canaries /\ current' = planted
           /\ canary'[planted].acked = now
           /\ canary[planted] = NewRecord
           /\ \A c \in Canaries :
                 /\ c # planted => canary'[c] = canary[c]
                 /\ canary'[c].settled = canary[c].settled /\ canary'[c].first = canary[c].first
                 /\ canary'[c].failed = canary[c].failed
                 /\ canary'[c].cleanup = canary[c].cleanup
<1>1. planted \in Canaries /\ canary[planted] \in Record /\ canary \in [Canaries -> Record]
      /\ canary[planted] = NewRecord
  BY Times DEF CanaryAcked, Typed, TypeOK, Placed, Planting
<1> DEFINE r == [canary[planted] EXCEPT !.acked = now]
<1>2. r.acked = now /\ r.settled = canary[planted].settled /\ r.first = canary[planted].first
      /\ r.failed = canary[planted].failed /\ r.cleanup = canary[planted].cleanup
  BY <1>1 DEF Record
<1>3. canary' = [canary EXCEPT ![planted] = r] /\ current' = planted
  BY DEF CanaryAcked
<1> HIDE DEF r
<1> QED BY <1>1, <1>2, <1>3

LEMMA AckedCensored ==
    ASSUME Typed, Censored, CanaryAcked
    PROVE  Censored'
<1>1. pc' = "poll" /\ UNCHANGED <<now, store, visible, visibleAt>>
  BY DEF CanaryAcked, Goto, memory
<1>2. canary[planted].settled = FALSE /\ canary[planted].failed = Unset
  BY AckedFacts, NewRecordType
<1>3. visible \subseteq Canaries
  BY DEF Typed, TypeOK
<1>4. planted \in visible => now <= visibleAt[planted] + MaxDelay
  BY AckedFacts, IntervalTimes, Times, Constants DEF CanaryAcked, Censored, Typed, InTime
<1>5. LagWithinOneRequest'
  BY <1>1, <1>2, AckedFacts DEF Censored, LagWithinOneRequest, Lower, Upper
<1> QED BY <1>1, <1>2, <1>3, <1>4, <1>5, AckedFacts DEF Censored, Polling

LEMMA PollCensored ==
    ASSUME Typed, Censored, Poll \/ StoreRead \/ PollRaises \/ Wake \/ CanaryRaises
    PROVE  Censored'
<1>1. UNCHANGED <<now, current, canary, store, visible, visibleAt>>
  BY DEF Poll, StoreRead, PollRaises, Wake, CanaryRaises, record, memory
<1>2. CASE StoreRead
  <2>1. pc = "reading" /\ pc' = "observing" /\ (seen' <=> current \in visible)
    BY <1>2 DEF StoreRead, Retrieved
  <2> QED BY <1>1, <2>1 DEF Censored, Polling, LagWithinOneRequest, Lower, Upper
<1>3. CASE ~StoreRead
  <2>1. pc' \in {"idle", "reading", "poll"} /\ (pc' # "idle" => pc \in Polling)
    BY <1>3 DEF Poll, PollRaises, Wake, CanaryRaises, Goto, Raise, Polling
  <2> QED BY <1>1, <2>1 DEF Censored, Polling, LagWithinOneRequest, Lower, Upper
<1> QED BY <1>2, <1>3

LEMMA ObserveCensored ==
    ASSUME Typed, Censored, Observe
    PROVE  Censored'
<1>1. /\ pc = "observing" /\ pc' \in {"cleaning", "sleeping"} /\ (pc' = "sleeping" => ~seen)
      /\ UNCHANGED <<now, current, store, visible, visibleAt>>
  BY DEF Observe, AfterPoll, Goto, memory
<1>2. current \in Canaries /\ visible \subseteq Canaries /\ ~canary[current].settled
  BY <1>1, ObserveFacts DEF Typed, TypeOK, Censored, Polling
<1>3. canary[current].acked # Unset /\ canary[current].acked <= now /\ since <= now /\ now <= now
  BY <1>1, <1>2, Times DEF Typed, Placed, InTime, Polling
<1>4. CASE seen
  <2>1. current \in visible /\ visibleAt[current] <= now
    BY <1>1, <1>4 DEF Censored
  <2>2. /\ canary'[current].first = now /\ canary'[current].settled
        /\ Lower(current)' = Lower(current)
        /\ \A c \in Canaries : c # current => canary'[c] = canary[c]
    BY <1>1, <1>4, ObserveFacts DEF Lower
  <2>3. /\ canary[current].acked <= Lower(current) /\ Lower(current) <= now
        /\ Lower(current) <= visibleAt[current] + MaxDelay
    <3>1. canary[current].acked <= now /\ canary[current].acked <= visibleAt[current] + MaxDelay
      BY <1>3, <2>1 DEF Censored
    <3>2. canary[current].failed # Unset =>
             /\ canary[current].acked <= canary[current].failed /\ canary[current].failed <= now
             /\ canary[current].failed <= visibleAt[current] + MaxDelay
      BY <1>2, <2>1 DEF Censored
    <3>3. canary[current].acked <= canary[current].acked
      BY <1>2, IntervalTimes
    <3>4. CASE canary[current].failed = Unset
      BY <3>1, <3>3, <3>4 DEF Lower
    <3>5. CASE canary[current].failed # Unset
      BY <3>2, <3>5 DEF Lower
    <3> QED BY <3>4, <3>5
  <2>4. \A c \in Canaries : c # current => Lower(c)' = Lower(c) /\ Upper(c)' = Upper(c)
    BY <2>2 DEF Lower, Upper
  <2>5. Upper(current)' = now
    BY <1>1, <2>2 DEF Upper
  <2>6. LagWithinOneRequest'
    BY <1>1, <1>2, <1>4, <2>1, <2>2, <2>3, <2>4, <2>5, ObserveFacts DEF Censored, LagWithinOneRequest
  <2> QED BY <1>1, <1>2, <1>3, <1>4, <2>6, ObserveFacts DEF Censored, Polling
<1>5. CASE ~seen
  <2>1. LagWithinOneRequest'
    BY <1>1, <1>2, <1>5, ObserveFacts DEF Censored, LagWithinOneRequest, Lower, Upper
  <2>2. current \in visible => now <= visibleAt[current] + MaxDelay
    BY <1>1, <1>2, <1>5, IntervalTimes, Times, Constants DEF Censored, Typed, InTime
  <2> QED BY <1>1, <1>2, <1>3, <1>5, <2>1, <2>2, ObserveFacts DEF Censored, Polling
<1> QED BY <1>4, <1>5

LEMMA CleanupCensored ==
    ASSUME Typed, Censored, Cleanup
    PROVE  Censored'
<1>1. pc' = "idle" /\ UNCHANGED <<now, visibleAt>>
  BY DEF Cleanup, Goto
<1>2. visible' \subseteq visible /\ store' \ visible' \subseteq store \ visible
  BY CleanupFacts
<1>3. visible \subseteq Canaries
  BY DEF Typed, TypeOK
<1> QED BY <1>1, <1>2, <1>3, CleanupFacts DEF Censored, Polling, LagWithinOneRequest, Lower, Upper

LEMMA NextCensored == Typed /\ Censored /\ [Next]_vars => Censored'
<1> SUFFICES ASSUME Typed, Censored, [Next]_vars PROVE Censored'
  OBVIOUS
<1>1. CASE UNCHANGED vars
  BY <1>1 DEF vars, record, memory, Censored, LagWithinOneRequest, Lower, Upper
<1>2. CASE Task
  BY <1>2, StoredCensored, AckedCensored, PollCensored, ObserveCensored, CleanupCensored DEF Task
<1> QED BY <1>1, <1>2, TickCensored, VisibleCensored, IdleCensored, StartCensored DEF Next

\* The bounds on record for a settled canary enclose the moment it became
\* retrievable but for the one request that was under way then (is_settled and
\* lag_fields of adapters/base.py), for every bound on the delays and however
\* the waits before it ended.
THEOREM LagIsCensored == Spec => []LagWithinOneRequest
<1>1. Censored => LagWithinOneRequest
  BY DEF Censored
<1> QED BY <1>1, AlwaysTyped, InitCensored, NextCensored, PTL DEF Spec
-----------------------------------------------------------------------------
(* What a benchmark read meets.                                            *)

LEMMA InitClean == Init => CleanOrRecorded
BY DEF Init, CleanOrRecorded, ReadSeesOnlyRecorded

LEMMA IdleClean ==
    ASSUME Typed, CleanOrRecorded, Reset \/ ResetRaises \/ ResetAll \/ BenchmarkRead
    PROVE  CleanOrRecorded'
<1> USE DEF wait, record, memory, ghosts
<1>0. pc = "idle" /\ pc' = "idle" /\ canary' = canary
  BY DEF Reset, ResetRaises, ResetAll, BenchmarkRead
<1>1. CASE Reset
  BY <1>0, <1>1 DEF Reset, CleanOrRecorded, ReadSeesOnlyRecorded
<1>2. CASE ResetRaises
  BY <1>0, <1>2 DEF ResetRaises, CleanOrRecorded, ReadSeesOnlyRecorded, Recorded
<1>3. CASE ResetAll
  BY <1>0, <1>3 DEF ResetAll, CleanOrRecorded, ReadSeesOnlyRecorded, Recorded
<1>4. CASE BenchmarkRead
  <2>1. ready /\ ~ready' /\ lastRead' = visible /\ visible \subseteq store
    BY <1>4 DEF BenchmarkRead, Typed, TypeOK
  <2>2. CleanupRaises => \A c \in store : Recorded(c)
    BY <1>0, <2>1 DEF CleanOrRecorded, Polling
  <2> QED BY <1>0, <2>1, <2>2 DEF CleanOrRecorded, ReadSeesOnlyRecorded, Recorded
<1> QED BY <1>1, <1>2, <1>3, <1>4

\* The steps of a wait before its cleanup: the canary that is dealt with stays.
LEMMA WaitClean ==
    ASSUME Typed, CleanOrRecorded,
           StartWait \/ CanaryStored \/ CanaryRaises \/ Poll \/ StoreRead \/ PollRaises \/ Wake
    PROVE  CleanOrRecorded'
<1> USE DEF wait, record, memory, ghosts, Goto, Raise
<1>0. UNCHANGED <<current, canary, lastRead>>
  BY DEF StartWait, CanaryStored, CanaryRaises, Poll, StoreRead, PollRaises, Wake
<1>1. CASE StartWait
  BY <1>0, <1>1 DEF StartWait, CleanOrRecorded, ReadSeesOnlyRecorded, Recorded, Polling
<1>2. CASE CanaryStored
  BY <1>0, <1>2 DEF CanaryStored, CleanOrRecorded, ReadSeesOnlyRecorded, Recorded, Polling
<1>3. CASE CanaryRaises \/ PollRaises
  BY <1>0, <1>3 DEF CanaryRaises, PollRaises, CleanOrRecorded, ReadSeesOnlyRecorded, Recorded, Polling
<1>4. CASE Poll \/ StoreRead \/ Wake
  BY <1>0, <1>4 DEF Poll, StoreRead, Wake, CleanOrRecorded, ReadSeesOnlyRecorded, Recorded, Polling
<1> QED BY <1>1, <1>2, <1>3, <1>4

LEMMA AckedClean ==
    ASSUME Typed, CleanOrRecorded, CanaryAcked
    PROVE  CleanOrRecorded'
<1>1. pc = "acking" /\ pc' = "poll" /\ UNCHANGED <<ready, store, lastRead>>
  BY DEF CanaryAcked, Goto, memory, ghosts
<1>2. store \subseteq Canaries /\ lastRead \subseteq Canaries
  BY DEF Typed, TypeOK
<1> QED BY <1>1, <1>2, AckedFacts DEF CleanOrRecorded, ReadSeesOnlyRecorded, Recorded, Polling

LEMMA ObserveClean ==
    ASSUME Typed, CleanOrRecorded, Observe
    PROVE  CleanOrRecorded'
<1>1. /\ pc = "observing" /\ pc' \in {"cleaning", "sleeping"}
      /\ UNCHANGED <<ready, current, store, lastRead>>
  BY DEF Observe, AfterPoll, Goto, memory, ghosts
<1>2. store \subseteq Canaries /\ lastRead \subseteq Canaries
  BY DEF Typed, TypeOK
<1>3. \A c \in Canaries : canary'[c].cleanup = canary[c].cleanup
  BY ObserveFacts
<1> QED BY <1>1, <1>2, <1>3 DEF CleanOrRecorded, ReadSeesOnlyRecorded, Recorded, Polling

\* A cleanup leaves its canary in the store only with the failure on record.
LEMMA CleanupClean ==
    ASSUME Typed, CleanOrRecorded, Cleanup
    PROVE  CleanOrRecorded'
<1>1. pc = "cleaning" /\ pc' = "idle" /\ UNCHANGED <<ready, lastRead>>
  BY DEF Cleanup, Goto
<1>2. ready /\ lastRead = {}
  BY <1>1 DEF CleanOrRecorded
<1>3. store \subseteq Canaries
  BY DEF Typed, TypeOK
<1>4. ASSUME CleanupRaises, NEW c \in store' PROVE Recorded(c)'
  <2>1. PICK outcome \in CleanupOutcomes :
           /\ canary'[current].cleanup = outcome.recorded
           /\ store' = outcome.left /\ visible' = visible \cap outcome.left
           /\ outcome.left \in {store, store \ {current}}
    BY CleanupFacts
  <2>2. c \in store
    BY <2>1
  <2>3. CASE c = current
    <3>1. outcome.recorded \in {"failed", "skipped"}
      BY <1>4, <2>1, <2>3 DEF CleanupOutcomes, LoudCleanup
    <3> QED BY <2>1, <2>3, <3>1 DEF Recorded
  <2>4. CASE c # current
    <3>1. Recorded(c)
      BY <1>1, <1>2, <1>4, <2>2, <2>4 DEF CleanOrRecorded
    <3> QED BY <1>3, <2>2, <2>4, <3>1, CleanupFacts DEF Recorded
  <2> QED BY <2>3, <2>4
<1> QED BY <1>1, <1>2, <1>4 DEF CleanOrRecorded, ReadSeesOnlyRecorded

LEMMA NextClean == Typed /\ CleanOrRecorded /\ [Next]_vars => CleanOrRecorded'
<1> SUFFICES ASSUME Typed, CleanOrRecorded, [Next]_vars PROVE CleanOrRecorded'
  OBVIOUS
<1>1. CASE UNCHANGED vars
  BY <1>1 DEF vars, record, memory, ghosts, CleanOrRecorded, ReadSeesOnlyRecorded, Recorded
<1>2. CASE Tick \/ \E c \in Canaries : BecomeVisible(c)
  BY <1>2 DEF Tick, BecomeVisible, record, memory, ghosts, CleanOrRecorded, ReadSeesOnlyRecorded, Recorded
<1>3. CASE Task
  BY <1>3, WaitClean, AckedClean, ObserveClean, CleanupClean DEF Task
<1> QED BY <1>1, <1>2, <1>3, IdleClean, WaitClean DEF Next

\* The benchmark read returns a canary only if its failed or skipped cleanup is
\* on record, whichever waits timed out, reused a canary, raised or were followed
\* by a reset, with an adapter that lets a failed deletion raise (wait_settled
\* and search of adapters/base.py).
THEOREM ReadsAreClean == Spec => []ReadSeesOnlyRecorded
<1>1. CleanOrRecorded => ReadSeesOnlyRecorded
  BY DEF CleanOrRecorded
<1> QED BY <1>1, AlwaysTyped, InitClean, NextClean, PTL DEF Spec
=============================================================================
