--------------------------- MODULE EventLogProofs ---------------------------
(***************************************************************************)
(* EventLog for any threads, uses and bounds: type correctness, and that   *)
(* whatever is cut short, refused by the disk, crashed or resumed, lines   *)
(* are whole up to what was lost, sequence numbers grow and their gaps are *)
(* explained, what a synchronous append returned survives, and the events  *)
(* on lines that can be read are the abstract trace of EventTrace.         *)
(***************************************************************************)
EXTENDS EventLog, FiniteSetTheorems, SequenceTheorems, TLAPS

Admitted   == {t \in Threads : pc[t] = "admitted"}
Positions  == 1..Len(file)
FileEvents == {file[k].event : k \in Positions}
APiece(e, p) == [event |-> e, part |-> p]

-----------------------------------------------------------------------------
(* The inductive invariant.                                                *)

\* The lock is held by the one thread that writes, which has the latest number
\* and the latest call; nobody is inside append() when the process is down.
Held ==
    /\ \A t \in Threads : pc[t] = "writing" <=> lock = t
    /\ \A t \in Threads : pc[t] = "writing" =>
          record[t] \in Event /\ record[t] = [instance |-> instance, seq |-> seq, call |-> calls]
    /\ ~up => lock = NULL /\ \A t \in Threads : pc[t] = "idle"

\* Numbers keep up with calls, instances with restarts; who is admitted has a
\* call left.
Counted ==
    /\ seq <= calls
    /\ instance <= restarts
    /\ ~up => instance < restarts
    /\ IsFiniteSet(Admitted)
    /\ calls + Cardinality(Admitted) <= MaxCalls

\* What is on file was numbered by its call, by this instance or one before it.
FileCounted ==
    \A i \in Positions :
        /\ file[i].event.call <= calls
        /\ file[i].event.seq <= file[i].event.call
        /\ file[i].event.instance <= instance
        /\ use.stableId => file[i].event.instance = instance

Typed == TypeOK /\ Held /\ Counted /\ FileCounted

\* A piece stands behind the piece before it, in front of the one after it
\* unless its event was lost; at the end of the file unless it is being written.
Contiguous ==
    /\ \A i \in Positions : file[i].part > 1 =>
          i > 1 /\ file[i - 1] = APiece(file[i].event, file[i].part - 1)
    /\ \A i \in Positions : file[i].part < 3 =>
          \/ file[i].event \in lost
          \/ i < Len(file) /\ file[i + 1] = APiece(file[i].event, file[i].part + 1)
          \/ i = Len(file) /\ \E t \in Threads : pc[t] = "writing" /\ record[t] = file[i].event

\* What the holder of the lock has written are the last pieces of the file, and
\* no other piece is of its event.
TailIsHolders ==
    \A t \in Threads : pc[t] = "writing" =>
        /\ written[t] <= Len(file)
        /\ \A i \in Positions : file[i].event = record[t] <=> i > Len(file) - written[t]
        /\ \A k \in 1..written[t] : file[Len(file) - written[t] + k] = APiece(record[t], k)

\* Every piece is on a line that begins somewhere.
LinesBegin ==
    \A i \in Positions : \E s \in 1..i :
        /\ s = 1 \/ file[s - 1].part = 3
        /\ \A k \in s..(i - 1) : file[k].part # 3

\* An event whose append() returned is on file, whole, unless a crash cut it,
\* and in what no crash cuts if the log is synchronous.
ReturnedOnFile ==
    \A e \in returned :
        /\ e \notin lost => \E i \in Positions : file[i] = APiece(e, 3)
        /\ use.fsync => \E i \in 1..synced : file[i] = APiece(e, 3)

Shape == Contiguous /\ TailIsHolders /\ LinesBegin /\ ReturnedOnFile

\* The running instance has numbered what it has on file up to seq.
NumbersGrow ==
    /\ SeqIncreasing
    /\ up => \A i \in Positions : file[i].event.instance = instance =>
          /\ file[i].event.seq <= seq
          /\ lock # NULL => file[i].event = record[lock] \/ file[i].event.seq < seq

\* Who has a number: an event that is lost, on file, or being written.
Known == lost \cup FileEvents \cup {record[t] : t \in {u \in Threads : pc[u] = "writing"}}

\* Every number the running instance has used has its event.
NumbersUsed == up => \A s \in 1..seq : \E e \in Known : e.instance = instance /\ e.seq = s

Explained == GapsExplained /\ NumbersUsed

\* Events are told apart by their calls: the one that is being written was not
\* returned and is not lost.
Fresh ==
    /\ \A e \in returned \cup lost : e.call <= calls
    /\ \A t \in Threads : pc[t] = "writing" => record[t] \notin returned \cup lost

-----------------------------------------------------------------------------
(* Facts about single steps.                                               *)

LEMMA ThreadsNull == NULL \notin Threads /\ MaxCalls \in Nat /\ MaxRestarts \in Nat /\ MaxFailures \in Nat
BY EventLogAssumption

\* A sequence and what is appended to it, for one piece after another.
LEMMA Extended ==
    ASSUME NEW S, NEW s \in Seq(S), NEW n \in Nat, NEW t \in Seq(S), Len(t) = n
    PROVE  /\ s \o t \in Seq(S)
           /\ Len(s \o t) = Len(s) + n
           /\ \A i \in 1..Len(s) : (s \o t)[i] = s[i]
           /\ \A k \in 1..n : (s \o t)[Len(s) + k] = t[k]
<1>1. Len(s) \in Nat
  OBVIOUS
<1>2. \A i \in 1..Len(s) + n : (s \o t)[i] = IF i <= Len(s) THEN s[i] ELSE t[i - Len(s)]
  BY ConcatProperties
<1>3. \A i \in 1..Len(s) : (s \o t)[i] = s[i]
  BY <1>1, <1>2
<1>4. \A k \in 1..n : (s \o t)[Len(s) + k] = t[k]
  <2> TAKE k \in 1..n
  <2>1. Len(s) + k \in 1..Len(s) + n /\ ~(Len(s) + k <= Len(s)) /\ Len(s) + k - Len(s) = k
    BY <1>1
  <2> QED BY <1>2, <2>1
<1> QED BY <1>3, <1>4, ConcatProperties

\* A write adds pieces of the holder's event in their order.
WriteAdds(t, n) ==
    /\ file' \in Seq(Piece)
    /\ Len(file') = Len(file) + n
    /\ \A i \in Positions : file'[i] = file[i]
    /\ \A k \in 1..n : file'[Len(file) + k] = APiece(record[t], written[t] + k)
    /\ written' = [written EXCEPT ![t] = written[t] + n]

LEMMA WriteFacts ==
    ASSUME Typed, NEW t \in Threads, Write(t)
    PROVE  \E n \in 1..(3 - written[t]) : WriteAdds(t, n)
<1>1. PICK n \in 1..(3 - written[t]) :
          /\ file' = file \o [k \in 1..n |-> [event |-> record[t], part |-> written[t] + k]]
          /\ written' = [written EXCEPT ![t] = Advance(t, n)]
  BY DEF Write
<1> DEFINE added == [k \in 1..n |-> [event |-> record[t], part |-> written[t] + k]]
<1>2. written[t] \in 0..3 /\ record[t] \in Event
  BY DEF Typed, TypeOK, Held, Write
<1>3. n \in Nat /\ \A k \in 1..n : written[t] + k \in 1..3
  BY <1>2
<1>4. \A k \in 1..n : [event |-> record[t], part |-> written[t] + k] \in Piece
  BY <1>2, <1>3 DEF Piece
<1>5. added \in Seq(Piece) /\ Len(added) = n
  BY <1>3, <1>4
<1>6. file \in Seq(Piece)
  BY DEF Typed, TypeOK
<1>7. file' = file \o added
  BY <1>1
<1> HIDE DEF added
<1>8. /\ file' \in Seq(Piece) /\ Len(file') = Len(file) + n
      /\ \A i \in 1..Len(file) : file'[i] = file[i]
      /\ \A k \in 1..n : file'[Len(file) + k] = added[k]
  BY <1>3, <1>5, <1>6, <1>7, Extended
<1> QED BY <1>1, <1>8 DEF WriteAdds, Positions, APiece, Advance, added

\* A crash keeps a beginning of the file.
CrashKeeps(kept) ==
    /\ kept \in synced..Len(file)
    /\ file' \in Seq(Piece)
    /\ Len(file') = kept /\ synced' = kept
    /\ \A i \in 1..kept : file'[i] = file[i]

LEMMA CrashFacts ==
    ASSUME Typed, Crash
    PROVE  \E kept : CrashKeeps(kept)
<1>1. PICK kept \in synced..Len(file) : file' = SubSeq(file, 1, kept) /\ synced' = kept
  BY DEF Crash
<1>2. file \in Seq(Piece) /\ synced \in 0..Len(file) /\ Len(file) \in Nat
  BY DEF Typed, TypeOK
<1>3. kept \in Nat /\ kept <= Len(file)
  BY <1>1, <1>2
<1>4. \A i \in 1..kept : file[i] \in Piece
  BY <1>2, <1>3
<1>5. /\ SubSeq(file, 1, kept) \in Seq(Piece)
      /\ Len(SubSeq(file, 1, kept)) = kept
      /\ \A i \in 1..kept : SubSeq(file, 1, kept)[i] = file[i]
  <2>1. /\ SubSeq(file, 1, kept) \in Seq(Piece)
        /\ Len(SubSeq(file, 1, kept)) = (IF 1 <= kept THEN kept - 1 + 1 ELSE 0)
        /\ \A i \in 1..(kept - 1 + 1) : SubSeq(file, 1, kept)[i] = file[1 + i - 1]
    BY <1>3, <1>4, SubSeqProperties
  <2> QED BY <1>3, <2>1
<1> QED BY <1>1, <1>5 DEF CrashKeeps

\* A writer that starts on a trace continues the number of its own last event,
\* or starts anew.
LEMMA ResumeFacts ==
    ASSUME Typed, NEW id
    PROVE  \/ ResumeSeq(file, id) = 0
           \/ /\ file # <<>> /\ Len(file) \in Positions
              /\ file[Len(file)].event.instance = id
              /\ ResumeSeq(file, id) = file[Len(file)].event.seq
BY DEF Typed, TypeOK, ResumeSeq, Positions

\* What a piece on file is.
LEMMA PieceType ==
    ASSUME Typed, NEW i \in Positions
    PROVE  /\ file[i] \in Piece /\ i \in Nat /\ Len(file) \in Nat
           /\ file[i].event \in Event /\ file[i].part \in 1..3
           /\ file[i].event.seq \in 1..MaxCalls /\ file[i].event.call \in 1..MaxCalls
           /\ file[i].event.instance \in 0..MaxRestarts
<1>1. file[i] \in Piece /\ i \in Nat /\ Len(file) \in Nat
  BY DEF Typed, TypeOK, Positions
<1>2. file[i].event \in Event /\ file[i].part \in 1..3
  BY <1>1 DEF Piece
<1> QED BY <1>1, <1>2 DEF Event

-----------------------------------------------------------------------------
(* Type correctness.                                                       *)

LEMMA InitTyped == Init => Typed
<1> SUFFICES ASSUME Init PROVE Typed
  OBVIOUS
<1>1. TypeOK
  <2>1. <<>> \in Seq(Piece) /\ Len(<<>>) = 0
    OBVIOUS
  <2>2. 0 \in 0..MaxCalls /\ 0 \in 0..MaxRestarts /\ 0 \in 0..MaxFailures /\ 0 \in 0..3
    BY ThreadsNull
  <2>3. file \in Seq(Piece) /\ synced \in 0..Len(file)
    BY <2>1 DEF Init
  <2>4. pc \in [Threads -> {"idle", "admitted", "writing"}] /\ written \in [Threads -> 0..3]
        /\ record \in [Threads -> Event \cup {NULL}]
    BY <2>2 DEF Init
  <2> QED BY <2>2, <2>3, <2>4 DEF Init, TypeOK
<1>2. Held
  BY EventLogAssumption DEF Init, Held
<1>3. Counted
  <2>1. Admitted = {}
    BY DEF Init, Admitted
  <2> QED BY <2>1, ThreadsNull, FS_EmptySet DEF Init, Counted
<1>4. FileCounted
  BY DEF Init, FileCounted, Positions
<1> QED BY <1>1, <1>2, <1>3, <1>4 DEF Typed

\* append() is entered.
LEMMA CheckTyped ==
    ASSUME Typed, NEW t \in Threads, PassClosedCheck(t)
    PROVE  Typed'
<1> USE DEF PassClosedCheck, ghosts
<1>1. TypeOK'
  BY DEF Typed, TypeOK
<1>2. Held'
  BY DEF Typed, TypeOK, Held
<1>3. Counted'
  <2>1. Admitted' = Admitted \cup {t} /\ t \notin Admitted
    BY DEF Typed, TypeOK, Admitted
  <2>2. IsFiniteSet(Admitted) /\ Cardinality(Admitted) \in Nat
    BY FS_CardinalityType DEF Typed, Counted
  <2>3. IsFiniteSet(Admitted') /\ Cardinality(Admitted') = Cardinality(Admitted) + 1
    BY <2>1, <2>2, FS_AddElement
  <2>4. calls + Cardinality(Admitted) < MaxCalls
    BY DEF Admitted
  <2>5. calls \in Nat /\ MaxCalls \in Nat
    BY ThreadsNull DEF Typed, TypeOK
  <2>6. calls + (Cardinality(Admitted) + 1) <= MaxCalls
    BY <2>2, <2>4, <2>5
  <2> QED BY <2>3, <2>6 DEF Typed, Counted
<1>4. FileCounted'
  BY DEF Typed, FileCounted, Positions
<1> QED BY <1>1, <1>2, <1>3, <1>4 DEF Typed

\* The number is taken with the lock.
LEMMA TakeTyped ==
    ASSUME Typed, NEW t \in Threads, TakeLock(t)
    PROVE  Typed'
<1> USE DEF TakeLock, LockFree
<1>1. seq \in Nat /\ calls \in Nat /\ MaxCalls \in Nat /\ seq <= calls
  BY ThreadsNull DEF Typed, TypeOK, Counted
<1>2. IsFiniteSet(Admitted) /\ t \in Admitted
  BY DEF Typed, Counted, Admitted
<1>3. Cardinality(Admitted) \in Nat /\ Cardinality(Admitted \ {t}) = Cardinality(Admitted) - 1
      /\ IsFiniteSet(Admitted \ {t})
  BY <1>2, FS_CardinalityType, FS_RemoveElement
<1>4. Cardinality(Admitted \ {t}) \in Nat
  BY <1>3, FS_CardinalityType
<1>5. calls + 1 <= MaxCalls /\ seq + 1 <= MaxCalls
  BY <1>1, <1>3, <1>4 DEF Typed, Counted
<1>6. seq + 1 \in 1..MaxCalls /\ calls + 1 \in 1..MaxCalls /\ instance \in 0..MaxRestarts
  BY <1>1, <1>5 DEF Typed, TypeOK
<1>7. [instance |-> instance, seq |-> seq + 1, call |-> calls + 1] \in Event
  BY <1>6 DEF Event
<1>8. TypeOK'
  BY <1>6, <1>7 DEF Typed, TypeOK
<1>9. Held'
  <2>1. \A u \in Threads : pc[u] # "writing"
    BY ThreadsNull DEF Typed, Held
  <2>2. up
    BY DEF Typed, Held
  <2>3. \A u \in Threads : pc'[u] = "writing" <=> u = t
    BY <2>1 DEF Typed, TypeOK
  <2>4. record'[t] = [instance |-> instance, seq |-> seq + 1, call |-> calls + 1]
    BY DEF Typed, TypeOK
  <2> QED BY <1>7, <2>2, <2>3, <2>4 DEF Held
<1>10. Counted'
  <2>1. Admitted' = Admitted \ {t}
    BY DEF Typed, TypeOK, Admitted
  <2>2. calls + 1 + (Cardinality(Admitted) - 1) <= MaxCalls
    BY <1>1, <1>3 DEF Typed, Counted
  <2> QED BY <1>1, <1>3, <2>1, <2>2 DEF Typed, Counted
<1>11. FileCounted'
  <2>1. \A i \in Positions : file[i].event.call \in Nat
    BY PieceType
  <2> QED BY <1>1, <2>1 DEF Typed, FileCounted, Positions
<1> QED BY <1>8, <1>9, <1>10, <1>11 DEF Typed

\* Pieces are added.
LEMMA WriteTyped ==
    ASSUME Typed, NEW t \in Threads, Write(t)
    PROVE  Typed'
<1> USE DEF Write, ghosts
<1>1. PICK n \in 1..(3 - written[t]) : WriteAdds(t, n)
  BY WriteFacts
<1>2. written[t] \in 0..3 /\ n \in Nat /\ n >= 1 /\ written[t] + n \in 0..3
  BY <1>1 DEF Typed, TypeOK
<1>3. TypeOK'
  <2>1. Len(file') = Len(file) + n /\ file' \in Seq(Piece) /\ Len(file) \in Nat
    BY <1>1 DEF WriteAdds, Typed, TypeOK
  <2>2. synced \in 0..Len(file')
    BY <1>2, <2>1 DEF Typed, TypeOK
  <2>3. written' \in [Threads -> 0..3]
    BY <1>1, <1>2 DEF WriteAdds, Typed, TypeOK
  <2> QED BY <2>1, <2>2, <2>3 DEF Typed, TypeOK
<1>4. Held'
  BY DEF Typed, Held
<1>5. Counted'
  BY DEF Typed, Counted, Admitted
<1>6. FileCounted'
  <2>1. record[t] = [instance |-> instance, seq |-> seq, call |-> calls]
    BY DEF Typed, Held
  <2> SUFFICES ASSUME NEW i \in Positions'
               PROVE  /\ file'[i].event.call <= calls
                      /\ file'[i].event.seq <= file'[i].event.call
                      /\ file'[i].event.instance <= instance
                      /\ use.stableId => file'[i].event.instance = instance
    BY DEF FileCounted
  <2>2. i \in Positions \/ \E k \in 1..n : i = Len(file) + k
    <3>1. i \in 1..(Len(file) + n) /\ Len(file) \in Nat
      <4>1. i \in 1..Len(file') /\ Len(file') = Len(file) + n
        BY <1>1 DEF Positions, WriteAdds
      <4> QED BY <4>1 DEF Typed, TypeOK
    <3>2. i \in Positions \/ i - Len(file) \in 1..n
      BY <1>2, <3>1 DEF Positions
    <3> QED BY <3>1, <3>2
  <2>3. CASE i \in Positions
    BY <1>1, <2>3 DEF WriteAdds, Typed, FileCounted
  <2>4. CASE \E k \in 1..n : i = Len(file) + k
    <3>1. file'[i].event = record[t]
      BY <1>1, <2>4 DEF WriteAdds, APiece
    <3>2. calls <= calls /\ seq <= calls /\ instance <= instance
      BY DEF Typed, TypeOK, Counted
    <3>3. record[t].call = calls /\ record[t].seq = seq /\ record[t].instance = instance
      BY <2>1
    <3> QED BY <3>1, <3>2, <3>3
  <2> QED BY <2>2, <2>3, <2>4
<1> QED BY <1>3, <1>4, <1>5, <1>6 DEF Typed

\* append() is left, by returning or raising.
LEMMA LeaveTyped ==
    ASSUME Typed, NEW t \in Threads, WriteRaises(t) \/ Return(t) \/ SyncRaises(t)
    PROVE  Typed'
<1> USE DEF WriteRaises, Return, SyncRaises, Leave, ReleaseLock
<1>1. pc[t] = "writing" /\ record[t] \in Event /\ lock = t /\ up
  BY DEF Typed, Held
<1>2. TypeOK'
  <2>1. synced' \in 0..Len(file)
    BY DEF Typed, TypeOK, SyncedNow
  <2>2. failures' \in 0..MaxFailures
    BY ThreadsNull DEF Typed, TypeOK
  <2>3. returned' \subseteq Event /\ lost' \subseteq Event
    BY <1>1 DEF Typed, TypeOK
  <2>4. record' \in [Threads -> Event \cup {NULL}] /\ pc' \in [Threads -> {"idle", "admitted", "writing"}]
        /\ lock' \in Threads \cup {NULL}
    BY DEF Typed, TypeOK
  <2> QED BY <2>1, <2>2, <2>3, <2>4 DEF Typed, TypeOK
<1>3. Held'
  BY <1>1, ThreadsNull DEF Typed, TypeOK, Held
<1>4. Counted'
  <2>1. Admitted' = Admitted
    BY <1>1 DEF Typed, TypeOK, Admitted
  <2> QED BY <2>1 DEF Typed, Counted
<1>5. FileCounted'
  BY DEF Typed, FileCounted, Positions
<1> QED BY <1>2, <1>3, <1>4, <1>5 DEF Typed

\* flush() and close().
LEMMA SyncTyped ==
    ASSUME Typed, Flush \/ Close
    PROVE  Typed'
<1> USE DEF Flush, Close, process, ghosts
<1>1. TypeOK'
  <2>1. synced' \in 0..Len(file)
    BY DEF Typed, TypeOK
  <2>2. failures' \in 0..MaxFailures
    BY ThreadsNull DEF Typed, TypeOK
  <2> QED BY <2>1, <2>2 DEF Typed, TypeOK
<1>2. Held'
  BY DEF Typed, Held
<1>3. Counted'
  BY DEF Typed, Counted, Admitted
<1>4. FileCounted'
  BY DEF Typed, FileCounted, Positions
<1> QED BY <1>1, <1>2, <1>3, <1>4 DEF Typed

\* A crash.
LEMMA CrashTyped ==
    ASSUME Typed, Crash
    PROVE  Typed'
<1> USE DEF Crash
<1>1. PICK kept : CrashKeeps(kept)
  BY CrashFacts
<1>2. kept \in Nat /\ kept <= Len(file) /\ Len(file) \in Nat
  BY <1>1 DEF CrashKeeps, Typed, TypeOK
<1>3. TypeOK'
  <2>1. {record[t] : t \in {u \in Threads : pc[u] = "writing"}} \subseteq Event
    BY DEF Typed, Held
  <2>2. {file[k].event : k \in (kept + 1)..Len(file)} \subseteq Event
    <3>1. \A k \in (kept + 1)..Len(file) : k \in Positions
      BY <1>2 DEF Positions
    <3> QED BY <3>1, PieceType
  <2>3. lost' \subseteq Event
    BY <1>1, <2>1, <2>2 DEF Typed, TypeOK, CrashKeeps
  <2>4. restarts' \in 0..MaxRestarts
    BY ThreadsNull DEF Typed, TypeOK
  <2>5. synced' \in 0..Len(file') /\ file' \in Seq(Piece)
    BY <1>1, <1>2 DEF CrashKeeps
  <2>6. record' \in [Threads -> Event \cup {NULL}] /\ pc' \in [Threads -> {"idle", "admitted", "writing"}]
    OBVIOUS
  <2> QED BY <2>3, <2>4, <2>5, <2>6 DEF Typed, TypeOK
<1>4. Held'
  BY ThreadsNull DEF Held
<1>5. Counted'
  <2>1. Admitted' = {}
    BY DEF Admitted
  <2>2. calls + 0 <= MaxCalls
    BY ThreadsNull DEF Typed, TypeOK
  <2>3. instance <= restarts + 1 /\ instance < restarts + 1
    BY DEF Typed, TypeOK, Counted
  <2> QED BY <2>1, <2>2, <2>3, FS_EmptySet DEF Typed, Counted
<1>6. FileCounted'
  <2>1. \A i \in 1..kept : i \in Positions
    BY <1>2 DEF Positions
  <2> QED BY <1>1, <2>1 DEF Typed, FileCounted, Positions, CrashKeeps
<1> QED BY <1>3, <1>4, <1>5, <1>6 DEF Typed

\* A restart.
LEMMA OpenTyped ==
    ASSUME Typed, Open
    PROVE  Typed'
<1> USE DEF Open, ghosts
<1>1. instance \in Nat /\ restarts \in Nat /\ MaxRestarts \in Nat /\ instance < restarts
      /\ restarts <= MaxRestarts
  BY ThreadsNull DEF Typed, TypeOK, Counted
<1>2. instance' \in 0..MaxRestarts /\ instance' <= restarts /\ instance <= instance'
  BY <1>1
<1>3. seq' \in 0..MaxCalls /\ seq' <= calls
  <2>1. calls \in Nat /\ MaxCalls \in Nat
    BY ThreadsNull DEF Typed, TypeOK
  <2>2. CASE seq' = 0
    BY <2>1, <2>2
  <2>3. CASE Len(file) \in Positions /\ seq' = file[Len(file)].event.seq
    <3> DEFINE e == file[Len(file)].event
    <3>1. e.seq \in 1..MaxCalls /\ e.call \in 1..MaxCalls
      BY <2>3, PieceType
    <3>2. e.call <= calls /\ e.seq <= e.call
      BY <2>3 DEF Typed, FileCounted
    <3>3. seq' = e.seq
      BY <2>3
    <3> HIDE DEF e
    <3> QED BY <2>1, <3>1, <3>2, <3>3
  <2> QED BY <2>2, <2>3, ResumeFacts
<1>4. TypeOK'
  BY <1>2, <1>3 DEF Typed, TypeOK
<1>5. Held'
  BY ThreadsNull DEF Typed, Held
<1>6. Counted'
  BY <1>2, <1>3 DEF Typed, Counted, Admitted
<1>7. FileCounted'
  <2> SUFFICES ASSUME NEW i \in Positions
               PROVE  /\ file[i].event.call <= calls
                      /\ file[i].event.seq <= file[i].event.call
                      /\ file[i].event.instance <= instance'
                      /\ use.stableId => file[i].event.instance = instance'
    BY DEF FileCounted, Positions
  <2>1. file[i].event.instance \in Nat /\ file[i].event.instance <= instance
    BY PieceType DEF Typed, FileCounted
  <2>2. instance' \in Nat /\ file[i].event.instance <= instance'
    BY <1>1, <1>2, <2>1
  <2> QED BY <2>2 DEF Typed, FileCounted
<1> QED BY <1>4, <1>5, <1>6, <1>7 DEF Typed

LEMMA NextTyped == Typed /\ [Next]_vars => Typed'
<1> SUFFICES ASSUME Typed, [Next]_vars PROVE Typed'
  OBVIOUS
<1>1. ASSUME NEW t \in Threads, PassClosedCheck(t) \/ Step(t) PROVE Typed'
  BY <1>1, CheckTyped, TakeTyped, WriteTyped, LeaveTyped DEF Step
<1>2. CASE Flush \/ Close
  BY <1>2, SyncTyped
<1>3. CASE Crash
  BY <1>3, CrashTyped
<1>4. CASE Open
  BY <1>4, OpenTyped
<1>5. CASE UNCHANGED vars
  BY <1>5 DEF vars, process, ghosts, Typed, TypeOK, Held, Counted, Admitted, FileCounted, Positions
<1> QED BY <1>1, <1>2, <1>3, <1>4, <1>5 DEF Next

\* Every reachable state is well typed, whatever the threads, the uses of the
\* writer and the bounds (proxy/logging.py: the writer's fields, the file, the
\* threads inside append()).
THEOREM TypeCorrect == Spec => []TypeOK
<1>1. Typed => TypeOK
  BY DEF Typed
<1> QED BY <1>1, InitTyped, NextTyped, PTL DEF Spec

LEMMA AlwaysTyped == Spec => []Typed
BY InitTyped, NextTyped, PTL DEF Spec

-----------------------------------------------------------------------------
(* The shape of the file.                                                  *)

\* Who holds the lock is the only thread that writes.
LEMMA OneWriter ==
    ASSUME Typed, NEW t \in Threads, NEW u \in Threads, pc[t] = "writing", pc[u] = "writing"
    PROVE  t = u
BY DEF Typed, Held

\* A step after which the file is the same, the same threads write the same
\* events, and nothing is found again or told to anybody keeps the shape.
LEMMA QuietShape ==
    ASSUME Typed, Shape, file' = file, written' = written, returned' = returned,
           lost' = lost, use' = use, synced' \in Nat, synced <= synced',
           \A t \in Threads : (pc'[t] = "writing") <=> (pc[t] = "writing"),
           \A t \in Threads : pc[t] = "writing" => record'[t] = record[t]
    PROVE  Shape'
<1>1. Contiguous'
  BY DEF Shape, Contiguous, Positions
<1>2. TailIsHolders'
  BY DEF Shape, TailIsHolders, Positions
<1>3. LinesBegin'
  BY DEF Shape, LinesBegin, Positions
<1>4. ReturnedOnFile'
  <2>1. synced \in Nat
    BY DEF Typed, TypeOK
  <2>2. \A i \in 1..synced : i \in 1..synced'
    BY <2>1
  <2> QED BY <2>2 DEF Shape, ReturnedOnFile, Positions
<1> QED BY <1>1, <1>2, <1>3, <1>4 DEF Shape

LEMMA CheckShape ==
    ASSUME Typed, Shape, NEW t \in Threads, PassClosedCheck(t)
    PROVE  Shape'
<1>1. synced \in Nat
  BY DEF Typed, TypeOK
<1> QED BY <1>1, QuietShape DEF PassClosedCheck, ghosts, Typed, TypeOK

LEMMA SyncShape ==
    ASSUME Typed, Shape, Flush \/ Close
    PROVE  Shape'
<1>1. synced \in Nat /\ synced' \in Nat /\ synced <= synced'
  BY DEF Flush, Close, Typed, TypeOK
<1> QED BY <1>1, QuietShape DEF Flush, Close, process, ghosts

LEMMA OpenShape ==
    ASSUME Typed, Shape, Open
    PROVE  Shape'
<1>1. synced \in Nat
  BY DEF Typed, TypeOK
<1> QED BY <1>1, QuietShape DEF Open, ghosts

\* Nobody wrote before the lock was taken, and nothing of the new event is on
\* file: its call is a new one.
LEMMA TakeShape ==
    ASSUME Typed, Shape, NEW t \in Threads, TakeLock(t)
    PROVE  Shape'
<1> USE DEF TakeLock, LockFree
<1>1. \A u \in Threads : pc[u] # "writing"
  BY ThreadsNull DEF Typed, Held
<1>2. \A u \in Threads : pc'[u] = "writing" <=> u = t
  BY <1>1 DEF Typed, TypeOK
<1>3. Contiguous'
  BY <1>1 DEF Shape, Contiguous, Positions
<1>4. TailIsHolders'
  <2>1. written'[t] = 0 /\ record'[t].call = calls + 1 /\ Len(file) \in Nat /\ calls \in Nat
    BY DEF Typed, TypeOK
  <2>2. \A i \in Positions : file[i].event # record'[t]
    <3> TAKE i \in Positions
    <3>1. file[i].event.call <= calls /\ file[i].event.call \in Nat
      BY PieceType DEF Typed, FileCounted
    <3> QED BY <2>1, <3>1
  <2>3. \A i \in Positions : ~(i > Len(file) - 0)
    BY <2>1 DEF Positions
  <2> QED BY <1>2, <2>1, <2>2, <2>3 DEF TailIsHolders, Positions
<1>5. LinesBegin'
  BY DEF Shape, LinesBegin, Positions
<1>6. ReturnedOnFile'
  BY DEF Shape, ReturnedOnFile, Positions
<1> QED BY <1>3, <1>4, <1>5, <1>6 DEF Shape

\* Who leaves by an exception has lost its event; who returns has all of it on
\* file, and in what is durable if the log is synchronous.
LEMMA LeaveShape ==
    ASSUME Typed, Shape, NEW t \in Threads, WriteRaises(t) \/ Return(t) \/ SyncRaises(t)
    PROVE  Shape'
<1> USE DEF WriteRaises, Return, SyncRaises, Leave, ReleaseLock
<1>1. pc[t] = "writing" /\ file' = file /\ use' = use
  OBVIOUS
<1>2. \A u \in Threads : pc'[u] # "writing"
  BY <1>1, OneWriter DEF Typed, TypeOK
<1>3. written[t] = 3 => Len(file) \in Positions /\ file[Len(file)] = APiece(record[t], 3)
  <2> SUFFICES ASSUME written[t] = 3
               PROVE  Len(file) \in Positions /\ file[Len(file)] = APiece(record[t], 3)
    OBVIOUS
  <2>1. 3 <= Len(file) /\ Len(file) \in Nat
    BY <1>1 DEF Shape, TailIsHolders, Typed, TypeOK
  <2>2. \A k \in 1..written[t] : file[Len(file) - written[t] + k] = APiece(record[t], k)
    BY <1>1 DEF Shape, TailIsHolders
  <2>3. 3 \in 1..3 /\ Len(file) - 3 + 3 = Len(file)
    BY <2>1
  <2>4. file[Len(file) - 3 + 3] = APiece(record[t], 3)
    BY <2>2, <2>3
  <2> QED BY <2>1, <2>3, <2>4 DEF Positions
<1>4. Contiguous'
  <2>1. ASSUME NEW i \in Positions, file[i].part < 3
        PROVE  file[i].event \in lost' \/ (i < Len(file) /\ file[i + 1] = APiece(file[i].event, file[i].part + 1))
    <3>1. CASE file[i].event \in lost \/ (i < Len(file) /\ file[i + 1] = APiece(file[i].event, file[i].part + 1))
      BY <3>1
    <3>2. CASE i = Len(file) /\ \E u \in Threads : pc[u] = "writing" /\ record[u] = file[i].event
      <4>1. record[t] = file[i].event
        BY <1>1, <3>2, OneWriter
      <4>2. CASE Return(t)
        <5>1. file[i] = APiece(record[t], 3)
          BY <1>3, <3>2, <4>2
        <5>2. FALSE
          BY <2>1, <5>1 DEF APiece
        <5> QED BY <5>2
      <4>3. CASE WriteRaises(t) \/ SyncRaises(t)
        BY <4>1, <4>3
      <4> QED BY <4>2, <4>3
    <3> QED BY <2>1, <3>1, <3>2 DEF Shape, Contiguous
  <2> QED BY <1>1, <2>1 DEF Shape, Contiguous, Positions
<1>5. TailIsHolders'
  BY <1>2 DEF TailIsHolders
<1>6. LinesBegin'
  BY <1>1 DEF Shape, LinesBegin, Positions
<1>7. ReturnedOnFile'
  <2>1. CASE Return(t)
    <3>1. returned' = returned \cup {record[t]} /\ lost' = lost /\ synced' = SyncedNow
      BY <2>1
    <3>2. synced \in 0..Len(file) /\ Len(file) \in Nat
      BY DEF Typed, TypeOK
    <3>3. \A i \in 1..synced : i \in 1..synced'
      BY <3>1, <3>2 DEF SyncedNow
    <3>4. use.fsync => Len(file) \in 1..synced'
      BY <1>3, <2>1, <3>1 DEF SyncedNow, Positions
    <3>5. \E i \in Positions : file[i] = APiece(record[t], 3)
      BY <1>3, <2>1
    <3>6. use.fsync => \E i \in 1..synced' : file[i] = APiece(record[t], 3)
      BY <1>3, <2>1, <3>4
    <3> QED BY <1>1, <3>1, <3>3, <3>5, <3>6 DEF Shape, ReturnedOnFile, Positions
  <2>2. CASE WriteRaises(t) \/ SyncRaises(t)
    BY <2>2 DEF Shape, ReturnedOnFile, Positions
  <2> QED BY <2>1, <2>2
<1> QED BY <1>4, <1>5, <1>6, <1>7 DEF Shape

\* Positions after a write: the old ones, and those of the new pieces.
LEMMA WritePositions ==
    ASSUME Typed, NEW t \in Threads, NEW n \in 1..3, WriteAdds(t, n), NEW i \in Positions'
    PROVE  /\ i \in Nat /\ Len(file) \in Nat /\ Len(file') = Len(file) + n
           /\ \/ i \in Positions /\ file'[i] = file[i]
              \/ \E k \in 1..n : i = Len(file) + k /\ file'[i] = APiece(record[t], written[t] + k)
<1>1. Len(file) \in Nat /\ Len(file') = Len(file) + n
  BY DEF Typed, TypeOK, WriteAdds
<1>2. i \in 1..(Len(file) + n)
  BY <1>1 DEF Positions
<1>3. CASE i <= Len(file)
  BY <1>1, <1>2, <1>3 DEF Positions, WriteAdds
<1>4. CASE i > Len(file)
  <2>1. i - Len(file) \in 1..n /\ i = Len(file) + (i - Len(file))
    BY <1>1, <1>2, <1>4
  <2> QED BY <1>1, <1>2, <2>1 DEF WriteAdds
<1> QED BY <1>1, <1>2, <1>3, <1>4

\* The events at those positions.
LEMMA WriteEvents ==
    ASSUME Typed, NEW t \in Threads, NEW n \in 1..3, WriteAdds(t, n), NEW i \in Positions'
    PROVE  /\ i \in Nat
           /\ \/ i \in Positions /\ file'[i] = file[i]
              \/ i > Len(file) /\ file'[i].event = record[t]
<1>1. /\ i \in Nat /\ Len(file) \in Nat
      /\ \/ i \in Positions /\ file'[i] = file[i]
         \/ \E k \in 1..n : i = Len(file) + k /\ file'[i] = APiece(record[t], written[t] + k)
  BY WritePositions
<1>2. ASSUME NEW k \in 1..n, i = Len(file) + k, file'[i] = APiece(record[t], written[t] + k)
      PROVE  i > Len(file) /\ file'[i].event = record[t]
  <2>1. file'[i].event = record[t]
    BY <1>2 DEF APiece
  <2> QED BY <1>1, <1>2, <2>1
<1> QED BY <1>1, <1>2

\* The new pieces go on where the holder's last one ends.
LEMMA WriteContiguous ==
    ASSUME Typed, Shape, NEW t \in Threads, Write(t)
    PROVE  Contiguous'
<1>1. pc[t] = "writing" /\ pc' = pc /\ record' = record /\ lost' = lost
  BY DEF Write, ghosts
<1>2. PICK n \in 1..(3 - written[t]) : WriteAdds(t, n)
  BY WriteFacts
<1>3. written[t] \in 0..3 /\ n \in 1..3 /\ Len(file) \in Nat /\ Len(file') = Len(file) + n
  BY <1>2 DEF Typed, TypeOK, WriteAdds
<1>4. written[t] > 0 => Len(file) \in Positions /\ file[Len(file)] = APiece(record[t], written[t])
  <2> SUFFICES ASSUME written[t] > 0
               PROVE  Len(file) \in Positions /\ file[Len(file)] = APiece(record[t], written[t])
    OBVIOUS
  <2>1. written[t] <= Len(file)
        /\ \A k \in 1..written[t] : file[Len(file) - written[t] + k] = APiece(record[t], k)
    BY <1>1 DEF Shape, TailIsHolders
  <2>2. written[t] \in 1..written[t] /\ Len(file) - written[t] + written[t] = Len(file)
    BY <1>3
  <2>3. file[Len(file) - written[t] + written[t]] = APiece(record[t], written[t])
    BY <2>1, <2>2
  <2> QED BY <1>3, <2>1, <2>2, <2>3 DEF Positions
<1>5. ASSUME NEW i \in Positions', file'[i].part > 1
      PROVE  i > 1 /\ file'[i - 1] = APiece(file'[i].event, file'[i].part - 1)
  <2>1. CASE i \in Positions /\ file'[i] = file[i]
    <3>1. i > 1 /\ file[i - 1] = APiece(file[i].event, file[i].part - 1)
      BY <1>5, <2>1 DEF Shape, Contiguous
    <3>2. i - 1 \in Positions
      BY <1>3, <2>1, <3>1 DEF Positions
    <3> QED BY <1>2, <2>1, <3>1, <3>2 DEF WriteAdds
  <2>2. CASE \E k \in 1..n : i = Len(file) + k /\ file'[i] = APiece(record[t], written[t] + k)
    <3>1. PICK k \in 1..n : i = Len(file) + k /\ file'[i] = APiece(record[t], written[t] + k)
      BY <2>2
    <3>2. file'[i].event = record[t] /\ file'[i].part = written[t] + k
      BY <3>1 DEF APiece
    <3>3. file'[i].part - 1 = written[t] + k - 1
      BY <1>3, <3>2
    <3>4. CASE k = 1
      <4>1. written[t] > 0 /\ i - 1 = Len(file) /\ written[t] + k - 1 = written[t]
        BY <1>3, <1>5, <3>1, <3>2, <3>4
      <4>2. file'[i - 1] = APiece(record[t], written[t]) /\ i > 1
        BY <1>2, <1>3, <1>4, <3>1, <4>1 DEF WriteAdds, Positions
      <4> QED BY <3>2, <3>3, <4>1, <4>2
    <3>5. CASE k > 1
      <4>1. k - 1 \in 1..n /\ i - 1 = Len(file) + (k - 1) /\ i > 1
            /\ written[t] + (k - 1) = written[t] + k - 1
        BY <1>3, <3>1, <3>5
      <4>2. file'[i - 1] = APiece(record[t], written[t] + (k - 1))
        BY <1>2, <4>1 DEF WriteAdds
      <4> QED BY <3>2, <3>3, <4>1, <4>2
    <3> QED BY <1>3, <3>4, <3>5
  <2> QED BY <1>2, <1>3, <2>1, <2>2, WritePositions
<1>6. ASSUME NEW i \in Positions', file'[i].part < 3, file'[i].event \notin lost
      PROVE  \/ i < Len(file') /\ file'[i + 1] = APiece(file'[i].event, file'[i].part + 1)
             \/ i = Len(file') /\ \E u \in Threads : pc[u] = "writing" /\ record[u] = file'[i].event
  <2>1. CASE i \in Positions /\ file'[i] = file[i]
    <3>1. CASE i < Len(file) /\ file[i + 1] = APiece(file[i].event, file[i].part + 1)
      <4>1. i + 1 \in Positions
        BY <1>3, <2>1, <3>1 DEF Positions
      <4> QED BY <1>2, <1>3, <2>1, <3>1, <4>1 DEF WriteAdds, Positions
    <3>2. CASE i = Len(file) /\ \E u \in Threads : pc[u] = "writing" /\ record[u] = file[i].event
      <4>1. record[t] = file[i].event
        BY <1>1, <3>2, OneWriter
      <4>2. written[t] > 0
        <5>1. i > Len(file) - written[t]
          BY <1>1, <2>1, <4>1 DEF Shape, TailIsHolders
        <5> QED BY <1>3, <3>2, <5>1
      <4>3. file[i].part = written[t]
        BY <1>4, <3>2, <4>2 DEF APiece
      <4>4. 1 \in 1..n /\ i < Len(file')
        BY <1>3, <3>2
      <4>5. file'[Len(file) + 1] = APiece(record[t], written[t] + 1)
        BY <1>2, <4>4 DEF WriteAdds
      <4> QED BY <2>1, <3>2, <4>1, <4>3, <4>4, <4>5
    <3> QED BY <1>6, <2>1, <3>1, <3>2 DEF Shape, Contiguous
  <2>2. CASE \E k \in 1..n : i = Len(file) + k /\ file'[i] = APiece(record[t], written[t] + k)
    <3>1. PICK k \in 1..n : i = Len(file) + k /\ file'[i] = APiece(record[t], written[t] + k)
      BY <2>2
    <3>2. file'[i].event = record[t] /\ file'[i].part = written[t] + k
      BY <3>1 DEF APiece
    <3>3. CASE k = n
      BY <1>1, <1>3, <3>1, <3>2, <3>3
    <3>4. CASE k < n
      <4>1. k + 1 \in 1..n /\ i + 1 = Len(file) + (k + 1) /\ i < Len(file')
            /\ written[t] + (k + 1) = written[t] + k + 1
        BY <1>3, <3>1, <3>4
      <4>2. file'[i + 1] = APiece(record[t], written[t] + (k + 1))
        BY <1>2, <4>1 DEF WriteAdds
      <4> QED BY <3>2, <4>1, <4>2
    <3> QED BY <1>3, <3>3, <3>4
  <2> QED BY <1>2, <1>3, <2>1, <2>2, WritePositions
<1> QED BY <1>1, <1>5, <1>6 DEF Contiguous

LEMMA WriteTail ==
    ASSUME Typed, Shape, NEW t \in Threads, Write(t)
    PROVE  TailIsHolders'
<1>1. pc[t] = "writing" /\ pc' = pc /\ record' = record
  BY DEF Write
<1>2. PICK n \in 1..(3 - written[t]) : WriteAdds(t, n)
  BY WriteFacts
<1>3. written[t] \in 0..3 /\ n \in 1..3 /\ Len(file) \in Nat /\ Len(file') = Len(file) + n
      /\ written'[t] = written[t] + n
  BY <1>2 DEF Typed, TypeOK, WriteAdds
<1>4. /\ written[t] <= Len(file)
      /\ \A i \in Positions : file[i].event = record[t] <=> i > Len(file) - written[t]
      /\ \A k \in 1..written[t] : file[Len(file) - written[t] + k] = APiece(record[t], k)
  BY <1>1 DEF Shape, TailIsHolders
<1>5. Len(file') - written'[t] = Len(file) - written[t] /\ written'[t] <= Len(file')
  BY <1>3, <1>4
<1>6. \A i \in Positions' : file'[i].event = record[t] <=> i > Len(file) - written[t]
  <2> TAKE i \in Positions'
  <2>1. CASE i \in Positions /\ file'[i] = file[i]
    BY <1>4, <2>1
  <2>2. CASE \E k \in 1..n : i = Len(file) + k /\ file'[i] = APiece(record[t], written[t] + k)
    BY <1>3, <2>2 DEF APiece
  <2> QED BY <1>2, <1>3, <2>1, <2>2, WritePositions
<1>7. \A k \in 1..written'[t] : file'[Len(file) - written[t] + k] = APiece(record[t], k)
  <2> TAKE k \in 1..written'[t]
  <2>1. CASE k <= written[t]
    <3>1. k \in 1..written[t] /\ Len(file) - written[t] + k \in Positions
      BY <1>3, <1>4, <2>1 DEF Positions
    <3> QED BY <1>2, <1>4, <3>1 DEF WriteAdds
  <2>2. CASE k > written[t]
    <3>1. k - written[t] \in 1..n /\ Len(file) - written[t] + k = Len(file) + (k - written[t])
          /\ written[t] + (k - written[t]) = k
      BY <1>3, <2>2
    <3>2. file'[Len(file) + (k - written[t])] = APiece(record[t], written[t] + (k - written[t]))
      BY <1>2, <3>1 DEF WriteAdds
    <3> QED BY <3>1, <3>2
  <2> QED BY <1>3, <2>1, <2>2
<1>8. \A u \in Threads : pc[u] = "writing" => u = t
  BY <1>1, OneWriter
<1> QED BY <1>1, <1>5, <1>6, <1>7, <1>8 DEF TailIsHolders

LEMMA WriteLines ==
    ASSUME Typed, Shape, NEW t \in Threads, Write(t)
    PROVE  LinesBegin'
<1>1. PICK n \in 1..(3 - written[t]) : WriteAdds(t, n)
  BY WriteFacts
<1>2. written[t] \in 0..3 /\ n \in 1..3 /\ written[t] + n <= 3 /\ Len(file) \in Nat
      /\ Len(file') = Len(file) + n
  BY <1>1 DEF Typed, TypeOK, WriteAdds
<1> SUFFICES ASSUME NEW i \in Positions'
             PROVE  \E s \in 1..i : /\ s = 1 \/ file'[s - 1].part = 3
                                    /\ \A k \in s..(i - 1) : file'[k].part # 3
  BY DEF LinesBegin
<1>3. CASE i \in Positions /\ file'[i] = file[i]
  <2>1. PICK s \in 1..i : /\ s = 1 \/ file[s - 1].part = 3
                          /\ \A k \in s..(i - 1) : file[k].part # 3
    BY <1>3 DEF Shape, LinesBegin
  <2>2. \A k \in s..(i - 1) : k \in Positions
    BY <1>2, <1>3 DEF Positions
  <2>3. s # 1 => s - 1 \in Positions
    BY <1>2, <1>3 DEF Positions
  <2> QED BY <1>1, <2>1, <2>2, <2>3 DEF WriteAdds
<1>4. ASSUME NEW m \in 1..n, i = Len(file) + m
      PROVE  \E s \in 1..i : /\ s = 1 \/ file'[s - 1].part = 3
                             /\ \A k \in s..(i - 1) : file'[k].part # 3
  <2>1. \A k \in (Len(file) + 1)..(i - 1) : file'[k].part # 3
    <3> TAKE k \in (Len(file) + 1)..(i - 1)
    <3>1. k - Len(file) \in 1..n /\ k = Len(file) + (k - Len(file))
          /\ written[t] + (k - Len(file)) # 3
      BY <1>2, <1>4
    <3>2. file'[k] = APiece(record[t], written[t] + (k - Len(file)))
      BY <1>1, <3>1 DEF WriteAdds
    <3> QED BY <3>1, <3>2 DEF APiece
  <2>2. CASE Len(file) = 0
    <3>1. 1 \in 1..i /\ Len(file) + 1 = 1
      BY <1>2, <1>4, <2>2
    <3> QED BY <2>1, <3>1
  <2>3. CASE Len(file) > 0 /\ file[Len(file)].part = 3
    <3>1. Len(file) + 1 \in 1..i /\ Len(file) + 1 - 1 = Len(file) /\ Len(file) \in Positions
      BY <1>2, <1>4, <2>3 DEF Positions
    <3>2. file'[Len(file) + 1 - 1].part = 3
      BY <1>1, <2>3, <3>1 DEF WriteAdds
    <3> QED BY <2>1, <3>1, <3>2
  <2>4. CASE Len(file) > 0 /\ file[Len(file)].part # 3
    <3>1. Len(file) \in Positions
      BY <1>2, <2>4 DEF Positions
    <3>2. PICK s \in 1..Len(file) : /\ s = 1 \/ file[s - 1].part = 3
                                    /\ \A k \in s..(Len(file) - 1) : file[k].part # 3
      BY <3>1 DEF Shape, LinesBegin
    <3>3. \A k \in s..Len(file) : k \in Positions /\ file[k].part # 3
      <4> TAKE k \in s..Len(file)
      <4>1. k \in Positions /\ (k = Len(file) \/ k \in s..(Len(file) - 1))
        BY <1>2 DEF Positions
      <4> QED BY <2>4, <3>2, <4>1
    <3>4. \A k \in s..(i - 1) : file'[k].part # 3
      <4> TAKE k \in s..(i - 1)
      <4>1. k \in s..Len(file) \/ k \in (Len(file) + 1)..(i - 1)
        BY <1>2, <1>4
      <4>2. CASE k \in s..Len(file)
        BY <1>1, <3>3, <4>2 DEF WriteAdds
      <4> QED BY <2>1, <4>1, <4>2
    <3>5. s # 1 => s - 1 \in Positions
      BY <1>2 DEF Positions
    <3>6. s \in 1..i
      BY <1>2, <1>4
    <3> QED BY <1>1, <3>2, <3>4, <3>5, <3>6 DEF WriteAdds
  <2> QED BY <1>2, <2>2, <2>3, <2>4
<1> QED BY <1>1, <1>2, <1>3, <1>4, WritePositions

LEMMA WriteShape ==
    ASSUME Typed, Shape, NEW t \in Threads, Write(t)
    PROVE  Shape'
<1>1. PICK n \in 1..(3 - written[t]) : WriteAdds(t, n)
  BY WriteFacts
<1>2. ReturnedOnFile'
  <2>1. returned' = returned /\ lost' = lost /\ synced' = synced /\ use' = use
    BY DEF Write, ghosts
  <2>2. \A i \in Positions : i \in Positions' /\ file'[i] = file[i]
    BY <1>1 DEF WriteAdds, Positions, Typed, TypeOK
  <2>3. \A i \in 1..synced : i \in Positions
    BY DEF Typed, TypeOK, Positions
  <2> QED BY <2>1, <2>2, <2>3 DEF Shape, ReturnedOnFile
<1> QED BY <1>2, WriteContiguous, WriteTail, WriteLines DEF Shape

\* A crash makes what it cuts, and what was being written, lost.
LEMMA CrashLoses ==
    ASSUME Typed, Crash, NEW kept, CrashKeeps(kept)
    PROVE  /\ lost \subseteq lost'
           /\ \A i \in Positions : i > kept => file[i].event \in lost'
           /\ \A t \in Threads : pc[t] = "writing" => record[t] \in lost'
<1>1. lost' = lost \cup {record[t] : t \in {u \in Threads : pc[u] = "writing"}}
                   \cup {file[k].event : k \in (kept + 1)..Len(file)}
  BY DEF Crash, CrashKeeps
<1>2. \A i \in Positions : i > kept => i \in (kept + 1)..Len(file)
  BY DEF CrashKeeps, Positions, Typed, TypeOK
<1> QED BY <1>1, <1>2

LEMMA CrashShape ==
    ASSUME Typed, Shape, Crash
    PROVE  Shape'
<1>1. PICK kept : CrashKeeps(kept)
  BY CrashFacts
<1>2. kept \in Nat /\ kept <= Len(file) /\ Len(file) \in Nat /\ synced \in Nat /\ synced <= kept
      /\ Len(file') = kept
  BY <1>1 DEF CrashKeeps, Typed, TypeOK
<1>3. \A i \in Positions' : i \in Positions /\ i <= kept /\ file'[i] = file[i]
  BY <1>1, <1>2 DEF CrashKeeps, Positions
<1>4. \A t \in Threads : pc'[t] # "writing"
  BY DEF Crash
<1>5. Contiguous'
  <2>1. ASSUME NEW i \in Positions', file'[i].part > 1
        PROVE  i > 1 /\ file'[i - 1] = APiece(file'[i].event, file'[i].part - 1)
    <3>1. i > 1 /\ file[i - 1] = APiece(file[i].event, file[i].part - 1)
      BY <1>3, <2>1 DEF Shape, Contiguous
    <3>2. i - 1 \in Positions'
      BY <1>2, <2>1, <3>1 DEF Positions
    <3> QED BY <1>3, <3>1, <3>2
  <2>2. ASSUME NEW i \in Positions', file'[i].part < 3, file'[i].event \notin lost'
        PROVE  i < Len(file') /\ file'[i + 1] = APiece(file'[i].event, file'[i].part + 1)
    <3>1. i < Len(file) /\ file[i + 1] = APiece(file[i].event, file[i].part + 1)
      BY <1>1, <1>3, <2>2, CrashLoses DEF Shape, Contiguous
    <3>2. CASE i < kept
      <4>1. i + 1 \in Positions'
        BY <1>2, <3>2 DEF Positions
      <4> QED BY <1>2, <1>3, <3>1, <3>2, <4>1
    <3>3. CASE i = kept
      <4>1. i + 1 \in Positions /\ i + 1 > kept
        BY <1>2, <3>1, <3>3 DEF Positions
      <4>2. file[i].event \in lost'
        BY <1>1, <3>1, <4>1, CrashLoses DEF APiece
      <4> QED BY <1>3, <2>2, <4>2
    <3> QED BY <1>2, <1>3, <3>2, <3>3 DEF Positions
  <2> QED BY <2>1, <2>2 DEF Contiguous
<1>6. TailIsHolders'
  BY <1>4 DEF TailIsHolders
<1>7. LinesBegin'
  <2> SUFFICES ASSUME NEW i \in Positions'
               PROVE  \E s \in 1..i : /\ s = 1 \/ file'[s - 1].part = 3
                                      /\ \A k \in s..(i - 1) : file'[k].part # 3
    BY DEF LinesBegin
  <2>1. PICK s \in 1..i : /\ s = 1 \/ file[s - 1].part = 3
                          /\ \A k \in s..(i - 1) : file[k].part # 3
    BY <1>3 DEF Shape, LinesBegin
  <2>2. \A k \in s..(i - 1) : k \in Positions'
    BY <1>2 DEF Positions
  <2>3. s # 1 => s - 1 \in Positions'
    BY <1>2 DEF Positions
  <2> QED BY <1>3, <2>1, <2>2, <2>3
<1>8. ReturnedOnFile'
  <2> SUFFICES ASSUME NEW e \in returned
               PROVE  /\ e \notin lost' => \E i \in Positions' : file'[i] = APiece(e, 3)
                      /\ use.fsync => \E i \in 1..synced' : file'[i] = APiece(e, 3)
    BY DEF Crash, ReturnedOnFile
  <2>1. ASSUME e \notin lost'
        PROVE  \E i \in Positions' : file'[i] = APiece(e, 3)
    <3>1. PICK i \in Positions : file[i] = APiece(e, 3)
      BY <1>1, <2>1, CrashLoses DEF Shape, ReturnedOnFile
    <3>2. ~(i > kept)
      BY <1>1, <2>1, <3>1, CrashLoses DEF APiece
    <3>3. i \in Positions'
      BY <1>2, <3>2 DEF Positions
    <3> QED BY <1>3, <3>1, <3>3
  <2>2. ASSUME use.fsync
        PROVE  \E i \in 1..synced' : file'[i] = APiece(e, 3)
    <3>1. PICK i \in 1..synced : file[i] = APiece(e, 3)
      BY <2>2 DEF Shape, ReturnedOnFile
    <3>2. synced' = kept
      BY <1>1 DEF CrashKeeps
    <3>3. i \in 1..synced' /\ i \in Positions'
      BY <1>2, <3>2 DEF Positions
    <3> QED BY <1>3, <3>1, <3>3
  <2> QED BY <2>1, <2>2
<1> QED BY <1>5, <1>6, <1>7, <1>8 DEF Shape

LEMMA InitShape == Init => Shape
<1> SUFFICES ASSUME Init PROVE Shape
  OBVIOUS
<1>1. Positions = {} /\ returned = {} /\ \A t \in Threads : pc[t] = "idle"
  BY DEF Init, Positions
<1> QED BY <1>1 DEF Shape, Contiguous, TailIsHolders, LinesBegin, ReturnedOnFile

LEMMA NextShape == Typed /\ Shape /\ [Next]_vars => Shape'
<1> SUFFICES ASSUME Typed, Shape, [Next]_vars PROVE Shape'
  OBVIOUS
<1>1. ASSUME NEW t \in Threads, PassClosedCheck(t) \/ Step(t) PROVE Shape'
  BY <1>1, CheckShape, TakeShape, WriteShape, LeaveShape DEF Step
<1>2. CASE Flush \/ Close
  BY <1>2, SyncShape
<1>3. CASE Crash
  BY <1>3, CrashShape
<1>4. CASE Open
  BY <1>4, OpenShape
<1>5. CASE UNCHANGED vars
  BY <1>5 DEF vars, process, ghosts, Shape, Contiguous, TailIsHolders, LinesBegin,
              ReturnedOnFile, Positions
<1> QED BY <1>1, <1>2, <1>3, <1>4, <1>5 DEF Next

LEMMA AlwaysShape == Spec => []Shape
<1>1. Init => Typed /\ Shape
  BY InitTyped, InitShape
<1>2. (Typed /\ Shape) /\ [Next]_vars => (Typed /\ Shape)'
  BY NextTyped, NextShape
<1> QED BY <1>1, <1>2, PTL DEF Spec

-----------------------------------------------------------------------------
(* What a reader of the file may count on.                                 *)

\* Of an event that ends on file all pieces are there, one after the other.
LEMMA EndHasAll ==
    ASSUME Typed, Shape, NEW e, NEW i \in Positions, file[i] = APiece(e, 3)
    PROVE  /\ i - 1 \in Positions /\ i - 2 \in Positions
           /\ file[i - 1] = APiece(e, 2) /\ file[i - 2] = APiece(e, 1)
<1>1. Len(file) \in Nat /\ i \in Nat
  BY DEF Typed, TypeOK, Positions
<1>2. file[i].part = 3 /\ file[i].event = e
  BY DEF APiece
<1>3. i > 1 /\ file[i - 1] = APiece(e, 3 - 1)
  BY <1>2 DEF Shape, Contiguous
<1>4. i - 1 \in Positions /\ file[i - 1] = APiece(e, 2)
  BY <1>1, <1>3 DEF Positions
<1>5. file[i - 1].part = 2 /\ file[i - 1].event = e
  BY <1>4 DEF APiece
<1>6. i - 1 > 1 /\ file[i - 1 - 1] = APiece(e, 2 - 1)
  BY <1>4, <1>5 DEF Shape, Contiguous
<1>7. i - 2 \in Positions /\ i - 1 - 1 = i - 2 /\ 2 - 1 = 1
  BY <1>1, <1>6 DEF Positions
<1>8. file[i - 2] = APiece(e, 1)
  BY <1>6, <1>7
<1> QED BY <1>4, <1>7, <1>8

LEMMA ShapeSurvives == Typed /\ Shape => ReturnedSurvives
<1> SUFFICES ASSUME Typed, Shape, use.fsync, NEW e \in returned, NEW p \in 1..3
             PROVE  \E i \in 1..Len(file) : file[i] = [event |-> e, part |-> p]
  BY DEF ReturnedSurvives
<1>1. PICK i \in 1..synced : file[i] = APiece(e, 3)
  BY DEF Shape, ReturnedOnFile
<1>2. i \in Positions
  BY DEF Typed, TypeOK, Positions
<1>3. /\ i - 1 \in Positions /\ i - 2 \in Positions
      /\ file[i - 1] = APiece(e, 2) /\ file[i - 2] = APiece(e, 1)
  BY <1>1, <1>2, EndHasAll
<1>4. p = 1 \/ p = 2 \/ p = 3
  OBVIOUS
<1>5. \E k \in Positions : file[k] = APiece(e, p)
  BY <1>1, <1>2, <1>3, <1>4
<1> QED BY <1>5 DEF APiece, Positions

\* A line is one whole event, or is still being written, or has a piece of an
\* event that was lost.
LEMMA LinesWhole ==
    ASSUME Typed, Shape, NEW line \in Lines(file),
           \A k \in line[1]..line[2] : file[k].event \notin lost
    PROVE  Parses(file, line) \/ (line[2] = Len(file) /\ lock # NULL)
<1> DEFINE i == line[1]  j == line[2]  e == file[i].event
<1>1. i \in Positions /\ j \in Positions /\ i <= j /\ Len(file) \in Nat
      /\ (i = 1 \/ file[i - 1].part = 3) /\ (j = Len(file) \/ file[j].part = 3)
      /\ \A k \in i..(j - 1) : file[k].part # 3
  BY DEF Lines, Positions, Typed, TypeOK
<1>2. \A k \in i..j : k \in Positions /\ file[k].event \notin lost
  BY <1>1 DEF Positions
<1> HIDE DEF i, j
<1>3. file[i] = APiece(e, 1)
  <2>1. file[i].part \in 1..3 /\ file[i] \in Piece
    BY <1>1, PieceType
  <2>2. ~(file[i].part > 1)
    <3> SUFFICES ASSUME file[i].part > 1 PROVE FALSE
      OBVIOUS
    <3>1. i > 1 /\ file[i - 1] = APiece(file[i].event, file[i].part - 1)
      BY <1>1 DEF Shape, Contiguous
    <3>2. file[i - 1].part = file[i].part - 1
      BY <3>1 DEF APiece
    <3>3. file[i - 1].part = 3
      BY <1>1, <3>1
    <3> QED BY <2>1, <3>2, <3>3
  <2>3. file[i].part = 1
    BY <2>1, <2>2
  <2> QED BY <2>1, <2>3 DEF Piece, APiece
<1>4. \A k \in i..j : (file[k].part < 3 /\ k < Len(file)) =>
         file[k + 1] = APiece(file[k].event, file[k].part + 1)
  BY <1>1, <1>2 DEF Shape, Contiguous
<1>5. \A k \in i..j : (file[k].part < 3 /\ k = Len(file)) => lock # NULL
  BY <1>1, <1>2, ThreadsNull DEF Shape, Contiguous, Typed, Held
<1>6. i \in i..j /\ file[i].event = e /\ file[i].part = 1
  BY <1>1, <1>3 DEF APiece, Positions
<1> HIDE DEF e
<1>7. CASE i = j
  BY <1>1, <1>5, <1>6, <1>7 DEF j
<1>8. CASE i < j
  <2>1. file[i + 1] = APiece(e, 2) /\ i + 1 \in i..j /\ i < Len(file)
    <3>1. i < Len(file) /\ 1 + 1 = 2 /\ i + 1 \in i..j
      BY <1>1, <1>8 DEF Positions
    <3>2. file[i + 1] = APiece(e, 1 + 1)
      BY <1>1, <1>4, <1>6, <3>1
    <3> QED BY <3>1, <3>2
  <2>2. file[i + 1].event = e /\ file[i + 1].part = 2
    BY <2>1 DEF APiece
  <2>3. CASE j = i + 1
    <3>1. j = Len(file) /\ lock # NULL
      BY <1>1, <1>5, <2>1, <2>2, <2>3
    <3> QED BY <3>1 DEF j
  <2>4. CASE j > i + 1
    <3>1. file[i + 2] = APiece(e, 3) /\ i + 2 \in i..j
      <4>1. i + 1 < Len(file) /\ 2 + 1 = 3 /\ i + 1 + 1 = i + 2 /\ i + 2 \in i..j
        BY <1>1, <2>4 DEF Positions
      <4>2. file[i + 1 + 1] = APiece(e, 2 + 1)
        BY <1>4, <2>1, <2>2, <4>1
      <4> QED BY <4>1, <4>2
    <3>2. file[i + 2].part = 3
      BY <3>1 DEF APiece
    <3>3. j = i + 2
      <4>1. ~(i + 2 \in i..(j - 1))
        BY <1>1, <3>2
      <4> QED BY <1>1, <3>1, <4>1 DEF Positions
    <3>4. \A k \in i..j : file[k] = [event |-> file[i].event, part |-> k - i + 1]
      <4> TAKE k \in i..j
      <4>1. (k = i /\ k - i + 1 = 1) \/ (k = i + 1 /\ k - i + 1 = 2) \/ (k = i + 2 /\ k - i + 1 = 3)
        BY <1>1, <3>3 DEF Positions
      <4> QED BY <1>3, <1>6, <1>8, <2>1, <3>1, <4>1 DEF APiece
    <3>5. j - i \in {1, 2}
      BY <1>1, <3>3 DEF Positions
    <3>6. Parses(file, line)
      BY <3>4, <3>5 DEF Parses, i, j
    <3> QED BY <3>6
  <2> QED BY <1>1, <1>8, <2>3, <2>4 DEF Positions
<1> QED BY <1>1, <1>7, <1>8 DEF Positions

\* An event that was returned and not lost is read back, or stands behind a
\* piece of a lost one on its line.
LEMMA ReturnedReadBack ==
    ASSUME Typed, Shape, NEW e \in returned, e \notin lost, e \notin EventsRead(file)
    PROVE  \E line \in Lines(file) : \E j, k \in line[1]..line[2] :
              j < k /\ file[j].event \in lost /\ file[k].event = e
<1>1. PICK n \in Positions : file[n] = APiece(e, 3)
  BY DEF Shape, ReturnedOnFile
<1> DEFINE i == n - 2
<1>2. /\ n - 1 \in Positions /\ i \in Positions
      /\ file[n - 1] = APiece(e, 2) /\ file[i] = APiece(e, 1)
  BY <1>1, EndHasAll
<1>3. Len(file) \in Nat /\ n \in Nat /\ i \in Nat /\ n = i + 2 /\ n - 1 = i + 1
  BY <1>2 DEF Typed, TypeOK, Positions
<1>4. file[n].part = 3 /\ file[n - 1].part = 2 /\ file[i].part = 1
      /\ file[n].event = e /\ file[n - 1].event = e /\ file[i].event = e
  BY <1>1, <1>2 DEF APiece
<1>5. PICK s \in 1..i : /\ s = 1 \/ file[s - 1].part = 3
                        /\ \A k \in s..(i - 1) : file[k].part # 3
  BY <1>2 DEF Shape, LinesBegin
<1> HIDE DEF i
<1>6. <<s, n>> \in Lines(file)
  <2>1. s \in 1..Len(file) /\ n \in 1..Len(file) /\ s <= n
    BY <1>1, <1>3 DEF Positions
  <2>2. \A k \in s..(n - 1) : file[k].part # 3
    <3> TAKE k \in s..(n - 1)
    <3>1. k \in s..(i - 1) \/ k = i \/ k = n - 1
      BY <1>3
    <3> QED BY <1>4, <1>5, <3>1
  <2> QED BY <1>4, <1>5, <2>1, <2>2 DEF Lines
<1>7. CASE s = i
  <2>1. \A k \in s..n : file[k] = [event |-> file[s].event, part |-> k - s + 1]
    <3> TAKE k \in s..n
    <3>1. (k = i /\ k - s + 1 = 1) \/ (k = n - 1 /\ k - s + 1 = 2) \/ (k = n /\ k - s + 1 = 3)
      BY <1>3, <1>7
    <3> QED BY <1>1, <1>2, <1>4, <1>7, <3>1 DEF APiece
  <2>2. n - s \in {1, 2}
    BY <1>3, <1>7
  <2>3. Parses(file, <<s, n>>)
    BY <2>1, <2>2 DEF Parses
  <2>4. file[<<s, n>>[1]].event \in EventsRead(file)
    BY <1>6, <2>3 DEF EventsRead
  <2> QED BY <1>4, <1>7, <2>4
<1>8. CASE s # i
  <2>1. i - 1 \in s..(i - 1) /\ i - 1 \in Positions /\ i - 1 < Len(file) /\ i - 1 + 1 = i
    BY <1>2, <1>3, <1>8 DEF Positions
  <2>2. file[i - 1].part \in 1..3 /\ file[i - 1].part < 3
    <3>1. file[i - 1].part \in 1..3 /\ file[i - 1].part # 3
      BY <1>5, <2>1, PieceType
    <3> QED BY <3>1
  <2>3. file[i - 1].event \in lost
    <3>1. file[i] # APiece(file[i - 1].event, file[i - 1].part + 1)
      <4>1. file[i - 1].part + 1 # 1
        BY <2>2
      <4> QED BY <1>4, <4>1 DEF APiece
    <3> QED BY <2>1, <2>2, <3>1 DEF Shape, Contiguous
  <2>4. i - 1 \in s..n /\ i \in s..n /\ i - 1 < i
    BY <1>3, <2>1
  <2> WITNESS <<s, n>> \in Lines(file)
  <2> QED BY <1>4, <2>3, <2>4
<1> QED BY <1>7, <1>8

\* Concurrent appends never interleave, and failures and crashes damage no line
\* but those with a piece of a lost event (AppendOnlyJsonlLogger.append).
THEOREM LinesAreWhole == Spec => []WholeLines
<1>1. Typed /\ Shape => WholeLines
  <2> SUFFICES ASSUME Typed, Shape PROVE WholeLines
    OBVIOUS
  <2>1. ASSUME NEW line \in Lines(file)
        PROVE  \/ Parses(file, line)
               \/ line[2] = Len(file) /\ lock # NULL
               \/ \E k \in line[1]..line[2] : file[k].event \in lost
    BY <2>1, LinesWhole
  <2>2. ASSUME NEW e \in returned \ (EventsRead(file) \cup lost)
        PROVE  \E line \in Lines(file) : \E j, k \in line[1]..line[2] :
                  j < k /\ file[j].event \in lost /\ file[k].event = e
    BY <2>2, ReturnedReadBack
  <2> QED BY <2>1, <2>2 DEF WholeLines
<1> QED BY <1>1, AlwaysTyped, AlwaysShape, PTL

\* No crash and no power loss takes from the disk what a synchronous append()
\* returned (fsync=True, the benchmark runner).
THEOREM ReturnedIsDurable == Spec => []ReturnedSurvives
BY ShapeSurvives, AlwaysTyped, AlwaysShape, PTL

-----------------------------------------------------------------------------
(* The sequence numbers.                                                   *)

LEMMA InitGrow == Init => NumbersGrow
BY DEF Init, NumbersGrow, SeqIncreasing, Positions

\* A step that leaves the file and the numbers alone, and the lock or lets it go.
LEMMA QuietGrow ==
    ASSUME Typed, NumbersGrow, file' = file, seq' = seq, instance' = instance,
           up' => up,
           \/ lock' = lock /\ record' = record
           \/ lock' = NULL
    PROVE  NumbersGrow'
BY DEF NumbersGrow, SeqIncreasing, Positions

LEMMA TakeGrow ==
    ASSUME Typed, NumbersGrow, NEW t \in Threads, TakeLock(t)
    PROVE  NumbersGrow'
<1>1. file' = file /\ instance' = instance /\ seq' = seq + 1 /\ seq \in Nat /\ up
  BY DEF TakeLock, Typed, TypeOK, Held
<1>2. \A i \in Positions : file[i].event.instance = instance =>
         file[i].event.seq <= seq + 1 /\ file[i].event.seq < seq + 1
  BY <1>1, PieceType DEF NumbersGrow
<1>3. SeqIncreasing'
  BY <1>1 DEF NumbersGrow, SeqIncreasing
<1> QED BY <1>1, <1>2, <1>3 DEF NumbersGrow, Positions

LEMMA WriteGrow ==
    ASSUME Typed, NumbersGrow, NEW t \in Threads, Write(t)
    PROVE  NumbersGrow'
<1>1. pc[t] = "writing" /\ lock = t /\ t # NULL /\ up
      /\ record[t] = [instance |-> instance, seq |-> seq, call |-> calls]
  BY ThreadsNull DEF Write, Typed, Held
<1>2. UNCHANGED <<up, instance, seq, lock, record>>
  BY DEF Write
<1>3. PICK n \in 1..(3 - written[t]) : WriteAdds(t, n)
  BY WriteFacts
<1>4. n \in 1..3 /\ Len(file) \in Nat /\ seq \in Nat
  BY <1>3 DEF Typed, TypeOK
<1>5. \A i \in Positions' :
         /\ i \in Nat
         /\ \/ i \in Positions /\ file'[i] = file[i]
            \/ i > Len(file) /\ file'[i].event = record[t]
  BY <1>3, <1>4, WriteEvents
<1>6. SeqIncreasing'
  <2> SUFFICES ASSUME NEW i \in Positions', NEW j \in Positions', i < j,
                      file'[i].event.instance = file'[j].event.instance,
                      file'[i].event # file'[j].event
               PROVE  file'[i].event.seq < file'[j].event.seq
    BY DEF SeqIncreasing, Positions
  <2>1. CASE j \in Positions /\ file'[j] = file[j]
    <3>1. i \in Positions /\ file'[i] = file[i]
      BY <1>4, <1>5, <2>1 DEF Positions
    <3> QED BY <2>1, <3>1 DEF NumbersGrow, SeqIncreasing, Positions
  <2>2. CASE j > Len(file) /\ file'[j].event = record[t]
    <3>1. i \in Positions /\ file'[i] = file[i]
      BY <1>5, <2>2
    <3>2. file[i].event.instance = instance /\ file[i].event # record[t]
      BY <1>1, <2>2, <3>1
    <3>3. file[i].event.seq < seq
      BY <1>1, <3>1, <3>2 DEF NumbersGrow
    <3> QED BY <1>1, <2>2, <3>1, <3>3
  <2> QED BY <1>5, <2>1, <2>2
<1>7. \A i \in Positions' : file'[i].event.instance = instance =>
         file'[i].event.seq <= seq /\ (file'[i].event = record[t] \/ file'[i].event.seq < seq)
  <2> TAKE i \in Positions'
  <2>1. CASE i \in Positions /\ file'[i] = file[i]
    BY <1>1, <2>1 DEF NumbersGrow
  <2>2. CASE file'[i].event = record[t]
    BY <1>1, <1>4, <2>2
  <2> QED BY <1>5, <2>1, <2>2
<1> QED BY <1>1, <1>2, <1>6, <1>7 DEF NumbersGrow

LEMMA CrashGrow ==
    ASSUME Typed, NumbersGrow, Crash
    PROVE  NumbersGrow'
<1>1. PICK kept : CrashKeeps(kept)
  BY CrashFacts
<1>2. \A i \in Positions' : i \in Positions /\ file'[i] = file[i]
  BY <1>1 DEF CrashKeeps, Positions, Typed, TypeOK
<1> QED BY <1>2 DEF Crash, NumbersGrow, SeqIncreasing, Positions

\* A new id has no events on file; a writer that resumes an id has read the
\* whole trace and goes on from the last number of its own.
LEMMA OpenGrow ==
    ASSUME Typed, NumbersGrow, Open
    PROVE  NumbersGrow'
<1>1. file' = file /\ lock = NULL /\ lock' = NULL /\ use' = use /\ use \in Uses
  BY DEF Open, Typed, TypeOK, Held
<1>2. SeqIncreasing'
  BY <1>1 DEF NumbersGrow, SeqIncreasing
<1>3. ASSUME NEW i \in Positions, file[i].event.instance = instance'
      PROVE  file[i].event.seq <= seq'
  <2>1. use.stableId
    <3> SUFFICES ASSUME ~use.stableId PROVE FALSE
      OBVIOUS
    <3>1. instance' = instance + 1 /\ instance \in Nat
      BY DEF Open, Typed, TypeOK
    <3>2. file[i].event.instance <= instance
      BY DEF Typed, FileCounted
    <3> QED BY <1>3, <3>1, <3>2
  <2>2. TraceParses(file) /\ instance' = instance
    BY <1>1, <2>1, EventLogAssumption DEF Open
  <2>3. i \in Nat /\ Len(file) \in Nat /\ Len(file) \in Positions /\ file # <<>> /\ i <= Len(file)
    BY PieceType DEF Positions
  <2>4. file[Len(file)].event.instance = instance
    BY <2>1, <2>3 DEF Typed, FileCounted
  <2>5. seq' = file[Len(file)].event.seq
    BY <2>2, <2>3, <2>4 DEF Open, ResumeSeq
  <2>6. CASE file[i].event = file[Len(file)].event
    <3>1. file[i].event.seq \in Nat
      BY PieceType
    <3> QED BY <2>5, <2>6, <3>1
  <2>7. CASE file[i].event # file[Len(file)].event
    <3>1. i < Len(file)
      BY <2>3, <2>7
    <3>2. file[i].event.seq < file[Len(file)].event.seq
      BY <1>3, <2>2, <2>3, <2>4, <2>7, <3>1 DEF NumbersGrow, SeqIncreasing, Positions
    <3>3. file[i].event.seq \in Nat /\ file[Len(file)].event.seq \in Nat
      BY <2>3, PieceType
    <3> QED BY <2>5, <3>2, <3>3
  <2> QED BY <2>6, <2>7
<1> QED BY <1>1, <1>2, <1>3 DEF NumbersGrow, Positions

LEMMA NextGrow == Typed /\ NumbersGrow /\ [Next]_vars => NumbersGrow'
<1> SUFFICES ASSUME Typed, NumbersGrow, [Next]_vars PROVE NumbersGrow'
  OBVIOUS
<1>1. ASSUME NEW t \in Threads, PassClosedCheck(t) PROVE NumbersGrow'
  BY <1>1, QuietGrow DEF PassClosedCheck
<1>2. ASSUME NEW t \in Threads, Step(t) PROVE NumbersGrow'
  <2>1. CASE TakeLock(t)
    BY <2>1, TakeGrow
  <2>2. CASE Write(t)
    BY <2>2, WriteGrow
  <2>3. CASE WriteRaises(t) \/ Return(t) \/ SyncRaises(t)
    BY <2>3, QuietGrow DEF WriteRaises, Return, SyncRaises, ReleaseLock
  <2> QED BY <1>2, <2>1, <2>2, <2>3 DEF Step
<1>3. CASE Flush \/ Close
  BY <1>3, QuietGrow DEF Flush, Close, process
<1>4. CASE Crash
  BY <1>4, CrashGrow
<1>5. CASE Open
  BY <1>5, OpenGrow
<1>6. CASE UNCHANGED vars
  BY <1>6, QuietGrow DEF vars, process
<1> QED BY <1>1, <1>2, <1>3, <1>4, <1>5, <1>6 DEF Next

LEMMA AlwaysGrow == Spec => []NumbersGrow
<1>1. Init => Typed /\ NumbersGrow
  BY InitTyped, InitGrow
<1>2. (Typed /\ NumbersGrow) /\ [Next]_vars => (Typed /\ NumbersGrow)'
  BY NextTyped, NextGrow
<1> QED BY <1>1, <1>2, PTL DEF Spec

\* Along the file the numbers of one writer id only grow, also when the id is
\* resumed on a trace a crash has cut (AppendOnlyJsonlLogger.__init__, append).
THEOREM NumbersIncrease == Spec => []SeqIncreasing
<1>1. NumbersGrow => SeqIncreasing
  BY DEF NumbersGrow
<1> QED BY <1>1, AlwaysGrow, PTL

-----------------------------------------------------------------------------
(* The gaps.                                                               *)

\* All that is known of an event stays known, and what is lost stays lost.
LEMMA KnownWrites ==
    ASSUME Typed, NEW t \in Threads, pc[t] = "writing"
    PROVE  Known = lost \cup FileEvents \cup {record[t]}
<1>1. {u \in Threads : pc[u] = "writing"} = {t}
  BY OneWriter
<1> QED BY <1>1 DEF Known

LEMMA InitExplained == Init => Explained
BY DEF Init, Explained, GapsExplained, NumbersUsed

\* A step that adds no event to the file and no number keeps gaps explained if
\* it forgets no event.
LEMMA QuietExplained ==
    ASSUME Typed, Explained, file' = file, seq' = seq, instance' = instance, up' => up,
           lost \subseteq lost', Known \subseteq Known'
    PROVE  Explained'
<1>1. GapsExplained'
  BY DEF Explained, GapsExplained
<1>2. NumbersUsed'
  BY DEF Explained, NumbersUsed
<1> QED BY <1>1, <1>2 DEF Explained

LEMMA TakeExplained ==
    ASSUME Typed, Explained, NEW t \in Threads, TakeLock(t)
    PROVE  Explained'
<1>1. file' = file /\ lost' = lost /\ seq' = seq + 1 /\ instance' = instance /\ seq \in Nat /\ up
      /\ up' = up
  BY DEF TakeLock, Typed, TypeOK, Held
<1>2. GapsExplained'
  BY <1>1 DEF Explained, GapsExplained
<1>3. pc'[t] = "writing" /\ record'[t].instance = instance /\ record'[t].seq = seq + 1
  BY DEF TakeLock, Typed, TypeOK
<1>4. record'[t] \in Known'
  BY <1>3 DEF Known
<1>5. Known \subseteq Known'
  <2>1. \A u \in Threads : pc[u] # "writing"
    BY ThreadsNull DEF TakeLock, LockFree, Typed, Held
  <2>2. Known = lost \cup FileEvents
    BY <2>1 DEF Known
  <2> QED BY <1>1, <2>2 DEF Known, FileEvents, Positions
<1>6. NumbersUsed'
  <2> SUFFICES ASSUME NEW s \in 1..(seq + 1)
               PROVE  \E e \in Known' : e.instance = instance /\ e.seq = s
    BY <1>1 DEF NumbersUsed
  <2>1. CASE s = seq + 1
    BY <1>3, <1>4, <2>1
  <2>2. CASE s \in 1..seq
    BY <1>1, <1>5, <2>2 DEF Explained, NumbersUsed
  <2> QED BY <1>1, <2>1, <2>2
<1> QED BY <1>2, <1>6 DEF Explained

LEMMA WriteExplained ==
    ASSUME Typed, Explained, NEW t \in Threads, Write(t)
    PROVE  Explained'
<1>1. pc[t] = "writing" /\ up /\ record[t].instance = instance /\ record[t].seq = seq
  BY DEF Write, Typed, Held
<1>2. UNCHANGED <<up, instance, seq, pc, record, lost>>
  BY DEF Write, ghosts
<1>3. PICK n \in 1..(3 - written[t]) : WriteAdds(t, n)
  BY WriteFacts
<1>4. n \in 1..3 /\ Len(file) \in Nat /\ seq \in Nat
  BY <1>3 DEF Typed, TypeOK
<1>5. \A i \in Positions' : (i \in Positions /\ file'[i] = file[i]) \/ file'[i].event = record[t]
  BY <1>3, <1>4, WriteEvents
<1>6. FileEvents \subseteq FileEvents'
  <2>1. \A i \in Positions : i \in Positions' /\ file'[i] = file[i]
    BY <1>3, <1>4 DEF WriteAdds, Positions
  <2> QED BY <2>1 DEF FileEvents
<1>7. GapsExplained'
  <2> SUFFICES ASSUME NEW i \in Positions', NEW s \in 1..(file'[i].event.seq - 1)
               PROVE  \E e \in lost \cup FileEvents' :
                         e.instance = file'[i].event.instance /\ e.seq = s
    BY <1>2 DEF GapsExplained, FileEvents, Positions
  <2>1. CASE i \in Positions /\ file'[i] = file[i]
    <3>1. \E e \in lost \cup FileEvents : e.instance = file[i].event.instance /\ e.seq = s
      BY <2>1 DEF Explained, GapsExplained, FileEvents, Positions
    <3> QED BY <1>6, <2>1, <3>1
  <2>2. CASE file'[i].event = record[t]
    <3>1. s \in 1..seq /\ s # seq
      BY <1>1, <1>4, <2>2
    <3>2. PICK e \in Known : e.instance = instance /\ e.seq = s
      BY <1>1, <3>1 DEF Explained, NumbersUsed
    <3>3. e \in lost \cup FileEvents
      BY <1>1, <3>1, <3>2, KnownWrites
    <3> QED BY <1>1, <1>6, <2>2, <3>2, <3>3
  <2> QED BY <1>5, <2>1, <2>2
<1>8. Known \subseteq Known'
  BY <1>2, <1>6 DEF Known
<1>9. NumbersUsed'
  BY <1>2, <1>8 DEF Explained, NumbersUsed
<1> QED BY <1>7, <1>9 DEF Explained

LEMMA LeaveExplained ==
    ASSUME Typed, Shape, Explained, NEW t \in Threads, WriteRaises(t) \/ Return(t) \/ SyncRaises(t)
    PROVE  Explained'
<1> USE DEF WriteRaises, Return, SyncRaises, Leave, ReleaseLock
<1>1. pc[t] = "writing" /\ file' = file /\ seq' = seq /\ instance' = instance /\ up' = up
      /\ lost \subseteq lost'
  OBVIOUS
<1>2. record[t] \in lost' \cup FileEvents
  <2>1. CASE Return(t)
    <3>1. written[t] = 3 /\ 3 <= Len(file) /\ Len(file) \in Nat
          /\ \A k \in 1..written[t] : file[Len(file) - written[t] + k] = APiece(record[t], k)
      <4>1. written[t] = 3
        BY <2>1
      <4>2. Len(file) \in Nat
        BY DEF Typed, TypeOK
      <4>3. written[t] <= Len(file)
            /\ \A k \in 1..written[t] : file[Len(file) - written[t] + k] = APiece(record[t], k)
        BY <1>1 DEF Shape, TailIsHolders
      <4> QED BY <4>1, <4>2, <4>3
    <3>2. 1 \in 1..3 /\ Len(file) - 3 + 1 \in Positions
      BY <3>1 DEF Positions
    <3>3. file[Len(file) - 3 + 1] = APiece(record[t], 1)
      BY <3>1, <3>2
    <3> QED BY <3>2, <3>3 DEF FileEvents, APiece
  <2>2. CASE WriteRaises(t) \/ SyncRaises(t)
    BY <2>2
  <2> QED BY <2>1, <2>2
<1>3. Known \subseteq Known'
  <2>1. FileEvents' = FileEvents
    BY <1>1 DEF FileEvents, Positions
  <2> QED BY <1>1, <1>2, <2>1, KnownWrites DEF Known
<1> QED BY <1>1, <1>3, QuietExplained

LEMMA CrashExplained ==
    ASSUME Typed, Explained, Crash
    PROVE  Explained'
<1>1. PICK kept : CrashKeeps(kept)
  BY CrashFacts
<1>2. \A i \in Positions' : i \in Positions /\ file'[i] = file[i]
  BY <1>1 DEF CrashKeeps, Positions, Typed, TypeOK
<1>3. lost \cup FileEvents \subseteq lost' \cup FileEvents'
  <2>1. \A i \in Positions : file[i].event \in lost' \cup FileEvents'
    <3> TAKE i \in Positions
    <3>1. CASE i > kept
      BY <1>1, <3>1, CrashLoses
    <3>2. CASE i <= kept
      <4>1. i \in Positions'
        BY <1>1, <3>2 DEF CrashKeeps, Positions, Typed, TypeOK
      <4> QED BY <1>2, <4>1 DEF FileEvents
    <3> QED BY <1>1, <3>1, <3>2 DEF CrashKeeps, Positions, Typed, TypeOK
  <2> QED BY <1>1, <2>1, CrashLoses DEF FileEvents
<1>4. GapsExplained'
  <2> SUFFICES ASSUME NEW i \in Positions', NEW s \in 1..(file'[i].event.seq - 1)
               PROVE  \E e \in lost' \cup FileEvents' :
                         e.instance = file'[i].event.instance /\ e.seq = s
    BY DEF GapsExplained, FileEvents, Positions
  <2>1. \E e \in lost \cup FileEvents : e.instance = file[i].event.instance /\ e.seq = s
    BY <1>2 DEF Explained, GapsExplained, FileEvents, Positions
  <2> QED BY <1>2, <1>3, <2>1
<1>5. NumbersUsed'
  BY DEF Crash, NumbersUsed
<1> QED BY <1>4, <1>5 DEF Explained

\* The numbers below the one a writer resumes from are those of an event on
\* file; a new id has used none.
LEMMA OpenExplained ==
    ASSUME Typed, Explained, Open
    PROVE  Explained'
<1>1. file' = file /\ lost' = lost
  BY DEF Open, ghosts
<1>2. GapsExplained'
  BY <1>1 DEF Explained, GapsExplained
<1>3. NumbersUsed'
  <2> SUFFICES ASSUME NEW s \in 1..seq'
               PROVE  \E e \in Known' : e.instance = instance' /\ e.seq = s
    BY DEF NumbersUsed
  <2>1. seq' = ResumeSeq(file, instance')
    BY DEF Open
  <2>2. CASE ResumeSeq(file, instance') = 0
    BY <2>1, <2>2
  <2>3. CASE /\ file # <<>> /\ Len(file) \in Positions
             /\ file[Len(file)].event.instance = instance'
             /\ ResumeSeq(file, instance') = file[Len(file)].event.seq
    <3>1. file[Len(file)].event \in FileEvents /\ file[Len(file)].event.seq \in Nat
      BY <2>3, PieceType DEF FileEvents
    <3>2. lost \cup FileEvents \subseteq Known'
      BY <1>1 DEF Known, FileEvents, Positions
    <3>3. CASE s = file[Len(file)].event.seq
      BY <2>3, <3>1, <3>2, <3>3
    <3>4. CASE s # file[Len(file)].event.seq
      <4>1. s \in 1..(file[Len(file)].event.seq - 1)
        BY <2>1, <2>3, <3>1, <3>4
      <4>2. \E e \in lost \cup FileEvents : e.instance = file[Len(file)].event.instance /\ e.seq = s
        BY <2>3, <4>1 DEF Explained, GapsExplained, FileEvents, Positions
      <4> QED BY <2>3, <3>2, <4>2
    <3> QED BY <3>3, <3>4
  <2> QED BY <2>2, <2>3, ResumeFacts
<1> QED BY <1>2, <1>3 DEF Explained

LEMMA NextExplained == Typed /\ Shape /\ Explained /\ [Next]_vars => Explained'
<1> SUFFICES ASSUME Typed, Shape, Explained, [Next]_vars PROVE Explained'
  OBVIOUS
<1>1. ASSUME NEW t \in Threads, PassClosedCheck(t) PROVE Explained'
  <2>1. Known' = Known
    BY <1>1 DEF PassClosedCheck, ghosts, Typed, TypeOK, Known, FileEvents, Positions
  <2> QED BY <1>1, <2>1, QuietExplained DEF PassClosedCheck, ghosts
<1>2. ASSUME NEW t \in Threads, Step(t) PROVE Explained'
  BY <1>2, TakeExplained, WriteExplained, LeaveExplained DEF Step
<1>3. CASE Flush \/ Close
  <2>1. Known' = Known
    BY <1>3 DEF Flush, Close, process, ghosts, Known, FileEvents, Positions
  <2> QED BY <1>3, <2>1, QuietExplained DEF Flush, Close, process, ghosts
<1>4. CASE Crash
  BY <1>4, CrashExplained
<1>5. CASE Open
  BY <1>5, OpenExplained
<1>6. CASE UNCHANGED vars
  <2>1. Known' = Known
    BY <1>6 DEF vars, process, ghosts, Known, FileEvents, Positions
  <2> QED BY <1>6, <2>1, QuietExplained DEF vars, process, ghosts
<1> QED BY <1>1, <1>2, <1>3, <1>4, <1>5, <1>6 DEF Next

\* A number missing on file below one that is there was that of an append()
\* that raised or was cut by a crash (the gaps analysis is to detect).
THEOREM GapsMeanLoss == Spec => []GapsExplained
<1>1. Init => Typed /\ Shape /\ Explained
  BY InitTyped, InitShape, InitExplained
<1>2. (Typed /\ Shape /\ Explained) /\ [Next]_vars => (Typed /\ Shape /\ Explained)'
  BY NextTyped, NextShape, NextExplained
<1>3. Explained => GapsExplained
  BY DEF Explained
<1> QED BY <1>1, <1>2, <1>3, PTL DEF Spec
-----------------------------------------------------------------------------
(* The file as a trace of whole events.                                    *)

LEMMA ReadableFinite ==
    ASSUME NEW f, NEW n \in Nat
    PROVE  IsFiniteSet(Readable(f, n)) /\ Whole(f, n) \in Nat
<1>1. IsFiniteSet(1..n) /\ Readable(f, n) \in SUBSET (1..n)
  BY FS_Interval DEF Readable
<1> QED BY <1>1, FS_Subset, FS_CardinalityType DEF Whole

\* More pieces complete no fewer events, and more if there is a newline.
LEMMA WholeGrows ==
    ASSUME NEW f, NEW m \in Nat, NEW n \in Nat, m <= n
    PROVE  /\ Whole(f, m) <= Whole(f, n)
           /\ (\E k \in (m + 1)..n : EndsReadable(f, k)) => Whole(f, m) < Whole(f, n)
           /\ (\A k \in (m + 1)..n : ~EndsReadable(f, k)) => Whole(f, n) = Whole(f, m)
<1>1. Readable(f, m) \in SUBSET Readable(f, n)
  BY DEF Readable
<1>2. /\ IsFiniteSet(Readable(f, n)) /\ IsFiniteSet(Readable(f, m))
      /\ Whole(f, m) \in Nat /\ Whole(f, n) \in Nat
  BY ReadableFinite
<1>3. Whole(f, m) <= Whole(f, n)
  BY <1>1, <1>2, FS_Subset DEF Whole
<1>4. ASSUME NEW k \in (m + 1)..n, EndsReadable(f, k)
      PROVE  Whole(f, m) < Whole(f, n)
  <2>1. k \in Readable(f, n) /\ k \notin Readable(f, m)
    BY <1>4 DEF Readable
  <2>2. Whole(f, m) # Whole(f, n)
    BY <1>1, <1>2, <2>1, FS_Subset DEF Whole
  <2> QED BY <1>2, <1>3, <2>2
<1>5. ASSUME \A k \in (m + 1)..n : ~EndsReadable(f, k)
      PROVE  Whole(f, n) = Whole(f, m)
  <2>1. Readable(f, n) = Readable(f, m)
    BY <1>5 DEF Readable
  <2> QED BY <2>1 DEF Whole
<1> QED BY <1>3, <1>4, <1>5

LEMMA WholeNone == ASSUME NEW f PROVE Whole(f, 0) = 0
<1>1. Readable(f, 0) = {}
  BY DEF Readable
<1> QED BY <1>1, FS_EmptySet DEF Whole

\* A newline is counted by a number of its own, and each number counts one.
LEMMA NthIs ==
    ASSUME NEW f, Len(f) \in Nat, NEW i \in Readable(f, Len(f))
    PROVE  Whole(f, i) \in 1..Whole(f, Len(f)) /\ Nth(f, Whole(f, i)) = i
<1>1. i \in 1..Len(f) /\ EndsReadable(f, i)
  BY DEF Readable
<1>2. Whole(f, i) \in Nat /\ Whole(f, Len(f)) \in Nat
  BY <1>1, ReadableFinite
<1>3. Whole(f, i) <= Whole(f, Len(f))
  BY <1>1, WholeGrows
<1>4. 0 < Whole(f, i)
  <2>1. i \in (0 + 1)..i
    BY <1>1
  <2>2. Whole(f, 0) < Whole(f, i)
    BY <1>1, <2>1, WholeGrows
  <2> QED BY <2>2, WholeNone
<1>5. ASSUME NEW j \in Readable(f, Len(f)), Whole(f, j) = Whole(f, i) PROVE j = i
  <2>1. j \in 1..Len(f) /\ EndsReadable(f, j)
    BY DEF Readable
  <2>2. CASE i < j
    <3>1. j \in (i + 1)..j
      BY <1>1, <2>1, <2>2
    <3>2. Whole(f, i) < Whole(f, j)
      BY <1>1, <2>1, <2>2, <3>1, WholeGrows
    <3> QED BY <1>2, <1>5, <3>2
  <2>3. CASE j < i
    <3>1. i \in (j + 1)..i
      BY <1>1, <2>1, <2>3
    <3>2. Whole(f, j) < Whole(f, i)
      BY <1>1, <2>1, <2>3, <3>1, WholeGrows
    <3> QED BY <1>2, <1>5, <3>2
  <2> QED BY <1>1, <2>1, <2>2, <2>3
<1> QED BY <1>2, <1>3, <1>4, <1>5 DEF Nth

LEMMA NthFound ==
    ASSUME NEW f, Len(f) \in Nat, NEW k \in 1..Whole(f, Len(f))
    PROVE  Nth(f, k) \in Readable(f, Len(f)) /\ Whole(f, Nth(f, k)) = k
<1> DEFINE ends == Readable(f, Len(f))
           numbers == 1..Whole(f, Len(f))
           g == [i \in ends |-> Whole(f, i)]
<1>1. Whole(f, Len(f)) \in Nat /\ IsFiniteSet(ends)
  BY ReadableFinite
<1>2. IsFiniteSet(numbers) /\ Cardinality(numbers) = Whole(f, Len(f))
  BY <1>1, FS_Interval
<1>3. g \in [ends -> numbers]
  BY NthIs
<1>4. \A i, j \in ends : g[i] = g[j] => i = j
  BY NthIs
<1>5. g \in Injection(ends, numbers)
  BY <1>3, <1>4 DEF Injection, IsInjective
<1>6. Cardinality(ends) = Cardinality(numbers)
  BY <1>2 DEF Whole
<1> HIDE DEF g
<1>7. g \in Surjection(ends, numbers)
  BY <1>2, <1>5, <1>6, FS_Injection
<1>8. \E i \in ends : Whole(f, i) = k
  BY <1>7 DEF Surjection, g
<1> QED BY <1>8 DEF Nth

\* Two files that agree on their first m pieces have the same whole events
\* there.
LEMMA SameBeginning ==
    ASSUME NEW f, NEW g, Len(f) \in Nat, Len(g) \in Nat,
           NEW m \in Nat, m <= Len(f), m <= Len(g), \A i \in 1..m : g[i] = f[i]
    PROVE  /\ \A k \in 1..m : EndsReadable(g, k) <=> EndsReadable(f, k)
           /\ \A n \in 0..m : Whole(g, n) = Whole(f, n)
           /\ \A k \in 1..Whole(f, m) : WholeEvents(g)[k] = WholeEvents(f)[k]
<1>0. ASSUME NEW k \in 1..m PROVE EndsReadable(g, k) <=> EndsReadable(f, k)
  <2>1. g[k] = f[k] /\ \A i \in 1..k : g[i] = f[i]
    OBVIOUS
  <2>2. ASSUME NEW i \in 1..k
        PROVE  (i = 1 \/ g[i - 1].part = 3) <=> (i = 1 \/ f[i - 1].part = 3)
    <3>1. CASE i = 1
      BY <3>1
    <3>2. CASE i # 1
      <4>1. i - 1 \in 1..k
        BY <3>2
      <4> QED BY <2>1, <4>1
    <3> QED BY <3>1, <3>2
  <2>3. ASSUME NEW i \in 1..k PROVE Parses(g, <<i, k>>) <=> Parses(f, <<i, k>>)
    <3>1. \A j \in i..k : j \in 1..k /\ i \in 1..k
      OBVIOUS
    <3> QED BY <2>1, <3>1 DEF Parses
  <2> QED BY <2>1, <2>2, <2>3 DEF EndsReadable
<1>1. ASSUME NEW n \in 0..m PROVE Readable(g, n) = Readable(f, n)
  BY <1>0 DEF Readable
<1>2. \A n \in 0..m : Whole(g, n) = Whole(f, n)
  BY <1>1 DEF Whole
<1>3. ASSUME NEW k \in 1..Whole(f, m) PROVE WholeEvents(g)[k] = WholeEvents(f)[k]
  <2>1. /\ Whole(f, m) \in Nat /\ Whole(f, Len(f)) \in Nat /\ Whole(g, Len(g)) \in Nat
        /\ Whole(f, m) <= Whole(f, Len(f)) /\ Whole(f, m) <= Whole(g, Len(g))
    <3>1. Whole(g, m) = Whole(f, m)
      BY <1>2
    <3> QED BY <3>1, ReadableFinite, WholeGrows
  <2>2. k \in 1..Whole(f, Len(f)) /\ k \in 1..Whole(g, Len(g)) /\ k \in Nat
    BY <2>1
  <2> DEFINE i == Nth(f, k)
  <2>3. i \in Readable(f, Len(f)) /\ Whole(f, i) = k
    BY <2>2, NthFound
  <2>4. i \in 1..Len(f) /\ EndsReadable(f, i)
    BY <2>3 DEF Readable
  <2> HIDE DEF i
  <2>5. i <= m
    <3> SUFFICES ASSUME ~(i <= m) PROVE FALSE
      OBVIOUS
    <3>1. i \in (m + 1)..i
      BY <2>4
    <3>2. Whole(f, m) < Whole(f, i)
      BY <2>4, <3>1, WholeGrows
    <3> QED BY <2>1, <2>3, <3>2
  <2>6. i \in Readable(g, Len(g)) /\ g[i] = f[i] /\ Whole(g, i) = k
    BY <1>0, <1>2, <2>3, <2>4, <2>5 DEF Readable
  <2>7. Nth(g, k) = i
    BY <2>6, NthIs
  <2> QED BY <2>2, <2>6, <2>7 DEF WholeEvents, i
<1> QED BY <1>0, <1>2, <1>3

\* A readable line completes one event more.
LEMMA OneMore ==
    ASSUME NEW f, NEW n \in Nat, EndsReadable(f, n + 1)
    PROVE  Whole(f, n + 1) = Whole(f, n) + 1
<1>1. Readable(f, n + 1) = Readable(f, n) \cup {n + 1} /\ n + 1 \notin Readable(f, n)
  BY DEF Readable
<1>2. IsFiniteSet(Readable(f, n))
  BY ReadableFinite
<1> QED BY <1>1, <1>2, FS_AddElement DEF Whole

LEMMA EventsAre ==
    ASSUME NEW f \in Seq(Piece)
    PROVE  /\ WholeEvents(f) \in Seq(Event)
           /\ Len(WholeEvents(f)) = Whole(f, Len(f))
           /\ Whole(f, Len(f)) \in Nat
           /\ \A k \in 1..Whole(f, Len(f)) : \E i \in 1..Len(f) :
                 EndsReadable(f, i) /\ WholeEvents(f)[k] = f[i].event
           /\ \A i \in 1..Len(f) : EndsReadable(f, i) =>
                 \E k \in 1..Whole(f, Len(f)) : WholeEvents(f)[k] = f[i].event
<1>1. Len(f) \in Nat /\ \A i \in 1..Len(f) : f[i] \in Piece
  OBVIOUS
<1>2. Whole(f, Len(f)) \in Nat
  BY <1>1, ReadableFinite
<1>3. ASSUME NEW k \in 1..Whole(f, Len(f))
      PROVE  \E i \in 1..Len(f) : EndsReadable(f, i) /\ WholeEvents(f)[k] = f[i].event
  <2>1. Nth(f, k) \in Readable(f, Len(f))
    BY <1>1, NthFound
  <2> QED BY <2>1 DEF Readable, WholeEvents
<1>4. ASSUME NEW i \in 1..Len(f), EndsReadable(f, i)
      PROVE  \E k \in 1..Whole(f, Len(f)) : WholeEvents(f)[k] = f[i].event
  <2>1. i \in Readable(f, Len(f))
    BY <1>4 DEF Readable
  <2>2. Whole(f, i) \in 1..Whole(f, Len(f)) /\ Nth(f, Whole(f, i)) = i
    BY <1>1, <2>1, NthIs
  <2> QED BY <2>2 DEF WholeEvents
<1>5. WholeEvents(f) \in [1..Whole(f, Len(f)) -> Event]
  <2>1. \A k \in 1..Whole(f, Len(f)) : f[Nth(f, k)].event \in Event
    <3> TAKE k \in 1..Whole(f, Len(f))
    <3>1. Nth(f, k) \in 1..Len(f)
      BY <1>1, NthFound DEF Readable
    <3> QED BY <1>1, <3>1 DEF Piece
  <2> QED BY <2>1 DEF WholeEvents
<1>6. WholeEvents(f) \in Seq(Event) /\ Len(WholeEvents(f)) = Whole(f, Len(f))
  BY <1>2, <1>5
<1> QED BY <1>2, <1>3, <1>4, <1>6

\* Two files with as many whole events, the same ones, are the same trace.
LEMMA SameTrace ==
    ASSUME NEW f, NEW g, Whole(g, Len(g)) = Whole(f, Len(f)),
           \A k \in 1..Whole(f, Len(f)) : WholeEvents(g)[k] = WholeEvents(f)[k]
    PROVE  WholeEvents(g) = WholeEvents(f)
<1>1. \A k \in 1..Whole(f, Len(f)) : g[Nth(g, k)].event = f[Nth(f, k)].event
  BY DEF WholeEvents
<1> QED BY <1>1 DEF WholeEvents

-----------------------------------------------------------------------------
(* What the writers know of their events.                                  *)

LEMMA InitFresh == Init => Fresh
BY DEF Init, Fresh

LEMMA NextFresh == Typed /\ Fresh /\ [Next]_vars => Fresh'
<1> SUFFICES ASSUME Typed, Fresh, [Next]_vars PROVE Fresh'
  OBVIOUS
<1>1. calls \in Nat
  BY DEF Typed, TypeOK
<1>2. ASSUME NEW t \in Threads, PassClosedCheck(t) \/ Write(t) PROVE Fresh'
  BY <1>2 DEF PassClosedCheck, Write, ghosts, Fresh, Typed, TypeOK
<1>3. ASSUME NEW t \in Threads, TakeLock(t) PROVE Fresh'
  <2>1. /\ UNCHANGED <<returned, lost>> /\ calls' = calls + 1
        /\ \A u \in Threads : pc'[u] = "writing" => u = t
    BY <1>3, ThreadsNull DEF TakeLock, LockFree, Typed, TypeOK, Held
  <2>2. record'[t].call = calls + 1
    BY <1>3 DEF TakeLock, Typed, TypeOK
  <2>3. \A e \in returned \cup lost : e.call \in Nat /\ e.call <= calls
    BY DEF Fresh, Typed, TypeOK, Event
  <2>4. \A e \in returned \cup lost : e.call <= calls + 1 /\ e.call # calls + 1
    BY <1>1, <2>3
  <2> QED BY <2>1, <2>2, <2>4 DEF Fresh
<1>4. ASSUME NEW t \in Threads, WriteRaises(t) \/ SyncRaises(t) \/ Return(t) PROVE Fresh'
  <2>1. /\ calls' = calls /\ returned' \cup lost' = returned \cup lost \cup {record[t]}
        /\ pc[t] = "writing" /\ pc' = [pc EXCEPT ![t] = "idle"]
    BY <1>4 DEF WriteRaises, SyncRaises, Return, Leave
  <2>2. record[t].call = calls
    BY <2>1 DEF Typed, Held
  <2>3. \A u \in Threads : pc'[u] # "writing"
    BY <2>1, OneWriter DEF Typed, TypeOK
  <2> QED BY <1>1, <2>1, <2>2, <2>3 DEF Fresh
<1>5. CASE Crash
  <2>1. /\ UNCHANGED <<calls, returned>> /\ \A u \in Threads : pc'[u] # "writing"
        /\ \A e \in lost' : \/ e \in lost
                            \/ \E t \in Threads : pc[t] = "writing" /\ e = record[t]
                            \/ \E k \in (synced' + 1)..Len(file) : e = file[k].event
    BY <1>5 DEF Crash
  <2>2. ASSUME NEW e \in lost', e \notin lost PROVE e.call <= calls
    <3>1. \A t \in Threads : pc[t] = "writing" => record[t].call = calls
      BY DEF Typed, Held
    <3>2. \A k \in (synced' + 1)..Len(file) : file[k].event.call <= calls
      <4>1. PICK kept : CrashKeeps(kept)
        BY <1>5, CrashFacts
      <4>2. \A k \in (synced' + 1)..Len(file) : k \in Positions
        BY <4>1 DEF CrashKeeps, Positions, Typed, TypeOK
      <4> QED BY <4>2 DEF Typed, FileCounted
    <3> QED BY <1>1, <2>1, <2>2, <3>1, <3>2
  <2> QED BY <2>1, <2>2 DEF Fresh
<1>6. CASE Flush \/ Close \/ Open \/ UNCHANGED vars
  <2>1. UNCHANGED <<pc, record, calls, returned, lost>>
    BY <1>6 DEF Flush, Close, Open, vars, process, ghosts
  <2> QED BY <2>1 DEF Fresh
<1> QED BY <1>2, <1>3, <1>4, <1>5, <1>6 DEF Next, Step

LEMMA AlwaysFresh == Spec => []Fresh
BY AlwaysTyped, InitFresh, NextFresh, PTL DEF Spec

-----------------------------------------------------------------------------
(* The line of the holder of the lock.                                     *)

LEMMA Offset ==
    ASSUME NEW p \in Nat, NEW w \in Nat, w < 3, NEW j \in (p + 1)..(p + w)
    PROVE  j - p \in 1..w /\ p + (j - p) = j /\ j - p # 3
OBVIOUS

\* Behind the newline in front of it, or at the beginning of the file, the
\* holder's line is its own; else what a lost event left stands there.
LEMMA FrontOfLine ==
    ASSUME Typed, Shape, Fresh, NEW t \in Threads, pc[t] = "writing", written[t] < 3,
           NEW p, p = Len(file) - written[t]
    PROVE  /\ p \in Nat /\ p <= Len(file)
           /\ Torn <=> p > 0 /\ file[p].part # 3
<1>1. Len(file) \in Nat /\ written[t] \in Nat /\ written[t] <= Len(file) /\ DOMAIN file = Positions
  BY DEF Typed, TypeOK, Shape, TailIsHolders, Positions
<1>2. /\ \A i \in Positions : file[i].event = record[t] <=> i > p
      /\ \A k \in 1..written[t] : file[p + k] = APiece(record[t], k)
  BY DEF Shape, TailIsHolders
<1>3. record[t] \notin lost
  BY DEF Fresh
<1>4. p \in Nat /\ p <= Len(file)
  BY <1>1
<1>5. \A j \in (p + 1)..Len(file) : file[j].part # 3
  <2> TAKE j \in (p + 1)..Len(file)
  <2>0. Len(file) = p + written[t] /\ p \in Nat /\ j \in (p + 1)..(p + written[t])
        /\ written[t] \in Nat /\ written[t] < 3
    BY <1>1, <1>4
  <2>1. j - p \in 1..written[t] /\ p + (j - p) = j /\ j - p # 3
    BY <2>0, Offset
  <2>2. file[j] = APiece(record[t], j - p)
    BY <1>2, <2>1
  <2> QED BY <2>1, <2>2 DEF APiece
<1>6. ASSUME Torn PROVE p > 0 /\ file[p].part # 3
  <2>1. PICK k \in Positions : file[k].event \in lost /\ \A j \in k..Len(file) : file[j].part # 3
    BY <1>1, <1>6 DEF Torn
  <2>2. ~(k > p)
    BY <1>2, <1>3, <2>1
  <2>3. p > 0 /\ p \in k..Len(file)
    BY <1>1, <1>4, <2>2 DEF Positions
  <2> QED BY <2>1, <2>3
<1>7. ASSUME p > 0, file[p].part # 3 PROVE Torn
  <2>1. p \in Positions /\ ~(p > p)
    BY <1>4, <1>7 DEF Positions
  <2>2. file[p].part < 3
    <3>1. file[p].part \in 1..3
      BY <2>1, PieceType
    <3> QED BY <1>7, <3>1
  <2>3. file[p].event \in lost
    <3> SUFFICES ASSUME file[p].event \notin lost PROVE FALSE
      OBVIOUS
    <3>1. CASE p < Len(file)
      <4>1. 1 \in 1..written[t]
        BY <1>1, <3>1
      <4>2. p + 1 \in Positions /\ file[p + 1] = APiece(record[t], 1)
        BY <1>2, <1>4, <3>1, <4>1 DEF Positions
      <4>3. file[p + 1] = APiece(file[p].event, file[p].part + 1)
        BY <2>1, <2>2, <3>1 DEF Shape, Contiguous
      <4>4. file[p].event = record[t]
        BY <4>2, <4>3 DEF APiece
      <4> QED BY <1>2, <2>1, <4>4
    <3>2. CASE p = Len(file)
      <4>1. \E u \in Threads : pc[u] = "writing" /\ record[u] = file[p].event
        BY <1>1, <2>1, <2>2, <3>2 DEF Shape, Contiguous
      <4>2. record[t] = file[p].event
        BY <4>1, OneWriter
      <4> QED BY <1>2, <2>1, <4>2
    <3> QED BY <1>4, <3>1, <3>2
  <2>4. \A j \in p..Len(file) : file[j].part # 3
    <3> TAKE j \in p..Len(file)
    <3>1. j = p \/ j \in (p + 1)..Len(file)
      BY <1>1, <1>4
    <3> QED BY <1>5, <1>7, <3>1
  <2> QED BY <1>1, <2>1, <2>3, <2>4 DEF Torn
<1> QED BY <1>4, <1>6, <1>7

\* A line parses if it is one whole event.
LEMMA ParsesIs ==
    ASSUME NEW f, NEW i, NEW j
    PROVE  Parses(f, <<i, j>>) <=>
              /\ j - i \in {1, 2}
              /\ \A k \in i..j : f[k] = [event |-> f[i].event, part |-> k - i + 1]
<1>1. <<i, j>>[1] = i /\ <<i, j>>[2] = j
  OBVIOUS
<1> QED BY <1>1 DEF Parses

\* Three pieces of one event end a line that can be read, if nothing stands in
\* front of them on it.
LEMMA WholeLineRead ==
    ASSUME NEW f, NEW e, NEW p \in Nat,
           f[p + 1] = APiece(e, 1), f[p + 2] = APiece(e, 2), f[p + 3] = APiece(e, 3)
    PROVE  EndsReadable(f, p + 3) <=> p = 0 \/ f[p].part = 3
<1>1. f[p + 3].part = 3 /\ f[p + 3].event = e /\ f[p + 1].event = e
  BY DEF APiece
<1>2. ASSUME p = 0 \/ f[p].part = 3 PROVE EndsReadable(f, p + 3)
  <2>1. p + 1 \in 1..(p + 3) /\ p + 1 - 1 = p /\ p + 3 - (p + 1) = 2
    OBVIOUS
  <2>2. ASSUME NEW k \in (p + 1)..(p + 3)
        PROVE  f[k] = [event |-> f[p + 1].event, part |-> k - (p + 1) + 1]
    <3>1. \/ k = p + 1 /\ k - (p + 1) + 1 = 1
          \/ k = p + 2 /\ k - (p + 1) + 1 = 2
          \/ k = p + 3 /\ k - (p + 1) + 1 = 3
      OBVIOUS
    <3> QED BY <1>1, <3>1 DEF APiece
  <2>3. Parses(f, <<p + 1, p + 3>>)
    BY <2>1, <2>2 DEF Parses
  <2>4. p + 1 = 1 \/ f[p + 1 - 1].part = 3
    BY <1>2, <2>1
  <2> QED BY <1>1, <2>1, <2>3, <2>4 DEF EndsReadable
<1>3. ASSUME EndsReadable(f, p + 3) PROVE p = 0 \/ f[p].part = 3
  <2>1. PICK i \in 1..(p + 3) : (i = 1 \/ f[i - 1].part = 3) /\ Parses(f, <<i, p + 3>>)
    BY <1>3 DEF EndsReadable
  <2>2. f[p + 3] = [event |-> f[i].event, part |-> p + 3 - i + 1]
    <3> DEFINE q == p + 3
    <3>1. \A k \in i..q : f[k] = [event |-> f[i].event, part |-> k - i + 1]
      BY <2>1, ParsesIs
    <3>2. q \in i..q
      OBVIOUS
    <3> HIDE DEF q
    <3>3. f[q] = [event |-> f[i].event, part |-> q - i + 1]
      BY <3>1, <3>2
    <3> QED BY <3>3 DEF q
  <2>3. p + 3 - i + 1 = 3
    <3>1. f[p + 3].part = p + 3 - i + 1
      BY <2>2
    <3> QED BY <1>1, <3>1
  <2>4. i = p + 1
    BY <2>3
  <2> QED BY <2>1, <2>4
<1> QED BY <1>2, <1>3

-----------------------------------------------------------------------------
(* Each step is a step of the trace or a stutter.                          *)

LEMMA InitTrace == Init => Trace!Init
<1> SUFFICES ASSUME Init PROVE Trace!Init
  OBVIOUS
<1>1. file = <<>> /\ synced = 0 /\ returned = {} /\ lost = {} /\ use \in Use
  BY EventLogAssumption DEF Init
<1>2. Whole(file, 0) = 0 /\ Len(file) = 0
  BY <1>1, WholeNone
<1>3. WholeEvents(file) = <<>>
  <2>1. file \in Seq(Piece)
    BY <1>1
  <2>2. WholeEvents(file) \in Seq(Event) /\ Len(WholeEvents(file)) = 0
    BY <1>2, <2>1, EventsAre
  <2> QED BY <2>2
<1>4. Torn = FALSE /\ Spoilt = {}
  BY <1>1 DEF Torn, Spoilt
<1> QED BY <1>1, <1>2, <1>3, <1>4 DEF Trace!Init, Use

\* A step that leaves the file alone, what is synced, returned and lost.
LEMMA QuietTrace ==
    ASSUME UNCHANGED <<use, file, synced, returned, lost>>
    PROVE  UNCHANGED Trace!vars
BY DEF Trace!vars, Torn, Spoilt

\* What is synced is counted; the file is a sequence of pieces.
LEMMA SyncedCounts ==
    ASSUME Typed
    PROVE  /\ file \in Seq(Piece) /\ Len(file) \in Nat /\ synced \in Nat /\ synced <= Len(file)
           /\ Whole(file, synced) \in Nat /\ Whole(file, synced) <= Whole(file, Len(file))
           /\ DOMAIN file = 1..Len(file)
<1>1. file \in Seq(Piece) /\ Len(file) \in Nat /\ synced \in Nat /\ synced <= Len(file)
  BY DEF Typed, TypeOK
<1> QED BY <1>1, ReadableFinite, WholeGrows

\* What a write makes of the last line and of the spoilt events.
LEMMA WriteLastLine ==
    ASSUME Typed, Shape, Fresh, NEW t \in Threads, Write(t),
           NEW n \in 1..(3 - written[t]), WriteAdds(t, n)
    PROVE  /\ \A k \in 1..Len(file) : EndsReadable(file', k) <=> EndsReadable(file, k)
           /\ \A k \in (Len(file) + 1)..Len(file') :
                 /\ file'[k].event = record[t]
                 /\ file'[k].part = 3 <=> written[t] + n = 3 /\ k = Len(file')
           /\ written[t] + n < 3 => (Torn' <=> Torn) /\ Spoilt' = Spoilt
           /\ written[t] + n = 3 =>
                 /\ ~Torn'
                 /\ EndsReadable(file', Len(file')) <=> ~Torn
                 /\ Spoilt' = IF Torn THEN Spoilt \cup {record[t]} ELSE Spoilt
<1>1. /\ pc[t] = "writing" /\ lost' = lost /\ record[t] \notin lost /\ written[t] \in 0..3
  BY DEF Write, ghosts, Fresh, Typed, TypeOK
<1>2. /\ file \in Seq(Piece) /\ file' \in Seq(Piece) /\ Len(file) \in Nat /\ n \in Nat
      /\ Len(file') = Len(file) + n /\ Len(file') \in Nat
      /\ DOMAIN file = 1..Len(file) /\ DOMAIN file' = 1..Len(file')
      /\ written[t] \in Nat /\ written[t] < 3 /\ written[t] + n <= 3
      /\ \A i \in 1..Len(file) : file'[i] = file[i] /\ i \in 1..Len(file')
  <2>1. written[t] \in Nat /\ written[t] < 3 /\ written[t] + n <= 3 /\ n \in Nat
    BY <1>1
  <2>2. Len(file') = Len(file) + n /\ file' \in Seq(Piece) /\ \A i \in 1..Len(file) : file'[i] = file[i]
    BY DEF WriteAdds, Positions
  <2> QED BY <2>1, <2>2, SyncedCounts
<1>3. \A k \in 1..Len(file) : EndsReadable(file', k) <=> EndsReadable(file, k)
  BY <1>2, SameBeginning
<1>4. ASSUME NEW k \in (Len(file) + 1)..Len(file')
      PROVE  /\ file'[k] = APiece(record[t], written[t] + (k - Len(file)))
             /\ file'[k].event = record[t]
             /\ file'[k].part = 3 <=> written[t] + n = 3 /\ k = Len(file')
  <2>1. k - Len(file) \in 1..n /\ Len(file) + (k - Len(file)) = k
    BY <1>2
  <2>2. file'[k] = APiece(record[t], written[t] + (k - Len(file)))
    BY <2>1 DEF WriteAdds
  <2>3. file'[k].event = record[t] /\ file'[k].part = written[t] + (k - Len(file))
    BY <2>2 DEF APiece
  <2>4. written[t] + (k - Len(file)) = 3 <=> written[t] + n = 3 /\ k = Len(file')
    BY <1>2
  <2> QED BY <2>2, <2>3, <2>4
<1>5. ASSUME NEW e
      PROVE  e \in Spoilt' <=>
                \/ e \in Spoilt
                \/ \E k \in (Len(file) + 1)..Len(file') :
                      file'[k].part = 3 /\ ~EndsReadable(file', k) /\ e = file'[k].event
  <2>1. \A k \in 1..Len(file') : k \in 1..Len(file) \/ k \in (Len(file) + 1)..Len(file')
    BY <1>2
  <2>2. \A k \in (Len(file) + 1)..Len(file') : k \in 1..Len(file')
    BY <1>2
  <2>3. e \in Spoilt' <=> \E k \in 1..Len(file') :
           file'[k].part = 3 /\ ~EndsReadable(file', k) /\ e = file'[k].event
    BY <1>2 DEF Spoilt
  <2>4. e \in Spoilt <=> \E k \in 1..Len(file) :
           file[k].part = 3 /\ ~EndsReadable(file, k) /\ e = file[k].event
    BY <1>2 DEF Spoilt
  <2>5. \A k \in 1..Len(file) : file'[k] = file[k] /\ k \in 1..Len(file')
                                  /\ (EndsReadable(file', k) <=> EndsReadable(file, k))
    BY <1>2, <1>3
  <2> QED BY <2>1, <2>2, <2>3, <2>4, <2>5
<1>6. ASSUME written[t] + n < 3 PROVE (Torn' <=> Torn) /\ Spoilt' = Spoilt
  <2>0. written[t] + n # 3
    BY <1>2, <1>6
  <2>1. \A k \in (Len(file) + 1)..Len(file') : file'[k].part # 3 /\ file'[k].event \notin lost
    BY <1>1, <1>4, <2>0
  <2>2. Spoilt' = Spoilt
    BY <1>5, <2>1
  <2>3. ASSUME Torn PROVE Torn'
    <3>1. PICK k \in 1..Len(file) : file[k].event \in lost /\ \A j \in k..Len(file) : file[j].part # 3
      BY <1>2, <2>3 DEF Torn
    <3>2. \A j \in k..Len(file') : file'[j].part # 3
      <4> TAKE j \in k..Len(file')
      <4>1. (j \in k..Len(file) /\ j \in 1..Len(file)) \/ j \in (Len(file) + 1)..Len(file')
        BY <1>2
      <4> QED BY <1>2, <2>1, <3>1, <4>1
    <3> QED BY <1>1, <1>2, <3>1, <3>2 DEF Torn
  <2>4. ASSUME Torn' PROVE Torn
    <3>1. PICK k \in 1..Len(file') : file'[k].event \in lost /\ \A j \in k..Len(file') : file'[j].part # 3
      BY <1>1, <1>2, <2>4 DEF Torn
    <3>2. k \in 1..Len(file)
      <4>1. k \in 1..Len(file) \/ k \in (Len(file) + 1)..Len(file')
        BY <1>2
      <4> QED BY <2>1, <3>1, <4>1
    <3>3. \A j \in k..Len(file) : j \in k..Len(file') /\ j \in 1..Len(file)
      BY <1>2, <3>2
    <3>4. \A j \in k..Len(file) : file[j].part # 3
      BY <1>2, <3>1, <3>3
    <3> QED BY <1>2, <3>1, <3>2, <3>4 DEF Torn
  <2> QED BY <2>2, <2>3, <2>4
<1>7. ASSUME written[t] + n = 3
      PROVE  /\ ~Torn'
             /\ EndsReadable(file', Len(file')) <=> ~Torn
             /\ Spoilt' = IF Torn THEN Spoilt \cup {record[t]} ELSE Spoilt
  <2> DEFINE p == Len(file) - written[t]
  <2>0. p \in Nat /\ p <= Len(file) /\ (Torn <=> p > 0 /\ file[p].part # 3)
    BY <1>1, <1>2, FrontOfLine
  <2>1. p + 3 = Len(file') /\ Len(file') \in (Len(file) + 1)..Len(file')
    BY <1>2, <1>7
  <2>2. \A k \in 1..3 : file'[p + k] = APiece(record[t], k)
    <3> TAKE k \in 1..3
    <3>0. p \in Nat /\ k \in Nat /\ Len(file) = p + written[t] /\ Len(file') = p + 3
      <4>1. Len(file) = p + written[t]
        BY <1>2 DEF p
      <4> HIDE DEF p
      <4> QED BY <2>0, <2>1, <4>1
    <3> HIDE DEF p
    <3>1. CASE k <= written[t]
      <4>0. written[t] \in Nat
        BY <1>2
      <4>1. k \in 1..written[t] /\ p + k \in 1..Len(file)
        BY <3>0, <3>1, <4>0
      <4>2. file[p + k] = APiece(record[t], k)
        BY <1>1, <4>1 DEF Shape, TailIsHolders, p
      <4> QED BY <1>2, <4>1, <4>2
    <3>2. CASE ~(k <= written[t])
      <4> DEFINE q == p + k
      <4>0. written[t] \in Nat
        BY <1>2
      <4>1. q \in (Len(file) + 1)..Len(file') /\ written[t] + (q - Len(file)) = k
        <5>1. p + k \in (p + written[t] + 1)..(p + 3)
          BY <3>0, <3>2, <4>0
        <5>2. written[t] + (p + k - (p + written[t])) = k
          BY <3>0, <4>0
        <5> QED BY <3>0, <5>1, <5>2
      <4> HIDE DEF q
      <4>2. file'[q] = APiece(record[t], written[t] + (q - Len(file)))
        BY <1>4, <4>1
      <4> QED BY <4>1, <4>2 DEF q
    <3> QED BY <3>1, <3>2
  <2> HIDE DEF p
  <2>3. EndsReadable(file', Len(file')) <=> p = 0 \/ file'[p].part = 3
    <3>1. file'[p + 1] = APiece(record[t], 1) /\ file'[p + 2] = APiece(record[t], 2)
          /\ file'[p + 3] = APiece(record[t], 3)
      BY <2>2
    <3>2. EndsReadable(file', p + 3) <=> p = 0 \/ file'[p].part = 3
      BY <2>0, <3>1, WholeLineRead
    <3> QED BY <2>1, <3>2
  <2>4. p > 0 => file'[p] = file[p]
    <3>1. p > 0 => p \in 1..Len(file)
      BY <1>2, <2>0
    <3> QED BY <1>2, <3>1
  <2>5. EndsReadable(file', Len(file')) <=> ~Torn
    BY <2>0, <2>3, <2>4
  <2>6. ~Torn'
    <3>1. file'[Len(file')].part = 3
      BY <1>4, <1>7, <2>1
    <3>2. \A k \in 1..Len(file') : Len(file') \in k..Len(file')
      BY <1>2
    <3> QED BY <1>2, <3>1, <3>2 DEF Torn
  <2>7. ASSUME NEW e
        PROVE  e \in Spoilt' <=> e \in Spoilt \/ (Torn /\ e = record[t])
    <3>1. \A k \in (Len(file) + 1)..Len(file') :
             file'[k].event = record[t] /\ (file'[k].part = 3 <=> k = Len(file'))
      BY <1>4, <1>7
    <3> QED BY <1>5, <2>1, <2>5, <3>1
  <2> QED BY <2>5, <2>6, <2>7
<1> QED BY <1>3, <1>4, <1>6, <1>7

\* What comes before the last piece.
LEMMA Earlier ==
    ASSUME NEW m \in Nat, NEW k \in Nat, NEW i \in (m + 1)..k
    PROVE  i \in (m + 1)..(k + 1) /\ i # k + 1
OBVIOUS

LEMMA WriteTrace ==
    ASSUME Typed, Shape, NumbersGrow, Fresh, NEW t \in Threads, Write(t)
    PROVE  [Trace!Next]_(Trace!vars)
<1>1. PICK n \in 1..(3 - written[t]) : WriteAdds(t, n)
  BY WriteFacts
<1>2. /\ UNCHANGED <<use, synced, returned, lost>> /\ pc[t] = "writing" /\ lock = t /\ up
      /\ record[t] \in Event /\ record[t].instance = instance /\ record[t].seq = seq
      /\ written[t] \in 0..3 /\ record[t] \notin returned \cup lost
  BY DEF Write, ghosts, Typed, TypeOK, Held, Fresh
<1>3. /\ file \in Seq(Piece) /\ file' \in Seq(Piece) /\ Len(file) \in Nat /\ n \in Nat
      /\ Len(file') = Len(file) + n /\ Len(file') \in Nat
      /\ synced \in 0..Len(file) /\ 0 < n
  BY <1>1, <1>2, SyncedCounts DEF WriteAdds
<1>4. /\ \A m \in 0..Len(file) : Whole(file', m) = Whole(file, m)
      /\ \A k \in 1..Whole(file, Len(file)) : WholeEvents(file')[k] = WholeEvents(file)[k]
  <2>1. Len(file) <= Len(file) /\ Len(file) <= Len(file') /\ \A i \in 1..Len(file) : file'[i] = file[i]
    BY <1>1, <1>3 DEF WriteAdds, Positions
  <2> QED BY <1>3, <2>1, SameBeginning
<1>5. \A i \in (Len(file) + 1)..Len(file') :
         /\ file'[i].event = record[t]
         /\ EndsReadable(file', i) => written[t] + n = 3 /\ i = Len(file')
  BY <1>1, WriteLastLine DEF EndsReadable
\* No line is finished that can be read.
<1>6. ASSUME \A i \in (Len(file) + 1)..Len(file') : ~EndsReadable(file', i)
      PROVE  /\ WholeEvents(file') = WholeEvents(file)
             /\ Whole(file, synced)' = Whole(file, synced)
  <2>2. Whole(file', Len(file')) = Whole(file, Len(file))
    <3>1. Whole(file', Len(file')) = Whole(file', Len(file))
      <4>1. Len(file) <= Len(file')
        BY <1>3
      <4> QED BY <1>3, <1>6, <4>1, WholeGrows
    <3>2. Len(file) \in 0..Len(file)
      BY <1>3
    <3> QED BY <1>4, <3>1, <3>2
  <2>3. WholeEvents(file') = WholeEvents(file)
    BY <1>4, <2>2, SameTrace
  <2> QED BY <1>2, <1>3, <1>4, <2>3
<1>7. CASE written[t] + n < 3
  <2>1. \A i \in (Len(file) + 1)..Len(file') : ~EndsReadable(file', i)
    BY <1>2, <1>3, <1>5, <1>7
  <2>2. (Torn' <=> Torn) /\ Spoilt' = Spoilt
    BY <1>1, <1>7, WriteLastLine
  <2>3. Torn' = Torn
    BY <2>2 DEF Torn
  <2> QED BY <1>2, <1>6, <2>1, <2>2, <2>3 DEF Trace!vars
<1>8. CASE written[t] + n = 3 /\ Torn
  <2>1. /\ ~Torn' /\ ~EndsReadable(file', Len(file'))
        /\ Spoilt' = Spoilt \cup {record[t]}
    BY <1>1, <1>8, WriteLastLine
  <2>2. \A i \in (Len(file) + 1)..Len(file') : ~EndsReadable(file', i)
    BY <1>5, <2>1
  <2>3. Torn' = FALSE
    BY <2>1 DEF Torn
  <2>4. Trace!Spoil(record[t])
    BY <1>2, <1>6, <1>8, <2>1, <2>2, <2>3 DEF Trace!Spoil
  <2> QED BY <2>1, <2>4 DEF Trace!Next
<1>9. CASE written[t] + n = 3 /\ ~Torn
  <2> DEFINE c == Whole(file, Len(file))
             last == Len(file') - 1
  <2>0. /\ Torn' = FALSE /\ Torn = FALSE /\ EndsReadable(file', Len(file')) /\ Spoilt' = Spoilt
    BY <1>1, <1>9, WriteLastLine DEF Torn
  <2>1. last \in Nat /\ Len(file) <= last /\ Len(file') = last + 1 /\ c \in Nat
    BY <1>3, EventsAre
  <2>2. ASSUME NEW i \in (Len(file) + 1)..last PROVE ~EndsReadable(file', i)
    <3> HIDE DEF last
    <3> HIDE DEF last
    <3>0. Len(file) \in Nat /\ last \in Nat /\ Len(file') = last + 1
      BY <1>3, <2>1
    <3>1. i \in (Len(file) + 1)..(last + 1) /\ i # last + 1
      BY <3>0, Earlier
    <3> QED BY <1>5, <3>0, <3>1
  <2>3. EndsReadable(file', last + 1) /\ file'[last + 1].event = record[t]
    <3>1. last + 1 \in (Len(file) + 1)..Len(file')
      BY <1>3, <2>1
    <3> QED BY <1>5, <2>0, <2>1, <3>1
  <2>4. Whole(file', last) = c
    <3>1. Whole(file', last) = Whole(file', Len(file))
      <4> HIDE DEF last
      <4> QED BY <1>3, <2>1, <2>2, WholeGrows
    <3>2. Len(file) \in 0..Len(file)
      BY <1>3
    <3> QED BY <1>4, <3>1, <3>2
  <2>5. Whole(file', Len(file')) = c + 1
    BY <2>1, <2>3, <2>4, OneMore
  <2>6. WholeEvents(file')[c + 1] = record[t]
    <3>1. Len(file') \in Readable(file', Len(file'))
      BY <1>3, <2>1, <2>3 DEF Readable
    <3>2. Nth(file', c + 1) = Len(file')
      BY <1>3, <2>5, <3>1, NthIs
    <3> QED BY <2>1, <2>3, <2>5, <3>2 DEF WholeEvents
  <2>7. WholeEvents(file') = Append(WholeEvents(file), record[t])
    <3>1. /\ WholeEvents(file) \in Seq(Event) /\ Len(WholeEvents(file)) = c
          /\ WholeEvents(file') \in Seq(Event) /\ Len(WholeEvents(file')) = c + 1
      BY <1>3, <2>5, EventsAre
    <3>2. \A k \in 1..(c + 1) : WholeEvents(file')[k] =
             IF k <= c THEN WholeEvents(file)[k] ELSE record[t]
      BY <1>4, <2>1, <2>6
    <3> HIDE DEF c
    <3> QED BY <1>2, <2>1, <3>1, <3>2
  <2>8. \A k \in 1..Len(WholeEvents(file)) :
           WholeEvents(file)[k].instance = record[t].instance => WholeEvents(file)[k].seq < record[t].seq
    <3> TAKE k \in 1..Len(WholeEvents(file))
    <3> HAVE WholeEvents(file)[k].instance = record[t].instance
    <3>1. PICK i \in 1..Len(file) : EndsReadable(file, i) /\ WholeEvents(file)[k] = file[i].event
      <4>1. Len(WholeEvents(file)) = Whole(file, Len(file))
        BY <1>3, EventsAre
      <4>2. k \in 1..Whole(file, Len(file))
        BY <4>1
      <4> QED BY <1>3, <4>2, EventsAre
    <3>0. file[i].part = 3
      BY <3>1 DEF EndsReadable
    <3>2. file[i].event # record[t]
      <4> SUFFICES ASSUME file[i].event = record[t] PROVE FALSE
        OBVIOUS
      <4>1. /\ written[t] <= Len(file) /\ i > Len(file) - written[t]
            /\ \A j \in 1..written[t] : file[Len(file) - written[t] + j] = APiece(record[t], j)
        BY <1>2 DEF Shape, TailIsHolders, Positions
      <4> DEFINE j == i - (Len(file) - written[t])
      <4>2. j \in 1..written[t] /\ Len(file) - written[t] + j = i /\ j < 3
        <5>1. written[t] \in Nat /\ written[t] < 3 /\ i \in Nat /\ i <= Len(file)
          <6>1. i \in 1..Len(file)
            BY <1>3
          <6>2. written[t] \in Nat /\ n \in 1..(3 - written[t])
            BY <1>2
          <6>3. Len(file) \in Nat /\ n \in Nat /\ 0 < n /\ written[t] + n = 3
            BY <1>3, <1>9
          <6> QED BY <6>1, <6>2, <6>3
        <5>2. i > Len(file) - written[t] /\ Len(file) \in Nat
          BY <1>3, <4>1
        <5>3. i - (Len(file) - written[t]) >= 1 /\ i - (Len(file) - written[t]) <= written[t]
          BY <5>1, <5>2
        <5>4. Len(file) - written[t] + (i - (Len(file) - written[t])) = i
          BY <5>1, <5>2
        <5>5. i - (Len(file) - written[t]) \in Nat
          BY <5>1, <5>2, <5>3
        <5> HIDE DEF j
        <5>6. j \in Nat /\ j >= 1 /\ j <= written[t]
          BY <5>3, <5>5 DEF j
        <5>7. Len(file) - written[t] + j = i
          BY <5>4 DEF j
        <5> QED BY <5>1, <5>6, <5>7
      <4>3. file[i] = APiece(record[t], j)
        BY <4>1, <4>2
      <4> QED BY <3>0, <4>2, <4>3 DEF APiece
    <3>3. lock # NULL
      BY <1>2, EventLogAssumption
    <3> QED BY <1>2, <3>1, <3>2, <3>3 DEF NumbersGrow, Positions
  <2>9. Whole(file, synced)' = Whole(file, synced)
    BY <1>2, <1>3, <1>4
  <2>10. Trace!Add(record[t])
    BY <1>2, <2>0, <2>7, <2>8, <2>9 DEF Trace!Add
  <2>11. c + 1 \in DOMAIN WholeEvents(file')
    BY <2>1, <2>5 DEF WholeEvents
  <2> QED BY <2>6, <2>10, <2>11 DEF Trace!Next
<1>10. written[t] + n < 3 \/ (written[t] + n = 3 /\ Torn) \/ (written[t] + n = 3 /\ ~Torn)
  BY <1>2, <1>3
<1> QED BY <1>7, <1>8, <1>9, <1>10

LEMMA ReturnTrace ==
    ASSUME Typed, Shape, Fresh, NEW t \in Threads, Return(t)
    PROVE  [Trace!Next]_(Trace!vars)
<1>1. /\ UNCHANGED <<use, file, lost>> /\ returned' = returned \cup {record[t]}
      /\ pc[t] = "writing" /\ written[t] = 3
      /\ synced' = IF use.fsync THEN Len(file) ELSE synced
      /\ record[t] \notin returned \cup lost
  BY DEF Return, SyncedNow, Fresh
<1>2. /\ file \in Seq(Piece) /\ Len(file) \in Nat /\ DOMAIN file = 1..Len(file)
      /\ Len(WholeEvents(file)) = Whole(file, Len(file))
  BY SyncedCounts, EventsAre
<1>3. Whole(file, synced)' = IF use.fsync THEN Len(WholeEvents(file)) ELSE Whole(file, synced)
  BY <1>1, <1>2
<1>4. record[t] \in Trace!Events(Len(WholeEvents(file))) \cup Spoilt
  <2>1. /\ 3 <= Len(file)
        /\ \A k \in 1..3 : file[Len(file) - 3 + k] = APiece(record[t], k)
    <3>1. /\ written[t] <= Len(file)
          /\ \A k \in 1..written[t] : file[Len(file) - written[t] + k] = APiece(record[t], k)
      BY <1>1 DEF Shape, TailIsHolders
    <3>2. written[t] = 3
      BY <1>1
    <3> QED BY <3>1, <3>2
  <2>2. file[Len(file)] = APiece(record[t], 3) /\ Len(file) \in 1..Len(file)
    <3>1. Len(file) - 3 + 3 = Len(file) /\ 3 \in 1..3
      BY <1>2
    <3>2. file[Len(file) - 3 + 3] = APiece(record[t], 3)
      BY <2>1, <3>1
    <3> QED BY <1>2, <2>1, <3>1, <3>2
  <2>3. file[Len(file)].part = 3 /\ file[Len(file)].event = record[t]
    BY <2>2 DEF APiece
  <2>4. CASE EndsReadable(file, Len(file))
    <3>1. PICK k \in 1..Whole(file, Len(file)) : WholeEvents(file)[k] = file[Len(file)].event
      <4> DEFINE i == Len(file)
      <4>1. i \in 1..Len(file) /\ EndsReadable(file, i)
        BY <2>2, <2>4
      <4> HIDE DEF i
      <4>2. \E k \in 1..Whole(file, Len(file)) : WholeEvents(file)[k] = file[i].event
        BY <1>2, <4>1, EventsAre
      <4> QED BY <4>2 DEF i
    <3>2. k \in 1..Len(WholeEvents(file)) /\ WholeEvents(file)[k] = record[t]
      BY <1>2, <2>3, <3>1
    <3> QED BY <3>2 DEF Trace!Events
  <2>5. CASE ~EndsReadable(file, Len(file))
    <3>1. Len(file) \in {j \in DOMAIN file : file[j].part = 3 /\ ~EndsReadable(file, j)}
      BY <1>2, <2>2, <2>3, <2>5
    <3> QED BY <2>3, <3>1 DEF Spoilt
  <2> QED BY <2>4, <2>5
<1>5. UNCHANGED <<Torn, Spoilt>>
  BY <1>1 DEF Torn, Spoilt
<1>6. UNCHANGED WholeEvents(file)
  BY <1>1
<1>7. Trace!Acknowledge(record[t])
  BY <1>1, <1>3, <1>4, <1>5, <1>6 DEF Trace!Acknowledge
<1> QED BY <1>1, <1>7 DEF Trace!Next

LEMMA FailTrace ==
    ASSUME Typed, Fresh, NEW t \in Threads, WriteRaises(t) \/ SyncRaises(t)
    PROVE  [Trace!Next]_(Trace!vars)
<1>1. /\ UNCHANGED <<use, file, synced, returned>> /\ lost' = lost \cup {record[t]}
      /\ record[t] \notin returned \cup lost
  BY DEF WriteRaises, SyncRaises, Fresh
<1>2. Torn => Torn'
  BY <1>1 DEF Torn
<1>3. Torn' \in {Torn, TRUE}
  <2>1. Torn \in BOOLEAN /\ Torn' \in BOOLEAN
    BY DEF Torn
  <2> QED BY <1>2, <2>1
<1>4. UNCHANGED <<WholeEvents(file), Whole(file, synced), Spoilt>>
  BY <1>1 DEF Spoilt
<1>5. Trace!Fail(record[t])
  BY <1>1, <1>3, <1>4 DEF Trace!Fail
<1> QED BY <1>1, <1>5 DEF Trace!Next

LEMMA SyncTrace ==
    ASSUME Typed, Flush \/ Close
    PROVE  [Trace!Next]_(Trace!vars)
<1>1. UNCHANGED <<use, file, returned, lost>> /\ (synced' = Len(file) \/ synced' = synced)
  BY DEF Flush, Close, process, ghosts
<1>2. Len(WholeEvents(file)) = Whole(file, Len(file))
  BY SyncedCounts, EventsAre
<1>3. CASE synced' = Len(file)
  <2>1. UNCHANGED <<Torn, Spoilt, WholeEvents(file)>>
    BY <1>1 DEF Torn, Spoilt
  <2>2. Whole(file, synced)' = Len(WholeEvents(file))
    BY <1>1, <1>2, <1>3
  <2> QED BY <1>1, <2>1, <2>2 DEF Trace!Flush, Trace!Next
<1>4. CASE synced' = synced
  BY <1>1, <1>4, QuietTrace
<1> QED BY <1>1, <1>3, <1>4

LEMMA CrashTrace ==
    ASSUME Typed, Crash
    PROVE  [Trace!Next]_(Trace!vars)
<1>1. PICK kept : CrashKeeps(kept)
  BY CrashFacts
<1>2. /\ file \in Seq(Piece) /\ file' \in Seq(Piece) /\ Len(file) \in Nat /\ synced \in Nat
      /\ kept \in Nat /\ synced <= kept /\ kept <= Len(file)
      /\ Len(file') = kept /\ synced' = kept /\ UNCHANGED <<use, returned>>
      /\ DOMAIN file = 1..Len(file) /\ DOMAIN file' = 1..kept
      /\ \A i \in 1..kept : file'[i] = file[i] /\ i \in 1..Len(file)
  BY <1>1, SyncedCounts DEF CrashKeeps, Crash
<1>3. /\ \A k \in 1..kept : EndsReadable(file', k) <=> EndsReadable(file, k)
      /\ \A m \in 0..kept : Whole(file', m) = Whole(file, m)
      /\ \A k \in 1..Whole(file, kept) : WholeEvents(file')[k] = WholeEvents(file)[k]
  BY <1>1, <1>2, SameBeginning DEF CrashKeeps
<1> DEFINE w == Whole(file, kept)
<1>4. /\ w \in Nat /\ Whole(file, synced) \in Nat /\ Whole(file, Len(file)) \in Nat
      /\ Whole(file, synced) <= w /\ w <= Whole(file, Len(file))
  BY <1>2, ReadableFinite, WholeGrows
<1>5. /\ WholeEvents(file) \in Seq(Event) /\ Len(WholeEvents(file)) = Whole(file, Len(file))
      /\ WholeEvents(file') \in Seq(Event) /\ Len(WholeEvents(file')) = w
      /\ Whole(file', synced') = w
  BY <1>2, <1>3, EventsAre
<1>6. WholeEvents(file') = SubSeq(WholeEvents(file), 1, w)
  <2> HIDE DEF w
  <2>1. /\ SubSeq(WholeEvents(file), 1, w) \in Seq(Event)
        /\ Len(SubSeq(WholeEvents(file), 1, w)) = w
        /\ \A k \in 1..w : SubSeq(WholeEvents(file), 1, w)[k] = WholeEvents(file)[k]
    BY <1>4, <1>5
  <2>2. \A k \in 1..w : WholeEvents(file')[k] = SubSeq(WholeEvents(file), 1, w)[k]
    BY <1>3, <2>1 DEF w
  <2> QED BY <1>5, <2>1, <2>2, SeqEqual
<1>7. lost \subseteq lost' /\ \A i \in 1..Len(file) : i > kept => file[i].event \in lost'
  BY <1>1, CrashLoses DEF Positions
<1>8. \A k \in (w + 1)..Len(WholeEvents(file)) : WholeEvents(file)[k] \in lost'
  <2> TAKE k \in (w + 1)..Len(WholeEvents(file))
  <2>1. k \in 1..Whole(file, Len(file)) /\ w < k /\ k \in Nat
    BY <1>4, <1>5
  <2> DEFINE i == Nth(file, k)
  <2>2. i \in Readable(file, Len(file)) /\ Whole(file, i) = k
    BY <1>2, <2>1, NthFound
  <2>3. i \in 1..Len(file) /\ WholeEvents(file)[k] = file[i].event
    BY <2>1, <2>2 DEF Readable, WholeEvents
  <2> HIDE DEF i
  <2>4. i > kept
    <3> SUFFICES ASSUME i <= kept PROVE FALSE
      BY <1>2, <2>3
    <3>1. Whole(file, i) <= w
      BY <1>2, <2>3, WholeGrows
    <3> QED BY <1>4, <2>1, <2>2, <3>1
  <2> QED BY <1>7, <2>3, <2>4
<1>9. Spoilt' \subseteq Spoilt /\ Spoilt \subseteq Spoilt' \cup lost'
  <2>1. \A e : e \in Spoilt' <=> \E k \in 1..kept :
           file'[k].part = 3 /\ ~EndsReadable(file', k) /\ e = file'[k].event
    BY <1>2 DEF Spoilt
  <2>2. \A e : e \in Spoilt <=> \E k \in 1..Len(file) :
           file[k].part = 3 /\ ~EndsReadable(file, k) /\ e = file[k].event
    BY <1>2 DEF Spoilt
  <2>3. \A k \in 1..Len(file) : k \in 1..kept \/ k > kept
    BY <1>2
  <2> QED BY <1>2, <1>3, <1>7, <2>1, <2>2, <2>3
<1>10. Trace!Crash
  <2>1. w \in Whole(file, synced)..Len(WholeEvents(file))
    BY <1>4, <1>5
  <2>2. Torn' \in BOOLEAN
    BY DEF Torn
  <2> HIDE DEF w
  <2> QED BY <1>2, <1>5, <1>6, <1>7, <1>8, <1>9, <2>1, <2>2 DEF Trace!Crash
<1> QED BY <1>10 DEF Trace!Next

LEMMA NextTrace ==
    Typed /\ Shape /\ NumbersGrow /\ Fresh /\ [Next]_vars => [Trace!Next]_(Trace!vars)
<1> SUFFICES ASSUME Typed, Shape, NumbersGrow, Fresh, [Next]_vars
             PROVE  [Trace!Next]_(Trace!vars)
  OBVIOUS
<1>1. ASSUME NEW t \in Threads, PassClosedCheck(t) \/ Step(t)
      PROVE  [Trace!Next]_(Trace!vars)
  <2>1. CASE PassClosedCheck(t) \/ TakeLock(t)
    <3>1. UNCHANGED <<use, file, synced, returned, lost>>
      BY <2>1 DEF PassClosedCheck, TakeLock, ghosts
    <3> QED BY <3>1, QuietTrace
  <2> QED BY <1>1, <2>1, WriteTrace, ReturnTrace, FailTrace DEF Step
<1>2. CASE Flush \/ Close
  BY <1>2, SyncTrace
<1>3. CASE Crash
  BY <1>3, CrashTrace
<1>4. CASE Open \/ UNCHANGED vars
  <2>1. UNCHANGED <<use, file, synced, returned, lost>>
    BY <1>4 DEF Open, ghosts, vars, process
  <2> QED BY <2>1, QuietTrace
<1> QED BY <1>1, <1>2, <1>3, <1>4 DEF Next

\* The log implements the abstract trace, for any threads, uses, failures and
\* crashes: events enter at the end in the order of their numbers and are
\* acknowledged when they are in, durable if the log is synchronous; a failed
\* append or a crash spoils no more than the one event that follows; only an end
\* that is not durable is cut (AppendOnlyJsonlLogger, read_events).
THEOREM LogIsATrace == Spec => ImplementsTrace
<1>1. Init => Trace!Init
  BY InitTrace
<1>2. Typed /\ Shape /\ NumbersGrow /\ Fresh /\ [Next]_vars => [Trace!Next]_(Trace!vars)
  BY NextTrace
<1> QED BY <1>1, <1>2, AlwaysTyped, AlwaysShape, AlwaysGrow, AlwaysFresh, PTL
        DEF Spec, ImplementsTrace, Trace!Spec
=============================================================================
