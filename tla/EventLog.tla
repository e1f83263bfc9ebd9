------------------------------ MODULE EventLog ------------------------------
(***************************************************************************)
(* The append-only JSONL writer of proxy/logging.py, shared by the proxy   *)
(* (event loop thread plus the thread pool that runs BackgroundTask) and   *)
(* by the benchmark runner.                                                *)
(*                                                                         *)
(* The file is a sequence of pieces.  One event is written as three pieces *)
(* in order: the beginning of its JSON text, the end of it, its newline.   *)
(* os.write may take any non-empty prefix of what is left and the loop     *)
(* writes the rest, so a failure or a crash can leave any prefix behind.   *)
(***************************************************************************)
EXTENDS Integers, FiniteSets, Sequences

CONSTANTS
    Threads,      \* threads of one process that call append()
    NULL,         \* model value: the lock is free / the thread has no event
    Uses,         \* the ways the writer is used, see Use
    MaxCalls,     \* bound: append() calls that reach the lock, over all lives
    MaxRestarts,  \* bound: crashes of the process or of the machine
    MaxFailures   \* bound: os.write calls that fail for the disk's sake

\* fsync: the argument of the writer.  stableId: a restarted writer is given
\* the same instance_id (the benchmark runner: the run id), else it draws a new
\* one (the proxy: uuid4).  readsFirst: a restart reads the whole trace before
\* it opens the writer (Runner, completed_cells) and gives up if it cannot.
Use == [fsync : BOOLEAN, stableId : BOOLEAN, readsFirst : BOOLEAN]

\* A writer is given an id to resume only after the trace was read: the runner
\* refuses a log that is not empty unless it resumes it (runner.py:107-112).
ASSUME EventLogAssumption ==
    /\ NULL \notin Threads
    /\ Uses \subseteq Use
    /\ \A u \in Uses : u.stableId => u.readsFirst
    /\ {MaxCalls, MaxRestarts, MaxFailures} \subseteq Nat

VARIABLES
    use,       \* which of the uses this is; never changes
    file,      \* the pieces on disk, as another process would read them
    synced,    \* how many of them os.fsync has made durable
    up,        \* the process is running
    instance,  \* self.instance_id
    seq,       \* self._seq
    closed,    \* self._closed; the descriptor is closed when it is set
    lock,      \* holder of self._lock
    pc,        \* where each thread is in append()
    record,    \* the event each thread is writing, NULL if none
    written,   \* how many of its three pieces os.write has accepted
    calls,     \* ghost: append() calls so far, tells events apart
    returned,  \* ghost: events whose append() returned
    lost,      \* ghost: events whose append() raised, or that a crash cut
    restarts,  \* ghost: restarts so far
    failures   \* ghost: failed os.write calls so far

process == <<instance, seq, closed, lock, pc, record, written>>
ghosts  == <<calls, returned, lost, restarts, failures>>
vars    == <<use, file, synced, up, process, ghosts>>

Event == [instance : 0..MaxRestarts, seq : 1..MaxCalls, call : 1..MaxCalls]
Piece == [event : Event, part : 1..3]

-----------------------------------------------------------------------------
(* What a reader of the file sees (read_events: split on newlines, parse). *)

Lines(f) ==
    {line \in (1..Len(f)) \X (1..Len(f)) :
        /\ line[1] <= line[2]
        /\ line[1] = 1 \/ f[line[1] - 1].part = 3
        /\ line[2] = Len(f) \/ f[line[2]].part = 3
        /\ \A k \in line[1]..(line[2] - 1) : f[k].part # 3}

\* json.loads accepts the line: one whole event and nothing else; only the
\* newline may be missing, on the last line.
Parses(f, line) ==
    LET i == line[1]  j == line[2] IN
    /\ j - i \in {1, 2}
    /\ \A k \in i..j : f[k] = [event |-> f[i].event, part |-> k - i + 1]

TraceParses(f) == \A line \in Lines(f) : Parses(f, line)
EventsRead(f)  == {f[line[1]].event : line \in {l \in Lines(f) : Parses(f, l)}}

\* Faulty variants of ResumeSeq: always from 0; by the number of events.
ResumeSeqZero(f, id) == 0
ResumeSeqSkips(f, id) == IF f = <<>> THEN 0 ELSE f[Len(f)].event.seq + 1

\* The sequence number a writer with instance id id starts from: the last
\* event's, if the whole file parses and that event is its own; else 0 (the
\* parse error is swallowed).
ResumeSeq(f, id) ==
    IF f # <<>> /\ TraceParses(f) /\ f[Len(f)].event.instance = id
    THEN f[Len(f)].event.seq
    ELSE 0

-----------------------------------------------------------------------------
Init ==
    /\ use \in Uses
    /\ file = <<>>
    /\ synced = 0
    /\ up = TRUE
    /\ instance = 0
    /\ seq = 0
    /\ closed = FALSE
    /\ lock = NULL
    /\ pc = [t \in Threads |-> "idle"]
    /\ record = [t \in Threads |-> NULL]
    /\ written = [t \in Threads |-> 0]
    /\ calls = 0
    /\ returned = {}
    /\ lost = {}
    /\ restarts = 0
    /\ failures = 0

\* append() reads _closed before it takes the lock; a closed writer raises
\* and changes nothing.
PassClosedCheck(t) ==
    /\ up
    /\ pc[t] = "idle"
    /\ calls + Cardinality({u \in Threads : pc[u] = "admitted"}) < MaxCalls
    /\ ~closed
    /\ pc' = [pc EXCEPT ![t] = "admitted"]
    /\ UNCHANGED <<use, file, synced, up, instance, seq, closed, lock, record, written, ghosts>>

\* `with self._lock`.  Faulty variants: it is not waited for; a raise keeps it.
NoWait == TRUE
KeepLock == UNCHANGED lock

LockFree == lock = NULL

ReleaseLock == lock' = NULL

\* With the lock: the sequence number is consumed before anything is written.
TakeLock(t) ==
    /\ pc[t] = "admitted"
    /\ LockFree
    /\ lock' = t
    /\ seq' = seq + 1
    /\ calls' = calls + 1
    /\ record' = [record EXCEPT ![t] =
                    [instance |-> instance, seq |-> seq + 1, call |-> calls + 1]]
    /\ written' = [written EXCEPT ![t] = 0]
    /\ pc' = [pc EXCEPT ![t] = "writing"]
    /\ UNCHANGED <<use, file, synced, up, instance, closed, returned, lost, restarts, failures>>

\* view = view[written:].  Faulty variant: one too far.
AdvanceTooFar(t, n) == written[t] + n + 1
Advance(t, n) == written[t] + n

\* One os.write of the loop: a non-empty prefix of what is left reaches the
\* file, at its end (O_APPEND).
Write(t) ==
    /\ pc[t] = "writing"
    /\ ~closed
    /\ \E n \in 1..(3 - written[t]) :
         /\ file' = file \o [k \in 1..n |-> [event |-> record[t], part |-> written[t] + k]]
         /\ written' = [written EXCEPT ![t] = Advance(t, n)]
    /\ UNCHANGED <<use, synced, up, instance, seq, closed, lock, pc, record, ghosts>>

\* Thread t leaves append().
Leave(t) ==
    /\ record' = [record EXCEPT ![t] = NULL]
    /\ pc' = [pc EXCEPT ![t] = "idle"]

\* os.write raises: the descriptor was closed since the check, or the disk
\* failed.  The with block releases the lock; what was written stays.
WriteRaises(t) ==
    /\ pc[t] = "writing"
    /\ written[t] < 3
    /\ \/ closed /\ UNCHANGED failures
       \/ failures < MaxFailures /\ failures' = failures + 1
    /\ lost' = lost \cup {record[t]}
    /\ ReleaseLock /\ Leave(t)
    /\ UNCHANGED <<use, file, synced, up, instance, seq, closed, written, calls, returned, restarts>>

\* `if self.fsync`.  Faulty variant: never.
NotSynced == synced
SyncedNow == IF use.fsync THEN Len(file) ELSE synced

\* All of it is written: fsync if asked to, release the lock, return the record.
Return(t) ==
    /\ pc[t] = "writing"
    /\ written[t] = 3
    /\ synced' = SyncedNow
    /\ returned' = returned \cup {record[t]}
    /\ lock' = NULL /\ Leave(t)
    /\ UNCHANGED <<use, file, up, instance, seq, closed, written, calls, lost, restarts, failures>>

\* os.fsync raises: the event is on file, but append() raises.
SyncRaises(t) ==
    /\ pc[t] = "writing"
    /\ written[t] = 3
    /\ use.fsync
    /\ failures < MaxFailures
    /\ failures' = failures + 1
    /\ lost' = lost \cup {record[t]}
    /\ ReleaseLock /\ Leave(t)
    /\ UNCHANGED <<use, file, synced, up, instance, seq, closed, written, calls, returned, restarts>>

\* flush(): fsync with the lock held, unless closed.
Flush ==
    /\ up /\ ~closed /\ lock = NULL
    /\ synced' = Len(file)
    /\ UNCHANGED <<use, file, up, process, ghosts>>

\* close(), all of it with the lock held: the descriptor is closed also if the
\* fsync before it raises.
Close ==
    /\ up /\ ~closed /\ lock = NULL
    /\ \/ synced' = Len(file) /\ UNCHANGED failures
       \/ failures < MaxFailures /\ failures' = failures + 1 /\ UNCHANGED synced
    /\ closed' = TRUE
    /\ UNCHANGED <<use, file, up, instance, seq, lock, pc, record, written,
                   calls, returned, lost, restarts>>

\* The process dies (kept = everything written) or the machine loses power
\* (kept = any part of the file no shorter than what fsync covered).
Crash ==
    /\ up
    /\ restarts < MaxRestarts
    /\ up' = FALSE
    /\ \E kept \in synced..Len(file) :
         /\ file' = SubSeq(file, 1, kept)
         /\ synced' = kept
    /\ lost' = lost \cup {record[t] : t \in {u \in Threads : pc[u] = "writing"}}
                     \cup {file[k].event : k \in (synced' + 1)..Len(file)}
    /\ lock' = NULL
    /\ pc' = [t \in Threads |-> "idle"]
    /\ record' = [t \in Threads |-> NULL]
    /\ restarts' = restarts + 1
    /\ UNCHANGED <<use, instance, seq, closed, written, calls, returned, failures>>

\* AppendOnlyJsonlLogger.__init__ on an existing file, in a new process.
Open ==
    /\ ~up
    /\ use.readsFirst => TraceParses(file)
    /\ up' = TRUE
    /\ instance' = IF use.stableId THEN instance ELSE instance + 1
    /\ seq' = ResumeSeq(file, instance')
    /\ closed' = FALSE
    /\ UNCHANGED <<use, file, synced, lock, pc, record, written, ghosts>>

Step(t) == TakeLock(t) \/ Write(t) \/ WriteRaises(t) \/ Return(t) \/ SyncRaises(t)

Next ==
    \/ \E t \in Threads : PassClosedCheck(t) \/ Step(t)
    \/ Flush
    \/ Close
    \/ Crash
    \/ Open

\* Threads that are inside append() are scheduled; nobody has to call it,
\* close it, crash or restart.
Fairness == \A t \in Threads : WF_vars(Step(t))

Spec == Init /\ [][Next]_vars /\ Fairness
-----------------------------------------------------------------------------
TypeOK ==
    /\ use \in Uses
    /\ file \in Seq(Piece)
    /\ synced \in 0..Len(file)
    /\ up \in BOOLEAN
    /\ closed \in BOOLEAN
    /\ instance \in 0..MaxRestarts
    /\ seq \in 0..MaxCalls
    /\ lock \in Threads \cup {NULL}
    /\ pc \in [Threads -> {"idle", "admitted", "writing"}]
    /\ record \in [Threads -> Event \cup {NULL}]
    /\ written \in [Threads -> 0..3]
    /\ calls \in 0..MaxCalls
    /\ returned \subseteq Event
    /\ lost \subseteq Event
    /\ restarts \in 0..MaxRestarts
    /\ failures \in 0..MaxFailures

\* "Concurrent appends never interleave" (logging.py, module docstring), and
\* what a failure damages is bounded: a line that is not one whole event is the
\* one a lock holder is in the middle of, or holds what is left of an event
\* that was lost; and an event whose append() returned is read back unless a
\* lost one stands before it on its line or it was itself cut off by a crash.
WholeLines ==
    /\ \A line \in Lines(file) :
          \/ Parses(file, line)
          \/ line[2] = Len(file) /\ lock # NULL
          \/ \E k \in line[1]..line[2] : file[k].event \in lost
    /\ \A e \in returned \ (EventsRead(file) \cup lost) :
          \E line \in Lines(file) : \E j, k \in line[1]..line[2] :
              j < k /\ file[j].event \in lost /\ file[k].event = e

\* Each event carries a monotonically increasing seq (docstring): along the
\* file the sequence numbers of one instance id only grow, whatever failed,
\* crashed or was resumed under the same id in between.
SeqIncreasing ==
    \A i, j \in 1..Len(file) :
        (i < j /\ file[i].event.instance = file[j].event.instance
              /\ file[i].event # file[j].event)
            => file[i].event.seq < file[j].event.seq

\* Gaps are detectable (docstring) and mean something: a sequence number that
\* is missing below one that is on file belongs to an append() that raised or
\* was cut by a crash, never to the numbering itself.
GapsExplained ==
    \A i \in 1..Len(file) : \A s \in 1..(file[i].event.seq - 1) :
        \E e \in lost \cup {file[k].event : k \in 1..Len(file)} :
            e.instance = file[i].event.instance /\ e.seq = s

\* With fsync=True (the benchmark runner) every piece of an event whose
\* append() returned is on disk after any crash or power loss.
ReturnedSurvives ==
    use.fsync => \A e \in returned : \A p \in 1..3 :
                \E i \in 1..Len(file) : file[i] = [event |-> e, part |-> p]

\* Piece k is the newline of a line that parses; such newlines among the first
\* n pieces, how many they are, and the events of file f that are read back
\* from finished lines, in their order.
EndsReadable(f, k) ==
    /\ f[k].part = 3
    /\ \E i \in 1..k : (i = 1 \/ f[i - 1].part = 3) /\ Parses(f, <<i, k>>)
Readable(f, n)    == {k \in 1..n : EndsReadable(f, k)}
Whole(f, n)       == Cardinality(Readable(f, n))
Nth(f, k)         == CHOOSE i \in Readable(f, Len(f)) : Whole(f, i) = k
WholeEvents(f)    == [k \in 1..Whole(f, Len(f)) |-> f[Nth(f, k)].event]

\* What a lost event left stands on the last line, which has no newline yet;
\* the events that got their newline on a line that does not parse.
Torn   == \E k \in DOMAIN file : /\ file[k].event \in lost
                                 /\ \A j \in k..Len(file) : file[j].part # 3
Spoilt == {file[k].event : k \in {j \in DOMAIN file : file[j].part = 3 /\ ~EndsReadable(file, j)}}

\* The events on the finished lines that parse are the trace of EventTrace: an
\* event enters it with its newline, in the order of the numbers, and stays but
\* for a crash; an acknowledged one is missing from it only if it was the one
\* event that followed a torn line, or was cut by a crash (append and close,
\* logging.py:52-84).  A line is read as read_events reads it; it gives up at
\* the first line that does not parse, so while some event is lost or spoilt a
\* reader must go on behind that line by itself to have the whole trace.
Trace == INSTANCE EventTrace WITH
    sync <- use.fsync, trace <- WholeEvents(file), durable <- Whole(file, synced),
    acked <- returned, torn <- Torn, spoilt <- Spoilt

ImplementsTrace == Trace!Spec

\* An append() that passed the closed check always ends, by returning or by
\* raising: the lock is released on every path, also when os.write fails.
AppendEnds == \A t \in Threads : pc[t] = "admitted" ~> pc[t] = "idle"
=============================================================================
