# Verification of the AgentMem benchmark harness

This directory models the harness of the repository in TLA+: the proxy that
meters model calls, the adapters with their settlement protocol, the benchmark
runner and its resume, the load driver, and the computations on data and logs.
TLC checks small instances; TLAPS proves what holds for all.

Run from this directory: `tlc -workers 2 -config RUN.cfg MODULE` for a run
of `PROJECT.json`, `tlapm MODULEProofs.tla` for the proofs.

## The system

A harness process (`bench/`) drives one memory system through an adapter
(`adapters/`). Every model call, by the harness itself (reader, judge) or by the
memory system, goes through one proxy process (`proxy/`), which forwards it and
appends one event to a JSONL log. The harness appends its own events to a run
log. `load/` sends operations on a schedule. `analysis/` reads both logs later
and never talks to a live component.

    Runner --calls--> MemoryAdapter --HTTP--> memory system
      |                    |                      |
      | append         scope enter/exit       model calls
      v                    v                      v
    run.jsonl            proxy: ScopeRegistry, request pipeline --> provider
                           | append
                           v
                         proxy log

| component (source) | state | operations | hard behaviour | modules |
|---|---|---|---|---|
| event log writer (`proxy/logging.py`) | file, `_seq`, `_closed`, `_lock` | open, append, flush, close | threads, short and failing writes, crash, reopening | EventLog, EventTrace |
| attribution (`proxy/tags.py`) | none (pure) | normalize, merge scopes, resolve | precedence, disagreeing scopes | Tags |
| scopes (`proxy/client.py`, `app.py`, `tags.py`) | `_scopes` of the proxy; where each operation is | scope/enter, scope/exit, resolve on arrival | overlap, lost and late messages, timeouts, a log that fails, proxy restart | ScopeAttribution |
| request pipeline (`proxy/app.py`) | one CallRecord per request, the connection pool | refuse, forward, stream, log, shut down | failures at every await, client disconnects, background logging | ModelCall |
| streams (`proxy/app.py`) | `buf`, `rec.usage`, `completion_text` | cut into events, absorb, hide, pass on | chunk boundaries, framing, broken streams | StreamRelay |
| settlement (`adapters/base.py` and the hooks in `mem0.py`, `zep.py`, `letta.py`) | `_canaries`, CanaryRecord | reset, plant, poll, wait, cleanup, read, reset_all | timing, raising hooks, reuse of a pending canary | Settlement |
| adapter lifecycle (`adapters/mem0.py`, `zep.py`, `letta.py`) | `_started`, clients, Letta's `_agents` | start, close, reset, write, search, reset_all | check-then-await, half-done resets, late requests | AdapterLifecycle |
| runner (`bench/runner.py`, `resume.py`, `run.py`) and the counts of `analysis/` | run.jsonl, manifest, `_completed`, position | launch, resume, instance loop, end | crash and interrupt windows, resume after failure | RunResume |
| load driver (`load/driver.py`, `arrivals.py`) | semaphore, schedule, clock | run_open_loop | in-flight limit, queueing delay, cancellation | OpenLoop, OpenLoopSchedule |
| dataset (`bench/longmemeval.py`, `format_session_messages`, `split_writes`) | none (pure) | load, select, synthesize, split into writes | blank turns, dates, pairs, labels | Dataset, Offline |
| reader and judge (`bench/prompts.py`, `reader.py`, `judge.py`) | none (pure) | list memories, read replies | thinking blocks, undated memories | Verdicts, Offline |
| fake upstream (`proxy/fake_upstream.py`) | none (pure) | extract, answer, judge, stream | agreement with prompts and readers | Provider, StreamRelay, Offline |
| analysis (`analysis/`, `load/histogram.py`) | none (pure) | read, validate, count, percentiles, tests, ranks | ties, missing values, groups without a name | Analysis, Offline |
| settings, token estimates, registry, metadata, preflight, faults, tables, figures, scripts | - | - | see "Not modelled" | - |

## What makes each component correct

* Event log: a line is one event; numbering increases and gaps mean lost
  events; what was synced survives; an append ends; in all, a trace that only
  grows.
* Attribution: a call is charged to the operation that caused it or left blank,
  never to another; an operation that is over leaves no scope.
* Request pipeline: one event per forwarded request, telling what happened;
  connections come back; requests end. A stream reaches the client unchanged but
  for the chunk the proxy asked for, and is accounted for however it was cut.
* Settlement: the recorded bounds of a canary's lag enclose the moment it became
  retrievable up to one request, a timeout was polled in full, the benchmark read sees no canary nobody knows of; waits end.
* Adapter lifecycle: a reset removes what its session had and nothing else; a
  session's agent exists; no client is left open.
* Runner: what completed is never run again, what failed is retried, nothing of
  an earlier attempt reaches the reader, the analysis counts a question once.
* Load driver: a slow system never moves the schedule, no place stays free while
  arrivals wait for one, every arrival is recorded.
* Computations: what the adapter is given is the dataset, replies are read as
  the protocols say, numbers agree with their definitions and with each other.

## Modules

### EventLog and EventTrace
The file is a sequence of pieces, three per event (start of the text, its end,
the newline), so that every cut of a line that matters is a state. `Write` is
one `os.write` and takes any non-empty part of what is left. Reading
(`Lines`, `Parses`) is `read_events`: split at newlines, parse. `Crash` keeps
any part of the file no shorter than the synced one; a sync may fail with the
event on file. `use` is chosen at the start: the proxy draws a new instance id
per process, the runner reuses its run id and reads the whole log first. The
assumption on `Uses` says just that: an id is only ever resumed after the log was
read. `Runner.__init__` (`bench/runner.py:107`) refuses a log that is not empty
unless it resumes, and a resume calls `completed_cells` before it opens the
writer. Without it numbers would start again at 0 behind a torn last line.

`EventTrace` is what a reader may rely on, with the damage that failures do:
events enter at the end, numbered in order, and only an end that is not durable
is ever cut. A writer is told of an event when it is in the trace (and durable, if
the log is synchronous), or when it is *spoilt*: a failed append or a crash may
leave a torn line, and the one event that comes next is written behind it, where
no reader can parse it. EventLog implements it: the trace is the events on the
finished lines that `read_events` can parse (`WholeEvents`, from the same `Parses`
as `EventsRead`), `torn` and `spoilt` are read off the file. `read_events` itself
stops at the first line that does not parse; a reader has the whole trace only if
it goes on behind such a line.

* `EventLog_writers`: three threads, three appends, failing writes and syncs,
  `flush` and `close` at any time, two crashes. `WholeLines` holds though
  `close()` may come between the unlocked closed check and the write: that
  append raises before it wrote anything.

### Tags and ScopeAttribution
`Tags` is resolution as pure operators over tag maps (functions with a partial
domain stand for dicts). `ScopeAttribution` lets operations enter and exit their
scopes by messages, which may be lost or overtaken, and lets calls arrive at any
time. A timed-out client does not take its request back. The registry changes
before the scope's event is logged, so a log that fails answers 500 with the
change in place (`EnterUnlogged`, `ExitUnlogged`).

* `ScopeAttribution_overlap`: three operations, two on one client, one fault,
  one restart. Two operations are what ambiguity needs; the third shows that
  another client does not interfere. An event that is not marked ambiguous has
  every field that its operation's scope carries, with the operation's value, and
  no event has another's value there. Both properties speak of the fields the
  caller's scope carries and its headers do not; a field its scope lacks may well
  come from another (see Findings).

### ModelCall
One request from arrival to its event; every `await` that can fail is a place
(`pc`) with its outcomes. Bodies are reduced to what the control flow tests. The
upstream is any server and clients leave whenever they like. A stream whose
client left at a yield is `orphaned`: its `finally` runs when the interpreter
closes the generator, maybe after `Shutdown` has closed the log. `Log` may raise
wherever it is called, as EventLog's append may, without its event or (a failed
fsync) with it; `logged` is set before, so nobody tries again, and a handler that
was about to answer sends a 500. The ghost `fate` names the way a request left if
that way may log nothing: an answer of an unexpected shape, an error body cut, a
client gone before the first step, a closed log, a bodies log that fails, an
append that raises. `OneEventUnlessFated` says that every other request has one
event, so these are the only ways, and that none ever has two. The `responses`
endpoint follows the chat one and shares its value.

* `ModelCall_requests`: two requests for one connection, strict attribution.
* `ModelCall_cut` (expected violation): the docstring's "exactly one MODEL_CALL
  event" without the exception for fates, save that of a log that fails.

### StreamRelay
The bytes of one stream as symbols: one per line of an event, and the line
ends. A step of `stream_body` is a chunk of any size, one event taken from `buf`,
or the rest at the end. Usage blocks may come alone or with content, once or
twice, from servers of the chat or the responses API, the scripted one included.
The body is the flattening of the events' bytes, and what is read of a stretch of
it is the flattening of what each symbol gives (`Selected`): no definition is
recursive, so that the module can be proved about. What should come of a stream is
told from the events (`Visible`, `UsageLines`, `ContentLines`), never from the
chunks. The code takes text from the deltas of the chat API only, so the events of
the responses API carry none here and "all of its text" is about the chat API.

* `StreamRelay_chunks`: every cut into chunks of up to five symbols, LF and CR LF
  framing, a missing last empty line, a broken stream or a lost client anywhere.

### Settlement
One session, with a clock. The memory system makes what it accepted retrievable
whenever it likes. Requests take up to `MaxDelay`; the store is read at some
moment in between. Hooks may raise, with or without their effect. `ResetAll`
empties the system and leaves `_canaries` alone. The memory ids of a canary are
taken to be complete: the default canary is written without inference, so the
system returns the id of what it stored.

* `Settlement_session`: two waits between resets (`policy: per_session`); the
  behaviours with one wait are `per_instance`. A timeout of a canary planted by
  its own wait (`fresh`) was polled in full; a benchmark read sees canaries only
  when a cleanup that failed is on record.
* `LagWithinOneRequest` (in the same run) is about the bounds the code records:
  the lower one is the *end* of the last poll that missed the canary, or the
  acknowledgement if none did. The canary may have become retrievable while that
  answer was under way, so the lower bound may be too late, by at most
  that one request (`MaxDelay` in the property; with 0 there TLC finds the
  canary that is outside its bounds, see Findings).
* `Settlement_reuse` (expected violation): a wait after a timeout takes over the
  old canary with its deadline and is cut short.

### AdapterLifecycle
The adapters as coroutines of one event loop: a step runs from one await to the
next, and "check `_started`, then await `start()`" is split where the code awaits
and nowhere else. `system` is chosen at the start, so one run covers Mem0 (an
instance per operation over one client, own client during `reset_all`), Zep
(driver and instances) and Letta (agents by name, `_agents`, probe agent). The
server's side is external: a call is carried out once at some moment, or raises;
a Letta request whose client gave up stays in `late` and may still take effect.
A memory is one write; Letta keeps it in an agent, the others by session.

`history` is what the properties remember: writes a completed reset must have
removed (`void`), acknowledged writes that must still be there (`kept`), sessions
whose last reset was complete and met no other operation (`steady`), and whether
starts and closes so far were whole and one at a time (`calm`). The conditions
are needed: two first operations of one session delete each other's agent, a
failed reset leaves `_agents` naming a deleted one, and a start that raised, or
met another, leaves its client open. Letta's `_write_impl` skips turns without
text; that case writes nothing and is left out.

* `AdapterLifecycle_tasks`: two coroutines, two sessions, three operations, one
  failing await. Three operations are what it takes to write, reset and read
  while one of them overlaps another.

### RunResume
A chain of processes over one run.jsonl. `Kill` may come anywhere; `Interrupt`
stands for the cancellation of the main task at an await, which passes the
`except Exception` of `run_instance` by and still writes RUN_END. `memory` holds
which processes' writes the memory system has for each question. The counts of
`analysis/metrics.py` and the checks of `analysis/validation.py` are operators
over the log.

* `RunResume_faults`: two questions, three processes, two configurations,
  `on_error` abort or continue in each process. A second question lets a failure
  precede a success; a third process resumes what a resume left.
* `RunResume_revalidate` (expected violation): every process writes a RUN_END, so
  a run that was resumed and is complete never validates.

### OpenLoop and OpenLoopSchedule
One coroutine per arrival: it sleeps until due (or longer, if the loop is busy),
takes a place or queues, runs, records. A freed place is handed to the first
that waits, who goes on some time later, as `asyncio.Semaphore` does. The
semaphore is that of Python 3.11 (`README.md:67`): until such a coroutine has run,
the semaphore counts as locked (`Locked`), so that an arrival may queue while a
place is free; when the coroutine runs it hands that place on (`HandOver`).
`NoIdlePlace` therefore says that while somebody queues every place is taken, or
somebody who was handed one has still to run. `Cancel` is the caller's
cancellation, which `gather` hands on.

`OpenLoopSchedule` is the promise of an open-loop test: the schedule is fixed
first and never moves, nothing starts before it is due, at most `Limit` are in
flight, nothing starts after the test was given up.

* `OpenLoop_limit`: every schedule of up to four arrivals in two ticks, two
  places; four arrivals make one queue while another is handed a place.

### Dataset, Verdicts, Provider, Analysis and Offline
The computing parts as operators. A text is a number or a set of words, as far
as the code tells texts apart; fractions are kept exact by scaling. `Offline`
enumerates the inputs, computes the result with the operators translated from
the code and compares it with a reference definition that says what was asked,
not how it is done (`DatasetReachesAdapter`, `RepliesReadAsAsked`,
`NumbersMatchTheLogs`, each a conjunction of named parts). A question id the
dataset lacks is an input (`Selects`), a malformed file is not: `Loads` says what
the loader accepts and is used on the synthetic dataset. The time of a memory is
what the clock of its zone shows and how far that is behind UTC, since memories are
sorted by the first and shown under the day of the second. Some inputs go
through several components: a session through `split_writes` into Mem0's
extractor, a retrieved memory through the reader's prompt, the scripted reader,
`mem0_strip_answer` and the scripted judge to the verdict.

* `Offline_bounded`: all inputs up to three turns, lines, memories, rows or
  events, five words of a reply, four pairs of a McNemar test and seven synthetic
  instances. Three elements are the least with a first, a middle and a last.

## Bounds

Every bound is a constant named `Max...`, or commented as one, and appears in a
guard or in the set of inputs. Two threads, requests or operations meet in every
order; a third is added where one of them must be a bystander. Symmetry is used
only in runs without liveness. Two crashes (or three processes) let a restart
meet what a restart left. Time bounds are small but keep timeout, delay and poll
interval distinct enough for an answer to arrive after the deadline.

## Fairness

* EventLog: threads inside `append` are scheduled (they block on nothing but the
  lock, which is held across finitely many writes).
* ScopeAttribution: the proxy answers what reaches it; the body of a scope ends,
  since the clients of the adapters have timeouts.
* ModelCall: the event loop runs what can run; each wait for the provider is
  bounded by `httpx.Timeout`, including the wait for a pooled connection.
* Settlement: time passes and the task runs; the memory system owes nothing.
* RunResume: a process that is up runs on; nobody owes a launch.
* OpenLoop: time passes, the event loop runs what can run, an operation ends
  (the clients it uses have timeouts).

Calls, faults, crashes, cancellations and restarts are never fair.

## Proofs

Each module's invariants are proved for every value of its constants that its
assumption admits; the bounds of the runs (`Max...`) are any numbers here. The
inductive invariants were model-checked on the runs' instances first.

| module | obligations | what is proved beside type correctness |
|---|---|---|
| ScopeAttributionProofs | 352 | attribution is exact or announced |
| ModelCallProofs | 779 | one truthful event per request, connections return |
| EventLogProofs | 2817 | whole lines, increasing numbers, explained gaps, durability; refinement of the trace |
| SettlementProofs | 738 | timeouts, bounds of the lag, clean reads |
| AdapterLifecycleProofs | 6453 | one client, agents exist, writes stay, resets forget |
| RunResumeProofs | 970 | no rerun, own writes, nothing lost, counts |
| OpenLoopProofs | 581 | no place idles while an arrival waits; refinement of the schedule |
| StreamRelayProofs | 2818 | exact buffer, streams accounted for, only the injected usage stripped |

`ScopeAttributionProofs`, from `ScopeAssumption` and `AdapterAssumption` (scopes
and headers carry no `client_id`, the token carries that of its client), for any
number of operations, values, faults and restarts:

* `TypeCorrect`.
* `NeverChargedToAnother` and `AmbiguityIsAnnounced`. Both properties are about
  events already logged, so they are not inductive alone: what makes a new event
  right is that the caller's own scope is in the registry while it runs. `IInv`
  adds that (`Registered`, as long as the proxy was not restarted) and that an
  operation passes its places in order (`InOrder`), which keeps a late enter or
  exit from touching a running scope. The lemmas `FieldMergedOrAmbiguous`,
  `ScopeBeatsToken`, `UnambiguousIsKept` and `StateTellsAmbiguity` say what
  resolution returns when the caller's scope is among the active ones.

`ModelCallProofs`, for any requests, pool and stream length, with no assumption
on upstream, clients or shutdown:

* `TypeCorrect`.
* `EventsTellOutcome`. `OutcomeInv` says, for each place, what the record already
  claims (an error until an answer came); logging copies the record, so every
  event is true when it is written, also by an append that then raises.
* `OneEventPerRequest`, `NoConnectionLeaks`. `FatedInv` adds that a request in
  progress has no fate yet and a finished one has its event or its fate, and that
  whoever holds a connection is at a place that leads to returning it, with the
  pool counted by the theorems on cardinality.

`EventLogProofs`, from `EventLogAssumption`, for any number of threads, appends,
failures and crashes, both uses:

* `TypeCorrect`. `Held` and `Counted` say that the writer in the lock has the
  latest number and that calls admitted but not begun are within the bound.
* `LinesAreWhole` and `ReturnedIsDurable` from `Shape`. A line is whole because
  of what its neighbours are, not by itself: `Contiguous` says what stands in
  front of and behind each piece, `TailIsHolders` that what the holder of the lock
  has written so far is the end of the file and nowhere else, `LinesBegin` that
  each piece is on a line, and `ReturnedOnFile` that what was acknowledged has its
  newline on file, in the synced part if the log is synchronous. A crash cuts the
  file anywhere behind the synced part; the pieces in front keep their shape.
* `NumbersIncrease`: `NumbersGrow` adds that the running instance's numbers on
  file are at most `seq`, below it while an event is being written. On a resume
  this needs that `ResumeSeq` finds the last number, which is where the assumption
  on `Uses` is used.
* `GapsMeanLoss`: `NumbersUsed` adds that each number the running instance has
  drawn has its event on file, in the hands of the writer, or lost.
* `LogIsATrace`: the refinement of EventTrace. The trace of a file is defined
  without recursion, its k-th event being that of the k-th newline which ends a
  line that parses (`Nth`), so that no induction is needed: `NthFound` gives a
  newline for each number (as many newlines as numbers, and different ones have
  different numbers), `NthIs` a number for each newline, and `SameBeginning` says
  that files which agree on their first pieces have the same events there.
  `Fresh` adds that the event being written is neither acknowledged nor lost; with
  `Shape` that gives `FrontOfLine`: the line of the writer begins with its own
  event unless the log is torn. A write
  then adds the event whose newline it writes, or spoils it, or does neither
  (`WriteLastLine`), in the order `NumbersGrow` gives; a crash cuts the trace where
  it cuts the file; whoever returns finds its event at the end (`TailIsHolders`),
  in the trace or spoilt.

`SettlementProofs`, from `SettlementAssumption` (numbers for the times, in
particular no relation between timeout, poll interval and delays):

* `TypeCorrect`. The type of the clock is the claim that a wait is over by a time
  known beforehand; `InTime` has the latest moment of each stage.
* `TimeoutsWaited`: `DeadlineKept` says that the deadline of a wait is counted
  from the acknowledgement of its canary, and that cleanup without settlement
  comes only behind it.
* `LagIsCensored`: `Censored` says that a poll that is under way and found the
  canary did so because it was retrievable, that one that did not find it was sent
  before, as was the canary write if its answer is still out, and that
  the failed poll and the acknowledgement on record are later than that moment by
  one `MaxDelay` at most. `MaxDelay` is any number: the duration of one request.
* `ReadsAreClean`: `CleanOrRecorded` says that while an instance is under way,
  what the store holds is the canary being dealt with or one whose cleanup is on
  record as failed or skipped. It speaks of adapters that let a failed deletion
  raise (`CleanupRaises`: Mem0); see Findings for the others.

`AdapterLifecycleProofs`, from `LifecycleAssumption` (names differ, numbers are
numbers), for the three adapters, any number of coroutines, sessions, operations
and faults. `Typed` relates each coroutine's place to its operation and pending
call (`Fits`), so that a step knows what it answers:

* `TypeCorrect`.
* `OneClientOnly` from `Calm`: in calm times at most one coroutine is inside a
  start or a close, and `InMotion` says for each place there which client is open,
  current and held by the instances; when nobody is, the adapter is `AtRest`.
* `AgentsExist` and `WritesStay` from `Settled`. That an agent exists now is not
  enough: a deletion of it may be on its way, as a request that timed out. `Safe`
  is an agent that lives and is not `Condemned` by any listing, pending or late
  call; `AgentsSafe` has it for settled sessions and for the agent being made by an
  operation that is alone, with `Named` to show that a listing by name condemns
  only agents of its own session. `Unsettling` keeps sessions that somebody removes
  from out of `steady`; `AloneIsAlone` says what an operation that met no other may
  rely on; `WritesKept` adds the agent a writer chose and the write it has done.
* `ResetsForget` from `Forgotten`, which needs no session to be settled. Mem0 and
  Zep forget by session: once the system answered the deletion, nothing that was
  over by then is left, and writes that are over are not carried out again
  (`ForgottenBySession`). Letta forgets by agent: void writes are held by no agent
  that `_agents` names and none may get there, not even by a late request, since
  agents are never renamed, a fresh one is in no other coroutine's hands, and a
  write that is under way has chosen its agent (`ForgottenByAgent`).

`RunResumeProofs`, for any questions, configurations and number of processes:

* `TypeCorrect`.
* `CompletedStaysCompleted`: the log alone does not say why a completed question
  is not started again. `Behind` adds that the running process skips it or has
  passed its position already.
* `VerdictsOnOwnWrites`: `OwnWrites` says that from the reset of a question to
  its verdict the memory system holds only what this process wrote for it.
* `NothingIsLost`: `Walked` says that what a process skips has completed in the
  log, and that what it has passed has completed or ended in this process.
* `CountsAddUp`: `Balanced` is the balance of the counts with the verdict that is
  still open and those that were cut on the other side; `VerdictsEnd` says that a
  verdict its process goes on after is followed by its end, and `JudgedOnce` that
  only a cut one is ever judged again. The counts are of sets of positions, so each
  event appended is a lemma on cardinality (`AddedBalanced`).

`OpenLoopProofs`, for any limit, schedule and duration:

* `NoPlaceIdles`: inductive only together with the count of places and a queue
  without repetitions. `Places` says that free, running and handed over places add
  up to the limit, and that while somebody queues no place is free or a coroutine
  that was handed one has still to run; `Queued` that the queue holds each waiting
  arrival once. `HandsOn` is the step both `Dispatch` and `Finish` take when they
  hand a place to the first in the queue.
* `DriverKeepsSchedule`: the refinement. `Timed` and `Due` relate a coroutine's
  place to the times on its record, which gives each step of the driver its step
  of the schedule; that fewer than `Limit` are in flight when one starts follows
  from `Places`.

`StreamRelayProofs`, from `StreamRelayAssumption` (numbers for the bounds), for
any number of words, any size of the chunks, every upstream of the model, streams
that break, lack their last empty line or lose their client anywhere:

* `BufferExact` (its inductive invariant is `BufferInv`, which is also the type
  invariant): until the body has ended, `buf` is the stretch of the body between
  what was taken and what has arrived. Every other statement about a chunk rests
  on this one, since it makes the position in the body, and not the way it was
  reached, decide what the next event is.
* `StreamsAccounted` for both framings. `AccountInv` says that usage and text on
  record are those of the first `c` symbols of the body, `c` being the symbols
  taken so far. The step is that selecting commutes with cutting
  (`SelectedConcat`) and with flattening (`SelectedFlatten`): whatever is taken next,
  a whole event or, with CR LF, the whole rest, the record stays that of a prefix.
  At the end the prefix is the body, whose line ends carry neither usage nor text,
  so the record is that of the events. That a prefix of the symbols gives a prefix
  of the text is `SelectedConcat` again; that a success of the chat API has its usage
  is `UsageSent`, which every upstream of the model satisfies.
* `RelaysExactly` for LF. `RelayInv` says that what was taken is a whole number `j` of
  events, that the client was given the bytes of the first `j` but for the injected
  usage, and that no blank line is in `buf` when the next chunk is read. Why it
  is needed: the search for the blank line restarts at the front of `buf` and finds
  the first one, which is the end of event `j + 1` only if `buf` begins where an
  event begins. With CR LF it does not hold (see Findings).

The induction these need, on the length of a sequence, is made from the theorems on
cardinality: `SetInduction` shows that a set of naturals with 0 and closed under the
successor has every natural, by counting its elements up to that one. The recursive
function in the definition of `FlattenSeq` is shown to exist and to be the only one
(`FlattenerExists`, `FlattenIs`); `FlattenStep` and `FlattenCut` are what the rest
cites.

Only model-checked:

* the liveness properties (`AppendEnds`, `ScopesDrain`, `RequestsEnd`, `WaitsEnd`,
  `ProcessesEnd`, `EveryArrivalRecorded`): fairness and ENABLED are out of the
  prover's reach;
* the three properties of Offline: each compares folds and sorts of the computing
  parts with a definition over all inputs, so that its proof is an induction over
  data for each fold and each sort (the one flattening of StreamRelay already
  takes a dozen lemmas). Nothing interleaves there, and the run enumerates every
  input up to the bounds.

## Findings

The runs marked `violation` in `PROJECT.json` each show one place where code and
documentation disagree, with the counterexample TLC prints; `findings` quotes the
sentence and names the line.

Reading and smaller runs showed more, which no sentence of the repository denies
or which needs no interleaving to see:

Proxy

* A torn line takes the next event with it, since the newline comes last
  (`proxy/logging.py:62`); a writer reopened on a log whose last line is torn
  starts again at 0 (`:47`), and `read_jsonl` refuses the whole log.
* `enter_scope` runs outside the `try` of `scope()` (`proxy/client.py:75`): when
  the client times out after the proxy registered the scope, nobody exits it and
  the next operations of that client become ambiguous with it. `README.md:269`
  calls the cost of sequential runs exact.
* Scopes "agree" on a field that only one of them has (`proxy/tags.py:221`), so a
  field the caller's scope lacks may be filled from another's, though the docstring
  (`:209`) has "agree" mean identical values on every field. Each of the
  repository's adapters uses one set of fields per client, which rules it out; the
  endpoint takes any.
* Strict attribution lets `models` requests pass, since `operation=meta` is filled
  in before the check (`proxy/app.py:412`).
* A bodies log whose append fails costs the call its event (`proxy/app.py:461`,
  `:524`, `:690`).
* An upstream that ends its lines with CR LF has no two adjacent newlines
  (`proxy/app.py:662`): the stream is held back to its end and, if the injected
  usage chunk is in it, hidden as a whole.
* A stream that breaks after its usage chunk is logged as an error with
  `usage_source: upstream`; `README.md:165` says failed requests have none.

Adapters

* The lower bound of a canary's lag is the time the answer of the last failed poll
  arrived (`adapters/base.py:330`), not the time that search was sent. A canary that
  becomes retrievable after the store was read and before the answer arrives does so
  before its lower bound, though `analysis/metrics.py:162` calls the two
  "retrievability bounds".
* The canary hooks of Zep and Letta swallow failed deletions
  (`adapters/zep.py:346`, `adapters/letta.py:316`), so the cleanup is always
  recorded as done.
* `reset_all` leaves `_canaries` of the base class in place: the next wait reuses
  a canary that is gone.

Runner and analysis

* A question killed between JUDGE_END and INSTANCE_END is judged twice, and the
  figure that counts errors as wrong may then count more right answers than
  instances.
* An interrupted run has one RUN_START and one RUN_END and validates, though
  questions are missing. `validate_run` looks for unattributed model calls in
  run.jsonl, which holds no MODEL_CALL events.
* A JSONL dataset of one line parses as a JSON object and is rejected
  (`bench/longmemeval.py:112`).
* With dates in front of the first user turn, pairs and `skip_empty_pairs`, a
  session may lose its date with the pair that carried it, and a blank first user
  turn is kept because its date makes it non-blank.
* The needle of a synthetic session is inserted as a user and an assistant turn
  after one turn of filler; under pairs the halves may be split from each other.
* Memories are sorted by the text of their time (`bench/reader.py:45`) but shown
  under its day in UTC (`bench/prompts.py:304`): with times of several zones a day
  may have two headings.
* In the system's own order, an undated memory stands under the date of the one
  before it (`bench/prompts.py:332`).
* With the scripted provider, a reader of one style judged in the other makes
  every abstention wrong: the two refusals are worded differently.

## Not modelled, and plan

Left out: the wording of prompts and texts; local token estimates (a number in
the event that nothing depends on); reading of settings; the adapter registry
(a lookup and a hash of a file); fingerprints, health and metadata of hits; host
metadata and preflight (inspection of the machine); intervals of the normal
distribution and bootstraps (floating point); tables and figures (layout);
`faults/` (four subclasses around callbacks and a `classify` of three Booleans,
with no caller but a unit test); the scripts, which drive the components above.

Left for later, in this order:

1. ModelCall and ScopeAttribution composed over one event log.
2. AdapterLifecycle with the canaries of Settlement, so that a pending canary
   meets two coroutines.
3. Proofs about parts of Offline whose operators are flattenings and selections
   (`WritesCarryTheSession`, `CostAddsUp`), from the lemmas of StreamRelayProofs.
