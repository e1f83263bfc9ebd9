----------------------------- MODULE ModelCall -----------------------------
(***************************************************************************)
(* One request to the data plane of the proxy (proxy/app.py), from its     *)
(* arrival to its MODEL_CALL event: handle_model_request, _forward_simple, *)
(* _forward_stream and CallRecord.log, for several requests that share the *)
(* connections of the upstream client.                                     *)
(*                                                                         *)
(* Bodies are reduced to what decides the control flow.  The upstream is   *)
(* any server: it answers, fails, times out or cuts its answer at any      *)
(* point; clients may leave, and the proxy may be stopped.                 *)
(***************************************************************************)
EXTENDS Naturals, FiniteSets, Sequences

CONSTANTS
    Requests,        \* requests the proxy receives
    MaxConnections,  \* settings.upstream_max_connections
    Strict,          \* settings.require_attribution
    MaxChunks        \* bound: chunks of one stream

ASSUME ModelCallAssumption ==
    /\ MaxConnections \in Nat \ {0}
    /\ Strict \in BOOLEAN
    /\ MaxChunks \in Nat

VARIABLES
    input,     \* what each request asks for
    pc,        \* where its handler is
    rec,       \* its CallRecord
    held,      \* requests that hold an upstream connection
    events,    \* the MODEL_CALL events of each request
    reply,     \* the status line the client was sent, 0 if none yet
    forwarded, \* ghost: the request was sent upstream (or tried to be)
    complete,  \* ghost: a whole 2xx answer was received from the upstream
    chunks,    \* ghost: chunks streamed so far
    fate,      \* ghost: the way the request left that logs nothing, if any
    stopped    \* the lifespan has ended: upstream client and log are closed

vars == <<input, pc, rec, held, events, reply, forwarded, complete, chunks, fate, stopped>>

Input == [endpoint    : {"chat", "embeddings", "models", "unsupported"},
          stream      : BOOLEAN,
          attribution : {"invalid", "none", "some"},
          goodBody    : BOOLEAN]

\* connecting: waits for a connection; waiting: for the upstream's headers;
\* responding: a whole answer is about to be sent, the log is a background
\* task; errorBody: reading a non-2xx answer to a streaming request;
\* unstarted, reading, yielding, closing: the generator stream_body before its
\* first step, at aiter_raw, at a yield, in its finally; orphaned: left at a
\* yield, its finally runs when the event loop's finalizer closes it.
PCs == {"new", "connecting", "waiting", "responding", "background",
        "errorBody", "unstarted", "reading", "yielding", "closing", "orphaned", "finished"}

\* Ways to leave without a call of rec.log that returns.
Fates == {"ordinary", "error_body_cut", "malformed", "left_unstarted", "after_stop",
          "bodies_unlogged", "log_raised"}

Errors == {"none", "invalid_attribution", "unattributed_request", "unsupported_endpoint",
           "invalid_request_body", "upstream_timeout", "upstream_unreachable",
           "upstream_error", "upstream_stream_error", "client_disconnected"}

Record == [status : {"error", "success"}, http : Nat, error : Errors]

UpstreamCodes == {200, 500}
Failures == {[http |-> 504, error |-> "upstream_timeout"],
             [http |-> 502, error |-> "upstream_unreachable"]}

\* Faulty variants: a third status; a success until something says otherwise.
NewRecordPending == [status |-> "pending", http |-> 0, error |-> "none"]
NewRecordOptimistic == [status |-> "success", http |-> 0, error |-> "none"]

\* CallRecord.__init__: an error until something says otherwise.
NewRecord == [status |-> "error", http |-> 0, error |-> "none"]

\* CallRecord.fail
Failed(http, error) == [status |-> "error", http |-> http, error |-> error]

-----------------------------------------------------------------------------
Init ==
    /\ input \in [Requests -> Input]
    /\ pc = [r \in Requests |-> "new"]
    /\ rec = [r \in Requests |-> NewRecord]
    /\ held = {}
    /\ events = [r \in Requests |-> <<>>]
    /\ reply = [r \in Requests |-> 0]
    /\ forwarded = [r \in Requests |-> FALSE]
    /\ complete = [r \in Requests |-> FALSE]
    /\ chunks = [r \in Requests |-> 0]
    /\ fate = [r \in Requests |-> "ordinary"]
    /\ stopped = FALSE

Goto(r, stage)  == pc' = [pc EXCEPT ![r] = stage]
Answer(r, http) == reply' = [reply EXCEPT ![r] = http]
SetRecord(r, c) == rec' = [rec EXCEPT ![r] = c]
Meets(r, f)     == fate' = [fate EXCEPT ![r] = f]

\* CallRecord.log appends one event holding c, the first time it is called; or
\* it raises (a token count, the disk, the encoding, fsync), with the event on
\* file if only the fsync failed.  `logged` is set: nobody tries again.
LogReturns(r, c) ==
    /\ events' = IF events[r] = <<>> THEN [events EXCEPT ![r] = <<c>>] ELSE events
    /\ UNCHANGED fate

LogRaises(r, c) ==
    /\ Meets(r, "log_raised")
    /\ events' \in {events, [events EXCEPT ![r] = Append(@, c)]}

Log(r, c) == LogReturns(r, c) \/ LogRaises(r, c)

\* rec.fail(...); rec.log(); return _error(...): the handler is done.  If the
\* log raises, the client gets a 500.
FailAndLog(r, http, error) ==
    LET c == Failed(http, error) IN
    /\ SetRecord(r, c)
    /\ \/ LogReturns(r, c) /\ Answer(r, http)
       \/ LogRaises(r, c) /\ Answer(r, 500)
    /\ Goto(r, "finished")

-----------------------------------------------------------------------------
(* handle_model_request                                                    *)

\* A GET of the models gets operation=meta before the strict check.
Unattributed(i) == i.attribution = "none" /\ i.endpoint # "models"

\* The checks in the order of the code; the first that refuses answers.
Refusals(i) ==
    IF i.attribution = "invalid" THEN {<<400, "invalid_attribution">>}
    ELSE IF Strict /\ Unattributed(i) THEN {<<400, "unattributed_request">>}
    ELSE IF i.endpoint = "unsupported" THEN {<<404, "unsupported_endpoint">>}
    ELSE IF i.endpoint # "models" /\ ~i.goodBody THEN {<<400, "invalid_request_body">>}
    ELSE {}

Refuse(r) ==
    /\ pc[r] = "new" /\ ~stopped
    /\ \E refusal \in Refusals(input[r]) : FailAndLog(r, refusal[1], refusal[2])
    /\ UNCHANGED <<input, held, forwarded, complete, chunks, stopped>>

\* Only chat (and responses) requests stream.
Streams(r) == input[r].endpoint = "chat" /\ input[r].stream

Forward(r) ==
    /\ pc[r] = "new" /\ ~stopped
    /\ Refusals(input[r]) = {}
    /\ Goto(r, "connecting")
    /\ forwarded' = [forwarded EXCEPT ![r] = TRUE]
    /\ UNCHANGED <<input, rec, held, events, reply, complete, chunks, fate, stopped>>

\* The bodies log, if there is one, is written first: its append raises.
RequestBodyRaises(r) ==
    /\ pc[r] = "new" /\ ~stopped
    /\ Refusals(input[r]) = {} /\ input[r].endpoint # "models"
    /\ Meets(r, "bodies_unlogged")
    /\ Answer(r, 500)
    /\ Goto(r, "finished")
    /\ UNCHANGED <<input, rec, held, events, forwarded, complete, chunks, stopped>>

-----------------------------------------------------------------------------
(* The upstream client: a connection of the pool, then the answer.         *)

Connect(r) ==
    /\ pc[r] = "connecting"
    /\ Cardinality(held) < MaxConnections
    /\ held' = held \cup {r}
    /\ Goto(r, "waiting")
    /\ UNCHANGED <<input, rec, events, reply, forwarded, complete, chunks, fate, stopped>>

\* Faulty variants: answered without rec.log(); no timeout for the pool and
\* the connection kept.
UpstreamFailsSilently(r) ==
    /\ pc[r] \in {"connecting", "waiting"}
    /\ \E f \in Failures : SetRecord(r, Failed(f.http, f.error)) /\ Answer(r, f.http)
    /\ Goto(r, "finished")
    /\ held' = held \ {r}
    /\ UNCHANGED <<input, events, forwarded, complete, chunks, fate, stopped>>
UpstreamFailsHolding(r) ==
    /\ pc[r] = "waiting"
    /\ \E f \in Failures : FailAndLog(r, f.http, f.error)
    /\ UNCHANGED <<input, held, forwarded, complete, chunks, stopped>>

\* httpx.TimeoutException (no connection free in time, no answer in time) or
\* another httpx.HTTPError, in both forwarding functions.
UpstreamFails(r) ==
    /\ pc[r] \in {"connecting", "waiting"}
    /\ \E f \in Failures : FailAndLog(r, f.http, f.error)
    /\ held' = held \ {r}
    /\ UNCHANGED <<input, forwarded, complete, chunks, stopped>>

-----------------------------------------------------------------------------
(* _forward_simple                                                         *)

\* The whole answer is read, which returns the connection.
SimpleAnswer(r) ==
    /\ pc[r] = "waiting"
    /\ ~Streams(r)
    /\ held' = held \ {r}
    /\ \E code \in UpstreamCodes :
         /\ SetRecord(r, IF code = 200
                         THEN [status |-> "success", http |-> code, error |-> "none"]
                         ELSE Failed(code, "upstream_error"))
         /\ complete' = [complete EXCEPT ![r] = code = 200]
    /\ Goto(r, "responding")
    /\ UNCHANGED <<input, events, reply, forwarded, chunks, fate, stopped>>

\* A body that json.loads cannot decode (it is not UTF-8), a 2xx payload of an
\* unexpected shape (choices, data or usage of the wrong type), or an append of
\* a 2xx payload to the bodies log that raises: the handler is left after the
\* answer was read, the client gets a 500.
SimpleRaises(r) ==
    /\ pc[r] = "waiting"
    /\ ~Streams(r)
    /\ held' = held \ {r}
    /\ \E code \in UpstreamCodes, f \in {"malformed", "bodies_unlogged"} :
         /\ code = 200 \/ f = "malformed"
         /\ complete' = [complete EXCEPT ![r] = code = 200]
         /\ Meets(r, f)
    /\ Answer(r, 500)
    /\ Goto(r, "finished")
    /\ UNCHANGED <<input, rec, events, forwarded, chunks, stopped>>

\* The bytes go to the client (or nowhere, if it has left).
SendResponse(r) ==
    /\ pc[r] = "responding"
    /\ Answer(r, rec[r].http)
    /\ Goto(r, "background")
    /\ UNCHANGED <<input, rec, held, events, forwarded, complete, chunks, fate, stopped>>

\* BackgroundTask(rec.log)
BackgroundLog(r) ==
    /\ pc[r] = "background"
    /\ Log(r, rec[r])
    /\ Goto(r, "finished")
    /\ UNCHANGED <<input, rec, held, reply, forwarded, complete, chunks, stopped>>

-----------------------------------------------------------------------------
(* _forward_stream                                                         *)

\* The headers have arrived; a non-2xx answer is read as a whole.
StreamHeaders(r) ==
    /\ pc[r] = "waiting"
    /\ Streams(r)
    /\ \E code \in UpstreamCodes :
         IF code = 200
         THEN SetRecord(r, [rec[r] EXCEPT !.http = code]) /\ Goto(r, "unstarted")
         ELSE Goto(r, "errorBody") /\ UNCHANGED rec
    /\ UNCHANGED <<input, held, events, reply, forwarded, complete, chunks, fate, stopped>>

\* Faulty variant: the response is not closed.
ErrorBodyLeaks(r) ==
    /\ pc[r] = "errorBody"
    /\ FailAndLog(r, 500, "upstream_error")
    /\ UNCHANGED <<input, held, forwarded, complete, chunks, stopped>>

ErrorBodyRead(r) ==
    /\ pc[r] = "errorBody"
    /\ FailAndLog(r, 500, "upstream_error")
    /\ held' = held \ {r}
    /\ UNCHANGED <<input, forwarded, complete, chunks, stopped>>

\* resp.aread() raises, or json.loads cannot decode the body: the finally
\* closes the response, nothing logs.
ErrorBodyCut(r) ==
    /\ pc[r] = "errorBody"
    /\ held' = held \ {r}
    /\ Meets(r, "error_body_cut")
    /\ Answer(r, 500)
    /\ Goto(r, "finished")
    /\ UNCHANGED <<input, rec, events, forwarded, complete, chunks, stopped>>

\* StreamingResponse sends the status line and takes the first step of the
\* generator.
StartStream(r) ==
    /\ pc[r] = "unstarted"
    /\ Answer(r, 200)
    /\ Goto(r, "reading")
    /\ UNCHANGED <<input, rec, held, events, forwarded, complete, chunks, fate, stopped>>

\* The client has gone before that step: the response is cancelled, and a
\* generator that was never started runs no finally: no event, and the
\* connection is not returned.
NeverStarted(r) ==
    /\ pc[r] = "unstarted"
    /\ Meets(r, "left_unstarted")
    /\ Goto(r, "finished")
    /\ UNCHANGED <<input, rec, held, events, reply, forwarded, complete, chunks, stopped>>

ReadChunk(r) ==
    /\ pc[r] = "reading"
    /\ chunks[r] < MaxChunks
    /\ chunks' = [chunks EXCEPT ![r] = @ + 1]
    /\ Goto(r, "yielding")
    /\ UNCHANGED <<input, rec, held, events, reply, forwarded, complete, fate, stopped>>

ChunkSent(r) ==
    /\ pc[r] = "yielding"
    /\ Goto(r, "reading")
    /\ UNCHANGED <<input, rec, held, events, reply, forwarded, complete, chunks, fate, stopped>>

StreamEnds(r) ==
    /\ pc[r] = "reading"
    /\ SetRecord(r, [rec[r] EXCEPT !.status = "success"])
    /\ complete' = [complete EXCEPT ![r] = TRUE]
    /\ Goto(r, "closing")
    /\ UNCHANGED <<input, held, events, reply, forwarded, chunks, fate, stopped>>

\* The handlers of stream_body: CancelledError while it awaits the upstream
\* (the client has left), a timeout, another httpx error.
StreamBreaks(r) ==
    /\ pc[r] = "reading"
    /\ \E f \in {<<499, "client_disconnected">>, <<504, "upstream_timeout">>,
                 <<502, "upstream_stream_error">>} :
         SetRecord(r, Failed(f[1], f[2]))
    /\ Goto(r, "closing")
    /\ UNCHANGED <<input, held, events, reply, forwarded, complete, chunks, fate, stopped>>

\* A chunk of an unexpected shape (choices or delta of the wrong type) raises in
\* process_event: no handler names that exception, only the finally runs.
ChunkMalformed(r) ==
    /\ pc[r] = "reading"
    /\ Goto(r, "closing")
    /\ UNCHANGED <<input, rec, held, events, reply, forwarded, complete, chunks, fate, stopped>>

\* The client leaves while a chunk is on its way to it: the generator is left
\* at its yield, by a response that is over.
DroppedAtYield(r) ==
    /\ pc[r] = "yielding"
    /\ Goto(r, "orphaned")
    /\ UNCHANGED <<input, rec, held, events, reply, forwarded, complete, chunks, fate, stopped>>

\* The finally: close the upstream response, then log.
CloseStream(r) ==
    /\ pc[r] = "closing"
    /\ held' = held \ {r}
    /\ Log(r, rec[r])
    /\ Goto(r, "finished")
    /\ UNCHANGED <<input, rec, reply, forwarded, complete, chunks, stopped>>

\* The finally of an orphaned generator, which only GeneratorExit reaches: the
\* same, but nobody waits for it, and a log that was closed before raises.
CloseOrphan(r) ==
    /\ pc[r] = "orphaned"
    /\ held' = held \ {r}
    /\ IF stopped
       THEN Meets(r, "after_stop") /\ UNCHANGED events
       ELSE Log(r, rec[r])
    /\ Goto(r, "finished")
    /\ UNCHANGED <<input, rec, reply, forwarded, complete, chunks, stopped>>

\* The same finally: the append to the bodies log, after the response is
\* closed and before rec.log(), raises.
BodiesLogRaises(r) ==
    /\ pc[r] \in {"closing", "orphaned"}
    /\ held' = held \ {r}
    /\ Meets(r, "bodies_unlogged")
    /\ Goto(r, "finished")
    /\ UNCHANGED <<input, rec, events, reply, forwarded, complete, chunks, stopped>>

-----------------------------------------------------------------------------
(* The end of the lifespan: PROXY_STOP, upstream.aclose(), logger.close(). *)
(* The server awaits it when no request is being handled or sent any more; *)
(* background tasks are part of a request, an orphaned generator is not.   *)

Shutdown ==
    /\ ~stopped
    /\ \A r \in Requests : pc[r] \in {"new", "orphaned", "finished"}
    /\ stopped' = TRUE
    /\ held' = {}
    /\ UNCHANGED <<input, pc, rec, events, reply, forwarded, complete, chunks, fate>>

-----------------------------------------------------------------------------
Handler(r) == Refuse(r) \/ RequestBodyRaises(r) \/ Forward(r) \/ Connect(r) \/ UpstreamFails(r)
Simple(r)  == SimpleAnswer(r) \/ SimpleRaises(r) \/ SendResponse(r) \/ BackgroundLog(r)
Stream(r)  == \/ StreamHeaders(r) \/ ErrorBodyRead(r) \/ ErrorBodyCut(r)
              \/ StartStream(r) \/ NeverStarted(r) \/ ReadChunk(r) \/ ChunkSent(r)
              \/ StreamEnds(r) \/ StreamBreaks(r) \/ ChunkMalformed(r) \/ DroppedAtYield(r)
              \/ CloseStream(r) \/ CloseOrphan(r) \/ BodiesLogRaises(r)

Step(r) == Handler(r) \/ Simple(r) \/ Stream(r)
Next == Shutdown \/ \E r \in Requests : Step(r)

\* The event loop runs every handler that can run; every wait for the
\* upstream is bounded by the client's timeouts, so each of them ends in an
\* answer or an exception.
Fairness == \A r \in Requests : WF_vars(Step(r))

Spec == Init /\ [][Next]_vars /\ Fairness

-----------------------------------------------------------------------------
TypeOK ==
    /\ input \in [Requests -> Input]
    /\ pc \in [Requests -> PCs]
    /\ rec \in [Requests -> Record]
    /\ held \subseteq Requests
    /\ events \in [Requests -> Seq(Record)]
    /\ reply \in [Requests -> Nat]
    /\ forwarded \in [Requests -> BOOLEAN]
    /\ complete \in [Requests -> BOOLEAN]
    /\ chunks \in [Requests -> Nat]
    /\ fate \in [Requests -> Fates]
    /\ stopped \in BOOLEAN

\* "Every forwarded request produces exactly one MODEL_CALL event in the
\* append-only JSONL log, whether it succeeded or failed" (app.py docstring):
\* never two, and one when the request is over, as long as the log accepts it.
ExactlyOneEvent ==
    \A r \in Requests :
        /\ Len(events[r]) <= 1
        /\ (pc[r] = "finished" /\ forwarded[r] /\ fate[r] # "log_raised") => Len(events[r]) = 1

\* The paths that log nothing are these and no others: a request that took none
\* of them leaves exactly one event, also when it was orphaned, failed while it
\* waited for a connection, or finished just before the proxy was stopped.  One
\* whose append raised may have its event all the same, never two.
OneEventUnlessFated ==
    \A r \in Requests :
        (pc[r] = "finished" /\ forwarded[r]) =>
            /\ fate[r] = "ordinary" => Len(events[r]) = 1
            /\ fate[r] = "log_raised" => Len(events[r]) <= 1
            /\ fate[r] \notin {"ordinary", "log_raised"} => events[r] = <<>>

\* What the event says is what happened.  It says success exactly when a whole
\* 2xx answer came from the upstream, on whichever path it was logged; and it
\* differs from the status the client saw only for a stream that broke, or
\* whose client left, after the 200 was sent, and where the append failed with
\* the event on file, before the answer that was then a 500.
EventTellsOutcome ==
    \A r \in Requests : \A k \in 1..Len(events[r]) :
        LET e == events[r][k] IN
        /\ e.status = "success" <=> complete[r]
        /\ e.http # reply[r] =>
              \/ Streams(r) /\ reply[r] = 200 /\ e.status = "error"
              \/ fate[r] = "log_raised" /\ reply[r] = 500

\* An upstream connection is held only by a request that is still being handled:
\* whatever path it took, a finished request gave its connection back (a held
\* one takes a place in the pool for good), unless its client left before the
\* stream started; and the pool is never overcommitted.
ConnectionsReturned ==
    /\ \A r \in held : pc[r] = "finished" => fate[r] = "left_unstarted"
    /\ Cardinality(held) <= MaxConnections

\* A request that is forwarded ends, also when the pool is exhausted, the
\* upstream is silent, or the client leaves.
RequestsEnd == \A r \in Requests : forwarded[r] ~> pc[r] = "finished"
=============================================================================
