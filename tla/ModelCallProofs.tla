-------------------------- MODULE ModelCallProofs --------------------------
(***************************************************************************)
(* ModelCall for any set of requests, size of the pool and length of the   *)
(* streams: type correctness, that an event tells what happened, that      *)
(* every forwarded request leaves exactly one event unless it took one of  *)
(* the paths of Fates, and that connections come back.                     *)
(***************************************************************************)
EXTENDS ModelCall, FiniteSetTheorems, TLAPS

-----------------------------------------------------------------------------
(* Type correctness.                                                       *)

LEMMA RecordType ==
    /\ NewRecord \in Record
    /\ \A http \in Nat, error \in Errors : Failed(http, error) \in Record
BY DEF NewRecord, Failed, Record, Errors

LEMMA TypeInit == Init => TypeOK
<1> SUFFICES ASSUME Init PROVE TypeOK
  OBVIOUS
<1>1. rec \in [Requests -> Record] /\ events \in [Requests -> Seq(Record)]
  BY RecordType DEF Init
<1>2. pc \in [Requests -> PCs] /\ fate \in [Requests -> Fates]
  BY DEF Init, PCs, Fates
<1> QED BY <1>1, <1>2 DEF Init, TypeOK

\* Logging a record appends it or leaves the events as they are.
LEMMA LogType ==
    ASSUME TypeOK, NEW r \in Requests, NEW c \in Record, Log(r, c)
    PROVE  events' \in [Requests -> Seq(Record)] /\ fate' \in [Requests -> Fates]
<1>1. events[r] \in Seq(Record) /\ Append(events[r], c) \in Seq(Record)
  BY DEF TypeOK
<1>2. <<c>> \in Seq(Record)
  OBVIOUS
<1>3. /\ events' = events \/ events' = [events EXCEPT ![r] = <<c>>]
                           \/ events' = [events EXCEPT ![r] = Append(events[r], c)]
      /\ fate' = fate \/ fate' = [fate EXCEPT ![r] = "log_raised"]
  BY DEF Log, LogReturns, LogRaises, Meets
<1>4. events' \in [Requests -> Seq(Record)]
  BY <1>1, <1>2, <1>3 DEF TypeOK
<1>5. fate' \in [Requests -> Fates]
  BY <1>3 DEF TypeOK, Fates
<1> QED BY <1>4, <1>5

LEMMA FailAndLogType ==
    ASSUME TypeOK, NEW r \in Requests, NEW http \in Nat, NEW error \in Errors,
           FailAndLog(r, http, error)
    PROVE  /\ rec' \in [Requests -> Record]
           /\ events' \in [Requests -> Seq(Record)]
           /\ fate' \in [Requests -> Fates]
           /\ reply' \in [Requests -> Nat]
           /\ pc' \in [Requests -> PCs]
<1>1. Failed(http, error) \in Record
  BY RecordType
<1>2. events' \in [Requests -> Seq(Record)] /\ fate' \in [Requests -> Fates]
  BY <1>1, LogType DEF FailAndLog, Log
<1>3. reply' \in [Requests -> Nat]
  <2>1. PICK code \in {http, 500} : reply' = [reply EXCEPT ![r] = code]
    BY DEF FailAndLog, Answer
  <2>2. code \in Nat
    OBVIOUS
  <2>3. reply \in [Requests -> Nat]
    BY DEF TypeOK
  <2> QED BY <2>1, <2>2, <2>3
<1>4. rec' \in [Requests -> Record]
  <2> DEFINE c == Failed(http, error)
  <2>1. rec' = [rec EXCEPT ![r] = c] /\ rec \in [Requests -> Record]
    BY DEF FailAndLog, SetRecord, TypeOK
  <2>2. c \in Record
    BY <1>1
  <2> QED
    <3> HIDE DEF c
    <3> QED BY <2>1, <2>2
<1>5. pc' \in [Requests -> PCs]
  BY DEF FailAndLog, Goto, TypeOK, PCs
<1> QED BY <1>2, <1>3, <1>4, <1>5

LEMMA HandlerType ==
    ASSUME TypeOK, NEW r \in Requests, Handler(r) PROVE TypeOK'
<1> USE DEF TypeOK
<1>1. CASE Refuse(r)
  <2>1. PICK refusal \in Refusals(input[r]) : FailAndLog(r, refusal[1], refusal[2])
    BY <1>1 DEF Refuse
  <2>2. refusal[1] \in Nat /\ refusal[2] \in Errors
    BY <2>1 DEF Refusals, Errors
  <2> QED BY <1>1, <2>1, <2>2, FailAndLogType DEF Refuse
<1>2. CASE Forward(r)
  BY <1>2 DEF Forward, Goto, PCs
<1>3. CASE Connect(r)
  BY <1>3 DEF Connect, Goto, PCs
<1>4. CASE UpstreamFails(r)
  <2>1. PICK f \in Failures : FailAndLog(r, f.http, f.error)
    BY <1>4 DEF UpstreamFails
  <2>2. f.http \in Nat /\ f.error \in Errors
    BY DEF Failures, Errors
  <2> QED BY <1>4, <2>1, <2>2, FailAndLogType DEF UpstreamFails
<1>5. CASE RequestBodyRaises(r)
  BY <1>5 DEF RequestBodyRaises, Goto, Answer, Meets, PCs, Fates
<1> QED BY <1>1, <1>2, <1>3, <1>4, <1>5 DEF Handler

LEMMA SimpleType ==
    ASSUME TypeOK, NEW r \in Requests, Simple(r) PROVE TypeOK'
<1> USE DEF TypeOK
<1>1. CASE SimpleAnswer(r)
  <2>1. PICK code \in UpstreamCodes :
          /\ SetRecord(r, IF code = 200
                          THEN [status |-> "success", http |-> code, error |-> "none"]
                          ELSE Failed(code, "upstream_error"))
          /\ complete' = [complete EXCEPT ![r] = code = 200]
    BY <1>1 DEF SimpleAnswer
  <2>2. (IF code = 200 THEN [status |-> "success", http |-> code, error |-> "none"]
                        ELSE Failed(code, "upstream_error")) \in Record
    BY DEF Failed, Record, UpstreamCodes, Errors
  <2>3. rec' \in [Requests -> Record]
    BY <2>1, <2>2 DEF SetRecord
  <2> QED BY <1>1, <2>1, <2>3 DEF SimpleAnswer, Goto, PCs
<1>2. CASE SimpleRaises(r)
  BY <1>2 DEF SimpleRaises, Goto, Answer, Meets, PCs, Fates
<1>3. CASE SendResponse(r)
  BY <1>3 DEF SendResponse, Goto, Answer, PCs, Record
<1>4. CASE BackgroundLog(r)
  <2>1. events' \in [Requests -> Seq(Record)] /\ fate' \in [Requests -> Fates]
    BY <1>4, LogType DEF BackgroundLog
  <2> QED BY <1>4, <2>1 DEF BackgroundLog, Goto, PCs
<1> QED BY <1>1, <1>2, <1>3, <1>4 DEF Simple

LEMMA StreamType ==
    ASSUME TypeOK, NEW r \in Requests, Stream(r) PROVE TypeOK'
<1> USE DEF TypeOK
<1>1. CASE StreamHeaders(r)
  <2>1. PICK code \in UpstreamCodes :
          IF code = 200
          THEN SetRecord(r, [rec[r] EXCEPT !.http = code]) /\ Goto(r, "unstarted")
          ELSE Goto(r, "errorBody") /\ UNCHANGED rec
    BY <1>1 DEF StreamHeaders
  <2>2. CASE code = 200
    <3> HIDE DEF TypeOK
    <3>0. rec[r] \in Record /\ code \in Nat
      BY <2>2 DEF TypeOK
    <3>1. [rec[r] EXCEPT !.http = code] \in Record
      BY <3>0 DEF Record
    <3> USE DEF TypeOK
    <3>2. rec' \in [Requests -> Record] /\ pc' \in [Requests -> PCs]
      BY <2>1, <2>2, <3>1 DEF SetRecord, Goto, PCs
    <3> QED BY <1>1, <3>2 DEF StreamHeaders
  <2>3. CASE code # 200
    BY <1>1, <2>1, <2>3 DEF StreamHeaders, Goto, PCs
  <2> QED BY <2>2, <2>3
<1>2. CASE ErrorBodyRead(r)
  <2>1. FailAndLog(r, 500, "upstream_error")
    BY <1>2 DEF ErrorBodyRead
  <2>2. 500 \in Nat /\ "upstream_error" \in Errors
    BY DEF Errors
  <2>3. /\ rec' \in [Requests -> Record]
        /\ events' \in [Requests -> Seq(Record)]
        /\ fate' \in [Requests -> Fates]
        /\ reply' \in [Requests -> Nat]
        /\ pc' \in [Requests -> PCs]
    BY <2>1, <2>2, FailAndLogType
  <2> QED BY <1>2, <2>3 DEF ErrorBodyRead
<1>3. CASE ErrorBodyCut(r)
  BY <1>3 DEF ErrorBodyCut, Goto, Answer, Meets, PCs, Fates
<1>4. CASE StartStream(r)
  BY <1>4 DEF StartStream, Goto, Answer, PCs
<1>5. CASE NeverStarted(r)
  BY <1>5 DEF NeverStarted, Goto, Meets, PCs, Fates
<1>6. CASE ReadChunk(r)
  BY <1>6 DEF ReadChunk, Goto, PCs
<1>7. CASE ChunkSent(r)
  BY <1>7 DEF ChunkSent, Goto, PCs
<1>8. CASE StreamEnds(r)
  <2>1. rec' \in [Requests -> Record]
    BY <1>8 DEF StreamEnds, SetRecord, Record
  <2> QED BY <1>8, <2>1 DEF StreamEnds, Goto, PCs
<1>9. CASE StreamBreaks(r)
  <2> DEFINE breaks == {<<499, "client_disconnected">>, <<504, "upstream_timeout">>,
                        <<502, "upstream_stream_error">>}
  <2>1. PICK f \in breaks : SetRecord(r, Failed(f[1], f[2]))
    BY <1>9 DEF StreamBreaks
  <2>2. f[1] \in Nat /\ f[2] \in Errors
    BY DEF Errors
  <2>3. rec' \in [Requests -> Record]
    <3>1. Failed(f[1], f[2]) \in Record
      BY <2>2, RecordType
    <3>2. rec' = [rec EXCEPT ![r] = Failed(f[1], f[2])]
      BY <2>1 DEF SetRecord
    <3>3. rec \in [Requests -> Record]
      OBVIOUS
    <3> QED BY <3>1, <3>2, <3>3
  <2>4. Goto(r, "closing") /\ UNCHANGED <<input, held, events, reply,
                                     forwarded, complete, chunks, fate, stopped>>
    BY <1>9 DEF StreamBreaks
  <2> QED BY <2>3, <2>4 DEF Goto, PCs
<1>10. CASE DroppedAtYield(r)
  BY <1>10 DEF DroppedAtYield, Goto, PCs
<1>11. CASE CloseStream(r)
  <2>1. events' \in [Requests -> Seq(Record)] /\ fate' \in [Requests -> Fates]
    BY <1>11, LogType DEF CloseStream
  <2> QED BY <1>11, <2>1 DEF CloseStream, Goto, PCs
<1>12. CASE ChunkMalformed(r)
  BY <1>12 DEF ChunkMalformed, Goto, PCs
<1>13. CASE CloseOrphan(r)
  <2>1. events' \in [Requests -> Seq(Record)]
    BY <1>13, LogType DEF CloseOrphan
  <2>2. fate' \in [Requests -> Fates]
    BY <1>13, LogType DEF CloseOrphan, Meets, Fates
  <2> QED BY <1>13, <2>1, <2>2 DEF CloseOrphan, Goto, PCs
<1>14. CASE BodiesLogRaises(r)
  BY <1>14 DEF BodiesLogRaises, Goto, Meets, PCs, Fates
<1> QED BY <1>1, <1>2, <1>3, <1>4, <1>5, <1>6, <1>7, <1>8, <1>9, <1>10, <1>11, <1>12, <1>13,
           <1>14
        DEF Stream

LEMMA TypeNext == TypeOK /\ [Next]_vars => TypeOK'
<1>1. ASSUME TypeOK, UNCHANGED vars PROVE TypeOK'
  BY <1>1 DEF TypeOK, vars
<1>2. ASSUME TypeOK, Shutdown PROVE TypeOK'
  BY <1>2 DEF TypeOK, Shutdown
<1> QED BY <1>1, <1>2, HandlerType, SimpleType, StreamType DEF Next, Step

\* Every variable of the pipeline holds a value of its kind.
THEOREM TypeCorrect == Spec => []TypeOK
BY TypeInit, TypeNext, PTL DEF Spec

-----------------------------------------------------------------------------
(* What an event says.  EventTellsOutcome speaks of the events alone; the  *)
(* strengthening says what the record, the ghost complete and the reply    *)
(* are at each place of the handler that leads to one.                     *)

\* Nothing was answered or completed before these places.
Pending(r) == pc[r] \in {"new", "connecting", "waiting", "errorBody", "unstarted"}

\* A stream whose 200 was sent.
Streaming(r) == pc[r] \in {"reading", "yielding", "closing", "orphaned"}

\* The record says success exactly when the answer is complete.
Truthful(r) == rec[r].status = "success" <=> complete[r]

Consistent(r) ==
    /\ pc[r] # "finished" => events[r] = <<>>
    /\ Pending(r) => rec[r].status = "error" /\ ~complete[r] /\ reply[r] = 0
    /\ pc[r] = "unstarted" => Streams(r)
    /\ pc[r] \in {"responding", "background"} => Truthful(r)
    /\ pc[r] = "background" => reply[r] = rec[r].http
    /\ Streaming(r) => Streams(r) /\ reply[r] = 200 /\ Truthful(r)
    /\ pc[r] \in {"unstarted", "reading", "yielding", "orphaned"} => rec[r].http = 200 /\ ~complete[r]
    /\ Streaming(r) /\ complete[r] => rec[r].http = 200

\* What EventTellsOutcome says of one event.
Told(r, e) ==
    /\ e.status = "success" <=> complete[r]
    /\ e.http # reply[r] =>
          \/ Streams(r) /\ reply[r] = 200 /\ e.status = "error"
          \/ fate[r] = "log_raised" /\ reply[r] = 500

\* What was written of a record that was logged: its event, or nothing.
LEMMA LogEvents ==
    ASSUME TypeOK, NEW r \in Requests, events[r] = <<>>, NEW c, Log(r, c)
    PROVE  \/ LogReturns(r, c) /\ fate' = fate /\ events'[r] = <<c>>
           \/ LogRaises(r, c) /\ fate'[r] = "log_raised" /\ events'[r] \in {<<>>, <<c>>}
<1>1. Append(events[r], c) = <<c>>
  OBVIOUS
<1> QED BY <1>1 DEF TypeOK, Log, LogReturns, LogRaises, Meets

Good(r) == Consistent(r) /\ \A k \in 1..Len(events[r]) : Told(r, events[r][k])

OutcomeInv == TypeOK /\ \A r \in Requests : Good(r)

LEMMA OutcomeInit == Init => OutcomeInv
<1> SUFFICES ASSUME Init, NEW r \in Requests PROVE Good(r)
  BY TypeInit DEF OutcomeInv
<1> QED BY DEF Init, Good, Consistent, Pending, Streaming, Truthful, NewRecord

\* A step of one request leaves what the others are at alone.
LEMMA Frame ==
    ASSUME TypeOK, NEW r \in Requests, Step(r), NEW q \in Requests, q # r
    PROVE  /\ pc'[q] = pc[q] /\ rec'[q] = rec[q] /\ events'[q] = events[q]
           /\ reply'[q] = reply[q] /\ complete'[q] = complete[q] /\ input'[q] = input[q]
           /\ forwarded'[q] = forwarded[q] /\ fate'[q] = fate[q]
<1> USE DEF TypeOK, FailAndLog, Log, LogReturns, LogRaises, SetRecord, Answer, Goto, Meets
<1>1. CASE Handler(r)
  BY <1>1 DEF Handler, Refuse, RequestBodyRaises, Forward, Connect, UpstreamFails
<1>2. CASE Simple(r)
  BY <1>2 DEF Simple, SimpleAnswer, SimpleRaises, SendResponse, BackgroundLog
<1>3. CASE Stream(r)
  BY <1>3 DEF Stream, StreamHeaders, ErrorBodyRead, ErrorBodyCut, StartStream,
              NeverStarted, ReadChunk, ChunkSent, StreamEnds, StreamBreaks,
              ChunkMalformed, DroppedAtYield, CloseStream, CloseOrphan,
              BodiesLogRaises
<1> QED BY <1>1, <1>2, <1>3 DEF Step

\* Failing before anything was sent: the one event repeats the answer.
LEMMA FailIsTold ==
    ASSUME TypeOK, NEW r \in Requests, Consistent(r), Pending(r),
           NEW http \in Nat, NEW error \in Errors, FailAndLog(r, http, error),
           complete' = complete
    PROVE  Good(r)'
<1> DEFINE c == Failed(http, error)
<1>0. events[r] = <<>> /\ Log(r, c)
  BY DEF FailAndLog, Log, Consistent, Pending
<1>1. events'[r] \in {<<>>, <<c>>}
  BY <1>0, LogEvents
<1>2. /\ pc'[r] = "finished"
      /\ reply'[r] = http \/ (reply'[r] = 500 /\ fate'[r] = "log_raised")
      /\ ~complete'[r]
  BY <1>0, LogEvents DEF FailAndLog, LogRaises, Meets, Answer, Goto, Consistent, TypeOK
<1>3. Told(r, c)'
  BY <1>2 DEF Told, Failed
<1>4. Consistent(r)'
  BY <1>2 DEF Consistent, Pending, Streaming
<1>5. CASE events'[r] = <<>>
  BY <1>4, <1>5 DEF Good
<1>6. CASE events'[r] = <<c>>
  BY <1>3, <1>4, <1>6 DEF Good
<1> QED BY <1>1, <1>5, <1>6

LEMMA HandlerGood ==
    ASSUME OutcomeInv, NEW r \in Requests, Handler(r) PROVE Good(r)'
<1> USE DEF OutcomeInv
<1>0. Consistent(r) /\ TypeOK
  BY DEF Good
<1>1. CASE Refuse(r)
  <2>1. PICK refusal \in Refusals(input[r]) : FailAndLog(r, refusal[1], refusal[2])
    BY <1>1 DEF Refuse
  <2>2. refusal[1] \in Nat /\ refusal[2] \in Errors
    BY <2>1 DEF Refusals, Errors
  <2>3. Pending(r) /\ complete' = complete
    BY <1>1 DEF Refuse, Pending
  <2> QED BY <1>0, <2>1, <2>2, <2>3, FailIsTold
<1>2. CASE Forward(r)
  BY <1>0, <1>2 DEF Forward, Goto, Good, Consistent, Pending, Streaming, TypeOK
<1>3. CASE Connect(r)
  BY <1>0, <1>3 DEF Connect, Goto, Good, Consistent, Pending, Streaming, TypeOK
<1>4. CASE UpstreamFails(r)
  <2>1. PICK f \in Failures : FailAndLog(r, f.http, f.error)
    BY <1>4 DEF UpstreamFails
  <2>2. f.http \in Nat /\ f.error \in Errors
    BY DEF Failures, Errors
  <2>3. Pending(r) /\ complete' = complete
    BY <1>4 DEF UpstreamFails, Pending
  <2> QED BY <1>0, <2>1, <2>2, <2>3, FailIsTold
<1>5. CASE RequestBodyRaises(r)
  <2>1. pc'[r] = "finished" /\ events'[r] = <<>>
    BY <1>0, <1>5 DEF RequestBodyRaises, Goto, Consistent, TypeOK
  <2> QED BY <2>1 DEF Good, Consistent, Pending, Streaming
<1> QED BY <1>1, <1>2, <1>3, <1>4, <1>5 DEF Handler

LEMMA SimpleGood ==
    ASSUME OutcomeInv, NEW r \in Requests, Simple(r) PROVE Good(r)'
<1> USE DEF OutcomeInv
<1>0. Consistent(r) /\ TypeOK
  BY DEF Good
<1>1. CASE SimpleAnswer(r)
  <2>1. PICK code \in UpstreamCodes :
          /\ SetRecord(r, IF code = 200
                          THEN [status |-> "success", http |-> code, error |-> "none"]
                          ELSE Failed(code, "upstream_error"))
          /\ complete' = [complete EXCEPT ![r] = code = 200]
    BY <1>1 DEF SimpleAnswer
  <2>2. pc[r] = "waiting" /\ pc'[r] = "responding" /\ events'[r] = <<>>
    BY <1>0, <1>1 DEF SimpleAnswer, Goto, Consistent, TypeOK
  <2>3. Truthful(r)'
    BY <1>0, <2>1 DEF Truthful, SetRecord, Failed, TypeOK
  <2> QED BY <2>2, <2>3 DEF Good, Consistent, Pending, Streaming
<1>2. CASE SimpleRaises(r)
  <2>1. pc'[r] = "finished" /\ events'[r] = <<>>
    BY <1>0, <1>2 DEF SimpleRaises, Goto, Consistent, TypeOK
  <2> QED BY <2>1 DEF Good, Consistent, Pending, Streaming
<1>3. CASE SendResponse(r)
  BY <1>0, <1>3 DEF SendResponse, Goto, Answer, Good, Consistent, Pending, Streaming,
                    Truthful, TypeOK
<1>4. CASE BackgroundLog(r)
  <2>0. events[r] = <<>> /\ Log(r, rec[r])
    BY <1>0, <1>4 DEF BackgroundLog, Consistent
  <2>1. /\ pc'[r] = "finished" /\ events'[r] \in {<<>>, <<rec[r]>>}
        /\ reply'[r] = rec[r].http /\ complete'[r] = complete[r]
    BY <1>0, <1>4, <2>0, LogEvents DEF BackgroundLog, Goto, Consistent, TypeOK
  <2>2. Told(r, rec[r])'
    BY <1>0, <1>4, <2>1 DEF BackgroundLog, Told, Consistent, Truthful
  <2>3. Consistent(r)'
    BY <2>1 DEF Consistent, Pending, Streaming
  <2>4. rec' = rec
    BY <1>4 DEF BackgroundLog
  <2>5. CASE events'[r] = <<>>
    BY <2>3, <2>5 DEF Good
  <2>6. CASE events'[r] = <<rec[r]>>
    BY <2>2, <2>3, <2>4, <2>6 DEF Good
  <2> QED BY <2>1, <2>5, <2>6
<1> QED BY <1>1, <1>2, <1>3, <1>4 DEF Simple

LEMMA StreamGood ==
    ASSUME OutcomeInv, NEW r \in Requests, Stream(r) PROVE Good(r)'
<1> USE DEF OutcomeInv
<1>0. Consistent(r) /\ TypeOK
  BY DEF Good
<1> USE DEF Goto, Answer, SetRecord, Good, Consistent, Pending, Streaming, Truthful
<1>1. CASE StreamHeaders(r)
  <2>1. PICK code \in UpstreamCodes :
          IF code = 200
          THEN SetRecord(r, [rec[r] EXCEPT !.http = code]) /\ Goto(r, "unstarted")
          ELSE Goto(r, "errorBody") /\ UNCHANGED rec
    BY <1>1 DEF StreamHeaders
  <2>2. rec[r].status = "error" /\ ~complete'[r] /\ reply'[r] = 0 /\ events'[r] = <<>>
    BY <1>0, <1>1 DEF StreamHeaders, TypeOK
  <2>3. Streams(r)'
    BY <1>1 DEF StreamHeaders, Streams
  <2>4. /\ rec'[r].status = "error"
        /\ \/ pc'[r] = "unstarted" /\ rec'[r].http = 200
           \/ pc'[r] = "errorBody"
    BY <1>0, <2>1, <2>2 DEF TypeOK, Record
  <2> QED BY <2>2, <2>3, <2>4
<1>2. CASE ErrorBodyRead(r)
  <2>1. FailAndLog(r, 500, "upstream_error") /\ complete' = complete
    BY <1>2 DEF ErrorBodyRead
  <2>2. 500 \in Nat /\ "upstream_error" \in Errors
    BY DEF Errors
  <2>3. Pending(r)
    BY <1>2 DEF ErrorBodyRead
  <2> QED BY <1>0, <2>1, <2>2, <2>3, FailIsTold
<1>3. CASE ErrorBodyCut(r)
  BY <1>0, <1>3 DEF ErrorBodyCut, TypeOK
<1>4. CASE StartStream(r)
  <2>1. Streams(r)'
    BY <1>0, <1>4 DEF StartStream, Streams
  <2> QED BY <1>0, <1>4, <2>1 DEF StartStream, TypeOK
<1>5. CASE NeverStarted(r)
  BY <1>0, <1>5 DEF NeverStarted, TypeOK
<1>6. CASE ReadChunk(r)
  BY <1>0, <1>6 DEF ReadChunk, TypeOK, Streams
<1>7. CASE ChunkSent(r)
  BY <1>0, <1>7 DEF ChunkSent, TypeOK, Streams
<1>8. CASE StreamEnds(r)
  BY <1>0, <1>8 DEF StreamEnds, TypeOK, Streams, Record
<1>9. CASE StreamBreaks(r)
  BY <1>0, <1>9 DEF StreamBreaks, TypeOK, Streams, Failed
<1>10. CASE DroppedAtYield(r)
  BY <1>0, <1>10 DEF DroppedAtYield, TypeOK, Streams
<1>11. CASE CloseStream(r)
  <2>0. events[r] = <<>> /\ Log(r, rec[r])
    BY <1>0, <1>11 DEF CloseStream
  <2>1. /\ pc'[r] = "finished" /\ events'[r] \in {<<>>, <<rec[r]>>} /\ Streams(r)'
        /\ reply'[r] = 200 /\ complete'[r] = complete[r] /\ rec' = rec
    BY <1>0, <1>11, <2>0, LogEvents DEF CloseStream, TypeOK, Streams
  <2>2. Told(r, rec[r])'
    BY <1>0, <1>11, <2>1 DEF CloseStream, Told, TypeOK, Record
  <2>3. CASE events'[r] = <<>>
    BY <2>1, <2>3
  <2>4. CASE events'[r] = <<rec[r]>>
    BY <2>1, <2>2, <2>4
  <2> QED BY <2>1, <2>3, <2>4
<1>12. CASE ChunkMalformed(r)
  BY <1>0, <1>12 DEF ChunkMalformed, TypeOK, Streams
<1>13. CASE CloseOrphan(r)
  <2>1. /\ pc'[r] = "finished" /\ Streams(r)' /\ reply'[r] = 200
        /\ complete'[r] = complete[r] /\ rec' = rec
        /\ events'[r] \in {<<>>, <<rec[r]>>}
    BY <1>0, <1>13, LogEvents DEF CloseOrphan, TypeOK, Streams
  <2>2. Told(r, rec[r])'
    BY <1>0, <1>13, <2>1 DEF CloseOrphan, Told, TypeOK, Record
  <2>3. CASE events'[r] = <<>>
    BY <2>1, <2>3
  <2>4. CASE events'[r] = <<rec[r]>>
    BY <2>1, <2>2, <2>4
  <2> QED BY <2>1, <2>3, <2>4
<1>14. CASE BodiesLogRaises(r)
  <2>1. pc'[r] = "finished" /\ events'[r] = <<>>
    BY <1>0, <1>14 DEF BodiesLogRaises, TypeOK
  <2> QED BY <2>1
<1> QED BY <1>1, <1>2, <1>3, <1>4, <1>5, <1>6, <1>7, <1>8, <1>9, <1>10, <1>11, <1>12, <1>13,
           <1>14
        DEF Stream

LEMMA OutcomeNext == OutcomeInv /\ [Next]_vars => OutcomeInv'
<1> SUFFICES ASSUME OutcomeInv, [Next]_vars PROVE OutcomeInv'
  OBVIOUS
<1>1. TypeOK'
  BY TypeNext DEF OutcomeInv
<1>2. CASE UNCHANGED vars
  <2>1. \A q \in Requests : Good(q)'
    BY <1>2 DEF vars, OutcomeInv, Good, Consistent, Told, Pending, Streaming, Truthful, Streams
  <2> QED BY <1>1, <2>1 DEF OutcomeInv
<1>3. ASSUME NEW r \in Requests, Step(r) PROVE OutcomeInv'
  <2>1. Good(r)'
    BY <1>3, HandlerGood, SimpleGood, StreamGood DEF Step
  <2>2. ASSUME NEW q \in Requests, q # r PROVE Good(q)'
    <3>1. Good(q)
      BY DEF OutcomeInv
    <3> QED BY <1>3, <2>2, <3>1, Frame
            DEF OutcomeInv, Good, Consistent, Told, Pending, Streaming, Truthful, Streams
  <2> QED BY <1>1, <2>1, <2>2 DEF OutcomeInv
<1>4. CASE Shutdown
  <2>1. \A q \in Requests : Good(q)'
    BY <1>4 DEF Shutdown, OutcomeInv, Good, Consistent, Told, Pending, Streaming, Truthful, Streams
  <2> QED BY <1>1, <2>1 DEF OutcomeInv
<1> QED BY <1>2, <1>3, <1>4 DEF Next

\* Whatever the upstream answers, cuts or garbles and whenever clients leave:
\* an event says success exactly when a whole answer came, and its status is
\* the one the client was sent, but for a stream that broke after its 200.
THEOREM EventsTellOutcome == Spec => []EventTellsOutcome
<1>1. OutcomeInv => EventTellsOutcome
  BY DEF OutcomeInv, Good, Told, EventTellsOutcome
<1> QED BY <1>1, OutcomeInit, OutcomeNext, PTL DEF Spec

-----------------------------------------------------------------------------
(* One event per forwarded request, and connections that come back.        *)

Fated(r) ==
    IF pc[r] = "finished"
    THEN /\ fate[r] = "ordinary" => Len(events[r]) = 1
         /\ fate[r] = "log_raised" => Len(events[r]) <= 1
         /\ fate[r] \notin {"ordinary", "log_raised"} => events[r] = <<>>
    ELSE fate[r] = "ordinary"

\* Whoever holds a connection is on its way to a step that returns it.
Holding == {"waiting", "errorBody", "unstarted", "reading", "yielding", "closing", "orphaned"}

Returns(r) == pc[r] \in Holding \/ fate[r] = "left_unstarted"

HeldInv ==
    /\ IsFiniteSet(held)
    /\ Cardinality(held) <= MaxConnections
    /\ \A r \in held : Returns(r)

FatedInv == OutcomeInv /\ (\A r \in Requests : Fated(r)) /\ HeldInv

LEMMA FatedInit == Init => FatedInv
<1> SUFFICES ASSUME Init PROVE FatedInv
  OBVIOUS
<1>1. \A r \in Requests : Fated(r)
  BY DEF Init, Fated
<1>2. HeldInv
  BY FS_EmptySet, ModelCallAssumption DEF Init, HeldInv
<1> QED BY <1>1, <1>2, OutcomeInit DEF FatedInv

\* A request that logs and is done has its event, or the append raised.
LEMMA LogFates ==
    ASSUME TypeOK, NEW r \in Requests, events[r] = <<>>, fate[r] = "ordinary",
           NEW c, Log(r, c), Goto(r, "finished")
    PROVE  Fated(r)'
<1>1. Len(<<c>>) = 1 /\ Len(<<>>) <= 1
  OBVIOUS
<1>2. pc'[r] = "finished"
  BY DEF Goto, TypeOK
<1>3. CASE fate'[r] = "ordinary" /\ events'[r] = <<c>>
  BY <1>1, <1>2, <1>3 DEF Fated
<1>4. CASE fate'[r] = "log_raised" /\ events'[r] \in {<<>>, <<c>>}
  <2>1. events'[r] = <<>> \/ events'[r] = <<c>>
    BY <1>4
  <2>2. CASE events'[r] = <<>>
    BY <1>1, <1>2, <1>4, <2>2 DEF Fated
  <2>3. CASE events'[r] = <<c>>
    BY <1>1, <1>2, <1>4, <2>3 DEF Fated
  <2> QED BY <2>1, <2>2, <2>3
<1> QED BY <1>3, <1>4, LogEvents

LEMMA StepFated ==
    ASSUME FatedInv, NEW r \in Requests, Step(r)
    PROVE  Fated(r)'
<1>1. TypeOK
  BY DEF FatedInv, OutcomeInv
<1>2. pc[r] # "finished"
  BY DEF Step, Handler, Refuse, RequestBodyRaises, Forward, Connect, UpstreamFails,
         Simple, SimpleAnswer, SimpleRaises, SendResponse, BackgroundLog, Stream, StreamHeaders,
         ErrorBodyRead, ErrorBodyCut, StartStream, NeverStarted, ReadChunk, ChunkSent,
         StreamEnds, StreamBreaks, ChunkMalformed, DroppedAtYield, CloseStream, CloseOrphan,
              BodiesLogRaises
<1>3. events[r] = <<>> /\ fate[r] = "ordinary"
  BY <1>2 DEF FatedInv, OutcomeInv, Good, Consistent, Fated
<1> USE DEF Fated, Goto
<1>4. CASE Handler(r)
  <2>1. CASE Forward(r) \/ Connect(r)
    BY <1>1, <1>3, <2>1 DEF Forward, Connect, TypeOK
  <2>2. CASE Refuse(r) \/ UpstreamFails(r)
    <3>1. \E http, error : FailAndLog(r, http, error)
      BY <2>2 DEF Refuse, UpstreamFails
    <3> QED BY <1>1, <1>3, <3>1, LogFates DEF FailAndLog, Log
  <2>3. CASE RequestBodyRaises(r)
    <3>1. pc'[r] = "finished" /\ fate'[r] = "bodies_unlogged" /\ events'[r] = <<>>
      BY <1>1, <1>3, <2>3 DEF RequestBodyRaises, Meets, TypeOK
    <3> QED BY <3>1
  <2> QED BY <1>4, <2>1, <2>2, <2>3 DEF Handler
<1>5. CASE Simple(r)
  <2>1. CASE SimpleAnswer(r) \/ SendResponse(r)
    BY <1>1, <1>3, <2>1 DEF SimpleAnswer, SendResponse, TypeOK
  <2>2. CASE SimpleRaises(r)
    <3>1. pc'[r] = "finished" /\ fate'[r] \in {"malformed", "bodies_unlogged"}
          /\ events'[r] = <<>>
      BY <1>1, <1>3, <2>2 DEF SimpleRaises, Meets, TypeOK
    <3> QED BY <3>1
  <2>3. CASE BackgroundLog(r)
    BY <1>1, <1>3, <2>3, LogFates DEF BackgroundLog
  <2> QED BY <1>5, <2>1, <2>2, <2>3 DEF Simple
<1>6. CASE Stream(r)
  <2>1. CASE StreamHeaders(r)
    BY <1>1, <1>3, <2>1 DEF StreamHeaders, TypeOK
  <2>2. CASE ErrorBodyRead(r)
    BY <1>1, <1>3, <2>2, LogFates DEF ErrorBodyRead, FailAndLog, Log
  <2>3. CASE CloseStream(r)
    BY <1>1, <1>3, <2>3, LogFates DEF CloseStream
  <2>4. CASE ErrorBodyCut(r) \/ NeverStarted(r)
    BY <1>1, <1>3, <2>4 DEF ErrorBodyCut, NeverStarted, Meets, TypeOK
  <2>5. CASE CloseOrphan(r)
    <3>1. pc'[r] = "finished"
      BY <1>1, <2>5 DEF CloseOrphan, TypeOK
    <3>2. CASE stopped
      <4>1. fate'[r] = "after_stop" /\ events'[r] = <<>>
        BY <1>1, <1>3, <2>5, <3>2 DEF CloseOrphan, Meets, TypeOK
      <4> QED BY <3>1, <4>1
    <3>3. CASE ~stopped
      BY <1>1, <1>3, <2>5, <3>3, LogFates DEF CloseOrphan
    <3> QED BY <3>2, <3>3
  <2>6. CASE \/ StartStream(r) \/ ReadChunk(r) \/ ChunkSent(r) \/ StreamEnds(r)
             \/ StreamBreaks(r) \/ ChunkMalformed(r) \/ DroppedAtYield(r)
    BY <1>1, <1>3, <2>6 DEF StartStream, ReadChunk, ChunkSent, StreamEnds, StreamBreaks,
                            ChunkMalformed, DroppedAtYield, TypeOK
  <2>7. CASE BodiesLogRaises(r)
    <3>1. pc'[r] = "finished" /\ fate'[r] = "bodies_unlogged" /\ events'[r] = <<>>
      BY <1>1, <1>3, <2>7 DEF BodiesLogRaises, Meets, TypeOK
    <3> QED BY <3>1
  <2> QED BY <1>6, <2>1, <2>2, <2>3, <2>4, <2>5, <2>6, <2>7 DEF Stream
<1> QED BY <1>4, <1>5, <1>6 DEF Step

\* A step takes a connection if one is free, or gives the request's own back,
\* or keeps it on its way.
LEMMA StepHolds ==
    ASSUME TypeOK, HeldInv, NEW r \in Requests, Fated(r), Step(r)
    PROVE  \/ /\ held' = held \cup {r} /\ Cardinality(held) < MaxConnections
              /\ Returns(r)'
           \/ held' = held \ {r}
           \/ held' = held /\ (r \in held => Returns(r)')
<1> USE DEF HeldInv, Holding, Returns, Goto, Meets, TypeOK
<1>1. CASE Forward(r) \/ Connect(r) \/ UpstreamFails(r)
  BY <1>1 DEF Forward, Connect, UpstreamFails
<1>2. CASE Refuse(r) \/ RequestBodyRaises(r)
  <2>1. r \notin held
    BY <1>2 DEF Refuse, RequestBodyRaises, Fated
  <2> QED BY <1>2, <2>1 DEF Refuse, RequestBodyRaises
<1>3. CASE Simple(r)
  <2>1. CASE BackgroundLog(r)
    <3>1. r \notin held
      BY <2>1 DEF BackgroundLog, Fated
    <3> QED BY <2>1, <3>1 DEF BackgroundLog
  <2> QED BY <1>3, <2>1 DEF Simple, SimpleAnswer, SimpleRaises, SendResponse
<1>4. CASE Stream(r)
  <2>1. CASE StreamHeaders(r)
    BY <2>1 DEF StreamHeaders
  <2>2. CASE \/ ErrorBodyRead(r) \/ ErrorBodyCut(r) \/ CloseStream(r) \/ CloseOrphan(r)
             \/ BodiesLogRaises(r)
    BY <2>2 DEF ErrorBodyRead, ErrorBodyCut, CloseStream, CloseOrphan, BodiesLogRaises
  <2>3. CASE \/ StartStream(r) \/ NeverStarted(r) \/ ReadChunk(r) \/ ChunkSent(r)
             \/ StreamEnds(r) \/ StreamBreaks(r) \/ ChunkMalformed(r) \/ DroppedAtYield(r)
    BY <2>3 DEF StartStream, NeverStarted, ReadChunk, ChunkSent, StreamEnds,
                StreamBreaks, ChunkMalformed, DroppedAtYield
  <2> QED BY <1>4, <2>1, <2>2, <2>3 DEF Stream
<1> QED BY <1>1, <1>2, <1>3, <1>4 DEF Step, Handler

LEMMA HeldNext ==
    ASSUME TypeOK, HeldInv, NEW r \in Requests, Fated(r), Step(r)
    PROVE  HeldInv'
<1>1. \A q \in Requests : q # r => pc'[q] = pc[q] /\ fate'[q] = fate[q]
  BY Frame
<1>2. held \subseteq Requests
  BY DEF TypeOK
<1>3. CASE /\ held' = held \cup {r} /\ Cardinality(held) < MaxConnections
           /\ Returns(r)'
  <2>0. IsFiniteSet(held) /\ Cardinality(held) <= MaxConnections
    BY DEF HeldInv
  <2>a. /\ IsFiniteSet(held \cup {r})
        /\ Cardinality(held \cup {r}) =
             IF r \in held THEN Cardinality(held) ELSE Cardinality(held) + 1
    BY <2>0, FS_AddElement
  <2>b. Cardinality(held) \in Nat /\ MaxConnections \in Nat
    BY <2>0, FS_CardinalityType, ModelCallAssumption
  <2>1. IsFiniteSet(held') /\ Cardinality(held') <= MaxConnections
    BY <1>3, <2>0, <2>a, <2>b
  <2> QED BY <1>1, <1>2, <1>3, <2>1 DEF HeldInv, Returns
<1>4. CASE held' = held \ {r}
  <2>0. IsFiniteSet(held) /\ Cardinality(held) <= MaxConnections
    BY DEF HeldInv
  <2>a. /\ IsFiniteSet(held \ {r})
        /\ Cardinality(held \ {r}) =
             IF r \in held THEN Cardinality(held) - 1 ELSE Cardinality(held)
    BY <2>0, FS_RemoveElement
  <2>b. Cardinality(held) \in Nat /\ MaxConnections \in Nat
    BY <2>0, FS_CardinalityType, ModelCallAssumption
  <2>1. IsFiniteSet(held') /\ Cardinality(held') <= MaxConnections
    BY <1>4, <2>0, <2>a, <2>b
  <2> QED BY <1>1, <1>2, <1>4, <2>1 DEF HeldInv, Returns
<1>5. CASE held' = held /\ (r \in held => Returns(r)')
  BY <1>1, <1>2, <1>5 DEF HeldInv, Returns
<1> QED BY <1>3, <1>4, <1>5, StepHolds

LEMMA FatedNext == FatedInv /\ [Next]_vars => FatedInv'
<1> SUFFICES ASSUME FatedInv, [Next]_vars PROVE FatedInv'
  OBVIOUS
<1>1. OutcomeInv'
  BY OutcomeNext DEF FatedInv
<1>2. CASE UNCHANGED vars
  BY <1>1, <1>2 DEF vars, FatedInv, Fated, HeldInv, Returns
<1>3. ASSUME NEW r \in Requests, Step(r) PROVE FatedInv'
  <2>1. HeldInv'
    BY <1>3, HeldNext DEF FatedInv, OutcomeInv
  <2>2. ASSUME NEW q \in Requests PROVE Fated(q)'
    <3>1. CASE q = r
      BY <1>3, <3>1, StepFated
    <3>2. CASE q # r
      <4>1. pc'[q] = pc[q] /\ events'[q] = events[q] /\ fate'[q] = fate[q]
        BY <1>3, <3>2, Frame DEF FatedInv, OutcomeInv
      <4> QED BY <4>1 DEF FatedInv, Fated
    <3> QED BY <3>1, <3>2
  <2> QED BY <1>1, <2>1, <2>2 DEF FatedInv
<1>4. CASE Shutdown
  <2>1. HeldInv'
    <3>1. IsFiniteSet({}) /\ Cardinality({}) = 0
      BY FS_EmptySet
    <3>2. 0 <= MaxConnections
      BY ModelCallAssumption
    <3> QED BY <1>4, <3>1, <3>2 DEF Shutdown, HeldInv
  <2>2. \A q \in Requests : Fated(q)'
    BY <1>4 DEF Shutdown, FatedInv, Fated
  <2> QED BY <1>1, <2>1, <2>2 DEF FatedInv
<1> QED BY <1>2, <1>3, <1>4 DEF Next

\* Every forwarded request leaves exactly one event, for any number of requests
\* that share the pool, streamed or not, failing or abandoned, stopped or not:
\* the paths that log nothing are those named in Fates and no others, and a
\* request whose append raised has one event at most.
THEOREM OneEventPerRequest == Spec => []OneEventUnlessFated
<1>1. FatedInv => OneEventUnlessFated
  BY DEF FatedInv, Fated, OneEventUnlessFated
<1> QED BY <1>1, FatedInit, FatedNext, PTL DEF Spec

\* Only a client that leaves before its stream has started leaks a connection,
\* and the pool is never overcommitted.
THEOREM NoConnectionLeaks == Spec => []ConnectionsReturned
<1>1. FatedInv => ConnectionsReturned
  BY DEF FatedInv, HeldInv, Holding, Returns, ConnectionsReturned
<1> QED BY <1>1, FatedInit, FatedNext, PTL DEF Spec
=============================================================================
