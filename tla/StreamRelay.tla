---------------------------- MODULE StreamRelay ----------------------------
(***************************************************************************)
(* The bytes of one streamed completion: _forward_stream of proxy/app.py   *)
(* cuts the upstream's byte stream, which arrives in chunks of any size,   *)
(* into server-sent events, reads the usage and the text in them, hides    *)
(* the usage chunk the proxy itself has asked for, and passes the rest on. *)
(*                                                                         *)
(* The bytes are symbols: one per line of an event, "nl" and "cr".  What   *)
(* happens to the connection and to the event log is in ModelCall.         *)
(***************************************************************************)
EXTENDS Integers, FiniteSets, Sequences, SequencesExt

CONSTANTS
    Words,       \* bound: words of a completion
    MaxChunk,    \* bound: symbols in one chunk of the body
    Framings     \* line ends the upstream may use: "lf", "crlf"

ASSUME StreamRelayAssumption ==
    /\ Words \in Nat
    /\ MaxChunk \in Nat \ {0}
    /\ Framings \subseteq {"lf", "crlf"}

VARIABLES
    call,       \* what the client asked for, settings, how the upstream frames
    upstream,   \* the events the upstream sends, each a sequence of lines
    received,   \* symbols of its byte stream that have arrived
    buf,        \* buf: bytes that are not yet a whole event
    phase,      \* where stream_body is
    usage,      \* rec.usage, 0 if none
    text,       \* completion_text
    status,     \* rec.status and the reason, as the finally logs them
    delivered   \* bytes handed to the client

vars == <<call, upstream, received, buf, phase, usage, text, status, delivered>>

\* unfinished: the body ends before the empty line of its last event.
Call == [endpoint : {"chat", "responses"}, asked : BOOLEAN, force : BOOLEAN,
         framing : Framings, unfinished : BOOLEAN]

-----------------------------------------------------------------------------
(* Lines of an event.  usage_n and final_n carry the usage block n: the    *)
(* first without choices, the second with them; "completed" is the object  *)
(* of the responses API with the usage inside it.                          *)

UsageOnly == {"usage_1", "usage_2"}
Content   == {"word_1", "word_2", "final_1"}
UsageOf   == [l \in {"usage_1", "final_1", "completed", "usage_2"} |->
                IF l = "usage_2" THEN 2 ELSE 1]

\* The lines of a sequence that are in a set, in their order.
Selected(s, S) == FlattenSeq([k \in 1..Len(s) |-> IF s[k] \in S THEN <<s[k]>> ELSE <<>>])

-----------------------------------------------------------------------------
(* _forward_stream, before the request is sent.                            *)

\* client_requested_usage: responses streams end with their usage in any case.
ClientRequestedUsage(c) == c.asked \/ c.endpoint = "responses"

\* stream_options.include_usage of the body that is sent.
IncludesUsage(c) == c.asked \/ (c.force /\ ~ClientRequestedUsage(c))

-----------------------------------------------------------------------------
(* Upstreams.                                                              *)

\* proxy/fake_upstream.py, gen: role, words, stop, the usage if it is asked
\* for, [DONE].
FakeChat(c, n) ==
    <<<<"role">>>> \o [k \in 1..n |-> IF k = 1 THEN <<"word_1">> ELSE <<"word_2">>] \o <<<<"stop">>>>
        \o (IF IncludesUsage(c) THEN <<<<"usage_1">>>> ELSE <<>>)
        \o <<<<"done">>>>

\* Other servers: no [DONE], usage in the last content chunk, two usage chunks,
\* a line that is not JSON, events of several lines (the responses API).
OtherChat(c) ==
    {<<<<"word_1">>, <<"final_1">>>>} \cup
    (IF IncludesUsage(c) THEN {<<<<"junk">>, <<"usage_1">>, <<"word_1">>, <<"usage_2">>>>}
                         ELSE {})
Responses == {<<<<"name", "delta">>, <<"name", "completed">>>>}

UpstreamsFor(c) ==
    IF c.endpoint = "responses" THEN Responses
    ELSE {FakeChat(c, n) : n \in 0..Words} \cup OtherChat(c)

LineEnd(framing) == IF framing = "crlf" THEN <<"cr", "nl">> ELSE <<"nl">>

\* The bytes of an event: each line ended, then an empty line, which the last
\* event of an unfinished body lacks.
Terminated(event) ==
    FlattenSeq([k \in 1..Len(event) |-> <<event[k]>> \o LineEnd(call.framing)])
SentBytes(i) ==
    Terminated(upstream[i]) \o
    (IF call.unfinished /\ i = Len(upstream) THEN <<>> ELSE LineEnd(call.framing))
Body == FlattenSeq([i \in 1..Len(upstream) |-> SentBytes(i)])

-----------------------------------------------------------------------------
Init ==
    /\ call \in Call
    /\ call.endpoint = "responses" => ~call.asked   \* no such option there
    /\ upstream \in UpstreamsFor(call)
    /\ received = 0
    /\ buf = <<>>
    /\ phase = "reading"
    /\ usage = 0
    /\ text = <<>>
    /\ status = "pending"
    /\ delivered = <<>>

-----------------------------------------------------------------------------
(* process_event                                                           *)

\* _absorb_usage for every line of the event that has a usage block: the last
\* one stays.
AbsorbedUsage(raw) ==
    LET found == Selected(raw, DOMAIN UsageOf) IN
    IF found = <<>> THEN usage ELSE UsageOf[Last(found)]

AbsorbedText(raw) == text \o Selected(raw, Content)

\* keep = False: a line with usage and no choices the client did not ask for.
Hides(raw) == \E k \in 1..Len(raw) : raw[k] \in UsageOnly /\ ~ClientRequestedUsage(call)

YieldBefore(next) == IF next = "splitting" THEN "yield_splitting" ELSE "yield_succeeding"

Process(raw, next) ==
    /\ usage' = AbsorbedUsage(raw)
    /\ text' = AbsorbedText(raw)
    /\ IF Hides(raw)
       THEN phase' = next /\ UNCHANGED delivered
       ELSE phase' = YieldBefore(next) /\ delivered' = delivered \o raw

-----------------------------------------------------------------------------
(* stream_body                                                             *)

\* buf.find(b"\n\n"), 0 if there is none.  Faulty variant: the line end of an
\* event's first line.
FindLineEnd(b) == LET ends == {k \in 1..Len(b) : b[k] = "nl"} IN
                  IF ends = {} THEN 0 ELSE (CHOOSE k \in ends : \A j \in ends : k <= j) - 1
FindBlankLine(b) ==
    LET ends == {k \in 1..(Len(b) - 1) : b[k] = "nl" /\ b[k + 1] = "nl"} IN
    IF ends = {} THEN 0 ELSE CHOOSE k \in ends : \A j \in ends : k <= j

ReadChunk ==
    /\ phase = "reading"
    /\ \E n \in 1..MaxChunk :
         /\ received + n <= Len(Body)
         /\ received' = received + n
         /\ buf' = buf \o SubSeq(Body, received + 1, received + n)
    /\ phase' = "splitting"
    /\ UNCHANGED <<call, upstream, usage, text, status, delivered>>

\* One round of `while True`: the next whole event, if there is one.
TakeEvent ==
    /\ phase = "splitting"
    /\ FindBlankLine(buf) # 0
    /\ LET end == FindBlankLine(buf) + 1 IN
         /\ Process(SubSeq(buf, 1, end), "splitting")
         /\ buf' = SubSeq(buf, end + 1, Len(buf))
    /\ UNCHANGED <<call, upstream, received, status>>

NeedMore ==
    /\ phase = "splitting"
    /\ FindBlankLine(buf) = 0
    /\ phase' = "reading"
    /\ UNCHANGED <<call, upstream, received, buf, usage, text, status, delivered>>

\* The generator is resumed after a yield.
Resume ==
    /\ phase \in {"yield_splitting", "yield_succeeding"}
    /\ phase' = IF phase = "yield_splitting" THEN "splitting" ELSE "succeeding"
    /\ UNCHANGED <<call, upstream, received, buf, usage, text, status, delivered>>

\* Faulty variant: what is left in buf is dropped.
DropLeftover ==
    /\ phase = "reading"
    /\ received = Len(Body)
    /\ phase' = "succeeding"
    /\ UNCHANGED <<call, upstream, received, buf, usage, text, status, delivered>>

\* The upstream ends its body: what is left in buf is one more event.
EndOfBody ==
    /\ phase = "reading"
    /\ received = Len(Body)
    /\ IF buf = <<>>
       THEN phase' = "succeeding" /\ UNCHANGED <<usage, text, delivered>>
       ELSE Process(buf, "succeeding")
    /\ UNCHANGED <<call, upstream, received, buf, status>>

\* rec.status = "success", then the finally.
Succeed ==
    /\ phase = "succeeding"
    /\ status' = "success"
    /\ phase' = "over"
    /\ UNCHANGED <<call, upstream, received, buf, usage, text, delivered>>

\* aiter_raw raises: the client has left, a timeout, a broken connection.
Break ==
    /\ phase = "reading"
    /\ status' = "error"
    /\ phase' = "over"
    /\ UNCHANGED <<call, upstream, received, buf, usage, text, delivered>>

\* The client leaves while the generator is at a yield: closed there.
Dropped ==
    /\ phase \in {"yield_splitting", "yield_succeeding"}
    /\ status' = "error"
    /\ phase' = "over"
    /\ UNCHANGED <<call, upstream, received, buf, usage, text, delivered>>

Next == \/ ReadChunk \/ TakeEvent \/ NeedMore \/ Resume
        \/ EndOfBody \/ Succeed \/ Break \/ Dropped

Spec == Init /\ [][Next]_vars
-----------------------------------------------------------------------------
(* What should come of it, told from the events and not from the bytes.    *)

Injected(event) == ~ClientRequestedUsage(call) /\ \E k \in 1..Len(event) : event[k] \in UsageOnly

Visible == FlattenSeq([i \in 1..Len(upstream) |->
                           IF Injected(upstream[i]) THEN <<>> ELSE SentBytes(i)])

UsageLines   == Selected(FlattenSeq(upstream), DOMAIN UsageOf)
ContentLines == Selected(FlattenSeq(upstream), Content)

\* "The extra usage-only chunk is stripped from the client stream unless the
\* client asked for it" (README.md:134), and nothing else is: what the client
\* is given is at any time a prefix of the upstream's bytes without that chunk,
\* and all of them if the stream succeeded.
OnlyUsageStripped ==
    /\ IsPrefix(delivered, Visible)
    /\ status = "success" => delivered = Visible

\* The same wherever the chunks of the body are cut, in the middle of a line
\* end or of several events, for upstreams that end their lines with LF.
RelayExact == call.framing = "lf" => OnlyUsageStripped

\* The accounting of a stream does not depend on how it was cut or framed, nor
\* on who asked for the usage: a stream logged as a success has the upstream's
\* last usage block and all of its text; one that broke has a prefix of the
\* text; and usage is on record only if the upstream sent it.  The text is that
\* of the chat API's deltas: from the responses API only the usage is taken.
StreamAccounted ==
    /\ status = "success" =>
         /\ usage = (IF UsageLines = <<>> THEN 0 ELSE UsageOf[Last(UsageLines)])
         /\ text = ContentLines
    /\ IsPrefix(text, ContentLines)
    /\ usage # 0 => \E k \in 1..Len(UsageLines) : UsageOf[UsageLines[k]] = usage
    /\ (status = "success" /\ call.endpoint = "chat" /\ IncludesUsage(call)) => usage # 0
=============================================================================
