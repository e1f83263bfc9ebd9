------------------------------ MODULE Offline ------------------------------
(***************************************************************************)
(* The parts of the benchmark that compute: the dataset on its way to the  *)
(* adapter (module Dataset), the replies of the models (Verdicts) and the  *)
(* numbers taken from the logs (Analysis).  A behavior is one computation: *)
(* an input that can occur, and the result the code gives.  The invariants *)
(* compare the result with a reference definition that says what was asked *)
(* and not how to compute it.                                              *)
(***************************************************************************)
EXTENDS Naturals, Sequences, FiniteSets
LOCAL INSTANCE SequencesExt

CONSTANTS
    NULL,
    MaxTurns,       \* bound: turns of a session
    MaxInstances,   \* bound: instances of a synthetic dataset
    MaxLines,       \* bound: lines of a judge's reply
    MaxWords,       \* bound: words of a reader's reply
    MaxItems        \* bound: memories, samples, rows, questions, calls

ASSUME OfflineAssumption ==
    {MaxTurns, MaxInstances, MaxLines, MaxWords, MaxItems} \subseteq Nat \ {0}

VARIABLES
    task,       \* what is computed, and from what
    result      \* <<>> until it is, then a sequence of the one result

vars == <<task, result>>

D == INSTANCE Dataset
V == INSTANCE Verdicts
A == INSTANCE Analysis
P == INSTANCE Provider

\* The sequences over S of length at most n.
UpTo(S, n) == UNION {[1..k -> S] : k \in 0..n}

----------------------------------------------------------------------------
(* The inputs.                                                             *)

\* A session; the content of a turn that is not blank is its position.
SessionsToWrite ==
    {[id |-> 1, date |-> 11,
      turns |-> [i \in DOMAIN s |-> [role |-> s[i].role, has_answer |-> s[i].has_answer,
                                     content |-> IF s[i].blank THEN 0 ELSE i]]] :
        s \in UpTo([role : {"user", "assistant"}, blank : BOOLEAN, has_answer : BOOLEAN], MaxTurns)}

NextSession ==
    [id |-> 2, date |-> 12,
     turns |-> <<[role |-> "user", content |-> 7, has_answer |-> FALSE]>>]

ThreeInstances == [i \in 1..3 |-> [question_id |-> i]]

Orders(n) == {f \in [1..n -> 1..n] : {f[i] : i \in 1..n} = 1..n}

ReplyLines == {V!ClosingTag} \cup UpTo({"yes", "no", "yesterday", "other"}, 2)

\* Times of two zones half a day apart, on two days of UTC.
Hits ==
    {[i \in DOMAIN s |-> [text |-> i, created |-> s[i]]] :
        s \in UpTo({NULL} \cup [local : 1..5, behind : {0, 2}], MaxItems)}

\* What a search may return of the memories of one user.
Retrieved == UpTo(P!Memories \X ({NULL} \cup [local : {1, 4}, behind : {0}]), MaxItems)

Rows ==
    {[i \in DOMAIN s |-> [system |-> i, accuracy |-> s[i][1], p99 |-> s[i][2], tokens |-> s[i][3]]] :
        s \in UpTo((0..1) \X (0..2) \X (1..2), MaxItems)}

\* The run log of questions with these outcomes; one that failed has no verdict.
Outcomes == UpTo({"right", "wrong", "failed"} \X {"multi-session", "knowledge-update"}, MaxItems)

RunLog(outcomes) ==
    FlattenSeq([i \in DOMAIN outcomes |->
        (IF outcomes[i][1] = "failed" THEN <<>>
         ELSE <<[event_type |-> "JUDGE_END", question_type |-> outcomes[i][2],
                 correct |-> outcomes[i][1] = "right"]>>)
        \o <<[event_type |-> "INSTANCE_END", error |-> outcomes[i][1] = "failed"]>>])

ProxyEvents ==
    [event_type : {"MODEL_CALL"}, run_id : {"mine", "other"}, operation : {NULL, "answer"},
     status : {"success", "error"}, total_tokens : {NULL, 2}, session_id : {NULL, "s1"}]
    \cup [event_type : {"SCOPE_ENTER"}, run_id : {"mine"}]

Marks == [event_type : {"RUN_START"}, run_id : {"mine", "other", NULL}, canonical : BOOLEAN]
         \cup [event_type : {"RUN_END", "INSTANCE_START"}, run_id : {"mine", "other"}]
         \cup [event_type : {"blank", "corrupt"}]

\* What the waits, writes and reads of a run log.  A canary seen at the first
\* poll has no failed one before it, and 0 for its lower bound.
Measured ==
    {[event_type |-> "WRITE_SETTLED", polls |-> p[1], lag |-> p[2], lower |-> p[1] - 1] :
        p \in {q \in (1..2) \X (1..3) : q[1] <= q[2]}}
    \cup {[event_type |-> "SETTLEMENT_TIMEOUT", polls |-> 2, lag |-> NULL, lower |-> 1]}
    \cup [event_type : {"READ_END"}, operation : {"read", "settle"}, lag : {1, 3}]
    \cup [event_type : {"WRITE_ACK"}, lag : {2}]

Init ==
    /\ result = <<>>
    /\ \/ \E session \in SessionsToWrite, ingest \in D!IngestConfigs :
            task = [kind |-> "ingest", sessions |-> <<session, NextSession>>, ingest |-> ingest]
       \/ \E needles \in UpTo({1, 2}, MaxInstances), turns \in {1, 2, 4} :
            task = [kind |-> "synthetic", needles |-> needles, turns |-> turns]
       \/ \E wanted \in UpTo(1..4, 2), limit \in 0..3 :
          \E order \in Orders(IF wanted = <<>> THEN 3 ELSE Len(wanted)) :
            task = [kind |-> "select", wanted |-> wanted, order |-> order, limit |-> limit]
       \/ \E reply \in UpTo(ReplyLines, MaxLines), style \in {"longmemeval_official", "mem0_unified"} :
            task = [kind |-> "label", reply |-> reply, style |-> style]
       \/ \E words \in UpTo({"open", "close", "ANSWER:", "other"}, MaxWords) :
            task = [kind |-> "strip", words |-> words]
       \/ \E hits \in Hits, order \in {"system", "created_at_asc"} :
            task = [kind |-> "memories", hits |-> hits, order |-> order]
       \/ \E session \in SessionsToWrite, ingest \in D!IngestConfigs :
            task = [kind |-> "extract", session |-> session, ingest |-> ingest]
       \/ \E found \in Retrieved, abstention \in BOOLEAN,
             reader \in {"longmemeval_facts", "mem0_v3"},
             judge \in {"longmemeval_official", "mem0_unified"} :
            task = [kind |-> "question", reader |-> reader, judge |-> judge,
                    abstention |-> abstention,
                    hits |-> [i \in DOMAIN found |-> [text |-> found[i][1], created |-> found[i][2]]]]
       \/ \E values \in UpTo({NULL} \cup 1..3, MaxItems), q \in {0, 50, 95, 99, 100} :
            task = [kind |-> "percentile", values |-> values, q |-> q]
       \/ \E values \in UpTo(1..3, MaxItems), q \in {25, 50, 95, 99} :
            task = [kind |-> "quantile", values |-> values, q |-> q]
       \/ \E pairs \in UpTo(BOOLEAN \X BOOLEAN, MaxItems + 1) :
            task = [kind |-> "mcnemar", a |-> [i \in DOMAIN pairs |-> pairs[i][1]],
                    b |-> [i \in DOMAIN pairs |-> pairs[i][2]]]
       \/ \E rows \in Rows, p99 \in {NULL, 0, 1}, tokens \in {NULL, 1} :
            task = [kind |-> "rank", rows |-> rows, p99 |-> p99, tokens |-> tokens]
       \/ \E outcomes \in Outcomes : task = [kind |-> "accuracy", outcomes |-> outcomes]
       \/ \E first \in UpTo(ProxyEvents, 1), second \in UpTo(ProxyEvents, 2) :
            task = [kind |-> "cost", logs |-> <<first, second>>]
       \/ \E events \in UpTo(Measured, MaxItems) : task = [kind |-> "measure", events |-> events]
       \/ \E values \in UpTo(1..3, MaxItems), enough \in {2, 4} :
            task = [kind |-> "summary", values |-> values, enough |-> enough]
       \/ \E events \in UpTo(Marks, MaxItems) : task = [kind |-> "validate", events |-> events]

----------------------------------------------------------------------------
(* The computations.                                                       *)

Compute(kind, value) ==
    /\ task.kind = kind /\ result = <<>>
    /\ result' = <<value>>
    /\ UNCHANGED task

Ingest == Compute("ingest", D!Ingestion(task.sessions, task.ingest))

MakeDataset ==
    LET data == D!MakeSyntheticDataset(task.needles, 2, task.turns)
    IN  Compute("synthetic", [loads |-> D!Loads(data), instances |-> D!Load(data)])

Select ==
    Compute("select",
        IF D!Selects(ThreeInstances, task.wanted)
        THEN [raised |-> FALSE,
              chosen |-> D!SelectInstances(ThreeInstances, task.wanted, task.order, task.limit)]
        ELSE [raised |-> TRUE])

LabelReply == Compute("label", V!Label(task.style, task.reply))

StripReply == Compute("strip", V!StripAnswer(task.words))

\* Mem0's write with inference: the memories of all writes of a session.
Extract ==
    Compute("extract",
        LET writes == D!SplitWrites(task.session, task.ingest)
            blank(w) == {m \in ToSet(w) : D!Blank(m)}
        IN  FlattenSeq([k \in DOMAIN writes |-> P!ExtractionReply(writes[k], blank(writes[k]))]))

\* One retrieved memory per line, in the system's own order.
AssembleContext(hits) == [k \in DOMAIN hits |-> hits[k].text]

\* The lines of the reader's prompt: the scripted model skips the headings.
PromptLines ==
    LET items == SelectSeq(V!MemoryBlock(task.hits, "created_at_asc"), LAMBDA l : ~l.header)
    IN  IF task.reader = "mem0_v3" THEN [k \in DOMAIN items |-> items[k].hit.text]
        ELSE AssembleContext(task.hits)

\* From what the search found to the verdict, through the prompts, the scripted
\* replies and the harness's reading of them.
AskQuestion ==
    Compute("question",
        LET reply == P!ReaderReply(task.reader, PromptLines)
            answer == IF task.reader = "mem0_v3" THEN V!StripAnswer(reply) ELSE reply
            gold == IF task.abstention THEN {"user", "never", "mentioned"} ELSE {"teal"}
        IN  [kinds |-> <<P!Kind(V!ReaderPhrases(task.reader)), P!Kind(V!JudgePhrases)>>,
             correct |-> V!Label(task.judge,
                            P!JudgeReply(task.judge, task.abstention, gold, Head(answer)))])

ListMemories == Compute("memories", V!MemoryBlock(task.hits, task.order))

TakePercentile == Compute("percentile", A!Percentile(task.values, task.q))

TakeQuantile == Compute("quantile", A!Quantile(task.values, task.q, 100))

TestPairs == Compute("mcnemar", A!McNemar(task.a, task.b))

RankRows ==
    Compute("rank", [pareto |-> A!Pareto(task.rows),
                     ranked |-> A!ConstrainedRank(task.rows, task.p99, task.tokens),
                     inverted |-> A!Inversion(task.rows, task.p99, task.tokens)])

MeasureAccuracy == Compute("accuracy", A!Accuracy(RunLog(task.outcomes)))

MeasureCost == Compute("cost", A!Cost(A!ModelCalls(task.logs, "mine")))

\* validate_run reads the file before it checks it.
Validate ==
    Compute("validate", A!ReadsJsonl(task.events) /\ A!Validates(A!ReadJsonl(task.events)))

Measure ==
    Compute("measure", [settlement |-> A!SettlementOf(task.events),
                        latency |-> A!Latency(task.events),
                        visible |-> A!VisibilityIntervals(task.events)])

Summarise ==
    Compute("summary", [summary |-> A!Summary(task.values, task.enough),
                        samples |-> A!Samples(task.values, task.enough)])

Next ==
    \/ Ingest \/ MakeDataset \/ Select \/ LabelReply \/ StripReply \/ ListMemories \/ Extract \/ AskQuestion
    \/ TakePercentile \/ TakeQuantile \/ TestPairs \/ RankRows \/ MeasureAccuracy
    \/ MeasureCost \/ Validate \/ Measure \/ Summarise

Spec == Init /\ [][Next]_vars

Computed(kind) == task.kind = kind /\ result # <<>>

Value == result[1]

----------------------------------------------------------------------------
(* Reference: the dataset on its way to the adapter.                       *)

Ordered(s, before(_, _)) == \A i, j \in DOMAIN s : i < j => before(s[i], s[j])

\* The turns whose pair is left out for a blank message; the text of the first
\* user turn is not blank once the date is in front of it.
LeftOut(turns, ingest) ==
    LET users == {i \in DOMAIN turns : turns[i].role = "user"}
        dated(i) == ingest.date_mode = "prefix_first_user" /\ i \in users
                      /\ \A j \in users : i <= j
        blank == {i \in DOMAIN turns : turns[i].content = 0 /\ ~dated(i)}
    IN  IF ingest.granularity = "pair" /\ ingest.skip_empty_pairs
        THEN {i \in DOMAIN turns : \E j \in blank : (i + 1) \div 2 = (j + 1) \div 2}
        ELSE {}

\* The writes that carry a session's date, and all their messages in order.
WritesOf(session) == SelectSeq(Value, LAMBDA w : w.session_date = session.date)

MessagesOf(session) == FlattenSeq([k \in DOMAIN WritesOf(session) |-> WritesOf(session)[k].messages])

\* Each session's turns are written once and in their order, but for the pairs
\* left out; each write has the date where the mode wants one, and evidence
\* labels stay behind when they are to be stripped.
WritesCarryTheSession ==
    Computed("ingest") =>
       /\ Ordered(Value, LAMBDA v, w : v.session_date <= w.session_date)
       /\ \A n \in DOMAIN task.sessions :
            LET session == task.sessions[n]
                ingest == task.ingest
                turns == session.turns
                kept == SelectSeq([i \in DOMAIN turns |-> i],
                                  LAMBDA i : i \notin LeftOut(turns, ingest))
                body == SelectSeq(MessagesOf(session), LAMBDA m : m.role # "system")
                writes == WritesOf(session)
                isDated(m) == m.date # NULL
            IN  /\ Len(body) = Len(kept)
                /\ \A k \in DOMAIN kept :
                     /\ body[k].role = turns[kept[k]].role
                     /\ body[k].content = turns[kept[k]].content
                     /\ body[k].label <=> (turns[kept[k]].has_answer /\ ~ingest.strip_labels)
                /\ \A k \in DOMAIN writes :
                     LET dates == SelectSeq(writes[k].messages, isDated)
                     IN  ingest.date_mode = "system_message" =>
                           /\ Len(dates) = 1 /\ dates[1] = writes[k].messages[1]
                           /\ dates[1].date = session.date
                /\ ingest.date_mode = "prefix_first_user" =>
                     \A k \in DOMAIN kept :
                        body[k].date = IF \A j \in 1..kept[k] :
                                             (turns[j].role = "user") <=> (j = kept[k])
                                       THEN session.date ELSE NULL

\* The synthetic file loads unless it is empty, and in each instance exactly
\* the sessions named as evidence hold an evidence turn, one and the user's.
SyntheticHasItsNeedle ==
    Computed("synthetic") =>
       /\ Value.loads <=> task.needles # <<>>
       /\ \A i \in DOMAIN Value.instances :
            LET inst == Value.instances[i]
                evidence(j) == {k \in DOMAIN inst.sessions[j].turns :
                                   inst.sessions[j].turns[k].has_answer}
            IN  \A j \in DOMAIN inst.sessions :
                  /\ Cardinality(evidence(j)) =
                       IF inst.sessions[j].id \in ToSet(inst.answer_session_ids) THEN 1 ELSE 0
                  /\ \A k \in evidence(j) : inst.sessions[j].turns[k].role = "user"

\* A selection runs each instance as often as it was asked for, in the order of
\* the seed, and a limit cuts that order short; an unknown id is an error, also
\* one the limit would have cut off.
SelectionKeepsTheOrder ==
    Computed("select") =>
       LET asked == IF task.wanted = <<>> THEN <<1, 2, 3>> ELSE task.wanted
           size == Len(asked)
       IN  /\ Value.raised <=> 4 \in ToSet(asked)
           /\ ~Value.raised =>
                /\ Len(Value.chosen) = IF task.limit \in 1..size THEN task.limit ELSE size
                /\ \A k \in DOMAIN Value.chosen :
                     Value.chosen[k].question_id = asked[task.order[k]]

\* Every turn that says something and is not left out becomes one memory, of
\* the speaker's and in order; a date that is a message of its own becomes none.
TurnsBecomeMemories ==
    Computed("extract") =>
       LET turns == task.session.turns
           dated(i) == task.ingest.date_mode = "prefix_first_user"
                         /\ \A j \in 1..i : (turns[j].role = "user") <=> (j = i)
           said == SelectSeq([i \in DOMAIN turns |-> i],
                             LAMBDA i : (turns[i].content # 0 \/ dated(i))
                                          /\ i \notin LeftOut(turns, task.ingest))
       IN  [k \in DOMAIN Value |-> <<Value[k].text, Value[k].attributed_to>>]
             = [k \in DOMAIN said |-> <<turns[said[k]].content, turns[said[k]].role>>]

\* What the adapter is given is the dataset: bench/longmemeval.py:79-195 and
\* bench/runner.py:67-101.
DatasetReachesAdapter ==
    /\ WritesCarryTheSession /\ SyntheticHasItsNeedle /\ SelectionKeepsTheOrder
    /\ TurnsBecomeMemories

----------------------------------------------------------------------------
(* Reference: the replies of the models.                                   *)

\* The rule as judge.py:27 puts it: "last standalone yes/no line after the
\* closing tag of the thinking, else last yes/no token, else startswith yes".
VerdictFollowsTheRule ==
    (Computed("label") /\ task.style = "mem0_unified") =>
       LET reply == task.reply
           after(i) == \A j \in i..Len(reply) : reply[j] # V!ClosingTag
           region == {i \in DOMAIN reply : after(i)}
           alone == {i \in region : reply[i] \in {<<"yes">>, <<"no">>}}
           tokens == {p \in region \X (1..2) :
                        p[2] \in DOMAIN reply[p[1]] /\ reply[p[1]][p[2]] \in {"yes", "no"}}
           notAfter(p, q) == p[1] < q[1] \/ (p[1] = q[1] /\ p[2] <= q[2])
           words == FlattenSeq(reply)
       IN  Value <=>
             \/ \E i \in alone : reply[i] = <<"yes">> /\ \A j \in alone : j <= i
             \/ /\ alone = {}
                /\ \E p \in tokens : /\ reply[p[1]][p[2]] = "yes"
                                      /\ \A q \in tokens : notAfter(q, p)
             \/ alone = {} /\ tokens = {} /\ words # <<>> /\ words[1] \in {"yes", "yesterday"}

\* The judge sees no answer marker and no word of a closed block of thinking:
\* in each stretch up to a closing tag, all from the first opening tag on.
ThinkingIsHidden ==
    Computed("strip") =>
       LET words == task.words
           closes(i) == {j \in i..Len(words) : words[j] = "close"}
           openedBefore(i) == \E o \in 1..i : /\ words[o] = "open"
                                              /\ \A j \in o..(i - 1) : words[j] # "close"
           shown == {i \in DOMAIN words : closes(i) = {} \/ ~openedBefore(i)}
           marks == {i \in shown : words[i] = "ANSWER:"}
           kept == SelectSeq([i \in DOMAIN words |-> i],
                             LAMBDA i : i \in shown /\ \A m \in marks : m < i)
       IN  Value = [k \in DOMAIN kept |-> words[kept[k]]]

\* The reader is shown every memory once.  A dated one stands under its own day
\* of UTC; sorted by date the undated stand under none, and each day has one
\* heading, if all dates are of one zone (they are sorted as they are written).
MemoriesUnderTheirDay ==
    Computed("memories") =>
       LET items == SelectSeq(Value, LAMBDA l : ~l.header)
           heads(k) == {j \in 1..k : Value[j].header}
           under(k) == IF heads(k) = {} THEN NULL
                       ELSE Value[CHOOSE j \in heads(k) : \A i \in heads(k) : i <= j].day
           days == SelectSeq(Value, LAMBDA l : l.header)
           zones == {h.created.behind : h \in {g \in ToSet(task.hits) : g.created # NULL}}
           utc(created) == created.local + created.behind
       IN  /\ Len(items) = Len(task.hits)
           /\ {l.hit : l \in ToSet(items)} = ToSet(task.hits)
           /\ \A k \in DOMAIN Value :
                (~Value[k].header /\ Value[k].hit.created # NULL)
                   => under(k) = utc(Value[k].hit.created) \div 4
           /\ task.order = "system" => \A k \in DOMAIN items : items[k].hit.text = k
           /\ task.order = "created_at_asc" =>
                /\ Cardinality(zones) <= 1 => \A i, j \in DOMAIN days : days[i].day = days[j].day => i = j
                /\ \A k \in DOMAIN Value :
                     (~Value[k].header /\ Value[k].hit.created = NULL) => under(k) = NULL

\* Every type of question the loader lets in has a template of the judge.
EveryTypeIsJudged ==
    \A type \in D!QuestionTypes, abstention \in BOOLEAN : V!JudgeTemplate(type, abstention) # NULL

\* With the scripted model a question is judged right if and only if the fact
\* was retrieved: in its short form unless a conflicting value stands before
\* it, or only repeated by the assistant.  A question without an answer is
\* right if nothing retrieved touches it and reader and judge are of one style.
OfflineVerdictIsRetrieval ==
    Computed("question") =>
       LET hits == task.hits
           date(i) == IF hits[i].created = NULL THEN 0 ELSE hits[i].created.local
           before(i, j) == IF task.reader = "mem0_v3" /\ date(i) # date(j)
                           THEN date(i) < date(j) ELSE i < j
           found(texts) == {i \in DOMAIN hits : hits[i].text \in texts}
           values == found({"told", "outdated"})
       IN  /\ Value.kinds = <<"reader", "judge">>
           /\ Value.correct <=>
                (IF task.abstention
                 THEN /\ found({"told", "outdated", "repeated", "related"}) = {}
                      /\ (task.reader = "mem0_v3") <=> (task.judge = "mem0_unified")
                 ELSE IF values = {} THEN found({"repeated"}) # {}
                 ELSE \E i \in found({"told"}) : \A j \in values \ {i} : before(i, j))

\* What the models say is read as the published protocols read it:
\* bench/prompts.py:33-50 and 316-377, bench/reader.py:45-53, bench/judge.py.
RepliesReadAsAsked ==
    VerdictFollowsTheRule /\ ThinkingIsHidden /\ MemoriesUnderTheirDay /\ EveryTypeIsJudged
    /\ OfflineVerdictIsRetrieval

----------------------------------------------------------------------------
(* Reference: the numbers.                                                 *)

CountIn(s, test(_)) == Cardinality({i \in DOMAIN s : test(s[i])})

\* The nearest-rank percentile is the least value that q percent do not exceed.
PercentileIsNearestRank ==
    Computed("percentile") =>
       LET known == ToSet(task.values) \ {NULL}
           total == CountIn(task.values, LAMBDA v : v # NULL)
           reaches(v) == 100 * CountIn(task.values, LAMBDA w : w # NULL /\ w <= v) >= task.q * total
       IN  IF known = {} THEN Value = NULL
           ELSE Value \in known /\ reaches(Value) /\ \A v \in known : reaches(v) => Value <= v

\* An interpolated quantile has its share of the samples on either side, and
\* moves in proportion to q over samples that are evenly spaced.
QuantileSplits ==
    (Computed("quantile") /\ task.values # <<>>) =>
       LET pos == (Len(task.values) - 1) * task.q
       IN  /\ CountIn(task.values, LAMBDA v : 100 * v <= Value) >= pos \div 100 + 1
           /\ CountIn(task.values, LAMBDA v : 100 * v >= Value) >= Len(task.values) - (pos + 99) \div 100
           /\ ToSet(task.values) = 1..Len(task.values) => Value = 100 + pos

\* McNemar's p-value is the share of the ways the pairs that disagree could
\* have fallen that are at least as one-sided as the way they did.
McNemarIsExact ==
    Computed("mcnemar") =>
       LET n == Value.b01 + Value.b10
           least == IF Value.b01 < Value.b10 THEN Value.b01 ELSE Value.b10
           asUneven == {s \in SUBSET (1..n) : Cardinality(s) <= least \/ n - Cardinality(s) <= least}
       IN  /\ n = Cardinality({i \in DOMAIN task.a : task.a[i] # task.b[i]})
           /\ Value.p = Cardinality(asUneven)

\* A row is off the frontier only for a better one on it; the ranking loses no
\* admissible row; an inversion is a winner the constraints rule out.
RanksAreSound ==
    Computed("rank") =>
       LET rows == ToSet(task.rows)
           admissible == {r \in rows : A!Admissible(r, task.p99, task.tokens)}
           winner == A!ConstrainedRank(task.rows, NULL, NULL)[1]
       IN  /\ ToSet(Value.pareto) \subseteq rows
           /\ \A r \in rows \ ToSet(Value.pareto) :
                \E o \in ToSet(Value.pareto) : A!Dominates(o, r)
           /\ Len(Value.ranked) = Cardinality(admissible) /\ ToSet(Value.ranked) = admissible
           /\ Ordered(Value.ranked, LAMBDA r, s :
                 r.accuracy > s.accuracy \/ (r.accuracy = s.accuracy /\ r.p99 <= s.p99))
           /\ Value.inverted <=> (admissible # {} /\ winner \notin admissible)

\* The accuracies of a run split its questions without rest.
AccuracyAddsUp ==
    Computed("accuracy") =>
       LET types == DOMAIN Value.per_type
           having(o, t) == CountIn(task.outcomes, LAMBDA x : x = <<o, t>>)
       IN  /\ Value.judged + Value.errored = Value.instances
           /\ Value.instances = Len(task.outcomes)
           /\ \A t \in types : Value.per_type[t] =
                [n |-> having("right", t) + having("wrong", t), correct |-> having("right", t)]
           /\ Value.judged = FoldLeft(+, 0, [i \in 1..Cardinality(types) |->
                                Value.per_type[SetToSeq(types)[i]].n])

\* The cost of a run is that of its calls: the operations, that of no name
\* included, account for all of them, the sessions for the tokens that have one.
CostAddsUp ==
    Computed("cost") =>
       LET sum(f) == FoldLeft(LAMBDA acc, k : acc + f[k], 0, SetToSeq(DOMAIN f))
           ops == Value.by_operation
           mine == SelectSeq(FlattenSeq(task.logs),
                             LAMBDA e : e.event_type = "MODEL_CALL" /\ e.run_id = "mine")
           homeless == CountIn(mine, LAMBDA e : e.status = "success" /\ e.session_id = NULL
                                                  /\ e.total_tokens # NULL)
       IN  /\ Value.available <=> mine # <<>>
           /\ Value.available =>
              /\ Value.all.calls = Len(mine)
              /\ \A figure \in {"calls", "errors", "tokens"} :
                   sum([op \in DOMAIN ops |-> ops[op][figure]]) = Value.all[figure]
              /\ sum(Value.per_session) + 2 * homeless = Value.all.tokens

\* A log that validates is one load_run takes, and holds no event of another run.
ValidLogLoads ==
    (Computed("validate") /\ Value) =>
       LET events == SelectSeq(task.events, LAMBDA e : e.event_type # "blank")
       IN  \E run \in {"mine", "other"} :
             /\ A!LoadsRun(events, run)
             /\ \A e \in ToSet(events) : e.event_type # "corrupt" /\ e.run_id \in {run, NULL}

\* Every wait is counted once, as settled or timed out; only what settled has a
\* lag, and the waits' polls are no reads.  Percentiles are values that were
\* measured, in order, and a summary gives a p99 only for enough samples.
MeasuresAddUp ==
    /\ Computed("measure") =>
         LET waits == CountIn(task.events,
                         LAMBDA e : e.event_type \in {"WRITE_SETTLED", "SETTLEMENT_TIMEOUT"})
             reads == CountIn(task.events,
                         LAMBDA e : e.event_type = "READ_END" /\ e.operation = "read")
             figures == {Value.settlement.lag, Value.latency.read, Value.latency.write_ack}
         IN  /\ Value.settlement.n_settled + Value.settlement.n_timeouts = waits
             /\ Value.settlement.first_poll <= Value.settlement.n_settled
             /\ Value.settlement.lag.n = Len(Value.visible)
             /\ \A k \in DOMAIN Value.visible : Value.visible[k][1] <= Value.visible[k][2]
             /\ Value.latency.read.n = reads
             /\ \A f \in figures : f.n > 0 => f.p50 <= f.p95 /\ f.p95 <= f.p99
             /\ \A f \in figures : f.n = 0 <=> f.p99 = NULL
    /\ (Computed("summary") /\ task.values # <<>>) =>
         LET q == Value.summary
             inner == Value.samples
         IN  /\ q.p50 <= q.p95
             /\ (q.p99 = NULL) <=> (Len(task.values) < task.enough)
             /\ q.p99 # NULL => q.p95 <= q.p99
             /\ inner.p99 = q.p99 /\ inner.median = q.p50
             /\ \E least, most \in ToSet(task.values) : 100 * least + inner.iqr <= 100 * most

\* Every number agrees with its definition and the sums agree with the logs:
\* analysis/statistics.py, rank.py, metrics.py, ingest.py, validation.py.
NumbersMatchTheLogs ==
    /\ PercentileIsNearestRank /\ QuantileSplits /\ McNemarIsExact /\ RanksAreSound
    /\ AccuracyAddsUp /\ CostAddsUp /\ ValidLogLoads /\ MeasuresAddUp

=============================================================================
