------------------------------ MODULE Dataset ------------------------------
(***************************************************************************)
(* From a LongMemEval file to the writes an adapter receives               *)
(* (bench/longmemeval.py, format_session_messages and split_writes of      *)
(* bench/runner.py), as operators.                                         *)
(*                                                                         *)
(* A turn of the file is a record that should have a role and a content;   *)
(* a text is a number, 0 the blank one.  Dates and ids are numbers too.    *)
(* The seeded shuffle is an arbitrary permutation, the seeded choice of    *)
(* the needle's session an arbitrary function.                             *)
(***************************************************************************)
EXTENDS Naturals, Sequences, FiniteSets
LOCAL INSTANCE SequencesExt

CONSTANT NULL   \* no date, no label

QuestionTypes == {"single-session-user", "single-session-assistant",
                  "single-session-preference", "temporal-reasoning",
                  "knowledge-update", "multi-session"}

----------------------------------------------------------------------------
(* Loading.                                                                *)

WellFormed(turn) == {"role", "content"} \subseteq DOMAIN turn

\* What _parse_instance accepts: all the fields, a known type, three lists of
\* one length, and no malformed turn.
Parses(raw) ==
    /\ {"question_id", "question_type", "dates", "ids", "sessions"} \subseteq DOMAIN raw
    /\ raw.question_type \in QuestionTypes
    /\ Len(raw.ids) = Len(raw.dates) /\ Len(raw.dates) = Len(raw.sessions)
    /\ \A j \in DOMAIN raw.sessions :
          \A k \in DOMAIN raw.sessions[j] : WellFormed(raw.sessions[j][k])

Turn(raw) ==
    [role |-> raw.role, content |-> raw.content,
     has_answer |-> "has_answer" \in DOMAIN raw /\ raw.has_answer]

\* The instance a raw one becomes; answer_session_ids is optional.
Instance(raw) ==
    [question_id |-> raw.question_id,
     question_type |-> raw.question_type,
     sessions |-> [j \in DOMAIN raw.sessions |->
                     [id |-> raw.ids[j], date |-> raw.dates[j],
                      turns |-> [k \in DOMAIN raw.sessions[j] |-> Turn(raw.sessions[j][k])]]],
     answer_session_ids |-> IF "answer_session_ids" \in DOMAIN raw
                            THEN raw.answer_session_ids ELSE <<>>]

\* What load_longmemeval accepts, and the instances it returns.
Loads(data) ==
    /\ data # <<>>
    /\ \A i \in DOMAIN data : Parses(data[i])
    /\ \A i, j \in DOMAIN data : data[i].question_id = data[j].question_id => i = j

Load(data) == [i \in DOMAIN data |-> Instance(data[i])]

----------------------------------------------------------------------------
(* Selecting.                                                              *)

\* What select_instances accepts: no unknown question id.
Selects(instances, wanted) ==
    ToSet(wanted) \subseteq {inst.question_id : inst \in ToSet(instances)}

\* question_ids names the pool, repetitions included; with none, all are in it.
Pool(instances, wanted) ==
    IF wanted = <<>>
    THEN instances
    ELSE [k \in DOMAIN wanted |->
            CHOOSE inst \in ToSet(instances) : inst.question_id = wanted[k]]

\* The first limit of the shuffled pool; a limit of 0 is no limit.
SelectInstances(instances, wanted, order, limit) ==
    LET pool == Pool(instances, wanted)
        ordered == [k \in DOMAIN pool |-> pool[order[k]]]
    IN  IF limit = 0 \/ limit > Len(ordered) THEN ordered ELSE SubSeq(ordered, 1, limit)

----------------------------------------------------------------------------
(* The synthetic stand-in.                                                 *)

Abstains(i) == i % 7 = 6

Filler(pairs) ==
    [k \in 1..(2 * pairs) |->
        [role |-> IF k % 2 = 1 THEN "user" ELSE "assistant", content |-> 2]]

Needle == <<[role |-> "user", content |-> 1, has_answer |-> TRUE],
            [role |-> "assistant", content |-> 1]>>

\* Raw instance i: the needle is inserted after the first turn of its session,
\* unless the question is one to abstain from.
Synthetic(i, needle, nSessions, turnsPerSession) ==
    LET pairs == turnsPerSession \div 2
        at == IF pairs = 0 THEN 0 ELSE 1
        session(s) == IF s = needle /\ ~Abstains(i)
                      THEN SubSeq(Filler(pairs), 1, at) \o Needle
                             \o SubSeq(Filler(pairs), at + 1, 2 * pairs)
                      ELSE Filler(pairs)
    IN  [question_id |-> i, question_type |-> "multi-session",
         ids |-> [s \in 1..nSessions |-> s], dates |-> [s \in 1..nSessions |-> 10 + s],
         sessions |-> [s \in 1..nSessions |-> session(s)],
         answer_session_ids |-> IF Abstains(i) THEN <<>> ELSE <<needle>>]

\* needles[i] is the session drawn for instance i - 1.
MakeSyntheticDataset(needles, nSessions, turnsPerSession) ==
    [i \in DOMAIN needles |-> Synthetic(i - 1, needles[i], nSessions, turnsPerSession)]

----------------------------------------------------------------------------
(* Writing a session: an ingest is a record of the four options.           *)

DateModes == {"system_message", "prefix_first_user", "none"}

Granularities == {"session", "turn", "pair"}

IngestConfigs ==
    [date_mode : DateModes, granularity : Granularities,
     strip_labels : BOOLEAN, skip_empty_pairs : BOOLEAN]

DateMessage(date) == [role |-> "system", content |-> 0, date |-> date, label |-> FALSE]

FormatSessionMessages(session, ingest) ==
    LET turns == session.turns
        users == {i \in DOMAIN turns : turns[i].role = "user"}
        first(i) == i \in users /\ \A j \in users : i <= j
        prefixed(i) == ingest.date_mode = "prefix_first_user" /\ first(i)
        msgs == [i \in DOMAIN turns |->
                   [role |-> turns[i].role, content |-> turns[i].content,
                    date |-> IF prefixed(i) THEN session.date ELSE NULL,
                    label |-> ~ingest.strip_labels /\ turns[i].has_answer]]
    IN  IF ingest.date_mode = "system_message"
        THEN <<DateMessage(session.date)>> \o msgs
        ELSE msgs

\* Blank after strip(): the date in front of a text makes it none.
Blank(message) == message.content = 0 /\ message.date = NULL

\* Faulty variant: a last odd message is dropped.
EvenPairs(body) ==
    [k \in 1..(Len(body) \div 2) |-> <<body[2 * k - 1], body[2 * k]>>]

\* Consecutive pairs; a last odd message is a pair of its own.
Pairs(body) ==
    [k \in 1..((Len(body) + 1) \div 2) |->
        IF 2 * k > Len(body) THEN <<body[2 * k - 1]>> ELSE <<body[2 * k - 1], body[2 * k]>>]

NoneBlank(pair) == \A k \in DOMAIN pair : ~Blank(pair[k])

\* The writes of one session: with a granularity below the session, each of
\* them repeats the system messages.
SplitWrites(session, ingest) ==
    LET msgs == FormatSessionMessages(session, ingest)
        system == SelectSeq(msgs, LAMBDA m : m.role = "system")
        body == SelectSeq(msgs, LAMBDA m : m.role # "system")
        pairs == IF ingest.skip_empty_pairs THEN SelectSeq(Pairs(body), NoneBlank)
                                            ELSE Pairs(body)
        parts == IF ingest.granularity = "turn" THEN [k \in DOMAIN body |-> <<body[k]>>]
                                                ELSE pairs
    IN  IF ingest.granularity = "session"
        THEN <<msgs>>
        ELSE [k \in DOMAIN parts |-> system \o parts[k]]

\* What run_instance hands to the adapter: the writes of every session, in
\* order, each with the session's date in its metadata.
Ingestion(sessions, ingest) ==
    FlattenSeq([j \in DOMAIN sessions |->
        LET writes == SplitWrites(sessions[j], ingest)
        IN  [k \in DOMAIN writes |-> [messages |-> writes[k], session_date |-> sessions[j].date]]])

=============================================================================
