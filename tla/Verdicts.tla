------------------------------ MODULE Verdicts ------------------------------
(***************************************************************************)
(* What the harness shows the reader model and how it reads the replies of *)
(* the reader and the judge (bench/prompts.py, bench/reader.py,            *)
(* bench/judge.py), as operators.                                          *)
(*                                                                         *)
(* A reply of the judge is a sequence of lines, a line a sequence of       *)
(* words; the words are lower case, as the code makes them.  The closing   *)
(* tag of the judge's thinking is a line of its own.  A reply of the       *)
(* reader is a sequence of the tags, the answer marker and other words.    *)
(***************************************************************************)
EXTENDS Naturals, Sequences, FiniteSets, TLC
LOCAL INSTANCE SequencesExt

CONSTANT NULL   \* a memory without a date

----------------------------------------------------------------------------
(* The judge.                                                              *)

\* The template of the official judge, NULL for a type it does not know.
JudgeTemplate(question_type, abstention) ==
    CASE abstention -> "abstention"
      [] ~abstention /\ question_type \in
            {"single-session-user", "single-session-assistant", "multi-session"} -> "default"
      [] ~abstention /\ question_type = "temporal-reasoning" -> "temporal"
      [] ~abstention /\ question_type = "knowledge-update" -> "knowledge_update"
      [] ~abstention /\ question_type = "single-session-preference" -> "preference"
      [] OTHER -> NULL

\* The phrases of the judge's prompts by which a scripted model knows them.
JudgePhrases == {"Question", "Model Response"}

\* Words that begin with, and so contain, "yes".
YesWords == {"yes", "yesterday"}

\* The official rule: "yes" is somewhere in the reply.
JudgeLabel(reply) == \E i \in DOMAIN reply : ToSet(reply[i]) \cap YesWords # {}

ClosingTag == <<"thinking_ends">>

\* Faulty variant: only what comes before the first closing tag is cut off.
RegionAfterFirst(reply) ==
    LET tags == {i \in DOMAIN reply : reply[i] = ClosingTag}
    IN  IF tags = {} THEN reply
        ELSE SelectSeq(SubSeq(reply, 1 + CHOOSE i \in tags : \A j \in tags : i <= j, Len(reply)),
                       LAMBDA line : line # ClosingTag)

\* The lines after the last closing tag.
Region(reply) ==
    LET tags == {i \in DOMAIN reply : reply[i] = ClosingTag}
    IN  IF tags = {} THEN reply
        ELSE SubSeq(reply, 1 + CHOOSE i \in tags : \A j \in tags : j <= i, Len(reply))

StandsAlone(line) == line \in {<<"yes">>, <<"no">>}

IsToken(word) == word \in {"yes", "no"}

\* The Mem0 rule: the last line of the region that is just yes or no; else its
\* last yes or no; else whether the whole reply starts with yes.
Mem0JudgeLabel(reply) ==
    LET alone == SelectSeq(Region(reply), StandsAlone)
        tokens == SelectSeq(FlattenSeq(Region(reply)), IsToken)
        words == FlattenSeq(reply)
    IN  CASE alone # <<>> -> Last(alone) = <<"yes">>
          [] alone = <<>> /\ tokens # <<>> -> Last(tokens) = "yes"
          [] OTHER -> words # <<>> /\ Head(words) \in YesWords

\* The style of the judge decides which rule labels a reply.
Label(style, reply) ==
    IF style = "mem0_unified" THEN Mem0JudgeLabel(reply) ELSE JudgeLabel(reply)

----------------------------------------------------------------------------
(* The reader.                                                             *)

\* The non-greedy re.sub: from an opening tag to the next closing one.  An
\* opening tag that is never closed stays.
StripThinking(words) ==
    LET step(acc, i) ==
          IF acc.inside
          THEN [acc EXCEPT !.inside = words[i] # "close"]
          ELSE IF words[i] = "open" /\ \E j \in (i + 1)..Len(words) : words[j] = "close"
               THEN [acc EXCEPT !.inside = TRUE]
               ELSE [acc EXCEPT !.out = Append(@, words[i])]
    IN  FoldLeftDomain(step, [inside |-> FALSE, out |-> <<>>], words).out

\* What the judge sees: what follows the last answer marker, if there is one.
StripAnswer(words) ==
    LET out == StripThinking(words)
        marks == {i \in DOMAIN out : out[i] = "ANSWER:"}
    IN  IF marks = {} THEN out
        ELSE SubSeq(out, 1 + CHOOSE i \in marks : \A j \in marks : j <= i, Len(out))

\* The phrases of the reader's prompts.
ReaderPhrases(prompt) ==
    {"Question", IF prompt = "mem0_v3" THEN "Memories sorted" ELSE "History Chats"}

\* A memory's created is NULL, or an ISO time: what the clock of its zone shows
\* (local) and how far that clock is behind UTC, in quarters of a day, 0 to 3.
\* The header has the day of UTC.
Day(created) == (created.local + created.behind) \div 4

\* sorted() by created_at or "": stable, the undated ones first.  Strings are
\* compared, so the local clock decides, then the sign of the offset.
CreatedAtAsc(hits) ==
    LET key(i) == IF hits[i].created = NULL THEN 0
                  ELSE 4 * hits[i].created.local + hits[i].created.behind + 1
        before(i, j) == key(i) < key(j) \/ (key(i) = key(j) /\ i < j)
        order == SortSeq([i \in DOMAIN hits |-> i], before)
    IN  [i \in DOMAIN hits |-> hits[order[i]]]

Header(day) == [header |-> TRUE, day |-> day]

Item(hit) == [header |-> FALSE, hit |-> hit]

\* The memory block: a header whenever the day of a dated memory changes.
FormatMemories(hits) ==
    LET step(acc, hit) ==
          IF hit.created = NULL \/ Day(hit.created) = acc.current
          THEN [acc EXCEPT !.lines = Append(@, Item(hit))]
          ELSE [current |-> Day(hit.created),
                lines |-> acc.lines \o <<Header(Day(hit.created)), Item(hit)>>]
    IN  FoldLeft(step, [current |-> NULL, lines |-> <<>>], hits).lines

\* The hits as the mem0_v3 prompt lists them.
MemoryBlock(hits, order) ==
    FormatMemories(IF order = "created_at_asc" THEN CreatedAtAsc(hits) ELSE hits)

=============================================================================
