------------------------------ MODULE Provider ------------------------------
(***************************************************************************)
(* The scripted model of the offline runs (proxy/fake_upstream.py): its    *)
(* replies to Mem0's memory extractor, to the reader and to the judge.     *)
(*                                                                         *)
(* A text is a name; what the replies depend on is which of its words      *)
(* matter, how long it is and what its phrases admit.                      *)
(***************************************************************************)
EXTENDS Naturals, Sequences, FiniteSets
LOCAL INSTANCE SequencesExt

\* The texts of a conversation about one attribute of the user: the user tells
\* it, the assistant repeats it, an older value, a remark that shares one word,
\* one that shares none; and the two ways to refuse an answer.
Memories == {"told", "repeated", "outdated", "related", "filler"}

NoInformation == "I don't have any information about that"

NotEnough == "The information provided is not enough"

Words(text) ==
    CASE text = "told" -> {"favorite", "color", "teal"}
      [] text = "repeated" -> {"nice", "remember", "favorite", "color", "teal"}
      [] text = "outdated" -> {"favorite", "color", "blue"}
      [] text = "related" -> {"color", "paint"}
      [] text = "filler" -> {"tides"}
      [] OTHER -> {"information"}

Size(text) == Cardinality(Words(text))

\* "What is my favorite color?"
QuestionWords == {"favorite", "color"}

Overlap(text) == Cardinality(Words(text) \cap QuestionWords)

\* max() over the lines: the most words of the question, the shortest among
\* equals, the first of those.
Nearer(a, b) == Overlap(a) > Overlap(b) \/ (Overlap(a) = Overlap(b) /\ Size(a) < Size(b))

BestLine(lines) ==
    FoldLeft(LAMBDA best, l : IF Nearer(l, best) THEN l ELSE best, Head(lines), Tail(lines))

\* The line the reader answers with, or the refusal of its style.
Answer(style, lines) ==
    IF lines # <<>> /\ Overlap(BestLine(lines)) > 0 THEN BestLine(lines)
    ELSE IF style = "mem0_v3" THEN NotEnough ELSE NoInformation

\* The reply: Mem0's template asks for thinking and an answer marker.
ReaderReply(style, lines) ==
    IF style = "mem0_v3"
    THEN <<"open", "other", "close", "ANSWER:", Answer(style, lines)>>
    ELSE <<Answer(style, lines)>>

\* The verdict on a response: official prompts have a template of their own for
\* a question that cannot be answered, the unified one tells by the gold answer.
Verdict(style, abstention, gold, response) ==
    IF style = "longmemeval_official" /\ abstention THEN response = NoInformation
    ELSE \/ style = "mem0_unified" /\ response = NotEnough /\ abstention
         \/ gold # {} /\ gold \subseteq Words(response)

\* The reply, as lines of words; the unified prompt asks for thinking.
JudgeReply(style, abstention, gold, response) ==
    LET word == <<IF Verdict(style, abstention, gold, response) THEN "yes" ELSE "no">>
    IN  IF style = "mem0_unified"
        THEN <<<<"other">>, <<"thinking_ends">>, word>>
        ELSE <<word>>

\* What a request is taken for, by the phrases in it (a set), in this order.
Kind(phrases) ==
    CASE "Memory Extractor" \in phrases -> "extraction"
      [] /\ "Memory Extractor" \notin phrases /\ "Question" \in phrases
         /\ phrases \cap {"Memories sorted", "History Chats"} # {} -> "reader"
      [] OTHER -> IF "Model Response" \in phrases THEN "judge" ELSE "words"

\* The memories extracted from the messages of one write: the text of each that
\* is the user's or the assistant's and not one of the blank ones, numbered from 0.
ExtractionReply(messages, blank) ==
    LET spoken == SelectSeq(messages, LAMBDA m : m.role \in {"user", "assistant"} /\ m \notin blank)
    IN  [k \in DOMAIN spoken |-> [id |-> k - 1, text |-> spoken[k].content,
                                  attributed_to |-> spoken[k].role]]
=============================================================================
