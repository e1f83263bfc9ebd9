----------------------------- MODULE RunResume -----------------------------
(***************************************************************************)
(* One benchmark run id, from the first launch to the last resume          *)
(* (bench/runner.py, bench/resume.py), and what analysis computes from the *)
(* log it leaves behind (analysis/metrics.py, analysis/validation.py).     *)
(*                                                                         *)
(* A run is a chain of processes that share one run.jsonl, one manifest    *)
(* and one memory system.  Each process walks the same ordered questions;  *)
(* a resumed one skips those the log shows as completed.  The environment  *)
(* may kill a process anywhere, or interrupt it at an await.               *)
(*                                                                         *)
(* Appends are whole and durable here: the logger is opened with           *)
(* fsync=True, and module EventLog treats torn lines.  The stages of an    *)
(* instance keep their order; their contents are abstracted to which       *)
(* process's writes the memory system holds for the question.              *)
(***************************************************************************)
EXTENDS Naturals, Sequences, FiniteSets

CONSTANTS
    Questions,      \* the order of the questions: a sequence without repetition
    Configurations, \* configuration ids (sha of the system config) one may pass
    NULL,
    OnErrors,       \* on_error of the benchmark configs one may pass: a resume
                    \* compares the system config only
    Failures,       \* a stage of an instance may raise
    Kills,          \* a process may be killed
    Interrupts,     \* a process may be interrupted (SIGINT cancels its main task)
    MaxRuns         \* bound: processes launched for this run id

QuestionIds == {Questions[i] : i \in 1..Len(Questions)}

ASSUME RunResumeAssumption ==
    /\ Questions \in Seq(QuestionIds)
    /\ \A i, j \in 1..Len(Questions) : Questions[i] = Questions[j] => i = j
    /\ NULL \notin QuestionIds \cup Configurations
    /\ OnErrors \subseteq {"abort", "continue"}
    /\ {Failures, Kills, Interrupts} \subseteq BOOLEAN
    /\ MaxRuns \in Nat

VARIABLES
    exists,     \* run.jsonl is there (opening the logger creates it)
    log,        \* the events in run.jsonl
    manifest,   \* the configuration manifest.json describes, or NULL
    memory,     \* question -> the processes whose writes the memory system holds
    pc,         \* where the running process is, "down" if there is none
    resuming,   \* cfg.resume of the running process
    conf,       \* its configuration id
    onError,    \* its on_error
    completed,  \* its self._completed
    pos,        \* index of the question its loop is at
    finished,   \* it left the loop by reaching the end
    runs        \* processes launched so far; names the running one

process == <<pc, resuming, conf, onError, completed, pos, finished, runs>>
vars == <<exists, log, manifest, memory, process>>

PCs == {"down", "setup", "manifested", "starting", "loop", "resetting", "ingesting",
        "answering", "judged", "failed", "ending", "closing"}

Types == {"RUN_START", "RUN_RESUME", "CELL_SKIPPED", "INSTANCE_START", "JUDGE_END",
          "INSTANCE_END", "RUN_END"}

Events == [type : Types, question : QuestionIds \cup {NULL}, run : 1..MaxRuns,
           configuration : Configurations, clean : BOOLEAN, from : SUBSET (1..MaxRuns)]

\* An event; clean is "error is None", from what the memory held when it was judged.
Event(type, question, clean, from) ==
    [type |-> type, question |-> question, run |-> runs, configuration |-> conf,
     clean |-> clean, from |-> from]

Emit(type, question) == log' = Append(log, Event(type, question, TRUE, {}))

Logged(type) == {i \in DOMAIN log : log[i].type = type}

Current == Questions[pos]

Init ==
    /\ exists = FALSE /\ log = <<>> /\ manifest = NULL
    /\ memory = [q \in QuestionIds |-> {}]
    /\ pc = "down" /\ resuming = FALSE /\ conf = NULL /\ onError = "continue" /\ completed = {}
    /\ pos = 1 /\ finished = FALSE /\ runs = 0

Goto(label) == pc' = label /\ UNCHANGED <<resuming, conf, onError, completed, pos, finished, runs>>

NextQuestion ==
    /\ pc' = "loop" /\ pos' = pos + 1
    /\ UNCHANGED <<resuming, conf, onError, completed, finished, runs>>

----------------------------------------------------------------------------
(* Launching a process: Runner.__init__ and completed_cells.               *)

\* Faulty variant: errored questions count as completed.
CompletedWithErrors == {log[i].question : i \in Logged("INSTANCE_END")}

\* Faulty variant: only what the first process completed counts as completed.
CompletedForgets ==
    {log[i].question : i \in {j \in Logged("INSTANCE_END") : log[j].clean /\ log[j].run = 1}}

\* The questions a log shows as completed: they ended without an error.
CompletedCells ==
    {log[i].question : i \in {j \in Logged("INSTANCE_END") : log[j].clean}}

\* A launch that is not refused.  A resume of a log that is not there passes
\* with nothing completed and nothing verified.
MayLaunch(resume, configuration) ==
    IF resume
    THEN exists =>
           \E first \in Logged("RUN_START") :
              /\ \A i \in Logged("RUN_START") : first <= i
              /\ log[first].configuration = configuration
    ELSE log = <<>>

Launch ==
    /\ pc = "down" /\ runs < MaxRuns
    /\ \E resume \in BOOLEAN, configuration \in Configurations :
         /\ MayLaunch(resume, configuration)
         /\ resuming' = resume
         /\ conf' = configuration
    /\ onError' \in OnErrors
    /\ completed' = IF resuming' THEN CompletedCells ELSE {}
    /\ exists' = TRUE
    /\ pc' = "setup" /\ pos' = 1 /\ finished' = FALSE /\ runs' = runs + 1
    /\ UNCHANGED <<log, manifest, memory>>

----------------------------------------------------------------------------
(* setup(), which is outside the try of run(): if it raises there is no     *)
(* RUN_END.                                                                *)

WriteManifest ==
    /\ pc = "setup" /\ ~resuming
    /\ manifest' = conf
    /\ Goto("manifested")
    /\ UNCHANGED <<exists, log, memory>>

EmitStart ==
    /\ pc = "manifested"
    /\ Emit("RUN_START", NULL)
    /\ Goto("starting")
    /\ UNCHANGED <<exists, manifest, memory>>

EmitResume ==
    /\ pc = "setup" /\ resuming
    /\ Emit("RUN_RESUME", NULL)
    /\ Goto("starting")
    /\ UNCHANGED <<exists, manifest, memory>>

AdapterStarts ==
    /\ pc = "starting"
    /\ Goto("loop")
    /\ UNCHANGED <<exists, log, manifest, memory>>

\* The proxy does not answer /_bench/info, or the adapter does not start.
SetupFails ==
    /\ Failures /\ pc \in {"setup", "starting"}
    /\ Goto("down")
    /\ UNCHANGED <<exists, log, manifest, memory>>

----------------------------------------------------------------------------
(* run() and run_instance().                                               *)

\* Faulty variant: off by one at the end of the questions.
SkipThenRun ==
    /\ pc = "loop" /\ pos <= Len(Questions) + 1
    /\ pos <= Len(Questions) => Current \in completed
    /\ Emit("CELL_SKIPPED", IF pos <= Len(Questions) THEN Current ELSE NULL)
    /\ NextQuestion
    /\ UNCHANGED <<exists, manifest, memory>>

SkipCompleted ==
    /\ pc = "loop" /\ pos <= Len(Questions) /\ Current \in completed
    /\ Emit("CELL_SKIPPED", Current)
    /\ NextQuestion
    /\ UNCHANGED <<exists, manifest, memory>>

StartInstance ==
    /\ pc = "loop" /\ pos <= Len(Questions) /\ Current \notin completed
    /\ Emit("INSTANCE_START", Current)
    /\ Goto("resetting")
    /\ UNCHANGED <<exists, manifest, memory>>

\* Faulty variant: the memory of an earlier attempt is left in place.
ResetSkipped ==
    /\ pc = "resetting"
    /\ Goto("ingesting")
    /\ UNCHANGED <<exists, log, manifest, memory>>

Reset ==
    /\ pc = "resetting"
    /\ memory' = [memory EXCEPT ![Current] = {}]
    /\ Goto("ingesting")
    /\ UNCHANGED <<exists, log, manifest>>

\* One write of the haystack; the first that stores something shows.
WriteSession ==
    /\ pc = "ingesting" /\ runs \notin memory[Current]
    /\ memory' = [memory EXCEPT ![Current] = @ \cup {runs}]
    /\ UNCHANGED <<exists, log, manifest, process>>

IngestEnds ==
    /\ pc = "ingesting"
    /\ Goto("answering")
    /\ UNCHANGED <<exists, log, manifest, memory>>

\* Settlement, retrieval, the reader's answer and the judge's verdict.
AnswerAndJudge ==
    /\ pc = "answering"
    /\ log' = Append(log, Event("JUDGE_END", Current, TRUE, memory[Current]))
    /\ Goto("judged")
    /\ UNCHANGED <<exists, manifest, memory>>

EndInstance ==
    /\ pc = "judged"
    /\ log' = Append(log, Event("INSTANCE_END", Current, TRUE, {}))
    /\ NextQuestion
    /\ UNCHANGED <<exists, manifest, memory>>

StageFails ==
    /\ Failures /\ pc \in {"resetting", "ingesting", "answering"}
    /\ Goto("failed")
    /\ UNCHANGED <<exists, log, manifest, memory>>

\* Faulty variant: a failed instance is started over at once, for ever.
RetryAtOnce ==
    /\ pc = "failed"
    /\ Goto("resetting")
    /\ UNCHANGED <<exists, log, manifest, memory>>

\* INSTANCE_END with the error; on_error decides whether the run goes on.
EndFailedInstance ==
    /\ pc = "failed"
    /\ log' = Append(log, Event("INSTANCE_END", Current, FALSE, {}))
    /\ IF onError = "abort" THEN Goto("ending") ELSE NextQuestion
    /\ UNCHANGED <<exists, manifest, memory>>

LoopEnds ==
    /\ pc = "loop" /\ pos > Len(Questions)
    /\ finished' = TRUE
    /\ pc' = "ending"
    /\ UNCHANGED <<exists, log, manifest, memory, resuming, conf, onError, completed, pos, runs>>

\* The finally of run(): whatever ended the loop, RUN_END is written.
EmitEnd ==
    /\ pc = "ending"
    /\ Emit("RUN_END", NULL)
    /\ Goto("closing")
    /\ UNCHANGED <<exists, manifest, memory>>

CloseRun ==
    /\ pc = "closing"
    /\ Goto("down")
    /\ UNCHANGED <<exists, log, manifest, memory>>

----------------------------------------------------------------------------
(* The environment.                                                        *)

Kill ==
    /\ Kills /\ pc # "down"
    /\ Goto("down")
    /\ UNCHANGED <<exists, log, manifest, memory>>

\* CancelledError is no Exception: it passes run_instance by and reaches the
\* finally of run().  During setup and close it just ends the process.
Interrupt ==
    /\ Interrupts
    /\ \/ pc \in {"resetting", "ingesting", "answering"} /\ Goto("ending")
       \/ pc \in {"setup", "starting", "closing"} /\ Goto("down")
    /\ UNCHANGED <<exists, log, manifest, memory>>

Step ==
    \/ WriteManifest \/ EmitStart \/ EmitResume \/ AdapterStarts \/ SetupFails
    \/ SkipCompleted \/ StartInstance \/ Reset \/ WriteSession \/ IngestEnds
    \/ AnswerAndJudge \/ EndInstance \/ StageFails \/ EndFailedInstance \/ LoopEnds \/ EmitEnd \/ CloseRun

Next == Launch \/ Step \/ Kill \/ Interrupt

\* A process that is up keeps running; nobody has to launch another.
Fairness == WF_vars(Step)

Spec == Init /\ [][Next]_vars /\ Fairness

----------------------------------------------------------------------------
(* What analysis derives from the log.                                     *)

Judged == Cardinality(Logged("JUDGE_END"))

Ended == Cardinality(Logged("INSTANCE_END"))

Errored == Cardinality({i \in Logged("INSTANCE_END") : ~log[i].clean})

\* load_run and validate_run: the checks on RUN_START and RUN_END.
OneStart == Cardinality(Logged("RUN_START")) = 1

OneEnd == Cardinality(Logged("RUN_END")) = 1

----------------------------------------------------------------------------
(* Properties.                                                             *)

\* Every variable holds a value of its kind.
TypeOK ==
    /\ exists \in BOOLEAN
    /\ log \in Seq(Events)
    /\ manifest \in Configurations \cup {NULL}
    /\ memory \in [QuestionIds -> SUBSET (1..MaxRuns)]
    /\ pc \in PCs
    /\ resuming \in BOOLEAN
    /\ conf \in Configurations \cup {NULL}
    /\ onError \in {"abort", "continue"}
    /\ completed \subseteq QuestionIds
    /\ pos \in 1..(Len(Questions) + 1)
    /\ finished \in BOOLEAN
    /\ runs \in 0..MaxRuns

\* A question that ended without an error is never started again by any later
\* process of the run (bench/resume.py:14, runner.py:190).
CompletedNeverRerun ==
    \A i, j \in DOMAIN log :
       (/\ i < j
        /\ log[i].type = "INSTANCE_END" /\ log[i].clean
        /\ log[j].type = "INSTANCE_START")
       => log[i].question # log[j].question

\* Whatever a question was judged on was written by the process that judged
\* it: nothing an earlier process left half ingested reaches the reader
\* (runner.py:219).
JudgedOnOwnWrites ==
    \A i \in Logged("JUDGE_END") : log[i].from \subseteq {log[i].run}

\* When a process walks its questions to the end, each of them has either been
\* completed by some process of the run or ended with an error in this one: a
\* question that failed earlier has been tried again (runner.py:189-195).
NothingLost ==
    (pc \in {"ending", "closing"} /\ finished) =>
       \A q \in QuestionIds :
          \E i \in Logged("INSTANCE_END") :
             log[i].question = q /\ (log[i].clean \/ log[i].run = runs)

\* The verdicts no INSTANCE_END follows: the process was killed in between.
CutVerdicts == {i \in Logged("JUDGE_END") : i < Len(log) /\ log[i + 1].run # log[i].run}

\* What the analysis counts (metrics.py:27-47) adds up whatever failed, was
\* interrupted, aborted or resumed with another on_error: each INSTANCE_END is
\* judged or errored and no question is judged twice, but for one case.  That
\* case is a kill between JUDGE_END and INSTANCE_END: the verdict stays in the
\* log, and the question is judged again.
CountsAgree ==
    /\ \A i, j \in Logged("JUDGE_END") :
          (i < j /\ log[i].question = log[j].question) => i \in CutVerdicts
    /\ pc \in {"ending", "closing"} =>
          Judged + Errored = Ended + Cardinality(CutVerdicts)

\* A process that is launched comes down again.
ProcessesEnd == pc # "down" ~> pc = "down"

(* What validation.py demands and the code does not keep.                  *)


=============================================================================
