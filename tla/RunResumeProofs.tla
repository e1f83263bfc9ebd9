-------------------------- MODULE RunResumeProofs --------------------------
(***************************************************************************)
(* RunResume for any questions, configurations and number of processes:    *)
(* type correctness, that what completed is never run again, that nothing  *)
(* of an earlier process reaches a verdict, that a process that walks to   *)
(* the end leaves no question behind, and that the analysis counts each    *)
(* question once.                                                          *)
(***************************************************************************)
EXTENDS RunResume, FiniteSetTheorems, TLAPS

Walking == {"resetting", "ingesting", "answering", "judged", "failed"}

\* A process that is up has a configuration and a number, and a question while
\* it is inside an instance.
Placed ==
    /\ pc # "down" => conf \in Configurations /\ runs \in 1..MaxRuns
    /\ pc \in Walking => pos <= Len(Questions)

\* Only questions end.
EndsPlaced == \A i \in Logged("INSTANCE_END") : log[i].question \in QuestionIds

Typed == TypeOK /\ Placed /\ EndsPlaced

-----------------------------------------------------------------------------
(* Facts about the log.                                                    *)

\* What appending one event does to a log.
LEMMA AppendFacts ==
    ASSUME NEW S, NEW s \in Seq(S), NEW e \in S
    PROVE  /\ Append(s, e) \in Seq(S)
           /\ Len(Append(s, e)) = Len(s) + 1
           /\ DOMAIN Append(s, e) = DOMAIN s \cup {Len(s) + 1}
           /\ DOMAIN s = 1..Len(s)
           /\ \A i \in DOMAIN s : Append(s, e)[i] = s[i] /\ i < Len(s) + 1
           /\ Append(s, e)[Len(s) + 1] = e
  OBVIOUS

\* What a running process appends is an event.
LEMMA EventType ==
    ASSUME Typed, pc # "down", NEW type \in Types, NEW q \in QuestionIds \cup {NULL},
           NEW clean \in BOOLEAN, NEW from \in SUBSET (1..MaxRuns)
    PROVE  Event(type, q, clean, from) \in Events
BY DEF Typed, TypeOK, Placed, Event, Events

\* A process inside its list is at one of its questions.
LEMMA CurrentType ==
    ASSUME Typed, pos <= Len(Questions)
    PROVE  Current \in QuestionIds
BY RunResumeAssumption DEF Typed, TypeOK, Current, QuestionIds

\* Each step leaves the log alone or appends one event, and says of the event
\* what the invariants need.
Added(e) ==
    /\ log' = Append(log, e)
    /\ e \in Events
    /\ pc # "down"
    /\ e.run = runs
    /\ runs' = runs /\ completed' = completed
    /\ e.type = "INSTANCE_START" => pc = "loop" /\ pos <= Len(Questions)
                                    /\ e.question = Current /\ Current \notin completed
    /\ e.type = "INSTANCE_END" => e.question = Current /\ pc \in {"judged", "failed"}
    /\ (e.type = "INSTANCE_END" /\ e.clean) => pos' = pos + 1
    /\ e.type = "JUDGE_END" => pc = "answering" /\ e.from = memory[Current]
                               /\ e.question = Current
    /\ e.type = "JUDGE_END" <=> pc' = "judged"
    /\ (e.type = "INSTANCE_END" /\ e.clean) <=> pc = "judged"
    /\ pc' \notin {"down", "setup", "manifested"}
    /\ pc' \in Walking => pos' = pos /\ (pc \in Walking \/ Current \notin completed)
    /\ pos' = pos + 1 => pos <= Len(Questions)
    /\ (pos' = pos + 1 /\ pc # "loop") => e.type = "INSTANCE_END"
    /\ (pos' = pos + 1 /\ pc = "loop") => Current \in completed
    /\ pos' \in {pos, pos + 1}

\* The events of a run's start and end are such appends.
LEMMA EmitAdds ==
    ASSUME Typed, pc # "down", NEW type \in {"RUN_START", "RUN_RESUME", "RUN_END"},
           NEW label \in {"starting", "closing"}, Emit(type, NULL), Goto(label), pc # "judged"
    PROVE  \E e : Added(e)
<1> DEFINE e == Event(type, NULL, TRUE, {})
<1>1. e \in Events
  BY EventType DEF Types
<1>2. e.type = type /\ e.run = runs
  BY DEF Event
<1>3. pos' # pos + 1
  BY DEF Goto, Typed, TypeOK
<1> QED BY <1>1, <1>2, <1>3 DEF Added, Emit, Goto, Walking

\* The steps that leave log and progress alone.
Quiet ==
    \/ WriteManifest \/ AdapterStarts \/ SetupFails \/ Reset \/ WriteSession
    \/ IngestEnds \/ StageFails \/ CloseRun \/ LoopEnds

\* Every step of a process is one of those, or adds one event.
LEMMA StepAdds ==
    ASSUME Typed, Step
    PROVE  \/ Quiet /\ log' = log /\ runs' = runs /\ completed' = completed
              /\ pos' = pos /\ pc # "down"
           \/ \E e : Added(e)
<1> USE DEF Typed
<1>1. CASE Quiet
  BY <1>1 DEF Quiet, WriteManifest, AdapterStarts, SetupFails, Reset, WriteSession, IngestEnds,
              StageFails, CloseRun, LoopEnds, Goto, process
<1>2. CASE EmitStart
  BY <1>2, EmitAdds DEF EmitStart
<1>3. CASE EmitResume
  BY <1>3, EmitAdds DEF EmitResume
<1>4. CASE EmitEnd
  BY <1>4, EmitAdds DEF EmitEnd
<1>5. CASE SkipCompleted
  <2> DEFINE e == Event("CELL_SKIPPED", Current, TRUE, {})
  <2>1. e \in Events
    BY <1>5, EventType, CurrentType DEF SkipCompleted, Types
  <2>2. e.type = "CELL_SKIPPED" /\ e.run = runs
    BY DEF Event
  <2> QED BY <1>5, <2>1, <2>2 DEF SkipCompleted, Added, Emit, NextQuestion, Walking
<1>6. CASE StartInstance
  <2> DEFINE e == Event("INSTANCE_START", Current, TRUE, {})
  <2>1. e \in Events
    BY <1>6, EventType, CurrentType DEF StartInstance, Types
  <2>2. e.type = "INSTANCE_START" /\ e.run = runs /\ e.question = Current
    BY DEF Event
  <2>3. pos' = pos /\ pos' # pos + 1
    BY <1>6 DEF StartInstance, Goto, TypeOK
  <2> QED BY <1>6, <2>1, <2>2, <2>3 DEF StartInstance, Added, Emit, Goto, Walking
<1>7. CASE AnswerAndJudge
  <2> DEFINE e == Event("JUDGE_END", Current, TRUE, memory[Current])
  <2>1. Current \in QuestionIds
    BY <1>7, CurrentType DEF AnswerAndJudge, Placed, Walking
  <2>2. e \in Events
    BY <1>7, <2>1, EventType DEF AnswerAndJudge, Types, TypeOK
  <2>3. e.type = "JUDGE_END" /\ e.run = runs /\ e.from = memory[Current] /\ e.question = Current
    BY DEF Event
  <2>4. pos' = pos /\ pos' # pos + 1
    BY <1>7 DEF AnswerAndJudge, Goto, TypeOK
  <2> QED BY <1>7, <2>2, <2>3, <2>4 DEF AnswerAndJudge, Added, Goto, Walking
<1>8. CASE EndInstance
  <2> DEFINE e == Event("INSTANCE_END", Current, TRUE, {})
  <2>1. pos <= Len(Questions)
    BY <1>8 DEF EndInstance, Placed, Walking
  <2>2. e \in Events
    BY <1>8, <2>1, EventType, CurrentType DEF EndInstance, Types
  <2>3. e.type = "INSTANCE_END" /\ e.run = runs /\ e.question = Current /\ e.clean
    BY DEF Event
  <2> QED BY <1>8, <2>1, <2>2, <2>3 DEF EndInstance, Added, NextQuestion, Walking
<1>9. CASE EndFailedInstance
  <2> DEFINE e == Event("INSTANCE_END", Current, FALSE, {})
  <2>1. pos <= Len(Questions)
    BY <1>9 DEF EndFailedInstance, Placed, Walking
  <2>2. e \in Events
    BY <1>9, <2>1, EventType, CurrentType DEF EndFailedInstance, Types
  <2>3. e.type = "INSTANCE_END" /\ e.run = runs /\ e.question = Current /\ ~e.clean
    BY DEF Event
  <2>4. /\ pos' \in {pos, pos + 1} /\ runs' = runs /\ completed' = completed
        /\ pc' \in {"ending", "loop"}
    BY <1>9 DEF EndFailedInstance, Goto, NextQuestion
  <2> QED BY <1>9, <2>1, <2>2, <2>3, <2>4 DEF EndFailedInstance, Added, Walking
<1> QED BY <1>1, <1>2, <1>3, <1>4, <1>5, <1>6, <1>7, <1>8, <1>9 DEF Step, Quiet

-----------------------------------------------------------------------------
(* Types.                                                                  *)

\* The initial state is well typed.
LEMMA InitTyped == Init => Typed
<1> SUFFICES ASSUME Init PROVE Typed
  OBVIOUS
<1>1. Len(Questions) \in Nat
  BY RunResumeAssumption
<1>2. TypeOK
  <2>1. memory \in [QuestionIds -> SUBSET (1..MaxRuns)]
    BY DEF Init
  <2>2. pos \in 1..(Len(Questions) + 1) /\ runs \in 0..MaxRuns /\ log \in Seq(Events)
    BY <1>1, RunResumeAssumption DEF Init
  <2> QED BY <2>1, <2>2 DEF Init, TypeOK, PCs
<1>3. Placed /\ EndsPlaced
  BY DEF Init, Placed, EndsPlaced, Walking, Logged
<1> QED BY <1>2, <1>3 DEF Typed

\* The log stays a log, and only questions end.
LEMMA LogTyped ==
    ASSUME Typed, Step
    PROVE  log' \in Seq(Events) /\ EndsPlaced'
<1>1. CASE log' = log
  BY <1>1 DEF Typed, TypeOK, EndsPlaced, Logged
<1>2. ASSUME NEW e, Added(e) PROVE log' \in Seq(Events) /\ EndsPlaced'
  <2>1. e.type = "INSTANCE_END" => e.question \in QuestionIds
    BY <1>2, CurrentType DEF Added, Typed, Placed, Walking
  <2>2. log \in Seq(Events) /\ e \in Events /\ log' = Append(log, e)
    BY <1>2 DEF Added, Typed, TypeOK
  <2>3. log' \in Seq(Events)
    BY <2>2, AppendFacts
  <2>4. ASSUME NEW i \in DOMAIN log', log'[i].type = "INSTANCE_END"
        PROVE  log'[i].question \in QuestionIds
    <3>1. CASE i \in DOMAIN log
      <4>1. log'[i] = log[i]
        BY <2>2, <3>1, AppendFacts
      <4> QED BY <2>4, <3>1, <4>1 DEF Typed, EndsPlaced, Logged
    <3>2. CASE i = Len(log) + 1
      <4>1. log'[i] = e
        BY <2>2, <3>2, AppendFacts
      <4> QED BY <2>1, <2>4, <4>1
    <3> QED BY <2>2, <2>4, <3>1, <3>2, AppendFacts
  <2> QED BY <2>3, <2>4 DEF EndsPlaced, Logged
<1> QED BY <1>1, <1>2, StepAdds

\* Each step of a process keeps the other variables well typed and in place.
LEMMA StepTyped ==
    ASSUME Typed, Step
    PROVE  Typed'
<1> USE DEF Typed
<1>1. log' \in Seq(Events) /\ EndsPlaced'
  BY LogTyped
<1>2. pos \in Nat /\ Len(Questions) \in Nat
  BY RunResumeAssumption DEF TypeOK
<1>3. CASE WriteManifest \/ EmitStart \/ EmitResume \/ AdapterStarts \/ SetupFails
           \/ EmitEnd \/ CloseRun
  BY <1>1, <1>3 DEF WriteManifest, EmitStart, EmitResume, AdapterStarts, SetupFails,
                    EmitEnd, CloseRun, Goto, TypeOK, Placed, Walking, PCs
<1>4. CASE SkipCompleted \/ EndInstance
  <2>1. pos <= Len(Questions)
    BY <1>4 DEF SkipCompleted, EndInstance, Placed, Walking
  <2>2. pos' = pos + 1
    BY <1>4 DEF SkipCompleted, EndInstance, NextQuestion
  <2>3. pos' \in 1..(Len(Questions) + 1)
    BY <1>2, <2>1, <2>2
  <2> QED BY <1>1, <1>4, <2>2, <2>3 DEF SkipCompleted, EndInstance, NextQuestion,
                                  TypeOK, Placed, Walking, PCs
<1>5. CASE StartInstance \/ IngestEnds \/ StageFails \/ AnswerAndJudge
  BY <1>1, <1>2, <1>5 DEF StartInstance, IngestEnds, StageFails, AnswerAndJudge, Goto,
                          TypeOK, Placed, Walking, PCs
<1>6. CASE Reset
  <2>1. memory' \in [QuestionIds -> SUBSET (1..MaxRuns)]
    BY <1>6 DEF Reset, TypeOK
  <2> QED BY <1>1, <1>6, <2>1 DEF Reset, Goto, TypeOK, Placed, Walking, PCs
<1>7. CASE WriteSession
  <2>1. memory' \in [QuestionIds -> SUBSET (1..MaxRuns)]
    <3>1. runs \in 1..MaxRuns
      BY <1>7 DEF WriteSession, Placed
    <3> QED BY <1>7, <3>1 DEF WriteSession, TypeOK
  <2> QED BY <1>1, <1>7, <2>1 DEF WriteSession, process, TypeOK, Placed, Walking
<1>8. CASE EndFailedInstance
  <2>1. pos <= Len(Questions)
    BY <1>8 DEF EndFailedInstance, Placed, Walking
  <2>2. CASE onError = "abort"
    BY <1>1, <1>8, <2>2 DEF EndFailedInstance, Goto, TypeOK, Placed, Walking, PCs
  <2>3. CASE onError # "abort"
    <3>1. pos' = pos + 1 /\ pos' \in 1..(Len(Questions) + 1)
      BY <1>2, <1>8, <2>1, <2>3 DEF EndFailedInstance, NextQuestion, TypeOK
    <3> QED BY <1>1, <1>8, <2>3, <3>1
            DEF EndFailedInstance, NextQuestion, TypeOK, Placed, Walking, PCs
  <2> QED BY <2>2, <2>3
<1>9. CASE LoopEnds
  BY <1>1, <1>9 DEF LoopEnds, TypeOK, Placed, Walking, PCs
<1> QED BY <1>3, <1>4, <1>5, <1>6, <1>7, <1>8, <1>9 DEF Step

\* Every step keeps the types; a launch reads its completed questions off the log.
LEMMA NextTyped ==
    ASSUME Typed, [Next]_vars
    PROVE  Typed'
<1> USE DEF Typed
<1>1. CASE Launch
  <2>1. CompletedCells \subseteq QuestionIds
    BY DEF EndsPlaced, CompletedCells
  <2>2. PICK resume \in BOOLEAN, configuration \in Configurations :
           resuming' = resume /\ conf' = configuration
    BY <1>1 DEF Launch
  <2>3. completed' \subseteq QuestionIds /\ onError' \in {"abort", "continue"}
    BY <1>1, <2>1, RunResumeAssumption DEF Launch
  <2>4. runs' \in 1..MaxRuns
    BY <1>1, RunResumeAssumption DEF Launch, TypeOK
  <2>5. 1 \in 1..(Len(Questions) + 1)
    BY RunResumeAssumption
  <2>6. EndsPlaced'
    BY <1>1 DEF Launch, EndsPlaced, Logged
  <2>7. TypeOK'
    <3>1. UNCHANGED <<log, manifest, memory>> /\ pc' = "setup" /\ pos' = 1
          /\ exists' = TRUE /\ finished' = FALSE
      BY <1>1 DEF Launch
    <3>2. (log \in Seq(Events))' /\ (memory \in [QuestionIds -> SUBSET (1..MaxRuns)])'
      BY <3>1 DEF TypeOK
    <3>3. runs' \in 0..MaxRuns
      BY <2>4
    <3> QED BY <2>2, <2>3, <2>5, <3>1, <3>2, <3>3 DEF TypeOK, PCs
  <2>8. Placed'
    BY <1>1, <2>2, <2>4 DEF Launch, Placed, Walking
  <2> QED BY <2>6, <2>7, <2>8
<1>2. CASE Step
  BY <1>2, StepTyped
<1>3. CASE Kill \/ Interrupt \/ UNCHANGED vars
  <2>1. EndsPlaced'
    BY <1>3 DEF Kill, Interrupt, vars, EndsPlaced, Logged
  <2> QED BY <1>3, <2>1 DEF Kill, Interrupt, vars, process, Goto, TypeOK, Placed, Walking, PCs
<1> QED BY <1>1, <1>2, <1>3 DEF Next

\* Every reachable state is well typed, for any questions, configurations and
\* number of processes (bench/runner.py and resume.py: the log, the progress of
\* the loop and what a resume rebuilds).
THEOREM TypeCorrect == Spec => []TypeOK
<1>1. Init => Typed
  BY InitTyped
<1>2. Typed /\ [Next]_vars => Typed'
  BY NextTyped
<1>3. Typed => TypeOK
  BY DEF Typed
<1> QED BY <1>1, <1>2, <1>3, PTL DEF Spec

\* The whole invariant holds always; the later theorems rest on it.
LEMMA AlwaysTyped == Spec => []Typed
<1>1. Init => Typed
  BY InitTyped
<1>2. Typed /\ [Next]_vars => Typed'
  BY NextTyped
<1> QED BY <1>1, <1>2, PTL DEF Spec

-----------------------------------------------------------------------------
(* What completed is never run again.                                      *)

\* The walk is behind every question that completed, or will skip it.
Behind ==
    pc # "down" =>
       \A i \in Logged("INSTANCE_END") :
          log[i].clean => \/ log[i].question \in completed
                          \/ \E k \in 1..Len(Questions) : k < pos /\ log[i].question = Questions[k]

NeverBack == Behind /\ CompletedNeverRerun

\* A launch starts behind nothing but what it read off the log.
LEMMA LaunchNeverBack ==
    ASSUME Typed, NeverBack, Launch
    PROVE  NeverBack'
<1>1. log' = log
  BY DEF Launch
<1>2. CompletedNeverRerun'
  BY <1>1 DEF NeverBack, CompletedNeverRerun
<1>3. PICK resume \in BOOLEAN : resuming' = resume /\ (resume \/ log = <<>>)
  BY DEF Launch, MayLaunch
<1>4. CASE resume
  <2>1. completed' = CompletedCells
    BY <1>3, <1>4 DEF Launch
  <2> QED BY <1>1, <1>2, <2>1 DEF NeverBack, Behind, CompletedCells, Logged
<1>5. CASE log = <<>>
  BY <1>1, <1>2, <1>5 DEF NeverBack, Behind, Logged
<1> QED BY <1>3, <1>4, <1>5

\* An event added by a running process keeps it so: a start is of a question
\* that is not behind, and a clean end puts its question behind.
LEMMA AddedNeverBack ==
    ASSUME Typed, NeverBack, NEW e, Added(e)
    PROVE  NeverBack'
<1>1. log \in Seq(Events) /\ e \in Events /\ log' = Append(log, e) /\ pc # "down"
  BY DEF Added, Typed, TypeOK
<1>2. /\ Len(log) \in Nat /\ DOMAIN log = 1..Len(log)
      /\ DOMAIN log' = DOMAIN log \cup {Len(log) + 1}
      /\ \A i \in DOMAIN log : log'[i] = log[i]
      /\ log'[Len(log) + 1] = e
  BY <1>1, AppendFacts
<1>3. pos \in Nat /\ Len(Questions) \in Nat
  BY RunResumeAssumption DEF Typed, TypeOK
<1>4. Behind'
  <2> SUFFICES ASSUME NEW i \in DOMAIN log', log'[i].type = "INSTANCE_END", log'[i].clean
               PROVE  \/ log'[i].question \in completed
                      \/ \E k \in 1..Len(Questions) : k < pos' /\ log'[i].question = Questions[k]
    BY DEF Behind, Logged, Added
  <2>1. CASE i \in DOMAIN log
    <3>1. \/ log[i].question \in completed
          \/ \E k \in 1..Len(Questions) : k < pos /\ log[i].question = Questions[k]
      BY <1>1, <1>2, <2>1 DEF NeverBack, Behind, Logged
    <3>2. \A k \in 1..Len(Questions) : k < pos => k < pos'
      BY <1>3 DEF Added
    <3> QED BY <1>2, <2>1, <3>1, <3>2
  <2>2. CASE i = Len(log) + 1
    <3>1. e.type = "INSTANCE_END" /\ e.clean
      BY <1>2, <2>2
    <3>2. e.question = Questions[pos] /\ pos' = pos + 1 /\ pos <= Len(Questions)
      BY <3>1 DEF Added, Current
    <3>3. pos \in 1..Len(Questions) /\ pos < pos'
      BY <1>3, <3>2 DEF Typed, TypeOK
    <3> QED BY <1>2, <2>2, <3>2, <3>3
  <2> QED BY <1>2, <2>1, <2>2
<1>5. CompletedNeverRerun'
  <2> SUFFICES ASSUME NEW i \in DOMAIN log', NEW j \in DOMAIN log', i < j,
                      log'[i].type = "INSTANCE_END", log'[i].clean,
                      log'[j].type = "INSTANCE_START"
               PROVE  log'[i].question # log'[j].question
    BY DEF CompletedNeverRerun
  <2>1. i \in DOMAIN log
    BY <1>2
  <2>2. CASE j \in DOMAIN log
    BY <1>2, <2>1, <2>2 DEF NeverBack, CompletedNeverRerun
  <2>3. CASE j = Len(log) + 1
    <3>1. e.question = Questions[pos] /\ Questions[pos] \notin completed
          /\ pos \in 1..Len(Questions)
      BY <1>2, <1>3, <2>3 DEF Added, Current, Typed, TypeOK
    <3>2. \/ log[i].question \in completed
          \/ \E k \in 1..Len(Questions) : k < pos /\ log[i].question = Questions[k]
      BY <1>1, <1>2, <2>1 DEF NeverBack, Behind, Logged
    <3>3. \A k \in 1..Len(Questions) : k < pos => Questions[k] # Questions[pos]
      BY <1>3, <3>1, RunResumeAssumption
    <3> QED BY <1>2, <2>1, <2>3, <3>1, <3>2, <3>3
  <2> QED BY <1>2, <2>2, <2>3
<1> QED BY <1>4, <1>5 DEF NeverBack

LEMMA NextNeverBack == Typed /\ NeverBack /\ [Next]_vars => NeverBack'
<1> SUFFICES ASSUME Typed, NeverBack, [Next]_vars PROVE NeverBack'
  OBVIOUS
<1>1. CASE Launch
  BY <1>1, LaunchNeverBack
<1>2. CASE Step
  <2>1. CASE log' = log /\ completed' = completed /\ pos' = pos /\ pc # "down"
    BY <2>1 DEF NeverBack, Behind, CompletedNeverRerun, Logged
  <2>2. CASE \E e : Added(e)
    BY <2>2, AddedNeverBack
  <2> QED BY <1>2, <2>1, <2>2, StepAdds
<1>3. CASE Kill \/ Interrupt \/ UNCHANGED vars
  <2>1. UNCHANGED <<log, completed, pos>> /\ (pc' # "down" => pc # "down")
    BY <1>3 DEF Kill, Interrupt, Goto, vars, process
  <2> QED BY <2>1 DEF NeverBack, Behind, CompletedNeverRerun, Logged
<1> QED BY <1>1, <1>2, <1>3 DEF Next

LEMMA AlwaysNeverBack == Spec => []NeverBack
<1>1. Init => NeverBack
  BY DEF Init, NeverBack, Behind, CompletedNeverRerun
<1> QED BY <1>1, AlwaysTyped, NextNeverBack, PTL DEF Spec

\* A question that ended without an error is never started again, whatever
\* failed, was killed or interrupted in between and however often the run was
\* resumed (bench/resume.py:14, runner.py:190).
THEOREM CompletedStaysCompleted == Spec => []CompletedNeverRerun
<1>1. NeverBack => CompletedNeverRerun
  BY DEF NeverBack
<1> QED BY <1>1, AlwaysNeverBack, PTL

-----------------------------------------------------------------------------
(* A question is judged on what its own process wrote.                     *)

OwnWrites ==
    /\ pc \in {"ingesting", "answering"} => memory[Current] \subseteq {runs}
    /\ JudgedOnOwnWrites

\* An added event keeps the verdicts so.
LEMMA AddedVerdicts ==
    ASSUME Typed, OwnWrites, NEW e, Added(e)
    PROVE  JudgedOnOwnWrites'
<1>1. log \in Seq(Events) /\ e \in Events /\ log' = Append(log, e)
  BY DEF Added, Typed, TypeOK
<1> SUFFICES ASSUME NEW i \in DOMAIN log', log'[i].type = "JUDGE_END"
             PROVE  log'[i].from \subseteq {log'[i].run}
  BY DEF JudgedOnOwnWrites, Logged
<1>2. CASE i \in DOMAIN log
  <2>1. log'[i] = log[i]
    BY <1>1, <1>2, AppendFacts
  <2> QED BY <1>2, <2>1 DEF OwnWrites, JudgedOnOwnWrites, Logged
<1>3. CASE i = Len(log) + 1
  <2>1. log'[i] = e
    BY <1>1, <1>3, AppendFacts
  <2> QED BY <2>1 DEF Added, OwnWrites
<1> QED BY <1>1, <1>2, <1>3, AppendFacts

\* What a process answers on, it has written itself since it reset the memory.
LEMMA StepOwnWrites ==
    ASSUME Typed, OwnWrites, Step, pc' \in {"ingesting", "answering"}
    PROVE  memory'[Current'] \subseteq {runs'}
<1> USE DEF Typed
<1>1. CASE Reset
  <2>1. Current \in QuestionIds /\ Current' = Current
    BY <1>1, CurrentType DEF Reset, Goto, Placed, Walking, Current
  <2>2. memory'[Current] = {}
    BY <1>1, <2>1 DEF Reset, TypeOK
  <2> QED BY <2>1, <2>2
<1>2. CASE WriteSession
  <2>1. Current \in QuestionIds /\ Current' = Current /\ runs' = runs
    BY <1>2, CurrentType DEF WriteSession, process, Placed, Walking, Current
  <2>2. memory'[Current] = memory[Current] \cup {runs}
    BY <1>2, <2>1 DEF WriteSession, TypeOK
  <2> QED BY <1>2, <2>1, <2>2 DEF OwnWrites, WriteSession
<1>3. CASE IngestEnds
  BY <1>3 DEF IngestEnds, Goto, OwnWrites, Current
<1>4. CASE \/ WriteManifest \/ EmitStart \/ EmitResume \/ AdapterStarts \/ SetupFails
           \/ SkipCompleted \/ StartInstance \/ AnswerAndJudge \/ EndInstance
           \/ StageFails \/ EndFailedInstance \/ LoopEnds \/ EmitEnd \/ CloseRun
  BY <1>4 DEF WriteManifest, EmitStart, EmitResume, AdapterStarts, SetupFails, SkipCompleted,
              StartInstance, AnswerAndJudge, EndInstance, StageFails, EndFailedInstance,
              LoopEnds, EmitEnd, CloseRun, Goto, NextQuestion
<1> QED BY <1>1, <1>2, <1>3, <1>4 DEF Step

\* Nothing an earlier process left half ingested reaches a verdict, whatever was
\* killed or failed before (the reset of bench/runner.py:219).
THEOREM VerdictsOnOwnWrites == Spec => []JudgedOnOwnWrites
<1>1. Init => OwnWrites
  BY DEF Init, OwnWrites, JudgedOnOwnWrites, Logged
<1>2. ASSUME Typed, OwnWrites, [Next]_vars PROVE OwnWrites'
  <2>1. CASE Launch
    BY <1>2, <2>1 DEF Launch, OwnWrites, JudgedOnOwnWrites, Logged
  <2>2. CASE Step
    <3>1. JudgedOnOwnWrites'
      <4>1. CASE log' = log
        BY <1>2, <4>1 DEF OwnWrites, JudgedOnOwnWrites, Logged
      <4> QED BY <1>2, <2>2, <4>1, StepAdds, AddedVerdicts
    <3> QED BY <1>2, <2>2, <3>1, StepOwnWrites DEF OwnWrites
  <2>3. CASE Kill \/ Interrupt \/ UNCHANGED vars
    BY <1>2, <2>3 DEF Kill, Interrupt, Goto, vars, process, OwnWrites, JudgedOnOwnWrites,
                      Logged, Current
  <2> QED BY <1>2, <2>1, <2>2, <2>3 DEF Next
<1>3. OwnWrites => JudgedOnOwnWrites
  BY DEF OwnWrites
<1> QED BY <1>1, <1>2, <1>3, AlwaysTyped, PTL DEF Spec

-----------------------------------------------------------------------------
(* No question is left behind.                                             *)

\* Question q ended in log l: without an error, or with one in process r.
Settled(q, l, r) ==
    \E i \in DOMAIN l :
       l[i].type = "INSTANCE_END" /\ l[i].question = q /\ (l[i].clean \/ l[i].run = r)

\* What a process skips has ended cleanly, and so has, or failed with this very
\* process, all that its walk has passed; a finished walk has passed everything.
Walked ==
    pc # "down" =>
       /\ \A q \in completed :
             \E i \in Logged("INSTANCE_END") : log[i].clean /\ log[i].question = q
       /\ \A k \in 1..Len(Questions) : k < pos => Settled(Questions[k], log, runs)
       /\ finished => pos > Len(Questions)

\* An added event keeps what has ended, and ends what the walk passes with it.
LEMMA AddedWalked ==
    ASSUME Typed, Walked, NEW e, Added(e), finished' = finished
    PROVE  Walked'
<1>1. log \in Seq(Events) /\ e \in Events /\ log' = Append(log, e) /\ pc # "down"
  BY DEF Added, Typed, TypeOK
<1>2. /\ Len(log) \in Nat /\ DOMAIN log' = DOMAIN log \cup {Len(log) + 1}
      /\ \A i \in DOMAIN log : log'[i] = log[i]
      /\ log'[Len(log) + 1] = e
  BY <1>1, AppendFacts
<1>3. pos \in Nat /\ Len(Questions) \in Nat /\ pos' \in {pos, pos + 1}
  BY RunResumeAssumption DEF Added, Typed, TypeOK
<1>4. runs' = runs /\ completed' = completed
  BY DEF Added
<1>5. \A q \in completed' :
         \E i \in Logged("INSTANCE_END")' : log'[i].clean /\ log'[i].question = q
  BY <1>1, <1>2, <1>4 DEF Walked, Logged
<1>6. \A q : Settled(q, log, runs) => Settled(q, log', runs)
  BY <1>2 DEF Settled
<1>7. ASSUME NEW k \in 1..Len(Questions), k < pos'
      PROVE  Settled(Questions[k], log', runs')
  <2>1. CASE k < pos
    BY <1>1, <1>4, <1>6, <2>1 DEF Walked
  <2>2. CASE k = pos
    <3>1. pos' = pos + 1
      BY <1>3, <1>7, <2>2
    <3>2. CASE pc = "loop"
      <4>1. Current \in completed
        BY <3>1, <3>2 DEF Added
      <4>2. Settled(Current, log, runs)
        BY <1>1, <4>1 DEF Walked, Settled, Logged
      <4> QED BY <1>4, <1>6, <2>2, <4>2 DEF Current
    <3>3. CASE pc # "loop"
      <4>1. e.type = "INSTANCE_END" /\ e.question = Current /\ e.run = runs
        BY <3>1, <3>3 DEF Added
      <4>2. Settled(Current, log', runs)
        BY <1>2, <4>1 DEF Settled
      <4> QED BY <1>4, <2>2, <4>2 DEF Current
    <3> QED BY <3>2, <3>3
  <2> QED BY <1>3, <1>7, <2>1, <2>2
<1>8. finished' => pos' > Len(Questions)
  BY <1>1, <1>3 DEF Walked
<1> QED BY <1>5, <1>7, <1>8 DEF Walked

\* Only the end of the loop finishes a walk.
LEMMA StepFinishes ==
    ASSUME Typed, Walked, Step
    PROVE  \/ finished' = finished
           \/ log' = log /\ pos > Len(Questions)
BY DEF Step, WriteManifest, EmitStart, EmitResume, AdapterStarts, SetupFails, SkipCompleted,
       StartInstance, Reset, WriteSession, IngestEnds, AnswerAndJudge, EndInstance,
       StageFails, EndFailedInstance, LoopEnds, EmitEnd, CloseRun, Goto, NextQuestion, process

\* When a process walks its questions to the end, each has been completed by a
\* process of the run or has ended with an error in this one: what failed
\* earlier has been tried again (bench/runner.py:189-195).
THEOREM NothingIsLost == Spec => []NothingLost
<1>1. Init => Walked
  BY DEF Init, Walked
<1>2. ASSUME Typed, Walked, [Next]_vars PROVE Walked'
  <2>1. CASE Launch
    <3>1. log' = log /\ pos' = 1 /\ finished' = FALSE /\ completed' \subseteq CompletedCells
      BY <2>1 DEF Launch
    <3>2. \A q \in completed' :
             \E i \in Logged("INSTANCE_END")' : log'[i].clean /\ log'[i].question = q
      BY <3>1 DEF CompletedCells, Logged
    <3> QED BY <3>1, <3>2 DEF Walked
  <2>2. CASE Step
    <3>1. CASE log' = log /\ runs' = runs /\ completed' = completed /\ pos' = pos /\ pc # "down"
      BY <1>2, <2>2, <3>1, StepFinishes DEF Walked, Logged
    <3>2. ASSUME NEW e, Added(e) PROVE Walked'
      <4>1. log' # log
        <5>1. log \in Seq(Events) /\ e \in Events /\ log' = Append(log, e)
          BY <1>2, <3>2 DEF Added, Typed, TypeOK
        <5>2. Len(log') = Len(log) + 1 /\ Len(log) \in Nat
          BY <5>1
        <5> QED BY <5>2
      <4>2. finished' = finished
        BY <1>2, <2>2, <4>1, StepFinishes
      <4> QED BY <1>2, <3>2, <4>2, AddedWalked
    <3> QED BY <1>2, <2>2, <3>1, <3>2, StepAdds
  <2>3. CASE Kill \/ Interrupt \/ UNCHANGED vars
    <3>1. UNCHANGED <<log, completed, pos, finished, runs>> /\ (pc' # "down" => pc # "down")
      BY <2>3 DEF Kill, Interrupt, Goto, vars, process
    <3> QED BY <1>2, <3>1 DEF Walked, Logged
  <2> QED BY <1>2, <2>1, <2>2, <2>3 DEF Next
<1>3. Typed /\ Walked => NothingLost
  <2> SUFFICES ASSUME Typed, Walked, pc \in {"ending", "closing"}, finished, NEW q \in QuestionIds
               PROVE  \E i \in Logged("INSTANCE_END") :
                         log[i].question = q /\ (log[i].clean \/ log[i].run = runs)
    BY DEF NothingLost
  <2>1. PICK k \in 1..Len(Questions) : q = Questions[k]
    BY DEF QuestionIds
  <2>2. k < pos
    BY <2>1, RunResumeAssumption DEF Walked, Typed, TypeOK
  <2>3. Settled(q, log, runs)
    BY <2>1, <2>2 DEF Walked
  <2> QED BY <2>3 DEF Settled, Logged
<1> QED BY <1>1, <1>2, <1>3, AlwaysTyped, PTL DEF Spec

-----------------------------------------------------------------------------
(* What the analysis counts.                                               *)

\* The last event is a verdict: nothing tells yet whether its question ends.
Open == Len(log) \in Logged("JUDGE_END")

\* Only a process that has just judged leaves a verdict open, or one that was
\* killed then; the next process closes it with an event of its own.
OpenPlaced ==
    /\ \A i \in DOMAIN log : log[i].run <= runs
    /\ pc = "setup" => \A i \in DOMAIN log : log[i].run < runs
    /\ pc = "manifested" \/ (pc = "setup" /\ ~resuming) => log = <<>>
    /\ Open => pc \in {"down", "setup", "judged"}
    /\ pc = "judged" => /\ Open
                        /\ log[Len(log)].run = runs /\ log[Len(log)].question = Current
    /\ pc \in Walking => Current \notin completed

\* A verdict its process goes on after is the one of a question that ended.
VerdictsEnd ==
    \A i \in Logged("JUDGE_END") :
       i < Len(log) /\ log[i + 1].run = log[i].run =>
          /\ log[i + 1].type = "INSTANCE_END" /\ log[i + 1].clean
          /\ log[i + 1].question = log[i].question

\* A question judged again was cut.
JudgedOnce ==
    \A i, j \in Logged("JUDGE_END") :
       (i < j /\ log[i].question = log[j].question) => i \in CutVerdicts

\* Verdicts and errors on one side, ends, cut and open verdicts on the other.
Balanced == Judged + Errored = Ended + Cardinality(CutVerdicts) + (IF Open THEN 1 ELSE 0)

Counted == OpenPlaced /\ VerdictsEnd /\ JudgedOnce /\ Balanced
\* The sets the counts are of.
Errors == {i \in Logged("INSTANCE_END") : ~log[i].clean}

\* A set of positions is counted by a number, and by one more with another.
LEMMA OneMore ==
    ASSUME NEW n \in Nat, NEW S \in SUBSET (1..n)
    PROVE  /\ IsFiniteSet(S) /\ Cardinality(S) \in Nat
           /\ \A x : x \notin S => Cardinality(S \cup {x}) = Cardinality(S) + 1
<1>1. IsFiniteSet(S)
  <2>1. IsFiniteSet(1..n)
    BY 1 \in Int, n \in Int, FS_Interval
  <2> QED BY <2>1, FS_Subset
<1> QED BY <1>1, FS_CardinalityType, FS_AddElement

\* What an added event does to those sets.
LEMMA AddedSets ==
    ASSUME Typed, OpenPlaced, NEW e, Added(e)
    PROVE  /\ \A type : Logged(type)' = IF e.type = type THEN Logged(type) \cup {Len(log) + 1}
                                                         ELSE Logged(type)
           /\ Errors' = IF e.type = "INSTANCE_END" /\ ~e.clean THEN Errors \cup {Len(log) + 1}
                                                                ELSE Errors
           /\ CutVerdicts' = IF Open /\ log[Len(log)].run # runs THEN CutVerdicts \cup {Len(log)}
                                                                  ELSE CutVerdicts
           /\ Open' <=> e.type = "JUDGE_END"
           /\ Len(log') = Len(log) + 1 /\ log'[Len(log) + 1] = e
           /\ \A i \in DOMAIN log : log'[i] = log[i]
<1>1. log \in Seq(Events) /\ e \in Events /\ log' = Append(log, e) /\ e.run = runs
  BY DEF Added, Typed, TypeOK
<1>2. /\ Len(log) \in Nat /\ DOMAIN log = 1..Len(log) /\ Len(log') = Len(log) + 1
      /\ DOMAIN log' = DOMAIN log \cup {Len(log) + 1}
      /\ \A i \in DOMAIN log : log'[i] = log[i] /\ i < Len(log) + 1
      /\ log'[Len(log) + 1] = e
  BY <1>1, AppendFacts
<1>3. ASSUME NEW type
      PROVE  Logged(type)' = IF e.type = type THEN Logged(type) \cup {Len(log) + 1} ELSE Logged(type)
  BY <1>2 DEF Logged
<1>4. Errors' = IF e.type = "INSTANCE_END" /\ ~e.clean THEN Errors \cup {Len(log) + 1} ELSE Errors
  BY <1>2 DEF Errors, Logged
<1>5. Open' <=> e.type = "JUDGE_END"
  BY <1>2 DEF Open, Logged
<1>6. CutVerdicts' = IF Open /\ log[Len(log)].run # runs THEN CutVerdicts \cup {Len(log)} ELSE CutVerdicts
  <2>1. \A i \in DOMAIN log : i < Len(log) => i + 1 \in DOMAIN log /\ log'[i + 1] = log[i + 1]
    BY <1>2
  <2>2. \A i \in DOMAIN log' : i < Len(log') <=> i \in DOMAIN log
    BY <1>2
  <2>3. ASSUME NEW i PROVE i \in CutVerdicts' <=> i \in CutVerdicts \/ (i = Len(log) /\ Open /\ log[Len(log)].run # runs)
    <3>1. CASE i \in DOMAIN log /\ i < Len(log)
      BY <1>2, <2>1, <2>2, <3>1 DEF CutVerdicts, Logged, Open
    <3>2. CASE i \in DOMAIN log /\ i = Len(log)
      <4>1. log'[i] = log[i] /\ log'[i + 1] = e /\ i \in DOMAIN log' /\ i < Len(log')
        BY <1>2, <3>2
      <4>2. i \notin CutVerdicts
        BY <1>2, <3>2 DEF CutVerdicts
      <4>3. i \in CutVerdicts' <=> log[i].type = "JUDGE_END" /\ runs # log[i].run
        BY <1>1, <4>1 DEF CutVerdicts, Logged
      <4>4. Open <=> log[i].type = "JUDGE_END"
        BY <3>2 DEF Open, Logged
      <4>5. i \in CutVerdicts' <=> Open /\ log[i].run # runs
        BY <4>3, <4>4
      <4> QED BY <3>2, <4>2, <4>5, Zenon
    <3>3. CASE i \notin DOMAIN log
      BY <1>2, <2>2, <3>3 DEF CutVerdicts, Logged, Open
    <3> QED BY <1>2, <3>1, <3>2, <3>3
  <2> QED BY <2>3
<1> QED BY <1>2, <1>3, <1>4, <1>5, <1>6

\* Where an event is added, a verdict is open only if its process goes on after
\* it or has been replaced.
LEMMA AddedOpen ==
    ASSUME Typed, OpenPlaced, NEW e, Added(e), Open
    PROVE  \/ pc = "judged" /\ log[Len(log)].run = runs /\ e.type = "INSTANCE_END" /\ e.clean
              /\ log[Len(log)].question = e.question
           \/ pc = "setup" /\ log[Len(log)].run # runs
<1>1. pc \in {"setup", "judged"} /\ Len(log) \in DOMAIN log
  BY DEF OpenPlaced, Added, Open, Logged
<1>2. \A i \in DOMAIN log : log[i].run \in Nat
  <2>1. \A i \in DOMAIN log : log[i] \in Events
    BY DEF Typed, TypeOK
  <2> QED BY <2>1 DEF Events
<1>3. runs \in Nat
  BY RunResumeAssumption DEF Typed, TypeOK
<1>4. pc = "setup" => log[Len(log)].run # runs
  BY <1>1, <1>2, <1>3 DEF OpenPlaced
<1> QED BY <1>1, <1>4 DEF OpenPlaced, Added

LEMMA AddedBalanced ==
    ASSUME Typed, OpenPlaced, Balanced, NEW e, Added(e)
    PROVE  Balanced'
<1>1. Len(log) \in Nat /\ DOMAIN log = 1..Len(log) /\ Len(log) + 1 \notin DOMAIN log
  BY DEF Typed, TypeOK
<1>2. /\ Logged("JUDGE_END") \in SUBSET (1..Len(log)) /\ Logged("INSTANCE_END") \in SUBSET (1..Len(log))
      /\ Errors \in SUBSET (1..Len(log)) /\ CutVerdicts \in SUBSET (1..Len(log))
  BY <1>1 DEF Logged, Errors, CutVerdicts
<1> DEFINE J == Cardinality(Logged("JUDGE_END"))
           I == Cardinality(Logged("INSTANCE_END"))
           E == Cardinality(Errors)
           C == Cardinality(CutVerdicts)
<1>3. J \in Nat /\ I \in Nat /\ E \in Nat /\ C \in Nat
  BY <1>1, <1>2, OneMore
<1>4. J + E = I + C + (IF Open THEN 1 ELSE 0)
  BY DEF Balanced, Judged, Errored, Ended, Errors
<1>5. J' = IF e.type = "JUDGE_END" THEN J + 1 ELSE J
  BY <1>1, <1>2, AddedSets, OneMore
<1>6. I' = IF e.type = "INSTANCE_END" THEN I + 1 ELSE I
  BY <1>1, <1>2, AddedSets, OneMore
<1>7. E' = IF e.type = "INSTANCE_END" /\ ~e.clean THEN E + 1 ELSE E
  BY <1>1, <1>2, AddedSets, OneMore
<1>8. C' = IF Open /\ log[Len(log)].run # runs THEN C + 1 ELSE C
  <2>1. Len(log) \notin CutVerdicts
    BY <1>1 DEF CutVerdicts
  <2> QED BY <1>1, <1>2, <2>1, AddedSets, OneMore
<1>9. Open' <=> e.type = "JUDGE_END"
  BY AddedSets
<1> HIDE DEF J, I, E, C
<1>10. J' + E' = I' + C' + (IF Open' THEN 1 ELSE 0)
  <2>1. CASE Open
    <3>1. CASE pc = "judged"
      <4>1. log[Len(log)].run = runs /\ e.type = "INSTANCE_END" /\ e.clean
        BY <2>1, <3>1, AddedOpen
      <4> QED BY <1>3, <1>4, <1>5, <1>6, <1>7, <1>8, <1>9, <2>1, <4>1
    <3>2. CASE pc # "judged"
      <4>1. pc = "setup" /\ log[Len(log)].run # runs
        BY <2>1, <3>2, AddedOpen
      <4>2. e.type \notin {"JUDGE_END", "INSTANCE_END"}
        BY <4>1 DEF Added
      <4> QED BY <1>3, <1>4, <1>5, <1>6, <1>7, <1>8, <1>9, <2>1, <4>1, <4>2
    <3> QED BY <3>1, <3>2
  <2>2. CASE ~Open
    <3>1. pc # "judged"
      BY <2>2 DEF OpenPlaced
    <3>2. ~(e.type = "INSTANCE_END" /\ e.clean)
      BY <3>1 DEF Added
    <3> QED BY <1>3, <1>4, <1>5, <1>6, <1>7, <1>8, <1>9, <2>2, <3>2
  <2> QED BY <2>1, <2>2
<1> QED BY <1>10 DEF Balanced, Judged, Errored, Ended, Errors, J, I, E, C
\* The added event stays where open verdicts belong.
LEMMA AddedPlaced ==
    ASSUME Typed, OpenPlaced, NEW e, Added(e)
    PROVE  OpenPlaced'
<1>1. Len(log) \in Nat /\ DOMAIN log = 1..Len(log) /\ runs \in Nat /\ pos \in Nat
      /\ DOMAIN log' = DOMAIN log \cup {Len(log) + 1}
  <2>1. log \in Seq(Events) /\ e \in Events /\ log' = Append(log, e)
    BY DEF Added, Typed, TypeOK
  <2> QED BY <2>1, AppendFacts DEF Typed, TypeOK
<1>2. \A i \in DOMAIN log' : log'[i].run <= runs'
  BY <1>1, AddedSets DEF OpenPlaced, Added
<1>3. pc' \notin {"down", "setup", "manifested"}
  BY DEF Added
<1>4. pc' \in Walking => Current' = Current /\ Current' \notin completed'
  BY DEF Added, OpenPlaced, Current
<1>5. Open' <=> pc' = "judged"
  BY AddedSets DEF Added
<1>6. ASSUME pc' = "judged"
      PROVE  log'[Len(log')].run = runs' /\ log'[Len(log')].question = Current'
  <2>1. e.run = runs' /\ e.question = Current
    BY <1>6 DEF Added
  <2> QED BY <1>4, <1>6, <2>1, AddedSets DEF Walking
<1> QED BY <1>2, <1>3, <1>4, <1>5, <1>6 DEF OpenPlaced

\* A verdict that is followed up is followed by the end of its question.
LEMMA AddedVerdictsEnd ==
    ASSUME Typed, OpenPlaced, VerdictsEnd, NEW e, Added(e)
    PROVE  VerdictsEnd'
<1>1. Len(log) \in Nat /\ DOMAIN log = 1..Len(log) /\ e.run = runs
  BY DEF Added, Typed, TypeOK
<1> SUFFICES ASSUME NEW i \in Logged("JUDGE_END")', i < Len(log'), log'[i + 1].run = log'[i].run
             PROVE  /\ log'[i + 1].type = "INSTANCE_END" /\ log'[i + 1].clean
                    /\ log'[i + 1].question = log'[i].question
  BY DEF VerdictsEnd
<1>2. i \in Logged("JUDGE_END") /\ i \in DOMAIN log
  BY <1>1, AddedSets DEF Logged
<1>3. CASE i < Len(log)
  <2>1. log'[i] = log[i] /\ log'[i + 1] = log[i + 1]
    BY <1>1, <1>2, <1>3, AddedSets
  <2> QED BY <1>2, <1>3, <2>1 DEF VerdictsEnd
<1>4. CASE i = Len(log)
  <2>1. Open /\ log'[i] = log[i] /\ log'[i + 1] = e
    BY <1>2, <1>4, AddedSets DEF Open
  <2> QED BY <1>1, <1>4, <2>1, AddedOpen
<1> QED BY <1>1, <1>2, <1>3, <1>4

\* A new verdict is on a question that has not completed, so whatever verdict
\* there was on it was cut.
LEMMA AddedJudgedOnce ==
    ASSUME Typed, NeverBack, OpenPlaced, VerdictsEnd, JudgedOnce, NEW e, Added(e)
    PROVE  JudgedOnce'
<1>1. Len(log) \in Nat /\ DOMAIN log = 1..Len(log)
  BY DEF Typed, TypeOK
<1>2. CutVerdicts \subseteq CutVerdicts'
  BY AddedSets
<1> SUFFICES ASSUME NEW i \in Logged("JUDGE_END")', NEW j \in Logged("JUDGE_END")',
                    i < j, log'[i].question = log'[j].question
             PROVE  i \in CutVerdicts'
  BY DEF JudgedOnce
<1>3. i \in Logged("JUDGE_END") /\ i \in DOMAIN log /\ log'[i] = log[i]
  <2>1. j \in DOMAIN log \/ j = Len(log) + 1
    BY AddedSets DEF Logged
  <2>2. i \in DOMAIN log \/ i = Len(log) + 1
    BY AddedSets DEF Logged
  <2>3. i # Len(log) + 1
    BY <1>1, <2>1
  <2> QED BY <2>2, <2>3, AddedSets
<1>4. CASE j \in DOMAIN log
  <2>1. j \in Logged("JUDGE_END") /\ log'[j] = log[j]
    BY <1>1, <1>4, AddedSets
  <2> QED BY <1>2, <1>3, <2>1 DEF JudgedOnce
<1>5. CASE j \notin DOMAIN log
  <2>1. e.type = "JUDGE_END" /\ j = Len(log) + 1 /\ log'[j] = e
    BY <1>5, AddedSets DEF Logged
  <2>2. pc = "answering" /\ e.question = Current /\ ~Open
    BY <2>1 DEF Added, OpenPlaced
  <2>3. i < Len(log)
    BY <1>1, <1>3, <2>2 DEF Open
  <2>4. SUFFICES ASSUME i \notin CutVerdicts PROVE FALSE
    BY <1>2
  <2>5. /\ i + 1 \in Logged("INSTANCE_END") /\ log[i + 1].clean
        /\ log[i + 1].question = Current
    BY <1>1, <1>3, <2>1, <2>2, <2>3, <2>4 DEF VerdictsEnd, CutVerdicts, Logged
  <2>6. Current \notin completed /\ pos \in 1..Len(Questions)
    BY <2>2, RunResumeAssumption DEF OpenPlaced, Walking, Typed, TypeOK, Placed
  <2>7. PICK k \in 1..Len(Questions) : k < pos /\ Current = Questions[k]
    BY <2>2, <2>5, <2>6 DEF NeverBack, Behind
  <2> QED BY <2>6, <2>7, RunResumeAssumption DEF Current
<1> QED BY <1>4, <1>5

\* The steps that leave the log alone.
LEMMA QuietCounted ==
    ASSUME Typed, Counted, Quiet, UNCHANGED <<log, runs, completed, pos>>
    PROVE  Counted'
<1>1. VerdictsEnd' /\ JudgedOnce' /\ Balanced'
  BY DEF Counted, VerdictsEnd, JudgedOnce, Balanced, Logged, CutVerdicts, Judged, Errored, Ended, Open
<1>2. OpenPlaced'
  BY DEF Counted, OpenPlaced, Open, Logged, Current, Walking, Quiet, WriteManifest, AdapterStarts,
         SetupFails, Reset, WriteSession, IngestEnds, StageFails, CloseRun, LoopEnds, Goto, process
<1> QED BY <1>1, <1>2 DEF Counted

LEMMA InitCounted == Init => Counted
<1> SUFFICES ASSUME Init PROVE Counted
  OBVIOUS
<1>1. Logged("JUDGE_END") = {} /\ Logged("INSTANCE_END") = {} /\ ~Open
  BY DEF Init, Logged, Open
<1>2. CutVerdicts = {} /\ {i \in Logged("INSTANCE_END") : ~log[i].clean} = {}
  BY <1>1 DEF CutVerdicts
<1>3. Balanced
  BY <1>1, <1>2, FS_EmptySet DEF Balanced, Judged, Errored, Ended
<1>4. OpenPlaced
  BY <1>1 DEF Init, OpenPlaced, Walking
<1> QED BY <1>1, <1>3, <1>4 DEF Counted, VerdictsEnd, JudgedOnce

LEMMA NextCounted == Typed /\ NeverBack /\ Counted /\ [Next]_vars => Counted'
<1> SUFFICES ASSUME Typed, NeverBack, Counted, [Next]_vars PROVE Counted'
  OBVIOUS
<1>1. CASE Launch
  <2>1. log' = log /\ pc = "down" /\ pc' = "setup" /\ runs' = runs + 1
    BY <1>1 DEF Launch
  <2>2. resuming' \/ log = <<>>
    BY <1>1 DEF Launch, MayLaunch
  <2>3. \A i \in DOMAIN log : log[i].run \in Nat
    <3>1. \A i \in DOMAIN log : log[i] \in Events
      BY DEF Typed, TypeOK
    <3> QED BY <3>1 DEF Events
  <2>4. runs \in Nat
    BY RunResumeAssumption DEF Typed, TypeOK
  <2>5. \A i \in DOMAIN log' : log'[i].run <= runs' /\ log'[i].run < runs'
    BY <2>1, <2>3, <2>4 DEF Counted, OpenPlaced
  <2>6. OpenPlaced'
    BY <2>1, <2>2, <2>5 DEF OpenPlaced, Walking
  <2> QED BY <2>1, <2>6 DEF Counted, VerdictsEnd, JudgedOnce, Balanced, Logged, CutVerdicts, Judged,
                            Errored, Ended, Open
<1>2. CASE Step
  <2>1. ASSUME NEW e, Added(e) PROVE Counted'
    BY <2>1, AddedPlaced, AddedVerdictsEnd, AddedJudgedOnce, AddedBalanced DEF Counted
  <2> QED BY <1>2, <2>1, StepAdds, QuietCounted
<1>3. CASE Kill \/ Interrupt \/ UNCHANGED vars
  <2>1. UNCHANGED <<log, runs, completed, pos, resuming>>
    BY <1>3 DEF Kill, Interrupt, Goto, vars, process
  <2>2. VerdictsEnd' /\ JudgedOnce' /\ Balanced'
    BY <2>1 DEF Counted, VerdictsEnd, JudgedOnce, Balanced, Logged, CutVerdicts, Judged, Errored, Ended, Open
  <2>3. OpenPlaced'
    <3>1. pc' = "down" \/ pc' = pc \/ (pc' = "ending" /\ pc \in {"resetting", "ingesting", "answering"})
      BY <1>3 DEF Kill, Interrupt, Goto, vars, process
    <3> QED BY <2>1, <3>1 DEF Counted, OpenPlaced, Open, Logged, Current, Walking
  <2> QED BY <2>2, <2>3 DEF Counted
<1> QED BY <1>1, <1>2, <1>3 DEF Next

\* What the analysis counts adds up (metrics.py:27-47): a question is judged
\* twice only if its process was killed between the verdict and its end, and
\* when a process is done the verdicts and errors are the ends and the cut
\* verdicts, for any failures, interrupts, kills and resumes.
THEOREM CountsAddUp == Spec => []CountsAgree
<1>1. Typed /\ Counted => CountsAgree
  <2> SUFFICES ASSUME Typed, Counted PROVE CountsAgree
    OBVIOUS
  <2>1. ASSUME pc \in {"ending", "closing"}
        PROVE  Judged + Errored = Ended + Cardinality(CutVerdicts)
    <3>1. ~Open
      BY <2>1 DEF Counted, OpenPlaced
    <3>2. Judged + Errored = Ended + Cardinality(CutVerdicts) + 0
      BY <3>1 DEF Counted, Balanced
    <3>3. Ended \in Nat /\ Cardinality(CutVerdicts) \in Nat
      <4>1. Len(log) \in Nat /\ DOMAIN log = 1..Len(log)
        BY DEF Typed, TypeOK
      <4>2. Logged("INSTANCE_END") \in SUBSET (1..Len(log)) /\ CutVerdicts \in SUBSET (1..Len(log))
        BY <4>1 DEF Logged, CutVerdicts
      <4> QED BY <4>1, <4>2, OneMore DEF Ended
    <3> QED BY <3>2, <3>3
  <2> QED BY <2>1 DEF Counted, JudgedOnce, CountsAgree
<1> QED BY <1>1, AlwaysTyped, AlwaysNeverBack, InitCounted, NextCounted, PTL DEF Spec
=============================================================================
