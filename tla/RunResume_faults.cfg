\* Failures, kills and interrupts, two configurations, up to three processes.
SPECIFICATION Spec
CONSTANTS
    q1 = q1
    q2 = q2
    Questions <- MCQuestions
    c1 = c1
    c2 = c2
    Configurations = {c1, c2}
    NULL = NULL
    OnErrors = {"abort", "continue"}
    Failures = TRUE
    Kills = TRUE
    Interrupts = TRUE
    MaxRuns = 3
INVARIANTS
    TypeOK
    CompletedNeverRerun
    JudgedOnOwnWrites
    NothingLost
    CountsAgree
PROPERTY
    ProcessesEnd
CHECK_DEADLOCK FALSE
