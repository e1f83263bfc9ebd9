\* Three writing threads of the proxy or of the runner: short writes, failing
\* writes, close() at any time, crashes, power loss and restarts.
SPECIFICATION Spec
CONSTANTS
    Threads = {t1, t2, t3}
    t1 = t1
    t2 = t2
    t3 = t3
    NULL = NULL
    Uses <- ProxyAndRunner
    MaxCalls = 3
    MaxRestarts = 2
    MaxFailures = 1
INVARIANTS
    TypeOK
    WholeLines
    SeqIncreasing
    GapsExplained
    ReturnedSurvives
PROPERTIES
    ImplementsTrace
    AppendEnds
CHECK_DEADLOCK FALSE
