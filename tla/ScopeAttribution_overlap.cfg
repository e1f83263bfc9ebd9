\* Overlapping operations, stragglers, one fault, a proxy restart.
SPECIFICATION Spec
CONSTANTS
    o1 = o1
    o2 = o2
    o3 = o3
    Ops <- MCOps
    Client <- MCClient
    ScopeTags <- MCScopeTags
    StaticTags <- MCStaticTags
    Headers <- MCHeaders
    Values <- MCValues
    NONE = NONE
    Stragglers = TRUE
    MaxFaults = 1
    MaxRestarts = 1
INVARIANTS
    TypeOK
    NoWrongAttribution
    ExactUnlessAmbiguous
PROPERTY
    ScopesDrain
CHECK_DEADLOCK FALSE
