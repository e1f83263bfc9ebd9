\* Every input up to the bounds; a computation ends the behavior.
SPECIFICATION Spec
CONSTANTS
    NULL = NULL
    MaxTurns = 3
    MaxInstances = 7
    MaxLines = 3
    MaxWords = 5
    MaxItems = 3
INVARIANTS
    DatasetReachesAdapter
    RepliesReadAsAsked
    NumbersMatchTheLogs
CHECK_DEADLOCK FALSE
