\* settlement.policy per_session: two waits between resets (per_instance is the
\* behaviours that wait once).
SPECIFICATION Spec
CONSTANTS
    Timeout = 2
    PollInterval = 1
    CleanupEnabled = TRUE
    CleanupRaises = TRUE
    MaxWaits = 2
    MaxDelay = 1
    MaxStart = 2
    MaxCanaries = 2
INVARIANTS
    TypeOK
    LagWithinOneRequest
    FreshTimeoutsPolledInFull
    ReadSeesOnlyRecorded
PROPERTY
    WaitsEnd
\* The harness may stop after any instance.
CHECK_DEADLOCK FALSE
