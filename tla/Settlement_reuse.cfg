\* Two waits of one instance, the first of which times out.
SPECIFICATION Spec
CONSTANTS
    Timeout = 1
    PollInterval = 1
    CleanupEnabled = TRUE
    CleanupRaises = TRUE
    MaxWaits = 2
    MaxDelay = 1
    MaxStart = 3
    MaxCanaries = 1
INVARIANT
    TimeoutsPolledInFull
\* The harness may stop after any instance.
CHECK_DEADLOCK FALSE
