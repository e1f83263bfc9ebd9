\* Schedules of up to four arrivals, two in flight.
SPECIFICATION Spec
CONSTANTS
    InFlightLimit = 2
    Never = Never
    MaxArrivals = 4
    Duration = 2
    MaxTime = 3
INVARIANT
    NoIdlePlace
PROPERTIES
    KeepsSchedule
    EveryArrivalRecorded
CHECK_DEADLOCK FALSE
