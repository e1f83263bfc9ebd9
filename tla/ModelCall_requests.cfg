\* An upstream that answers, fails, times out or cuts its answer; clients that
\* leave; the proxy stopped; two requests for one connection.
SPECIFICATION Spec
CONSTANTS
    Requests = {r1, r2}
    r1 = r1
    r2 = r2
    MaxConnections = 1
    Strict = TRUE
    MaxChunks = 1
INVARIANTS
    TypeOK
    OneEventUnlessFated
    EventTellsOutcome
    ConnectionsReturned
PROPERTY
    RequestsEnd
\* Requests stop when they are finished.
CHECK_DEADLOCK FALSE
