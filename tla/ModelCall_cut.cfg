\* One request to any upstream, with any client.
SPECIFICATION Spec
CONSTANTS
    Requests = {r1}
    r1 = r1
    MaxConnections = 1
    Strict = FALSE
    MaxChunks = 0
INVARIANT
    ExactlyOneEvent
\* Requests stop when they are finished.
CHECK_DEADLOCK FALSE
