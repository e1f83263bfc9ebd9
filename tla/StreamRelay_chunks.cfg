SPECIFICATION Spec
CONSTANTS
    Words = 2
    MaxChunk = 5
    Framings <- BothFramings
INVARIANTS
    RelayExact
    StreamAccounted
CHECK_DEADLOCK FALSE
