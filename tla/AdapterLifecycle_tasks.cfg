CONSTANTS
    t1 = t1
    t2 = t2
    s1 = s1
    s2 = s2
    Tasks = {t1, t2}
    Sessions = {s1, s2}
    Systems <- AllSystems
    None = None
    Probe = Probe
    MaxOps = 3
    MaxFaults = 1
SPECIFICATION Spec
SYMMETRY Symm
INVARIANTS
    TypeOK
    ResetForgets
    AckedWritesStay
    NoDanglingAgent
    OneClient
CHECK_DEADLOCK FALSE
