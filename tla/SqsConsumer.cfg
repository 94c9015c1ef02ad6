SPECIFICATION Spec
CONSTANTS
    m1 = m1
    m2 = m2
    m3 = m3
    Messages = {m1, m2, m3}
    Malformed = {m3}
    Workers = 2
    BatchSize = 2
    MaxFaults = 1
INVARIANTS OneChain DeletedIsHandled StopStops
PROPERTY EventuallyDeleted
CHECK_DEADLOCK FALSE
