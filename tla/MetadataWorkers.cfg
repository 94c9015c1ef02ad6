SPECIFICATION Spec
CONSTANTS
    w1 = w1
    w2 = w2
    m1 = m1
    m2 = m2
    m3 = m3
    m4 = m4
    t1 = t1
    t2 = t2
    Workers = {w1, w2}
    Messages = {m1, m2, m3, m4}
    TokenOf <- MCTokenOf
    KindOf <- MCKindOf
    Retries = 1
    HasIndex = TRUE
    MaxFaults = 2
    NoMessage = NoMessage
INVARIANTS NothingLostOrDoubled AckedIsHandled IndexedIsStored
PROPERTY EventuallyAcked
CHECK_DEADLOCK FALSE
