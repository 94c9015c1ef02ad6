SPECIFICATION Spec
CONSTANTS
    n1 = n1
    m1 = m1
    m2 = m2
    Nfts = {n1}
    Multis = {m1, m2}
    Contract <- MCContract
    Filters = {"", "items"}
    MaxValue = 1
    PageLimit = 1
    MaxEvents = 3
INVARIANT WalkShowsOwned
CHECK_DEADLOCK FALSE
