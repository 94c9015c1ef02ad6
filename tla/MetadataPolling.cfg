SPECIFICATION Spec
CONSTANTS
    t1 = t1
    t2 = t2
    t3 = t3
    Tokens = {t1, t2, t3}
    UriOf <- MCUriOf
    UsePinata = TRUE
    IpfsGatewayFallback = TRUE
    DedicatedFallback = FALSE
    BatchLimit = 2
    Workers = 1
    MaxTime = 2
    MaxCrashes = 1
INVARIANTS ReadOnce PassedForAReason
PROPERTY EventuallyRead
