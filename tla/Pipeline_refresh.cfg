SPECIFICATION Spec
CONSTANTS
    t1 = t1
    c1 = c1
    r1 = r1
    r2 = r2
    Contracts = {c1}
    Tokens = {t1}
    Ranges = {r1, r2}
    ContractOf <- MCContractOf
    UriOf <- MCUriOf
    EventsOf <- MCEventsOf
    Forms = {"checksum"}
    Checksum = "checksum"
    Overwrites = FALSE
    UsePinata = TRUE
    IpfsGatewayFallback = TRUE
    DedicatedFallback = FALSE
    MaxVersion = 1
    MaxFaults = 0
    MaxResends = 1
    NoToken = NoToken
    NoMetadata = NoMetadata
    NoRange = NoRange
    NoRefresh = NoRefresh
INVARIANT RefreshTakesEffect
CHECK_DEADLOCK FALSE
