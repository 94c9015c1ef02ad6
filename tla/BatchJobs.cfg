SPECIFICATION Spec
CONSTANTS
    Chain = {1, 2, 3, 4, 5}
    From = 1
    To = 4
    Limits = {2, 3}
    MaxRuns = 3
    Mints = {1, 2, 3, 4}
    BlockOf <- MCBlockOf
    PreContract <- MCPreContract
    PreFrom = 1
    PreTo = 4
    PreLimit = 1
    MaxPreFaults = 2
    Keys = {1, 2, 3, 4}
    Programs <- Commands
    PageSize = 2
    MissingOnly = TRUE
    HasUri = {1, 3, 4}
    HasMetadata = {3}
    HasContract = {1, 2, 3}
    Outside = {4}
    Mappable = {1, 3, 4}
    Attempts = 2
    MaxScanFaults = 2
INVARIANTS LazySpanComplete BeyondSpanKept SentOnce ImportComplete ScanExact IndexedOrReported
PROPERTY JobsEnd
CHECK_DEADLOCK FALSE
