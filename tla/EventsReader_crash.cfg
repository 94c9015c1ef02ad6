SPECIFICATION Spec
CONSTANTS
    MaxBlock = 4
    InitialHead = 2
    ProcessingLimit = 1
    TransferBlocks <- AllButFirst
    Tasks <- LiveAndReindex
    MaxRequests = 3
    MaxCrashes = 2
    MaxReorgs = 1
    ReorgAnytime = FALSE
    InterruptRecovery = FALSE
INVARIANTS
    TypeOK
    RangesMined
    RecordedRangesComplete
    NoBlockSkipped
    HashVouchesForEvents
CHECK_DEADLOCK FALSE
