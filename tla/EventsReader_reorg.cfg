SPECIFICATION FairSpec
CONSTANTS
    MaxBlock = 5
    InitialHead = 3
    ProcessingLimit = 1
    TransferBlocks <- AllButFirst
    Tasks <- OnlyLive
    MaxRequests = 1
    MaxCrashes = 0
    MaxReorgs = 2
    ReorgAnytime = FALSE
    InterruptRecovery = FALSE
INVARIANT
    HashVouchesForEvents
PROPERTIES
    EventuallyCanonical
    EventuallyAnnounced
CHECK_DEADLOCK FALSE
