SPECIFICATION FairSpec
CONSTANTS
    MaxBlock = 3
    InitialHead = 2
    ProcessingLimit = 1
    TransferBlocks <- AllButFirst
    Tasks <- OnlyLive
    MaxRequests = 1
    MaxCrashes = 1
    MaxReorgs = 0
    ReorgAnytime = FALSE
    InterruptRecovery = FALSE
PROPERTY EventuallyAnnounced
CHECK_DEADLOCK FALSE
