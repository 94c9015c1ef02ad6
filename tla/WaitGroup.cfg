\* Two callers share a group.
SPECIFICATION FairSpec
CONSTANTS
    c1 = c1
    c2 = c2
    Callers = {c1, c2}
    Limit = 2
    MaxTasks = 5
INVARIANT
    Throttled
PROPERTIES
    WaitCoversOwnTasks
    CallsReturn
