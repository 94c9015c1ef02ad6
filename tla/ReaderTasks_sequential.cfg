\* Operators wait for the answer to the request before.  Three requests: a task
\* that is stopped and replaced while the loop is at any of its awaits; the last
\* request may stop for good, so that the loop idles.
SPECIFICATION FairSpec
CONSTANTS
    Clients = {c1, c2, c3}
    Kinds <- BothKinds
    Ranges = 2
    Sequential = TRUE
    MaxFaults = 2
INVARIANTS
    RunningTaskVisible
PROPERTIES
    RunningTaskServed
    EndedTaskReadsNoMoreUnlessAstray
    TaskEndedForAReason
CHECK_DEADLOCK FALSE
