SPECIFICATION FairSpec
CONSTANTS
    p1 = p1
    OOMKilled = OOMKilled
    CrashLoopBackOff = CrashLoopBackOff
    s1 = s1
    Handlers = {pods, events}
    Pods = {p1}
    FailureTypes = {OOMKilled, CrashLoopBackOff}
    Seconds = {s1}
    Events <- MCEvents
    Capacity = 1
    MaxEvents = 2
    None = None
INVARIANTS IInv
PROPERTIES CountsOnlyRealPRs OnePRPerEvent ShutdownCompletes
