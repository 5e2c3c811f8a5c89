SPECIFICATION Spec
CONSTANTS
    Pods = {p1}
    Statuses <- MCStatuses
    RawEvents <- MCRawEvents
    Capacity = 1
    MaxPending = 1
    Never = Never
INVARIANTS NoStartupReplay
CHECK_DEADLOCK FALSE
