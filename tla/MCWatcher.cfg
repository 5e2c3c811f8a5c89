SPECIFICATION FairSpec
CONSTANTS
    Pods = {p1}
    Statuses <- MCStatuses
    RawEvents <- MCRawEvents
    Capacity = 1
    MaxPending = 1
    Never = Never
INVARIANTS IInv
PROPERTIES
    OncePerWindow
    ImplementsSource
    HandlersNeverBlock
    PersistentFailureIsReoffered
CHECK_DEADLOCK FALSE
