SPECIFICATION Spec
CONSTANTS
    Handlers = {pods, events}
    Keys = {k1, k2}
    Window = 3
    MaxLag = 1
    MaxClock = 7
    Never = Never
INVARIANTS IInv
PROPERTIES SuppressedOnlyWithinWindow RateLimited WindowsRespected
CHECK_DEADLOCK FALSE
