SPECIFICATION Spec
CONSTANTS
    p1 = p1
    p2 = p2
    c1 = c1
    c2 = c2
    Threads <- CountingThreads
    x = x
    y = y
    Items = {x}
    CanPush <- PushingX
    Nothing = Nothing
    Free = Free
    CanCall <- Counting
    MaxCalls = 2
INVARIANT
    CountIsReal
CHECK_DEADLOCK FALSE
