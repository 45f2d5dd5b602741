SPECIFICATION FairSpec
CONSTANTS
    p1 = p1
    p2 = p2
    c1 = c1
    c2 = c2
    Threads <- MCThreads
    x = x
    y = y
    Items = {x, y}
    CanPush <- Own
    Nothing = Nothing
    Free = Free
    CanCall <- Producing
    MaxCalls = 2
INVARIANTS
    TypeOK
    NoLostWakeup
PROPERTIES
    ImplementsQueue
    NoStrandedItem
    TimedPopReturns
CHECK_DEADLOCK FALSE
