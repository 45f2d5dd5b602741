SPECIFICATION Spec
CONSTANTS
    main = main
    actor = actor
    isr = isr
    b1 = b1
    b2 = b2
    b3 = b3
    b4 = b4
    Threads = {main, actor, isr}
    Creator = main
    QueueIds <- PoolAndMailbox
    MsgSize <- OnePointer
    Items = {x, y}
    Garbage = Garbage
    Nothing = Nothing
    Heap <- Addresses
    CanCall <- Roles
    MaxCalls <- TwoOrOne
SYMMETRY Symmetry
INVARIANTS
    TypeOK
    SoleBuffer
PROPERTIES
    LeaksOnlyByReset
    ImplementsQueues
CHECK_DEADLOCK FALSE
