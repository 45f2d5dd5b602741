SPECIFICATION LifeSpec
CONSTANTS
    Actors = {a1, a2}
    Clients = {main}
    Owner = main
    Pool = Pool
    PoolSize = 4
    SendBound = 2
INVARIANTS
    LifeTypeOK
    SoleOwner
    MailboxesFit
    OnlyLateLost
PROPERTIES
    NoEarlyDispatch
    UsedWithinLife
    Shutdown
\* After the actors are destroyed nothing happens any more.
CHECK_DEADLOCK FALSE
