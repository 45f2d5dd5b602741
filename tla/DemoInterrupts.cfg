SPECIFICATION Spec
CONSTANTS
    Actors <- MCActors
    Clients = {"main", "isr"}
    Interrupts = {"isr"}
    Pool = "pool"
    PoolSize = 3
    OptimisedBuild = FALSE
    Pressures <- LowAndHigh
    Leds <- MCLeds
    Green = "green"
    Red = "red"
    Sensor = "sensor"
    Processor = "processor"
    Main = "main"
    Source = "isr"
    MaxReadings = 2
INVARIANTS
    SoleOwner
    LedsAgree
PROPERTIES
    NoPureVirtualCall
    KnownLosses
CHECK_DEADLOCK FALSE
