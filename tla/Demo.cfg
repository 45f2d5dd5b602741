SPECIFICATION Spec
CONSTANTS
    Actors <- MCActors
    Clients = {"main"}
    Interrupts = {}
    Pool = "pool"
    PoolSize = 7
    OptimisedBuild = FALSE
    Pressures <- LowAndHigh
    Leds <- MCLeds
    Green = "green"
    Red = "red"
    Sensor = "sensor"
    Processor = "processor"
    Main = "main"
    Source = "main"
    MaxReadings = 2
INVARIANTS
    TypeOK
    NoNullDereference
PROPERTIES
    KeepsOwnership
    DispatchAfterConstruction
    RegulatesLeds
