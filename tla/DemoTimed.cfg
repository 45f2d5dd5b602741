SPECIFICATION TimedSpec
CONSTANTS
    Actors <- MCActors
    Clients = {"main"}
    Interrupts = {}
    Pool = "pool"
    PoolSize = 5
    OptimisedBuild = FALSE
    Pressures <- MiddleAndHigh
    Leds <- MCLeds
    Green = "green"
    Red = "red"
    Sensor = "sensor"
    Processor = "processor"
    Main = "main"
    Source = "main"
    MaxReadings = 2
    Horizon = 11
INVARIANTS
    ClockTypeOK
    NoNullDereference
    LateOnlyByReading
