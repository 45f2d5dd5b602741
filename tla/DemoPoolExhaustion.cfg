SPECIFICATION StalledLeds
CONSTANTS
    Actors <- MCActors
    Clients = {"main"}
    Interrupts = {}
    Pool = "pool"
    PoolSize = 10
    OptimisedBuild = FALSE
    Pressures <- LowAndHigh
    Leds <- MCLeds
    Green = "green"
    Red = "red"
    Sensor = "sensor"
    Processor = "processor"
    Main = "main"
    Source = "main"
    MaxReadings = 4
INVARIANT
    NoNullDereference
