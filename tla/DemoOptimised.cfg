SPECIFICATION Spec
CONSTANTS
    Actors <- MCActors
    Clients = {"main"}
    Interrupts = {}
    Pool = "pool"
    PoolSize = 5
    OptimisedBuild = TRUE
    Pressures <- ZeroAndMiddle
    Leds <- MCLeds
    Green = "green"
    Red = "red"
    Sensor = "sensor"
    Processor = "processor"
    Main = "main"
    Source = "main"
    MaxReadings = 1
INVARIANT
    LedsFollowPanel
