SPECIFICATION FairSpec
CONSTANTS
    Actors <- MCActors
    Clients = {"main"}
    Interrupts = {}
    Pool = "pool"
    PoolSize = 7
    OptimisedBuild = FALSE
    Pressures <- High
    Leds <- MCLeds
    Green = "green"
    Red = "red"
    Sensor = "sensor"
    Processor = "processor"
    Main = "main"
    Source = "main"
    MaxReadings = 2
PROPERTIES
    EveryReadingApplied
    PoolRefills
