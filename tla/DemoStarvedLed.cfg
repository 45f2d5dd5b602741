SPECIFICATION Every900ms
CONSTANTS
    Actors <- MCActors
    Clients = {"main"}
    Interrupts = {}
    Pool = "pool"
    PoolSize = 5
    OptimisedBuild = FALSE
    Pressures <- Low
    Leds <- MCLeds
    Green = "green"
    Red = "red"
    Sensor = "sensor"
    Processor = "processor"
    Main = "main"
    Source = "main"
    MaxReadings = 3
    Horizon = 21
INVARIANT
    KeepsBlinking
