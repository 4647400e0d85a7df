SPECIFICATION FairSpec
CONSTANTS
    MaxVersion = 3
    Overlap <- Rivals
    Gen = {1, 2, 3, 4, 5, 6}
    Events = {"config", "topology", "reload", "stop", "subscription"}
    Faults = {"write", "spawn", "ready", "cache", "listeners", "wedge", "crash"}
    MaxFuel = 3
    MaxFailures = 1
INVARIANTS
    RestIsConverged
PROPERTIES
    StopTerminates
    WaitersAnswered
CHECK_DEADLOCK FALSE
