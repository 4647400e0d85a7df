SPECIFICATION Spec
CONSTANTS
    MaxVersion = 2
    Overlap <- LaterPolicy
    Gen = {1, 2, 3, 4, 5, 6}
    Events = {"switch", "request", "config", "wifi", "topology", "reload", "stop", "subscription"}
    Faults = {"layout", "module", "symbols", "apply", "listeners", "check", "timeout", "supervision", "write", "spawn", "binary", "ready", "cache", "wedge", "crash", "reactor"}
    MaxFuel = 2
    MaxFailures = 2
INVARIANTS
    TypeOK
    OneSupervisedEngine
    FilesKept
    NoStrandedWaiter
    ActiveIsCommitted
CHECK_DEADLOCK FALSE
