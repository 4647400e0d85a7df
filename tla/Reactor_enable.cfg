SPECIFICATION Spec
CONSTANTS
    MaxVersion = 2
    Overlap = {}
    Gen = {1, 2, 3, 4, 5, 6}
    Events = {"request"}
    Faults = {}
    MaxFuel = 2
    MaxFailures = 0
INVARIANT
    EnableHonoured
CHECK_DEADLOCK FALSE
