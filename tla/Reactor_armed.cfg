SPECIFICATION Spec
CONSTANTS
    MaxVersion = 2
    Overlap = {}
    Gen = {1, 2, 3, 4, 5, 6}
    Events = {"config"}
    Faults = {}
    MaxFuel = 1
    MaxFailures = 0
INVARIANT
    ActiveIsArmed
CHECK_DEADLOCK FALSE
