SPECIFICATION Spec
CONSTANTS
    Nobody = 0
    Probe = 9
    Sup = {1, 2}
    MaxSignals = 0
    MaxCrashes = 1
    MaxStops = 1
PROPERTY
    StopIsProof
CHECK_DEADLOCK FALSE
