SPECIFICATION FairSpec
CONSTANTS
    Nobody = 0
    Probe = 9
    Sup = {1, 2}
    MaxSignals = 2
    MaxCrashes = 2
    MaxStops = 1
INVARIANTS
    TypeOK
    OneInstance
    NoneAbandoned
    SomeoneServes
PROPERTIES
    StopHonoured
    Recovers
CHECK_DEADLOCK FALSE
