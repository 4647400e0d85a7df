SPECIFICATION Spec
CONSTANTS
    p1 = p1
    p2 = p2
    p3 = p3
    c1 = c1
    c2 = c2
    old = old
    new = new
    Pkt <- MCPkt
    Uid = {"app", "game"}
    Dst = {"web", "lan"}
    UidOf <- MCUidOf
    DstOf <- MCDstOf
    Stealable <- MCPkt
    Reserved = {}
    Ctx <- MCCtx
    Daemon <- MCDaemon
    MaxEpoch = 2
    Selected <- MCSelected
    Direct <- MCDirect
    QMAX = 1
SYMMETRY Symmetry
INVARIANTS
    TypeOK
    NoStrandedPacket
    QueueBound
    SessionIntact
    ClosedIsDirect
    NoDeliveryAfterRelease
    BypassLeadsUids
PROPERTY
    DecidesOnce
CHECK_DEADLOCK FALSE
