SPECIFICATION Spec
CONSTANTS
    p1 = p1
    p2 = p2
    p3 = p3
    c1 = c1
    c2 = c2
    old = old
    new = new
    Pkt <- MCPkt
    Uid = {"app", "game"}
    Dst = {"web", "lan"}
    UidOf <- MCUidOf
    DstOf <- MCDstOf
    Stealable <- MCPkt
    Reserved = {}
    Ctx <- MCCtx
    Daemon = {old}
    MaxEpoch = 1
    Selected <- MCOneSelected
    Direct <- MCOneDirect
    QMAX = 1
PROPERTY
    AdmittedStaysCaptured
CHECK_DEADLOCK FALSE
