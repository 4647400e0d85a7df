SPECIFICATION FairSpec
CONSTANTS
    p1 = p1
    p2 = p2
    p3 = p3
    c1 = c1
    c2 = c2
    old = old
    new = new
    Pkt <- MCTwoPkt
    Uid = {"app", "game"}
    Dst = {"web", "lan"}
    UidOf <- MCTwoUidOf
    DstOf <- MCTwoDstOf
    Stealable <- MCTwoPkt
    Reserved = {}
    Ctx <- MCCtx
    Daemon = {old}
    MaxEpoch = 1
    Selected <- MCOneSelected
    Direct <- MCOneDirect
    QMAX = 1
PROPERTY
    StolenIsConsumed
CHECK_DEADLOCK FALSE
