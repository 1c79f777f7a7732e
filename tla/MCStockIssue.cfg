CONSTANTS
    r1 = r1
    r2 = r2
    r3 = r3
    l1 = l1
    l2 = l2
    b1 = b1
    k1 = k1
    k2 = k2
    p1 = p1
    p2 = p2
    p3 = p3
    NoProc = NoProc
    NoBatch = NoBatch
    NoKey = NoKey
    Proc = {p1, p2, p3}
    Row = {r1, r2, r3}
    Place <- MCPlace
    Rank <- MCRank
    Batch = {b1}
    BatchOf <- MCBatchOf
    ReservedOf <- MCReserved
    OldLayer = {l1, l2}
    OpeningRows <- MCOpening
    OpeningLayers <- MCLayers
    StdCost = 7
    Key = {k1, k2}
    Jobs <- MCJobs
SPECIFICATION IssueSpec
CHECK_DEADLOCK FALSE
INVARIANTS
    IssueWhole
    CostConserved
    OnlyTiesOrLayersDeadlock
PROPERTIES
    ImplementsIssueBook
