CONSTANTS
    c1 = c1
    c2 = c2
    c3 = c3
    c4 = c4
    k1 = k1
    p1 = p1
    p2 = p2
    p3 = p3
    NoProc = NoProc
    NoKey = NoKey
    Proc = {p1, p2, p3}
    Coord = {c1, c2, c3, c4}
    BatchOK = {c1, c2, c3}
    Pool = {"AB", "C"}
    Key = {k1}
    PoolOf <- MCPoolOf
    Jobs <- MCJobs
    Opening <- MCOpening
    OpeningLayers <- MCLayers
SPECIFICATION FairSpec
CHECK_DEADLOCK FALSE
INVARIANTS
    AllOrNothing
    LayersNotOverdrawn
PROPERTIES
    ImplementsBook
    EveryRequestAnswered
