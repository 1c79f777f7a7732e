\* One transfer and one cycle count of one product, two handlers, balances up to 2.
CONSTANTS
    h1 = h1
    h2 = h2
    t1 = t1
    d1 = d1
    item = item
    w1 = w1
    w2 = w2
    bin = bin
    Handler = {h1, h2}
    Transfer = {t1}
    Count = {d1}
    Item = {item}
    Warehouse = {w1, w2}
    Bin = {bin}
    NoBin = NoBin
    Adjustment = Adjustment
    NotCounted = NotCounted
    Wanted = {0, 1}
    Found = {0, 1}
    Opening <- MCOpening
    Reserved <- MCReserved
    Others <- MCOthers
    MaxDrift = 1
    MaxStock = 2
SPECIFICATION Spec
SYMMETRY MCSymmetry
INVARIANTS TypeOK TransferBooked CountBooked ArrivedOnlyIfLeft
\* When both documents are closed and the bound on other movements is met, no request is left.
CHECK_DEADLOCK FALSE
