CONSTANTS
    o1 = o1
    o2 = o2
    h1 = h1
    h2 = h2
    NoOrder = NoOrder
    Order = {o1, o2}
    Request = {h1, h2}
    RowCount = 2
    Home = 1
    MaxOnHand = 2
    Wanted <- MCWanted
    ServedBy <- MCServedBy
    Age <- MCAge
    Opening <- MCOpening
SPECIFICATION Spec
INVARIANTS
    TypeOK
    ReservedCovered
    ReservedMatchesOrders
    ShippedOnce
