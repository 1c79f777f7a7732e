CONSTANTS
    w1 = w1
    w2 = w2
    p1 = p1
    h1 = h1
    h2 = h2
    Warehouse = {w1, w2}
    Product = {p1}
    Handler = {h1, h2}
SPECIFICATION Spec
SYMMETRY Symmetry
INVARIANTS
    TypeOK
    OneDefault
    DeletedIsEmpty
    TrackedHasBatch
