CONSTANTS
    x1 = x1
    h1 = h1
    h2 = h2
    NoRequest = NoRequest
    NoPO = NoPO
    NoUser = NoUser
    manager = manager
    admin = admin
    Request = {h1, h2}
    DocType = {"purchase_order", "goods_receipt"}
    PO = {x1}
    Line = {1, 2}
    User = {manager, admin}
    Admin = {admin}
    MaxReceipts = 3
    Ordered <- MCOrdered
SPECIFICATION FairSpec
INVARIANTS
    CodesGapless
    GoodsWereApproved
    LineWithinStock
PROPERTIES
    ApprovalLasts
    EveryRequestAnswered
