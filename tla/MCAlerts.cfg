CONSTANTS
    a1 = a1
    k1 = k1
    w1 = w1
    b1 = b1
    order = order
    product = product
    batch = batch
    decision = decision
    m1 = m1
    Request = {a1}
    Scanner = {k1}
    Spot = {w1}
    Lot = {b1}
    Document = {order}
    Copied = {order}
    Returned = {}
    Alert = {product, batch, decision}
    AlertOf <- MCAlertOf
    Recipient = {m1}
    Told <- MCTold
    Nothing = Nothing
    MaxScans = 1
    MaxFaults = 1
SPECIFICATION AlertsFairSpec
INVARIANTS
    AlertsTypeOK
PROPERTIES
    LowIsAlerted
    LowIsMailed
