\* One order, two invoices it might get, one return; payments of -4/3, 1/3, 4/3 and 5/3 units.
CONSTANTS
    h1 = h1
    h2 = h2
    o1 = o1
    i1 = i1
    i2 = i2
    r1 = r1
    l1 = l1
    Handler = {h1, h2}
    SalesOrder = {o1}
    Line = {l1}
    Invoice = {i1, i2}
    Return = {r1}
    Nobody = Nobody
    Shipped <- MCShipped
    GrandTotal <- MCGrandTotal
    Fine = 3
    Amounts <- MCAmounts
    Returned = {0, 1, 2}
    MaxPayments = 3
SPECIFICATION BillingSpec
SYMMETRY MCSymmetry
INVARIANTS BillingTypeOK InvoicedOnce PaidTells PaymentsCounted RestockedOnce
