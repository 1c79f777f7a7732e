------------------------------ MODULE Billing ------------------------------
(***************************************************************************)
(* What follows a shipment (internal/sales/service.go): the invoice of an  *)
(* order, the payments on it, and the returns of its goods.                *)
(*                                                                         *)
(* As in StockDocuments a handler reads without a lock, decides, and later *)
(* writes what it decided; handlers of one document may overlap.  Money    *)
(* keeps four decimals: a stored amount is a number of stored units, and a *)
(* payment, which the client may give with any precision, is a number of   *)
(* finer units, Fine of them to a stored one.                              *)
(*                                                                         *)
(* What SalesOrders has as well carries the name of this module, so that   *)
(* SalesProofs can extend both.                                            *)
(***************************************************************************)
EXTENDS Integers, FiniteSets

CONSTANTS
    Handler,        \* requests being served
    SalesOrder,     \* sales orders
    Line,           \* lines of an order
    Invoice,        \* invoices that may be issued
    Return,         \* sales_returns that may be requested
    Nobody,         \* no order, no document
    Shipped,        \* the quantity of a line that leaves with the order
    GrandTotal,     \* grand_total of an order, in stored units
    Fine,           \* finer units in a stored unit
    Amounts,        \* payments a client may record, in finer units
    Returned,       \* quantities of a return line, 0 for no line
    MaxPayments     \* bound: payments explored on one invoice

Doc == SalesOrder \cup Invoice \cup Return

ASSUME KindsAssumption ==
    /\ SalesOrder \cap Invoice = {} /\ SalesOrder \cap Return = {}
    /\ Invoice \cap Return = {}
    /\ Nobody \notin Doc
ASSUME OrderAssumption ==
    Shipped \in [SalesOrder -> [Line -> Nat]] /\ GrandTotal \in [SalesOrder -> Nat]
ASSUME MoneyAssumption == Fine \in Nat \ {0} /\ Amounts \subseteq Int
ASSUME ReturnAssumption == Returned \subseteq Nat
ASSUME BoundAssumption == MaxPayments \in Nat

VARIABLES
    shipped,        \* orders that are shipped or delivered
    invoices,       \* invoices rows
    returns,        \* sales_returns with their lines
    restocked,      \* return_in movements of a return, by order line
    handed,         \* what clients were told was received for an invoice, in finer units
    payments,       \* and in how many payments
    work,           \* what a handler has read and is about to write
    raced           \* documents two handlers have worked on at the same time

billing == <<shipped, invoices, returns, restocked, handed, payments, work, raced>>

InvoiceStatus == {"absent", "issued", "partially_paid", "paid"}
ReturnStatus == {"absent", "requested", "approved", "rejected", "received"}
Op == {"issue", "pay", "decide", "receive"}

InvoiceRow == [status : InvoiceStatus, order : SalesOrder \cup {Nobody}, total : Nat, paid : Nat]
ReturnRow == [status : ReturnStatus, order : SalesOrder \cup {Nobody}, restock : BOOLEAN,
              lines : [Line -> Nat]]

NoLines == [l \in Line |-> 0]
Idle == [op |-> "idle", doc |-> Nobody, paid |-> 0, amount |-> 0]

BillingInit ==
    /\ shipped = {}
    /\ invoices = [i \in Invoice |-> [status |-> "absent", order |-> Nobody,
                                      total |-> 0, paid |-> 0]]
    /\ returns = [r \in Return |-> [status |-> "absent", order |-> Nobody,
                                    restock |-> FALSE, lines |-> NoLines]]
    /\ restocked = [r \in Return |-> NoLines]
    /\ handed = [i \in Invoice |-> 0]
    /\ payments = [i \in Invoice |-> 0]
    /\ work = [h \in Handler |-> Idle]
    /\ raced = {}

-----------------------------------------------------------------------------
Busy(d) == \E h \in Handler : work[h].op # "idle" /\ work[h].doc = d

Start(h, op, d, paid, amount) ==
    /\ work[h].op = "idle"
    /\ work' = [work EXCEPT ![h] = [op |-> op, doc |-> d, paid |-> paid, amount |-> amount]]
    /\ raced' = raced \cup (IF Busy(d) THEN {d} ELSE {})

Finish(h) ==
    /\ work' = [work EXCEPT ![h] = Idle]
    /\ UNCHANGED raced

(* The order is shipped (SalesOrders); nothing un-ships it.                *)
ShipOrder(o) ==
    /\ shipped' = shipped \cup {o}
    /\ UNCHANGED <<invoices, returns, restocked, handed, payments, work, raced>>

(* Mutant of Unbilled: the order's invoices are not looked at.             *)
UnbilledAlways(o) == TRUE

(* IssueInvoice counts the order's invoices before its transaction begins; *)
(* no operation voids one.                                                 *)
Unbilled(o) ==
    \A i \in Invoice : invoices[i].status # "absent" => invoices[i].order # o

CheckUnbilled(h, o) ==
    /\ o \in shipped
    /\ Unbilled(o)
    /\ Start(h, "issue", o, 0, 0)
    /\ UNCHANGED <<shipped, invoices, returns, restocked, handed, payments>>

IssueInvoice(h, i) ==
    LET o == work[h].doc IN
    /\ work[h].op = "issue"
    /\ invoices[i].status = "absent"
    /\ invoices' = [invoices EXCEPT ![i] =
                      [status |-> "issued", order |-> o, total |-> GrandTotal[o], paid |-> 0]]
    /\ Finish(h)
    /\ UNCHANGED <<shipped, returns, restocked, handed, payments>>

(* Mutant of Round: truncation.                                            *)
RoundDown(x) == x \div Fine

(* money.Round: half a unit goes up.                                       *)
Round(x) == (2 * x + Fine) \div (2 * Fine)

(* RecordPayment reads the invoice and refuses a closed one, an amount     *)
(* that is not positive and one that goes beyond the total.                *)
NewPaid(paid, amount) == Round(Fine * paid + amount)

(* Mutants of Accepts: the sign is not checked; the payment alone is       *)
(* compared with the total.                                                *)
AcceptsNegative(row, amount) ==
    /\ row.status \in {"issued", "partially_paid"}
    /\ NewPaid(row.paid, amount) <= row.total

AcceptsEach(row, amount) ==
    /\ row.status \in {"issued", "partially_paid"}
    /\ amount > 0
    /\ NewPaid(0, amount) <= row.total

Accepts(row, amount) ==
    /\ row.status \in {"issued", "partially_paid"}
    /\ amount > 0
    /\ NewPaid(row.paid, amount) <= row.total

ReadInvoice(h, i, amount) ==
    /\ Accepts(invoices[i], amount)
    /\ payments[i] < MaxPayments
    /\ Start(h, "pay", i, invoices[i].paid, amount)
    /\ UNCHANGED <<shipped, invoices, returns, restocked, handed, payments>>

RecordPayment(h) ==
    LET i == work[h].doc
        new == NewPaid(work[h].paid, work[h].amount)
    IN
    /\ work[h].op = "pay"
    /\ invoices' = [invoices EXCEPT ![i] =
                      [status |-> IF new = invoices[i].total THEN "paid" ELSE "partially_paid",
                       order |-> invoices[i].order, total |-> invoices[i].total, paid |-> new]]
    /\ handed' = [handed EXCEPT ![i] = handed[i] + work[h].amount]
    /\ payments' = [payments EXCEPT ![i] = payments[i] + 1]
    /\ Finish(h)
    /\ UNCHANGED <<shipped, returns, restocked>>

-----------------------------------------------------------------------------
(* RequestReturn checks every entry of the request against what was        *)
(* shipped on its line, and not against the other entries or other         *)
(* returns; a request may name a line twice (the bound explored).          *)
RequestReturn(r, o) ==
    /\ o \in shipped
    /\ returns[r].status = "absent"
    /\ \E once, again \in [Line -> Returned], restock \in BOOLEAN :
         /\ \E l \in Line : once[l] > 0
         /\ \A l \in Line : once[l] <= Shipped[o][l] /\ again[l] <= Shipped[o][l]
         /\ returns' = [returns EXCEPT ![r] =
                          [status |-> "requested", order |-> o, restock |-> restock,
                           lines |-> [l \in Line |-> once[l] + again[l]]]]
    /\ UNCHANGED <<shipped, invoices, restocked, handed, payments, work, raced>>

SetReturn(r, s) ==
    returns' = [returns EXCEPT ![r] =
                  [status |-> s, order |-> returns[r].order, restock |-> returns[r].restock,
                   lines |-> returns[r].lines]]

(* The status DecideReturn and ReceiveReturn insist on.                    *)
Awaited(op) == IF op = "decide" THEN {"requested"} ELSE {"approved"}

ReadReturn(h, op, r) ==
    /\ returns[r].status \in Awaited(op)
    /\ Start(h, op, r, 0, 0)
    /\ UNCHANGED <<shipped, invoices, returns, restocked, handed, payments>>

DecideReturn(h) ==
    /\ work[h].op = "decide"
    /\ \E s \in {"approved", "rejected"} : SetReturn(work[h].doc, s)
    /\ Finish(h)
    /\ UNCHANGED <<shipped, invoices, restocked, handed, payments>>

(* Mutant of BackToStock: damaged goods are put back for sale.             *)
BackToStockAlways(r) == [l \in Line |-> restocked[r][l] + returns[r].lines[l]]

(* Goods marked restockable go back to stock, damaged ones do not.         *)
BackToStock(r) ==
    [l \in Line |-> restocked[r][l] + (IF returns[r].restock THEN returns[r].lines[l] ELSE 0)]

ReceiveReturn(h) ==
    LET r == work[h].doc IN
    /\ work[h].op = "receive"
    /\ restocked' = [restocked EXCEPT ![r] = BackToStock(r)]
    /\ SetReturn(r, "received")
    /\ Finish(h)
    /\ UNCHANGED <<shipped, invoices, handed, payments>>

(* A handler fails after its read; its transaction leaves nothing behind.  *)
GiveUp(h) ==
    /\ work[h].op # "idle"
    /\ Finish(h)
    /\ UNCHANGED <<shipped, invoices, returns, restocked, handed, payments>>

BillingNext ==
    \/ \E o \in SalesOrder : ShipOrder(o)
    \/ \E h \in Handler, o \in SalesOrder : CheckUnbilled(h, o)
    \/ \E h \in Handler, i \in Invoice : IssueInvoice(h, i)
    \/ \E h \in Handler, i \in Invoice, amount \in Amounts : ReadInvoice(h, i, amount)
    \/ \E h \in Handler : RecordPayment(h)
    \/ \E r \in Return, o \in SalesOrder : RequestReturn(r, o)
    \/ \E h \in Handler, op \in {"decide", "receive"}, r \in Return : ReadReturn(h, op, r)
    \/ \E h \in Handler : DecideReturn(h) \/ ReceiveReturn(h) \/ GiveUp(h)

BillingSpec == BillingInit /\ [][BillingNext]_billing
-----------------------------------------------------------------------------
(* Properties.                                                             *)

(* Every variable has its type.                                            *)
BillingTypeOK ==
    /\ shipped \in SUBSET SalesOrder
    /\ invoices \in [Invoice -> InvoiceRow]
    /\ returns \in [Return -> ReturnRow]
    /\ restocked \in [Return -> [Line -> Nat]]
    /\ handed \in [Invoice -> Int]
    /\ payments \in [Invoice -> Nat]
    /\ work \in [Handler -> [op : Op \cup {"idle"}, doc : Doc \cup {Nobody},
                             paid : Nat, amount : Int]]
    /\ raced \in SUBSET Doc

(* service.go:533: an order is billed once, for its grand total and only   *)
(* after it was shipped, as long as two requests to bill it do not         *)
(* overlap.                                                                *)
InvoicedOnce ==
    \A i, j \in Invoice :
        LET o == invoices[i].order IN
        o # Nobody =>
          /\ o \in shipped
          /\ invoices[i].total = GrandTotal[o]
          /\ (invoices[j].order = o /\ o \notin raced) => i = j

(* However payments overlap, an invoice never shows more than its total as *)
(* paid, and its status is the one its amounts call for                    *)
(* (service.go:594-603).                                                   *)
PaidTells ==
    \A i \in Invoice :
        LET row == invoices[i] IN
        /\ row.paid <= row.total
        /\ row.status \in {"absent", "issued"} => row.paid = 0
        /\ row.status = "paid" => row.paid = row.total
        /\ row.status = "partially_paid" => row.paid < row.total

(* As long as payments on an invoice do not overlap, none is lost: the     *)
(* amount shown as paid is the sum of the payments clients were told were  *)
(* accepted, up to half a stored unit of rounding for each of them.        *)
PaymentsCounted ==
    \A i \in Invoice \ raced :
        LET error == Fine * invoices[i].paid - handed[i] IN
        /\ 2 * error <= Fine * payments[i]
        /\ -(2 * error) <= Fine * payments[i]

(* service.go:737-739: a return whose handlers do not overlap goes back to *)
(* stock once, when it is received, and only if it was approved and marked *)
(* restockable.                                                            *)
RestockedOnce ==
    \A r \in Return \ raced : \A l \in Line :
        restocked[r][l] = IF returns[r].status = "received" /\ returns[r].restock
                          THEN returns[r].lines[l] ELSE 0

(* A document whose handlers do not overlap only moves forward: a paid     *)
(* invoice stays paid, a decided return is not decided again, and nothing  *)
(* is received that was not approved.                                      *)
Legal(before, after) ==
    <<before, after>> \in
        {<<"absent", "issued">>, <<"issued", "partially_paid">>, <<"issued", "paid">>,
         <<"partially_paid", "paid">>,
         <<"absent", "requested">>, <<"requested", "approved">>, <<"requested", "rejected">>,
         <<"approved", "received">>}

DocumentSteps ==
    [][/\ \A i \in Invoice \ raced :
            invoices'[i].status # invoices[i].status =>
              Legal(invoices[i].status, invoices'[i].status)
       /\ \A r \in Return \ raced :
            returns'[r].status # returns[r].status =>
              Legal(returns[r].status, returns'[r].status)]_billing
=============================================================================
