---------------------------- MODULE SalesOrders ----------------------------
(***************************************************************************)
(* The fulfilment of sales orders (internal/sales/service.go) and the      *)
(* stock reservations behind it (Reserve and Release of                    *)
(* internal/stock/service.go), for one product in one warehouse.           *)
(*                                                                         *)
(* A request reads its order without a lock (loadForUpdate takes none),    *)
(* then, when it reserves or releases, reads the stock rows without a lock *)
(* (Find), and then writes: absolute values of reserved_quantity taken     *)
(* from that read, the ledger's movement for a shipment, and the order's   *)
(* status.  Each read is a step of its own.  The writes and the COMMIT are *)
(* one step: every row written stays locked until COMMIT, nothing is read  *)
(* in between but rows the transaction holds, and nothing it wrote is seen *)
(* before.  A failed or deadlocked transaction leaves nothing.             *)
(*                                                                         *)
(* Reserve and Release visit the rows by created_at alone, so rows of one  *)
(* age come in any order.  An order has one line, read with it in one step.*)
(* Audit entries, dates and the tracking number are left out.              *)
(***************************************************************************)
EXTENDS Integers, FiniteSets, Functions

CONSTANTS
    Request,    \* request handlers; each serves one request at a time
    Order,
    NoOrder,
    Wanted,     \* the quantity of an order's line
    ServedBy,   \* the orders whose requests a handler serves
    RowCount,   \* stock_items rows of the product in the warehouse
    Home,       \* the row without location and batch
    Age,        \* created_at of a row
    Opening,    \* opening quantity of a row
    MaxOnHand   \* bound on what a row may hold

Rows == 1..RowCount

ASSUME FiniteOrders == IsFiniteSet(Order)
ASSUME NoOrderAssumption == NoOrder \notin Order
ASSUME WantedAssumption == Wanted \in [Order -> Nat \ {0}]
ASSUME ServedByAssumption == ServedBy \in [Request -> SUBSET Order]
ASSUME RowsAssumption == RowCount \in Nat \ {0} /\ Home \in Rows
ASSUME AgeAssumption == Age \in [Rows -> Nat]
ASSUME OpeningAssumption == Opening \in [Rows -> Nat]

VARIABLES
    items,      \* committed stock_items rows
    orders,     \* committed sales_orders rows with their line
    out,        \* quantity of the stock_out movements that refer to an order
    phase,      \* what a handler does next
    req,        \* the order a handler works on and the status asked for
    seenOrder,  \* the order as loadForUpdate returned it
    seen,       \* the stock rows as Reserve or Release read them
    stale       \* whether some reservation was written from an outdated read

vars == <<items, orders, out, phase, req, seenOrder, seen, stale>>

Status == {"draft", "confirmed", "picking", "packed", "shipped", "delivered", "cancelled"}

soTransitions ==
    [ draft     |-> {"confirmed", "cancelled"},
      confirmed |-> {"picking", "cancelled"},
      picking   |-> {"packed", "cancelled"},
      packed    |-> {"shipped", "cancelled"},
      shipped   |-> {"delivered"},
      delivered |-> {},
      cancelled |-> {} ]

CanTransitionTo(s, next) == s \in Status /\ next \in soTransitions[s]

Item == [quantity : Nat, reserved : Nat]
Nothing == [i \in Rows |-> [quantity |-> 0, reserved |-> 0]]
OrderRow == [status : Status \cup {"none"}, confirmed : BOOLEAN, shipped : Nat]
Absent == [status |-> "none", confirmed |-> FALSE, shipped |-> 0]

Outstanding(o, row) == Wanted[o] - row.shipped

Init ==
    /\ items = [i \in Rows |-> [quantity |-> Opening[i], reserved |-> 0]]
    /\ orders = [o \in Order |-> Absent]
    /\ out = [o \in Order |-> 0]
    /\ phase = [p \in Request |-> "idle"]
    /\ req = [p \in Request |-> [order |-> NoOrder, next |-> "draft"]]
    /\ seenOrder = [p \in Request |-> Absent]
    /\ seen = [p \in Request |-> Nothing]
    /\ stale = FALSE

OrderOf(p) == req[p].order

(* The handler is free again.                                              *)
Reply(p) ==
    /\ phase' = [phase EXCEPT ![p] = "idle"]
    /\ req' = [req EXCEPT ![p] = [order |-> NoOrder, next |-> "draft"]]
    /\ seenOrder' = [seenOrder EXCEPT ![p] = Absent]
    /\ seen' = [seen EXCEPT ![p] = Nothing]

-----------------------------------------------------------------------------
(* CreateOrder: a draft reserves nothing.                                  *)
CreateOrder(o) ==
    /\ orders[o] = Absent
    /\ orders' = [orders EXCEPT ![o] =
                    [status |-> "draft", confirmed |-> FALSE, shipped |-> 0]]
    /\ UNCHANGED <<items, out, phase, req, seenOrder, seen, stale>>

(* A request to confirm, advance, ship or cancel an order arrives.         *)
Arrive(p) ==
    /\ phase[p] = "idle"
    /\ \E o \in ServedBy[p], next \in Status \ {"draft"} :
         req' = [req EXCEPT ![p] = [order |-> o, next |-> next]]
    /\ phase' = [phase EXCEPT ![p] = "load"]
    /\ UNCHANGED <<items, orders, out, seenOrder, seen, stale>>

(* Mutant of TouchesStock: Cancel forgets the reservation.                 *)
TouchesStockUnlessCancelled(o, next, row) ==
    \/ next = "confirmed"
    \/ next = "shipped" /\ Outstanding(o, row) > 0

(* Confirm reserves; Ship and Cancel release what is outstanding, Cancel   *)
(* only if the order was ever confirmed; Advance touches no stock.         *)
TouchesStock(o, next, row) ==
    \/ next = "confirmed"
    \/ next = "shipped" /\ Outstanding(o, row) > 0
    \/ next = "cancelled" /\ row.confirmed /\ Outstanding(o, row) > 0

(* Mutant of Load: no check of the transition.                             *)
LoadUnchecked(p) ==
    /\ phase[p] = "load"
    /\ seenOrder' = [seenOrder EXCEPT ![p] = orders[OrderOf(p)]]
    /\ phase' = [phase EXCEPT ![p] =
         IF TouchesStock(OrderOf(p), req[p].next, orders[OrderOf(p)]) THEN "peek" ELSE "write"]
    /\ UNCHANGED <<items, orders, out, req, seen, stale>>

(* loadForUpdate, which takes no lock, and the check of the transition.    *)
Load(p) ==
    LET row == orders[OrderOf(p)] IN
    /\ phase[p] = "load"
    /\ CanTransitionTo(row.status, req[p].next)
    /\ seenOrder' = [seenOrder EXCEPT ![p] = row]
    /\ phase' = [phase EXCEPT ![p] =
         IF TouchesStock(OrderOf(p), req[p].next, row) THEN "peek" ELSE "write"]
    /\ UNCHANGED <<items, orders, out, req, seen, stale>>

RefuseTransition(p) ==
    /\ phase[p] = "load"
    /\ ~CanTransitionTo(orders[OrderOf(p)].status, req[p].next)
    /\ Reply(p)
    /\ UNCHANGED <<items, orders, out, stale>>

(* The SELECT of Reserve or Release, without a lock.                       *)
Peek(p) ==
    /\ phase[p] = "peek"
    /\ seen' = [seen EXCEPT ![p] = items]
    /\ phase' = [phase EXCEPT ![p] = "write"]
    /\ UNCHANGED <<items, orders, out, req, seenOrder, stale>>

-----------------------------------------------------------------------------
(* What Reserve and Release take from each row they have read: the oldest  *)
(* rows first, until the quantity q is met or the rows are exhausted.      *)
Total(f) == SumFunctionOnSet(f, Rows)

(* Mutant of Free: all that is on hand counts as free.                     *)
FreeIgnoresReserved(s) == [i \in Rows |-> s[i].quantity]

Free(s) == [i \in Rows |-> IF s[i].quantity > s[i].reserved
                           THEN s[i].quantity - s[i].reserved ELSE 0]
Held(s) == [i \in Rows |-> s[i].reserved]

(* Rows are used up one after the other, so only the last is used in part. *)
OldestFirst(avail, q, take) ==
    /\ \A i \in Rows : take[i] <= avail[i]
    /\ \A i, j \in Rows : (Age[j] < Age[i] /\ take[i] > 0) => take[j] = avail[j]
    /\ \A i, j \in Rows :
         take[i] \in 1..(avail[i] - 1) /\ take[j] \in 1..(avail[j] - 1) => i = j
    /\ Total(take) = (IF Total(avail) < q THEN Total(avail) ELSE q)

(* The rows after UPDATE reserved_quantity of those that were visited:     *)
(* the value read plus (or minus) what was taken, whatever it is by now.   *)
Rewritten(p, take, sign) ==
    [i \in Rows |-> IF take[i] = 0 THEN items[i]
                    ELSE [quantity |-> items[i].quantity,
                          reserved |-> seen[p][i].reserved + sign * take[i]]]

SetStatus(p, s) ==
    orders' = [orders EXCEPT ![OrderOf(p)] =
                 [status |-> s, confirmed |-> @.confirmed, shipped |-> @.shipped]]

(* Confirm: Reserve, then the status; short stock refuses the request.     *)
Confirm(p) ==
    /\ phase[p] = "write"
    /\ req[p].next = "confirmed"
    /\ \E take \in [Rows -> 0..Wanted[OrderOf(p)]] :
         /\ OldestFirst(Free(seen[p]), Wanted[OrderOf(p)], take)
         /\ Total(take) = Wanted[OrderOf(p)]
         /\ items' = Rewritten(p, take, 1)
    /\ orders' = [orders EXCEPT ![OrderOf(p)] =
                    [status |-> "confirmed", confirmed |-> TRUE, shipped |-> @.shipped]]
    /\ stale' = (stale \/ seen[p] # items)
    /\ Reply(p)
    /\ UNCHANGED out

RefuseConfirm(p) ==
    /\ phase[p] = "write"
    /\ req[p].next = "confirmed"
    /\ Total(Free(seen[p])) < Wanted[OrderOf(p)]
    /\ Reply(p)
    /\ UNCHANGED <<items, orders, out, stale>>

Advance(p) ==
    /\ phase[p] = "write"
    /\ req[p].next \in {"picking", "packed", "delivered"}
    /\ SetStatus(p, req[p].next)
    /\ Reply(p)
    /\ UNCHANGED <<items, out, stale>>

(* Cancel: Release what is outstanding if the order was ever confirmed.    *)
Cancel(p) ==
    LET q == Outstanding(OrderOf(p), seenOrder[p]) IN
    /\ phase[p] = "write"
    /\ req[p].next = "cancelled"
    /\ IF TouchesStock(OrderOf(p), "cancelled", seenOrder[p])
       THEN /\ \E take \in [Rows -> 0..q] :
                 /\ OldestFirst(Held(seen[p]), q, take)
                 /\ items' = Rewritten(p, take, -1)
            /\ stale' = (stale \/ seen[p] # items)
       ELSE UNCHANGED <<items, stale>>
    /\ SetStatus(p, "cancelled")
    /\ Reply(p)
    /\ UNCHANGED out

(* Ship: Release, then Ledger.Apply on the row without location and batch, *)
(* which refuses to go below zero or below what is reserved there.         *)
AfterShip(row, q) == [quantity |-> row.quantity - q, reserved |-> row.reserved]

(* Mutant of Covers: the balance is not checked.                           *)
CoversReserved(row) == row.quantity < 0 \/ row.quantity >= row.reserved

Covers(row) == row.quantity >= 0 /\ row.quantity >= row.reserved

Ship(p) ==
    LET o == OrderOf(p)
        q == Outstanding(o, seenOrder[p])
    IN
    /\ phase[p] = "write"
    /\ req[p].next = "shipped"
    /\ IF TouchesStock(o, "shipped", seenOrder[p])
       THEN /\ \E take \in [Rows -> 0..q] :
                 LET rel == Rewritten(p, take, -1) IN
                 /\ OldestFirst(Held(seen[p]), q, take)
                 /\ Covers(AfterShip(rel[Home], q))
                 /\ items' = [rel EXCEPT ![Home] = AfterShip(rel[Home], q)]
            /\ out' = [out EXCEPT ![o] = @ + q]
            /\ stale' = (stale \/ seen[p] # items)
       ELSE UNCHANGED <<items, out, stale>>
    /\ orders' = [orders EXCEPT ![o] =
                    [status |-> "shipped", confirmed |-> @.confirmed, shipped |-> Wanted[o]]]
    /\ Reply(p)

ShipRefused(p) ==
    LET q == Outstanding(OrderOf(p), seenOrder[p]) IN
    \E take \in [Rows -> 0..q] :
        /\ OldestFirst(Held(seen[p]), q, take)
        /\ ~Covers(AfterShip(Rewritten(p, take, -1)[Home], q))

RefuseShip(p) ==
    /\ phase[p] = "write"
    /\ req[p].next = "shipped"
    /\ TouchesStock(OrderOf(p), "shipped", seenOrder[p])
    /\ ShipRefused(p)
    /\ Reply(p)
    /\ UNCHANGED <<items, orders, out, stale>>

(* The connection or the server dies, or the transaction is a deadlock     *)
(* victim: it is rolled back.                                              *)
Abort(p) ==
    /\ phase[p] # "idle"
    /\ Reply(p)
    /\ UNCHANGED <<items, orders, out, stale>>

(* Receipts, and adjustments at a named row: one Ledger.Apply.             *)
Adjust(i, d) ==
    /\ items[i].quantity + d \in 0..MaxOnHand
    /\ d < 0 => items[i].quantity + d >= items[i].reserved
    /\ items' = [items EXCEPT ![i] = [quantity |-> @.quantity + d, reserved |-> @.reserved]]
    /\ UNCHANGED <<orders, out, phase, req, seenOrder, seen, stale>>

Serve(p) ==
    \/ Arrive(p) \/ Load(p) \/ RefuseTransition(p) \/ Peek(p)
    \/ Confirm(p) \/ RefuseConfirm(p) \/ Advance(p)
    \/ Cancel(p) \/ Ship(p) \/ RefuseShip(p) \/ Abort(p)

Next ==
    \/ \E o \in Order : CreateOrder(o)
    \/ \E p \in Request : Serve(p)
    \/ \E i \in Rows, d \in {-1, 1} : Adjust(i, d)

Spec == Init /\ [][Next]_vars
-----------------------------------------------------------------------------
(* Properties.                                                             *)

(* Every variable has its type: in particular the row checks of the        *)
(* database are never what stops a request.  On hand and reserved stay     *)
(* non-negative even when reservations are written from outdated reads     *)
(* (migrations/000003:79-82).                                              *)
TypeOK ==
    /\ items \in [Rows -> Item]
    /\ orders \in [Order -> OrderRow]
    /\ out \in [Order -> Nat]
    /\ phase \in [Request -> {"idle", "load", "peek", "write"}]
    /\ req \in [Request -> [order : Order \cup {NoOrder}, next : Status]]
    /\ seenOrder \in [Request -> OrderRow]
    /\ seen \in [Request -> [Rows -> Item]]
    /\ stale \in BOOLEAN

(* No two handlers serve requests on the same order.                       *)
OneHandlerPerOrder ==
    \A p, q \in Request : p # q => ServedBy[p] \cap ServedBy[q] = {}

(* As long as no reservation is written from an outdated read, no row has  *)
(* more reserved than it holds: Available (stock/model.go:46) is never     *)
(* negative.                                                               *)
ReservedCovered == ~stale => \A i \in Rows : items[i].reserved <= items[i].quantity

(* As long as no reservation is written from an outdated read, what is     *)
(* reserved is what the confirmed orders still wait for: no request leaks  *)
(* a reservation, whichever way the order ends and whatever fails.  It     *)
(* holds while the requests on one order do not overlap: two that overlap  *)
(* reserve, or release, twice.                                             *)
Open(o) == orders[o].status \in {"confirmed", "picking", "packed"}

Owed == [o \in Order |-> IF Open(o) THEN Outstanding(o, orders[o]) ELSE 0]

Promised == SumFunctionOnSet(Owed, Order)

ReservedMatchesOrders == ~stale => Total(Held(items)) = Promised

(* The goods of an order leave the warehouse exactly once, when it is      *)
(* shipped, and never after it was cancelled: movements, line and status   *)
(* agree.  It holds while the requests on one order do not overlap, and    *)
(* would hold without that if loadForUpdate read the order "under a row    *)
(* lock" (sales/service.go:498).                                           *)
ShippedOnce ==
    \A o \in Order :
        /\ out[o] = orders[o].shipped
        /\ out[o] = (IF orders[o].status \in {"shipped", "delivered"} THEN Wanted[o] ELSE 0)

(* What remains of it when they do overlap: an order never claims goods    *)
(* that did not leave for it, goods that left are on record, its line is   *)
(* shipped whole or not at all, and an order that says it was shipped or   *)
(* delivered has been.  The check so_lines_no_over_ship                    *)
(* (migrations/000005:85) is never what stops a shipment.                  *)
ShipmentsRecorded ==
    \A o \in Order :
        /\ orders[o].shipped \in {0, Wanted[o]}
        /\ orders[o].shipped <= out[o]
        /\ out[o] > 0 => orders[o].shipped = Wanted[o]
        /\ orders[o].status \in {"shipped", "delivered"} => orders[o].shipped = Wanted[o]

(* An order only ever moves along soTransitions (sales/model.go:43-54).    *)
StatusSteps ==
    [][\A o \in Order :
         orders'[o].status # orders[o].status =>
             \/ orders[o].status = "none" /\ orders'[o].status = "draft"
             \/ CanTransitionTo(orders[o].status, orders'[o].status)]_vars

(* api/workflow_integration_test.go:140: a packed order whose stock was    *)
(* received into a bin ships.  When the handler is about to ship from an   *)
(* up-to-date read and the warehouse holds the quantity, the ledger        *)
(* accepts the shipment.                                                   *)
ShipFindsStock ==
    \A p \in Request :
        ( /\ phase[p] = "write" /\ req[p].next = "shipped" /\ seen[p] = items /\ ~stale
          /\ Total([i \in Rows |-> items[i].quantity]) >= Wanted[OrderOf(p)] )
        => ~ShipRefused(p)
=============================================================================
