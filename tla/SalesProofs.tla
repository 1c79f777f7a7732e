----------------------------- MODULE SalesProofs -----------------------------
(***************************************************************************)
(* Theorems about the two modules of internal/sales.                       *)
(*                                                                         *)
(* SalesOrders, for any orders, handlers, rows and quantities.  Types,     *)
(* coverage, and that shipments are on record, need nothing about the      *)
(* handlers; that an order ships once, how it moves and what is reserved   *)
(* for it hold when no two handlers serve requests on the same order, and  *)
(* not otherwise: nothing locks an order between its read and its write.   *)
(*                                                                         *)
(* Billing, what follows a shipment, for every number of handlers, orders, *)
(* invoices and returns, every amount and every scale of money.            *)
(***************************************************************************)
EXTENDS SalesOrders, Billing, SumLemmas

(* A busy handler works on an order it serves.                             *)
Working == \A p \in Request : phase[p] # "idle" => req[p].order \in ServedBy[p]

(* A handler that has loaded its order still works from its current row,   *)
(* from which the step it was asked for is legal.                          *)
Decided ==
    \A p \in Request :
        phase[p] \in {"peek", "write"} =>
            /\ seenOrder[p] = orders[req[p].order]
            /\ CanTransitionTo(orders[req[p].order].status, req[p].next)

-----------------------------------------------------------------------------
(* Typing.                                                                 *)

(* A served order is an order.                                             *)
LEMMA ServedOrder ==
    ASSUME TypeOK, Working, NEW p \in Request, phase[p] # "idle"
    PROVE  /\ OrderOf(p) \in ServedBy[p]
           /\ OrderOf(p) \in Order
           /\ Wanted[OrderOf(p)] \in Nat
           /\ Wanted[OrderOf(p)] > 0
BY WantedAssumption, ServedByAssumption DEF Working, OrderOf

(* A handler that answers is idle, and the others keep what they had.      *)
LEMMA ReplyFrame ==
    ASSUME TypeOK, NEW p \in Request, Reply(p)
    PROVE  /\ phase' \in [Request -> {"idle", "load", "peek", "write"}]
           /\ req' \in [Request -> [order : Order \cup {NoOrder}, next : Status]]
           /\ seenOrder' \in [Request -> OrderRow]
           /\ seen' \in [Request -> [Rows -> Item]]
           /\ phase'[p] = "idle"
           /\ \A q \in Request \ {p} :
                /\ phase'[q] = phase[q]
                /\ req'[q] = req[q]
                /\ seenOrder'[q] = seenOrder[q]
                /\ seen'[q] = seen[q]
<1>1. [order |-> NoOrder, next |-> "draft"] \in [order : Order \cup {NoOrder}, next : Status]
  BY DEF Status
<1>2. Absent \in OrderRow
  BY DEF Absent, OrderRow, Status
<1>3. Nothing \in [Rows -> Item]
  BY DEF Nothing, Item
<1> HIDE DEF Absent, Nothing, OrderRow, Item, Status
<1>4. QED
  BY <1>1, <1>2, <1>3 DEF TypeOK, Reply

(* Answering keeps every busy handler on an order it serves.               *)
LEMMA ReplyWorking ==
    ASSUME TypeOK, Working, NEW p \in Request, Reply(p)
    PROVE  Working'
BY ReplyFrame, Zenon DEF Working

(* Rows rewritten from what a handler has seen hold natural numbers, when  *)
(* no more is taken away than was seen.                                    *)
LEMMA RewrittenRows ==
    ASSUME TypeOK, NEW p \in Request, NEW q \in Int,
           NEW take \in [Rows -> 0..q], NEW sign \in {-1, 1},
           sign = -1 => \A i \in Rows : take[i] <= seen[p][i].reserved
    PROVE  /\ Rewritten(p, take, sign) \in [Rows -> Item]
           /\ \A i \in Rows : Rewritten(p, take, sign)[i].quantity = items[i].quantity
<1> SUFFICES ASSUME NEW i \in Rows
             PROVE  /\ Rewritten(p, take, sign)[i] \in Item
                    /\ Rewritten(p, take, sign)[i].quantity = items[i].quantity
  BY DEF Rewritten
<1>1. items[i] \in Item /\ seen[p][i] \in Item /\ take[i] \in 0..q
  BY DEF TypeOK
<1>2. CASE take[i] = 0
  BY <1>1, <1>2 DEF Rewritten
<1>3. CASE take[i] # 0
  <2>1. seen[p][i].reserved + sign * take[i] \in Nat
    <3>1. CASE sign = 1
      BY <1>1, <3>1 DEF Item
    <3>2. CASE sign = -1
      BY <1>1, <3>2 DEF Item
    <3>3. QED
      BY <3>1, <3>2
  <2>2. QED
    BY <1>1, <1>3, <2>1 DEF Rewritten, Item
<1>4. QED
  BY <1>2, <1>3

-----------------------------------------------------------------------------
(* The steps of a handler keep the types.                                  *)

LEMMA ConfirmType ==
    ASSUME TypeOK, Working, NEW p \in Request, Confirm(p)
    PROVE  TypeOK' /\ Working'
<1>1. phase[p] # "idle" /\ Reply(p)
  BY DEF Confirm
<1>2. OrderOf(p) \in Order /\ Wanted[OrderOf(p)] \in Nat
  BY <1>1, ServedOrder
<1>3. items' \in [Rows -> Item]
  <2>1. PICK take \in [Rows -> 0..Wanted[OrderOf(p)]] : items' = Rewritten(p, take, 1)
    BY DEF Confirm
  <2>2. QED
    BY <1>2, <2>1, RewrittenRows
<1>4. orders' \in [Order -> OrderRow]
  BY <1>2 DEF Confirm, TypeOK, OrderRow, Status
<1>5. out' \in [Order -> Nat] /\ stale' \in BOOLEAN
  BY DEF Confirm, TypeOK
<1>6. QED
  BY <1>1, <1>3, <1>4, <1>5, ReplyFrame, ReplyWorking DEF TypeOK

LEMMA AdvanceType ==
    ASSUME TypeOK, Working, NEW p \in Request, Advance(p)
    PROVE  TypeOK' /\ Working'
<1>1. phase[p] # "idle" /\ Reply(p) /\ UNCHANGED <<items, out, stale>>
  BY DEF Advance
<1>2. OrderOf(p) \in Order
  BY <1>1, ServedOrder
<1>3. orders' \in [Order -> OrderRow]
  BY <1>2 DEF Advance, SetStatus, TypeOK, OrderRow, Status
<1>4. QED
  BY <1>1, <1>3, ReplyFrame, ReplyWorking DEF TypeOK

LEMMA CancelType ==
    ASSUME TypeOK, Working, NEW p \in Request, Cancel(p)
    PROVE  TypeOK' /\ Working'
<1> DEFINE q == Outstanding(OrderOf(p), seenOrder[p])
<1>1. phase[p] # "idle" /\ Reply(p) /\ out' = out
  BY DEF Cancel
<1>2. OrderOf(p) \in Order /\ Wanted[OrderOf(p)] \in Nat /\ q \in Int
  BY <1>1, ServedOrder DEF TypeOK, OrderRow, Outstanding
<1>3. items' \in [Rows -> Item] /\ stale' \in BOOLEAN
  <2>1. CASE TouchesStock(OrderOf(p), "cancelled", seenOrder[p])
    <3>1. PICK take \in [Rows -> 0..q] :
            /\ OldestFirst(Held(seen[p]), q, take)
            /\ items' = Rewritten(p, take, -1)
      BY <2>1 DEF Cancel
    <3>2. \A i \in Rows : take[i] <= seen[p][i].reserved
      BY <3>1 DEF OldestFirst, Held
    <3>3. items' \in [Rows -> Item]
      BY <1>2, <3>1, <3>2, RewrittenRows
    <3>4. QED
      BY <2>1, <3>3 DEF Cancel, TypeOK
  <2>2. CASE ~TouchesStock(OrderOf(p), "cancelled", seenOrder[p])
    BY <2>2 DEF Cancel, TypeOK
  <2>3. QED
    BY <2>1, <2>2
<1>4. orders' \in [Order -> OrderRow]
  BY <1>2 DEF Cancel, SetStatus, TypeOK, OrderRow, Status
<1>5. QED
  BY <1>1, <1>3, <1>4, ReplyFrame, ReplyWorking DEF TypeOK

LEMMA ShipType ==
    ASSUME TypeOK, Working, NEW p \in Request, Ship(p)
    PROVE  TypeOK' /\ Working'
<1> DEFINE o == OrderOf(p)
           q == Outstanding(o, seenOrder[p])
<1>1. phase[p] # "idle" /\ Reply(p)
  BY DEF Ship
<1>2. o \in Order /\ Wanted[o] \in Nat /\ q \in Int
  BY <1>1, ServedOrder DEF TypeOK, OrderRow, Outstanding
<1>3. /\ items' \in [Rows -> Item]
      /\ out' \in [Order -> Nat]
      /\ stale' \in BOOLEAN
  <2>1. CASE TouchesStock(o, "shipped", seenOrder[p])
    <3>1. PICK take \in [Rows -> 0..q] :
            /\ OldestFirst(Held(seen[p]), q, take)
            /\ Covers(AfterShip(Rewritten(p, take, -1)[Home], q))
            /\ items' = [Rewritten(p, take, -1) EXCEPT ![Home] =
                           AfterShip(Rewritten(p, take, -1)[Home], q)]
      BY <2>1 DEF Ship
    <3>2. \A i \in Rows : take[i] <= seen[p][i].reserved
      BY <3>1 DEF OldestFirst, Held
    <3>3. Rewritten(p, take, -1) \in [Rows -> Item]
      BY <1>2, <3>2, RewrittenRows
    <3>4. AfterShip(Rewritten(p, take, -1)[Home], q) \in Item
      BY <1>2, <3>1, <3>3, RowsAssumption DEF AfterShip, Covers, Item
    <3>5. items' \in [Rows -> Item]
      BY <3>1, <3>3, <3>4
    <3>6. q \in Nat
      BY <1>2, <2>1 DEF TouchesStock
    <3>7. out' = [out EXCEPT ![o] = out[o] + q] /\ stale' = (stale \/ seen[p] # items)
      BY <2>1 DEF Ship
    <3>8. QED
      BY <1>2, <3>5, <3>6, <3>7 DEF TypeOK
  <2>2. CASE ~TouchesStock(o, "shipped", seenOrder[p])
    BY <2>2 DEF Ship, TypeOK
  <2>3. QED
    BY <2>1, <2>2
<1>4. orders' \in [Order -> OrderRow]
  BY <1>2 DEF Ship, TypeOK, OrderRow, Status
<1>5. QED
  BY <1>1, <1>3, <1>4, ReplyFrame, ReplyWorking DEF TypeOK

(* Every step of the system keeps the types.                               *)
LEMMA TypeStep ==
    ASSUME TypeOK, Working, [Next]_vars
    PROVE  TypeOK' /\ Working'
<1>1. CASE UNCHANGED vars
  BY <1>1 DEF vars, TypeOK, Working
<1>2. ASSUME NEW o \in Order, CreateOrder(o) PROVE TypeOK' /\ Working'
  BY <1>2 DEF CreateOrder, TypeOK, Working, OrderRow, Status
<1>3. ASSUME NEW p \in Request, Serve(p) PROVE TypeOK' /\ Working'
  <2>1. CASE Arrive(p)
    <3>1. /\ phase' = [phase EXCEPT ![p] = "load"]
          /\ UNCHANGED <<items, orders, out, seenOrder, seen, stale>>
      BY <2>1 DEF Arrive
    <3>2. PICK o \in ServedBy[p], next \in Status \ {"draft"} :
            req' = [req EXCEPT ![p] = [order |-> o, next |-> next]]
      BY <2>1 DEF Arrive
    <3>3. o \in Order
      BY ServedByAssumption
    <3>4. req' \in [Request -> [order : Order \cup {NoOrder}, next : Status]]
      BY <3>2, <3>3 DEF TypeOK
    <3>5. Working'
      BY <3>1, <3>2 DEF Working, TypeOK
    <3>6. QED
      BY <3>1, <3>4, <3>5 DEF TypeOK
  <2>2. CASE Load(p)
    <3>1. phase[p] # "idle" /\ OrderOf(p) \in Order
      BY <2>2, ServedOrder DEF Load
    <3>2. /\ seenOrder' = [seenOrder EXCEPT ![p] = orders[OrderOf(p)]]
          /\ UNCHANGED <<items, orders, out, req, seen, stale>>
      BY <2>2 DEF Load
    <3>3. PICK s \in {"peek", "write"} : phase' = [phase EXCEPT ![p] = s]
      BY <2>2 DEF Load
    <3>4. seenOrder' \in [Request -> OrderRow]
      BY <3>1, <3>2 DEF TypeOK
    <3>5. phase' \in [Request -> {"idle", "load", "peek", "write"}]
      BY <3>3 DEF TypeOK
    <3>6. Working'
      BY <3>1, <3>2, <3>3 DEF Working, TypeOK
    <3>7. QED
      BY <3>2, <3>4, <3>5, <3>6 DEF TypeOK
  <2>3. CASE RefuseTransition(p)
    BY <2>3, ReplyFrame, ReplyWorking DEF RefuseTransition, TypeOK
  <2>4. CASE Peek(p)
    BY <2>4 DEF Peek, TypeOK, Working
  <2>5. CASE Confirm(p)
    BY <2>5, ConfirmType
  <2>6. CASE RefuseConfirm(p)
    BY <2>6, ReplyFrame, ReplyWorking DEF RefuseConfirm, TypeOK
  <2>7. CASE Advance(p)
    BY <2>7, AdvanceType
  <2>8. CASE Cancel(p)
    BY <2>8, CancelType
  <2>9. CASE Ship(p)
    BY <2>9, ShipType
  <2>10. CASE RefuseShip(p)
    BY <2>10, ReplyFrame, ReplyWorking DEF RefuseShip, TypeOK
  <2>11. CASE Abort(p)
    BY <2>11, ReplyFrame, ReplyWorking DEF Abort, TypeOK
  <2>12. QED
    BY <1>3, <2>1, <2>2, <2>3, <2>4, <2>5, <2>6, <2>7, <2>8, <2>9, <2>10, <2>11 DEF Serve
<1>4. ASSUME NEW i \in Rows, NEW d \in {-1, 1}, Adjust(i, d) PROVE TypeOK' /\ Working'
  <2>1. items[i] \in Item /\ items[i].quantity + d \in 0..MaxOnHand
    BY <1>4 DEF Adjust, TypeOK
  <2>2. items[i].quantity + d \in Nat
    BY <2>1 DEF Item
  <2>3. items' \in [Rows -> Item]
    BY <1>4, <2>1, <2>2 DEF Adjust, TypeOK, Item
  <2>4. QED
    BY <1>4, <2>3 DEF Adjust, TypeOK, Working
<1>5. QED
  BY <1>1, <1>2, <1>3, <1>4 DEF Next

(* The initial state is typed and no handler is busy.                      *)
LEMMA TypeInit == Init => TypeOK /\ Working
<1> SUFFICES ASSUME Init PROVE TypeOK /\ Working
  OBVIOUS
<1>1. Absent \in OrderRow
  BY DEF Absent, OrderRow, Status
<1>2. Nothing \in [Rows -> Item]
  BY DEF Nothing, Item
<1>3. items \in [Rows -> Item]
  BY OpeningAssumption DEF Init, Item
<1>4. req \in [Request -> [order : Order \cup {NoOrder}, next : Status]]
  BY DEF Init, Status
<1>5. /\ orders \in [Order -> OrderRow]
      /\ seenOrder \in [Request -> OrderRow]
      /\ seen \in [Request -> [Rows -> Item]]
  BY <1>1, <1>2 DEF Init
<1>6. Working
  BY DEF Init, Working
<1>7. QED
  BY <1>3, <1>4, <1>5, <1>6 DEF Init, TypeOK

(* Whatever requests overlap and however outdated their reads are, on hand *)
(* and reserved quantities never become negative: the row checks of the    *)
(* database (migrations/000003:79-82) are never what stops a request.      *)
THEOREM TypeCorrect == Spec => []TypeOK
<1>1. Init => TypeOK /\ Working
  BY TypeInit
<1>2. (TypeOK /\ Working) /\ [Next]_vars => (TypeOK /\ Working)'
  BY TypeStep
<1>3. QED
  BY <1>1, <1>2, PTL DEF Spec

-----------------------------------------------------------------------------
(* Reservations are covered.                                               *)

Covered(rows) == \A i \in Rows : rows[i].reserved <= rows[i].quantity

(* Reserving no more than is free keeps the rows covered.                  *)
LEMMA ReserveCovered ==
    ASSUME TypeOK, NEW p \in Request, Covered(items), seen[p] = items,
           NEW q \in Int, NEW take \in [Rows -> 0..q],
           \A i \in Rows : take[i] <= Free(seen[p])[i]
    PROVE  Covered(Rewritten(p, take, 1))
<1> SUFFICES ASSUME NEW i \in Rows
             PROVE  Rewritten(p, take, 1)[i].reserved <= Rewritten(p, take, 1)[i].quantity
  BY DEF Covered
<1>1. items[i] \in Item /\ take[i] \in 0..q /\ items[i].reserved <= items[i].quantity
  BY DEF TypeOK, Covered
<1>2. take[i] <= (IF items[i].quantity > items[i].reserved
                  THEN items[i].quantity - items[i].reserved ELSE 0)
  BY DEF Free
<1>3. QED
  BY <1>1, <1>2 DEF Rewritten, Item

(* Releasing no more than was reserved keeps the rows covered.             *)
LEMMA ReleaseCovered ==
    ASSUME TypeOK, NEW p \in Request, Covered(items), seen[p] = items,
           NEW q \in Int, NEW take \in [Rows -> 0..q]
    PROVE  Covered(Rewritten(p, take, -1))
<1> SUFFICES ASSUME NEW i \in Rows
             PROVE  Rewritten(p, take, -1)[i].reserved <= Rewritten(p, take, -1)[i].quantity
  BY DEF Covered
<1>1. items[i] \in Item /\ take[i] \in 0..q /\ items[i].reserved <= items[i].quantity
  BY DEF TypeOK, Covered
<1>2. QED
  BY <1>1 DEF Rewritten, Item

(* One step keeps the rows covered while no write is outdated.             *)
LEMMA CoveredStep ==
    ASSUME TypeOK, Working, ReservedCovered, [Next]_vars
    PROVE  ReservedCovered'
<1> SUFFICES ASSUME ~stale' PROVE Covered(items')
  BY DEF ReservedCovered, Covered
<1>1. CASE UNCHANGED <<items, stale>>
  BY <1>1 DEF ReservedCovered, Covered
<1>2. ASSUME NEW p \in Request, Confirm(p) PROVE Covered(items')
  <2>1. ~stale /\ seen[p] = items
    BY <1>2 DEF Confirm
  <2>2. Wanted[OrderOf(p)] \in Nat
    BY <1>2, ServedOrder DEF Confirm
  <2>3. PICK take \in [Rows -> 0..Wanted[OrderOf(p)]] :
          /\ OldestFirst(Free(seen[p]), Wanted[OrderOf(p)], take)
          /\ items' = Rewritten(p, take, 1)
    BY <1>2 DEF Confirm
  <2>4. \A i \in Rows : take[i] <= Free(seen[p])[i]
    BY <2>3 DEF OldestFirst
  <2>5. QED
    BY <2>1, <2>2, <2>3, <2>4, ReserveCovered DEF ReservedCovered, Covered
<1>3. ASSUME NEW p \in Request, Cancel(p), ~UNCHANGED <<items, stale>>
      PROVE  Covered(items')
  <2> DEFINE q == Outstanding(OrderOf(p), seenOrder[p])
  <2>1. TouchesStock(OrderOf(p), "cancelled", seenOrder[p])
    BY <1>3 DEF Cancel
  <2>2. ~stale /\ seen[p] = items
    BY <1>3, <2>1 DEF Cancel
  <2>3. q \in Int
    <3>1. phase[p] # "idle"
      BY <1>3 DEF Cancel
    <3>2. Wanted[OrderOf(p)] \in Nat
      BY <3>1, ServedOrder
    <3>3. QED
      BY <3>2 DEF TypeOK, OrderRow, Outstanding
  <2>4. PICK take \in [Rows -> 0..q] : items' = Rewritten(p, take, -1)
    BY <1>3, <2>1 DEF Cancel
  <2>5. QED
    BY <2>2, <2>3, <2>4, ReleaseCovered DEF ReservedCovered, Covered
<1>4. ASSUME NEW p \in Request, Ship(p), ~UNCHANGED <<items, stale>>
      PROVE  Covered(items')
  <2> DEFINE q == Outstanding(OrderOf(p), seenOrder[p])
             rel(take) == Rewritten(p, take, -1)
  <2>1. TouchesStock(OrderOf(p), "shipped", seenOrder[p])
    BY <1>4 DEF Ship
  <2>2. ~stale /\ seen[p] = items
    BY <1>4, <2>1 DEF Ship
  <2>3. q \in Int
    <3>1. phase[p] # "idle"
      BY <1>4 DEF Ship
    <3>2. Wanted[OrderOf(p)] \in Nat
      BY <3>1, ServedOrder
    <3>3. QED
      BY <3>2 DEF TypeOK, OrderRow, Outstanding
  <2>4. PICK take \in [Rows -> 0..q] :
          /\ Covers(AfterShip(rel(take)[Home], q))
          /\ items' = [rel(take) EXCEPT ![Home] = AfterShip(rel(take)[Home], q)]
    BY <1>4, <2>1 DEF Ship
  <2>5. Covered(rel(take))
    BY <2>2, <2>3, ReleaseCovered DEF ReservedCovered, Covered
  <2>6. AfterShip(rel(take)[Home], q).reserved <= AfterShip(rel(take)[Home], q).quantity
    BY <2>4 DEF Covers, AfterShip
  <2>7. DOMAIN rel(take) = Rows
    BY DEF Rewritten
  <2> HIDE DEF q, rel
  <2>8. QED
    BY <2>4, <2>5, <2>6, <2>7 DEF Covered
<1>5. ASSUME NEW i \in Rows, NEW d \in {-1, 1}, Adjust(i, d) PROVE Covered(items')
  <2>1. items[i] \in Item /\ ~stale /\ Covered(items)
    BY <1>5 DEF Adjust, TypeOK, ReservedCovered, Covered
  <2>2. items[i].reserved <= items[i].quantity + d
    BY <1>5, <2>1 DEF Adjust, Item, Covered
  <2>3. QED
    BY <1>5, <2>1, <2>2 DEF Adjust, Covered, TypeOK
<1>6. ASSUME NEW p \in Request, Serve(p), ~UNCHANGED <<items, stale>>
      PROVE  Covered(items')
  <2>1. Confirm(p) \/ Cancel(p) \/ Ship(p)
    BY <1>6 DEF Serve, Arrive, Load, RefuseTransition, Peek, RefuseConfirm,
                Advance, RefuseShip, Abort
  <2>2. QED
    BY <1>2, <1>3, <1>4, <1>6, <2>1
<1>7. QED
  <2>1. CASE \E o \in Order : CreateOrder(o)
    BY <1>1, <2>1 DEF CreateOrder
  <2>2. CASE \E p \in Request : Serve(p)
    BY <1>1, <1>6, <2>2
  <2>3. CASE \E i \in Rows, d \in {-1, 1} : Adjust(i, d)
    BY <1>5, <2>3
  <2>4. QED
    BY <1>1, <2>1, <2>2, <2>3 DEF Next, vars

(* As long as no reservation is written from an outdated read, Available   *)
(* (stock/model.go:46) is non-negative on every row: what Confirm reserves,*)
(* what Ship takes and what an adjustment removes never cross.             *)
THEOREM ReservationsCovered == Spec => []ReservedCovered
<1> DEFINE IInv == TypeOK /\ Working /\ ReservedCovered
<1>1. Init => IInv
  BY TypeInit, OpeningAssumption DEF Init, ReservedCovered
<1>2. IInv /\ [Next]_vars => IInv'
  BY TypeStep, CoveredStep
<1>3. QED
  BY <1>1, <1>2, PTL DEF Spec

-----------------------------------------------------------------------------
(* Requests on one order that do not overlap.                              *)

(* What a handler has decided stays decided while others take their steps: *)
(* a step that leaves p alone, its order with it, keeps p's decision.      *)
LEMMA DecidedKept ==
    ASSUME NEW p \in Request,
           phase[p] \in {"peek", "write"} =>
             /\ seenOrder[p] = orders[req[p].order]
             /\ CanTransitionTo(orders[req[p].order].status, req[p].next),
           phase'[p] = phase[p], req'[p] = req[p], seenOrder'[p] = seenOrder[p],
           phase[p] # "idle" => orders'[req[p].order] = orders[req[p].order]
    PROVE  phase'[p] \in {"peek", "write"} =>
             /\ seenOrder'[p] = orders'[req'[p].order]
             /\ CanTransitionTo(orders'[req'[p].order].status, req'[p].next)
<1>1. CASE phase[p] \in {"peek", "write"}
  <2>1. orders'[req'[p].order] = orders[req[p].order]
    BY <1>1
  <2>2. QED
    BY <1>1, <2>1
<1>2. CASE phase[p] \notin {"peek", "write"}
  BY <1>2
<1>3. QED
  BY <1>1, <1>2

(* A handler that answers has changed no order but its own, so the others  *)
(* keep their decisions.                                                   *)
LEMMA DecidedReply ==
    ASSUME OneHandlerPerOrder, TypeOK, Working, Decided,
           NEW p \in Request, phase[p] # "idle", Reply(p),
           \A o \in Order \ {OrderOf(p)} : orders'[o] = orders[o]
    PROVE  Decided'
<1> SUFFICES ASSUME NEW r \in Request
             PROVE  phase'[r] \in {"peek", "write"} =>
                      /\ seenOrder'[r] = orders'[req'[r].order]
                      /\ CanTransitionTo(orders'[req'[r].order].status, req'[r].next)
  BY Zenon DEF Decided
<1>1. CASE r = p
  BY <1>1, ReplyFrame
<1>2. CASE r # p
  <2>1. phase'[r] = phase[r] /\ req'[r] = req[r] /\ seenOrder'[r] = seenOrder[r]
    BY <1>2, ReplyFrame
  <2>2. phase[r] # "idle" => orders'[req[r].order] = orders[req[r].order]
    <3>1. SUFFICES ASSUME phase[r] # "idle" PROVE orders'[req[r].order] = orders[req[r].order]
      OBVIOUS
    <3>2. req[r].order \in ServedBy[r] /\ req[r].order \in Order
      BY <3>1, ServedOrder DEF OrderOf
    <3>3. OrderOf(p) \in ServedBy[p]
      BY ServedOrder
    <3>4. req[r].order # OrderOf(p)
      BY <1>2, <3>2, <3>3 DEF OneHandlerPerOrder
    <3>5. QED
      BY <3>2, <3>4
  <2>3. QED
    BY <2>1, <2>2, DecidedKept DEF Decided
<1>3. QED
  BY <1>1, <1>2

(* What the steps of a handler that write an order do to it.               *)
OneOrderMoves(p, next) ==
    /\ phase[p] = "write"
    /\ req[p].next = next
    /\ Reply(p)
    /\ \A o \in Order \ {OrderOf(p)} : orders'[o] = orders[o] /\ out'[o] = out[o]
    /\ orders'[OrderOf(p)].status = next

LEMMA WritesOneOrder ==
    ASSUME TypeOK, Working, NEW p \in Request
    PROVE  /\ Confirm(p) => OneOrderMoves(p, "confirmed")
           /\ Advance(p) => \E next \in {"picking", "packed", "delivered"} : OneOrderMoves(p, next)
           /\ Cancel(p) => OneOrderMoves(p, "cancelled")
           /\ Ship(p) => OneOrderMoves(p, "shipped")
<1>1. ASSUME Confirm(p) PROVE OneOrderMoves(p, "confirmed")
  <2>1. OrderOf(p) \in Order
    BY <1>1, ServedOrder DEF Confirm
  <2>2. QED
    BY <1>1, <2>1 DEF Confirm, OneOrderMoves, TypeOK
<1>2. ASSUME Advance(p)
      PROVE  \E next \in {"picking", "packed", "delivered"} : OneOrderMoves(p, next)
  <2>1. OrderOf(p) \in Order
    BY <1>2, ServedOrder DEF Advance
  <2>2. OneOrderMoves(p, req[p].next) /\ req[p].next \in {"picking", "packed", "delivered"}
    BY <1>2, <2>1 DEF Advance, SetStatus, OneOrderMoves, TypeOK
  <2>3. QED
    BY <2>2
<1>3. ASSUME Cancel(p) PROVE OneOrderMoves(p, "cancelled")
  <2>1. OrderOf(p) \in Order
    BY <1>3, ServedOrder DEF Cancel
  <2>2. QED
    BY <1>3, <2>1 DEF Cancel, SetStatus, OneOrderMoves, TypeOK
<1>4. ASSUME Ship(p) PROVE OneOrderMoves(p, "shipped")
  <2>1. OrderOf(p) \in Order
    BY <1>4, ServedOrder DEF Ship
  <2>2. out' = out \/ out' = [out EXCEPT ![OrderOf(p)] = @ + Outstanding(OrderOf(p), seenOrder[p])]
    BY <1>4 DEF Ship
  <2>3. \A o \in Order \ {OrderOf(p)} : out'[o] = out[o]
    BY <2>2 DEF TypeOK
  <2>4. /\ orders' = [orders EXCEPT ![OrderOf(p)] =
                        [status |-> "shipped", confirmed |-> orders[OrderOf(p)].confirmed,
                         shipped |-> Wanted[OrderOf(p)]]]
        /\ phase[p] = "write" /\ req[p].next = "shipped" /\ Reply(p)
    BY <1>4 DEF Ship
  <2>5. QED
    BY <2>1, <2>3, <2>4 DEF OneOrderMoves, TypeOK
<1>5. QED
  BY <1>1, <1>2, <1>3, <1>4

(* Where the transitions to a status come from.                            *)
LEMMA TransitionSources ==
    ASSUME NEW s, NEW next, CanTransitionTo(s, next)
    PROVE  /\ next \in {"confirmed", "picking", "packed", "cancelled"} =>
                s \notin {"shipped", "delivered"}
           /\ next = "delivered" => s = "shipped"
           /\ next = "shipped" => s = "packed"
<1>1. s \in Status /\ next \in soTransitions[s]
  BY DEF CanTransitionTo
<1>2. QED
  BY <1>1 DEF soTransitions, Status

(* The action of StatusSteps.                                              *)
StatusLegal ==
    \A o \in Order :
        orders'[o].status # orders[o].status =>
            \/ orders[o].status = "none" /\ orders'[o].status = "draft"
            \/ CanTransitionTo(orders[o].status, orders'[o].status)

(* Movements, line and status of one order agree.                          *)
Agrees(o) ==
    /\ out[o] = orders[o].shipped
    /\ out[o] = (IF orders[o].status \in {"shipped", "delivered"} THEN Wanted[o] ELSE 0)

(* A handler that moves its order moves it legally.                        *)
LEMMA MoveLegal ==
    ASSUME TypeOK, Working, Decided, NEW p \in Request, NEW next, OneOrderMoves(p, next)
    PROVE  StatusLegal /\ CanTransitionTo(orders[OrderOf(p)].status, next)
<1>1. CanTransitionTo(orders[OrderOf(p)].status, next)
  BY DEF Decided, OneOrderMoves, OrderOf
<1>2. \A o \in Order \ {OrderOf(p)} : orders'[o].status = orders[o].status
  BY DEF OneOrderMoves
<1>3. orders'[OrderOf(p)].status = next
  BY DEF OneOrderMoves
<1>4. QED
  BY <1>1, <1>2, <1>3 DEF StatusLegal

(* A move that ships nothing, within the open states or from shipped to    *)
(* delivered, keeps movements, line and status in agreement.               *)
LEMMA AgreesMove ==
    ASSUME TypeOK, Working, Decided, ShippedOnce,
           NEW p \in Request, NEW next, OneOrderMoves(p, next),
           next \in {"confirmed", "picking", "packed", "cancelled", "delivered"},
           out' = out, orders'[OrderOf(p)].shipped = orders[OrderOf(p)].shipped
    PROVE  ShippedOnce'
<1> SUFFICES ASSUME NEW o \in Order PROVE Agrees(o)'
  BY DEF ShippedOnce, Agrees
<1>1. Agrees(o)
  BY DEF ShippedOnce, Agrees
<1>2. CASE o # OrderOf(p)
  <2>1. orders'[o] = orders[o]
    BY <1>2 DEF OneOrderMoves
  <2>2. QED
    BY <1>1, <2>1 DEF Agrees
<1>3. CASE o = OrderOf(p)
  <2>1. CanTransitionTo(orders[o].status, next) /\ orders'[o].status = next
    BY <1>3, MoveLegal DEF OneOrderMoves
  <2>2. next = "delivered" <=> orders[o].status = "shipped"
    BY <2>1, TransitionSources
  <2>3. orders[o].status # "delivered"
    BY <2>1, TransitionSources
  <2>4. orders'[o].shipped = orders[o].shipped
    BY <1>3
  <2>5. QED
    BY <1>1, <2>1, <2>2, <2>3, <2>4 DEF Agrees
<1>4. QED
  BY <1>2, <1>3

(* Ship takes the goods of an order that has shipped nothing.              *)
LEMMA AgreesShip ==
    ASSUME TypeOK, Working, Decided, ShippedOnce, NEW p \in Request, Ship(p)
    PROVE  ShippedOnce'
<1> DEFINE w == OrderOf(p)
           q == Outstanding(w, seenOrder[p])
<1> SUFFICES ASSUME NEW o \in Order PROVE Agrees(o)'
  BY DEF ShippedOnce, Agrees
<1>1. Agrees(o)
  BY DEF ShippedOnce, Agrees
<1>2. OneOrderMoves(p, "shipped")
  BY WritesOneOrder
<1>3. CASE o # w
  <2>1. orders'[o] = orders[o] /\ out'[o] = out[o]
    BY <1>2, <1>3 DEF OneOrderMoves
  <2>2. QED
    BY <1>1, <2>1 DEF Agrees
<1>4. CASE o = w
  <2>1. phase[p] = "write" /\ w \in Order /\ Wanted[w] \in Nat /\ Wanted[w] > 0
    BY ServedOrder DEF Ship
  <2>2. seenOrder[p] = orders[w] /\ orders[w].status = "packed"
    <3>1. seenOrder[p] = orders[w]
      BY <2>1 DEF Decided, OrderOf
    <3>2. CanTransitionTo(orders[w].status, "shipped")
      BY <1>2, MoveLegal
    <3>3. QED
      BY <3>1, <3>2, TransitionSources
  <2>3. out[w] = 0 /\ orders[w].shipped = 0
    BY <1>1, <1>4, <2>2 DEF Agrees
  <2>4. q = Wanted[w]
    BY <2>1, <2>2, <2>3 DEF Outstanding
  <2>5. TouchesStock(w, "shipped", seenOrder[p])
    BY <2>1, <2>4 DEF TouchesStock
  <2>6. out' = [out EXCEPT ![w] = out[w] + q]
    BY <2>5 DEF Ship
  <2>7. out'[w] = Wanted[w]
    BY <2>1, <2>3, <2>4, <2>6 DEF TypeOK
  <2>8. orders'[w].shipped = Wanted[w] /\ orders'[w].status = "shipped"
    BY <2>1 DEF Ship, TypeOK
  <2>9. QED
    BY <1>4, <2>7, <2>8 DEF Agrees
<1>5. QED
  BY <1>3, <1>4

(* A step that writes no order keeps movements and lines in agreement.     *)
LEMMA AgreesFrame ==
    ASSUME ShippedOnce, UNCHANGED <<orders, out>>
    PROVE  ShippedOnce' /\ StatusLegal
BY DEF ShippedOnce, StatusLegal

(* One step of a handler.                                                  *)
LEMMA ServeStep ==
    ASSUME OneHandlerPerOrder, TypeOK, Working, Decided, ShippedOnce,
           NEW p \in Request, Serve(p)
    PROVE  Decided' /\ ShippedOnce' /\ StatusLegal
<1>1. ASSUME NEW next, OneOrderMoves(p, next) PROVE Decided' /\ StatusLegal
  BY <1>1, DecidedReply, MoveLegal DEF OneOrderMoves
<1>2. ASSUME phase[p] # "idle", Reply(p), UNCHANGED <<orders, out>>
      PROVE  Decided' /\ ShippedOnce' /\ StatusLegal
  BY <1>2, DecidedReply, AgreesFrame
<1>3. CASE Arrive(p)
  <2>1. /\ phase[p] = "idle" /\ phase' = [phase EXCEPT ![p] = "load"]
        /\ UNCHANGED <<orders, out, seenOrder>>
    BY <1>3 DEF Arrive
  <2>2. \A r \in Request \ {p} : req'[r] = req[r]
    BY <1>3 DEF Arrive, TypeOK
  <2>3. Decided'
    BY <2>1, <2>2 DEF Decided, TypeOK
  <2>4. QED
    BY <2>1, <2>3, AgreesFrame
<1>4. CASE Load(p)
  <2>1. /\ phase[p] = "load" /\ seenOrder' = [seenOrder EXCEPT ![p] = orders[OrderOf(p)]]
        /\ CanTransitionTo(orders[OrderOf(p)].status, req[p].next)
        /\ UNCHANGED <<orders, out, req>>
    BY <1>4 DEF Load
  <2>2. PICK s \in {"peek", "write"} : phase' = [phase EXCEPT ![p] = s]
    BY <1>4 DEF Load
  <2>3. Decided'
    BY <2>1, <2>2 DEF Decided, TypeOK, OrderOf
  <2>4. QED
    BY <2>1, <2>3, AgreesFrame
<1>5. CASE RefuseTransition(p)
  BY <1>2, <1>5 DEF RefuseTransition
<1>6. CASE Peek(p)
  <2>1. /\ phase[p] = "peek" /\ phase' = [phase EXCEPT ![p] = "write"]
        /\ UNCHANGED <<orders, out, req, seenOrder>>
    BY <1>6 DEF Peek
  <2>2. Decided'
    BY <2>1 DEF Decided, TypeOK
  <2>3. QED
    BY <2>1, <2>2, AgreesFrame
<1>7. CASE Confirm(p)
  <2>1. OneOrderMoves(p, "confirmed")
    BY <1>7, WritesOneOrder
  <2>2. out' = out /\ orders'[OrderOf(p)].shipped = orders[OrderOf(p)].shipped
    <3>1. OrderOf(p) \in Order
      BY <1>7, ServedOrder DEF Confirm
    <3>2. QED
      BY <1>7, <3>1 DEF Confirm, TypeOK
  <2>3. QED
    BY <1>1, <2>1, <2>2, AgreesMove
<1>8. CASE RefuseConfirm(p)
  BY <1>2, <1>8 DEF RefuseConfirm
<1>9. CASE Advance(p)
  <2>1. PICK next \in {"picking", "packed", "delivered"} : OneOrderMoves(p, next)
    BY <1>9, WritesOneOrder
  <2>2. out' = out /\ orders'[OrderOf(p)].shipped = orders[OrderOf(p)].shipped
    <3>1. OrderOf(p) \in Order
      BY <1>9, ServedOrder DEF Advance
    <3>2. QED
      BY <1>9, <3>1 DEF Advance, SetStatus, TypeOK
  <2>3. QED
    BY <1>1, <2>1, <2>2, AgreesMove
<1>10. CASE Cancel(p)
  <2>1. OneOrderMoves(p, "cancelled")
    BY <1>10, WritesOneOrder
  <2>2. out' = out /\ orders'[OrderOf(p)].shipped = orders[OrderOf(p)].shipped
    <3>1. OrderOf(p) \in Order
      BY <1>10, ServedOrder DEF Cancel
    <3>2. QED
      BY <1>10, <3>1 DEF Cancel, SetStatus, TypeOK
  <2>3. QED
    BY <1>1, <2>1, <2>2, AgreesMove
<1>11. CASE Ship(p)
  <2>1. OneOrderMoves(p, "shipped")
    BY <1>11, WritesOneOrder
  <2>2. QED
    BY <1>1, <1>11, <2>1, AgreesShip
<1>12. CASE RefuseShip(p)
  BY <1>2, <1>12 DEF RefuseShip
<1>13. CASE Abort(p)
  BY <1>2, <1>13 DEF Abort
<1>14. QED
  BY <1>3, <1>4, <1>5, <1>6, <1>7, <1>8, <1>9, <1>10, <1>11, <1>12, <1>13 DEF Serve

(* One step of the system.                                                 *)
LEMMA OrderStep ==
    ASSUME OneHandlerPerOrder, TypeOK, Working, Decided, ShippedOnce, [Next]_vars
    PROVE  Decided' /\ ShippedOnce' /\ StatusLegal
<1>1. CASE UNCHANGED vars
  BY <1>1, AgreesFrame DEF vars, Decided
<1>2. ASSUME NEW o \in Order, CreateOrder(o) PROVE Decided' /\ ShippedOnce' /\ StatusLegal
  <2>1. /\ orders[o].status = "none" /\ orders[o].shipped = 0
        /\ UNCHANGED <<out, phase, req, seenOrder>>
    BY <1>2 DEF CreateOrder, Absent
  <2>2. /\ orders'[o].status = "draft" /\ orders'[o].shipped = 0
        /\ \A other \in Order \ {o} : orders'[other] = orders[other]
    BY <1>2 DEF CreateOrder, TypeOK
  <2>3. Decided'
    <3>1. SUFFICES ASSUME NEW p \in Request, phase[p] \in {"peek", "write"}
                   PROVE  orders'[req[p].order] = orders[req[p].order]
      BY <2>1, Zenon DEF Decided
    <3>2. CanTransitionTo(orders[req[p].order].status, req[p].next)
      BY <3>1 DEF Decided
    <3>3. req[p].order # o
      BY <2>1, <3>2 DEF CanTransitionTo, Status
    <3>4. req[p].order \in Order
      BY <3>1, ServedOrder DEF OrderOf
    <3>5. QED
      BY <2>2, <3>3, <3>4
  <2>4. ShippedOnce'
    BY <2>1, <2>2 DEF ShippedOnce
  <2>5. StatusLegal
    BY <2>1, <2>2 DEF StatusLegal
  <2>6. QED
    BY <2>3, <2>4, <2>5
<1>3. ASSUME NEW i \in Rows, NEW d \in {-1, 1}, Adjust(i, d)
      PROVE  Decided' /\ ShippedOnce' /\ StatusLegal
  BY <1>3, AgreesFrame DEF Adjust, Decided
<1>4. QED
  BY <1>1, <1>2, <1>3, ServeStep DEF Next

LEMMA OrderInit == Init => Decided /\ ShippedOnce
BY DEF Init, Decided, ShippedOnce, Absent

(* When the requests on one order do not overlap, its goods leave the      *)
(* warehouse exactly once, when it is shipped: whatever other orders,      *)
(* adjustments, refusals and crashes happen in between.                    *)
THEOREM OrdersShippedOnce ==
    ASSUME OneHandlerPerOrder
    PROVE  Spec => []ShippedOnce
<1> DEFINE IInv == TypeOK /\ Working /\ Decided /\ ShippedOnce
<1>1. Init => IInv
  BY TypeInit, OrderInit
<1>2. IInv /\ [Next]_vars => IInv'
  BY TypeStep, OrderStep
<1>3. QED
  BY <1>1, <1>2, PTL DEF Spec

(* When the requests on one order do not overlap, an order only ever moves *)
(* along soTransitions (sales/model.go:43-54).                             *)
THEOREM OrdersMoveLegally ==
    ASSUME OneHandlerPerOrder
    PROVE  Spec => StatusSteps
<1> DEFINE IInv == TypeOK /\ Working /\ Decided /\ ShippedOnce
<1>1. Init => IInv
  BY TypeInit, OrderInit
<1>2. IInv /\ [Next]_vars => IInv'
  BY TypeStep, OrderStep
<1>3. IInv /\ [Next]_vars => [StatusLegal]_vars
  BY OrderStep
<1>4. Spec => [][StatusLegal]_vars
  BY <1>1, <1>2, <1>3, PTL DEF Spec
<1>5. QED
  BY <1>4 DEF StatusSteps, StatusLegal
-----------------------------------------------------------------------------
(* What remains when requests on one order overlap.                        *)

(* What a handler has decided on permitted it, and what it saw shipped has *)
(* been.                                                                   *)
SeenBacked ==
    \A p \in Request : phase[p] \in {"peek", "write"} =>
        /\ CanTransitionTo(seenOrder[p].status, req[p].next)
        /\ seenOrder[p].shipped \in {0, Wanted[OrderOf(p)]}
        /\ seenOrder[p].shipped # 0 => orders[OrderOf(p)].shipped # 0
        /\ seenOrder[p].status = "shipped" => seenOrder[p].shipped # 0

Backed(o) ==
    /\ orders[o].shipped \in {0, Wanted[o]}
    /\ orders[o].shipped <= out[o]
    /\ out[o] > 0 => orders[o].shipped = Wanted[o]
    /\ orders[o].status \in {"shipped", "delivered"} => orders[o].shipped = Wanted[o]

(* A step takes nothing back that was shipped.                             *)
ShippedKept == \A o \in Order : orders[o].shipped # 0 => orders'[o].shipped # 0

(* A handler that another step leaves alone keeps what it saw.             *)
LEMMA SeenBackedKept ==
    ASSUME TypeOK, Working, SeenBacked, ShippedKept, NEW r \in Request,
           phase'[r] \in {"peek", "write"},
           phase[r] \in {"peek", "write"}, req'[r] = req[r], seenOrder'[r] = seenOrder[r]
    PROVE  /\ CanTransitionTo(seenOrder'[r].status, req'[r].next)
           /\ seenOrder'[r].shipped \in {0, Wanted[req'[r].order]}
           /\ seenOrder'[r].shipped # 0 => orders'[req'[r].order].shipped # 0
           /\ seenOrder'[r].status = "shipped" => seenOrder'[r].shipped # 0
<1>1. req[r].order \in Order
  BY ServedOrder DEF OrderOf
<1>2. /\ CanTransitionTo(seenOrder[r].status, req[r].next)
      /\ seenOrder[r].shipped \in {0, Wanted[req[r].order]}
      /\ seenOrder[r].shipped # 0 => orders[req[r].order].shipped # 0
      /\ seenOrder[r].status = "shipped" => seenOrder[r].shipped # 0
  BY DEF SeenBacked, OrderOf
<1>3. QED
  BY <1>1, <1>2 DEF ShippedKept

LEMMA SeenBackedStep ==
    ASSUME TypeOK, Working, SeenBacked, ShipmentsRecorded, ShippedKept, [Next]_vars
    PROVE  SeenBacked'
<1> DEFINE Good(r) ==
      phase'[r] \in {"peek", "write"} =>
        /\ CanTransitionTo(seenOrder'[r].status, req'[r].next)
        /\ seenOrder'[r].shipped \in {0, Wanted[req'[r].order]}
        /\ seenOrder'[r].shipped # 0 => orders'[req'[r].order].shipped # 0
        /\ seenOrder'[r].status = "shipped" => seenOrder'[r].shipped # 0
<1>1. SUFFICES ASSUME NEW r \in Request PROVE Good(r)
  BY DEF SeenBacked, OrderOf, CanTransitionTo, soTransitions
<1>2. ASSUME phase'[r] = phase[r], req'[r] = req[r], seenOrder'[r] = seenOrder[r]
      PROVE  Good(r)
  BY <1>2, SeenBackedKept
<1>3. CASE UNCHANGED <<phase, req, seenOrder>>
  BY <1>2, <1>3
<1>4. ASSUME NEW p \in Request, Reply(p) PROVE Good(r)
  BY <1>2, <1>4, ReplyFrame
<1>5. ASSUME NEW p \in Request, Arrive(p) PROVE Good(r)
  <2>1. p # r => phase'[r] = phase[r] /\ req'[r] = req[r] /\ seenOrder'[r] = seenOrder[r]
    BY <1>5 DEF Arrive, TypeOK
  <2>2. p = r => phase'[r] = "load"
    BY <1>5 DEF Arrive, TypeOK
  <2>3. QED
    BY <1>2, <2>1, <2>2
<1>6. ASSUME NEW p \in Request, Load(p) PROVE Good(r)
  <2>1. p # r => phase'[r] = phase[r] /\ req'[r] = req[r] /\ seenOrder'[r] = seenOrder[r]
    BY <1>6 DEF Load, TypeOK
  <2>2. CASE p = r
    <3>1. /\ CanTransitionTo(orders[OrderOf(r)].status, req[r].next)
          /\ seenOrder'[r] = orders[OrderOf(r)] /\ req' = req /\ orders' = orders
      BY <1>6, <2>2 DEF Load, TypeOK
    <3>2. OrderOf(r) \in Order /\ Wanted[OrderOf(r)] # 0
      BY <1>6, <2>2, ServedOrder DEF Load
    <3>3. /\ orders[OrderOf(r)].shipped \in {0, Wanted[OrderOf(r)]}
          /\ orders[OrderOf(r)].status = "shipped" => orders[OrderOf(r)].shipped = Wanted[OrderOf(r)]
      BY <3>2 DEF ShipmentsRecorded
    <3>4. QED
      BY <3>1, <3>2, <3>3 DEF OrderOf
  <2>3. QED
    BY <1>2, <2>1, <2>2
<1>7. ASSUME NEW p \in Request, Peek(p) PROVE Good(r)
  <2>1. UNCHANGED <<req, seenOrder>> /\ (p # r => phase'[r] = phase[r])
    BY <1>7 DEF Peek, TypeOK
  <2>2. p = r => phase[r] = "peek"
    BY <1>7 DEF Peek
  <2>3. QED
    BY <1>2, <2>1, <2>2, SeenBackedKept
<1>8. QED
  BY <1>3, <1>4, <1>5, <1>6, <1>7
     DEF Next, Serve, CreateOrder, Adjust, RefuseTransition, Confirm, RefuseConfirm, Advance,
         Cancel, Ship, RefuseShip, Abort, vars

(* A handler that writes a status other than shipped touches no shipment,  *)
(* and writes delivered only over an order whose goods have left.          *)
LEMMA BackedMove ==
    ASSUME TypeOK, Working, SeenBacked, ShipmentsRecorded,
           NEW p \in Request, NEW next \in Status \ {"shipped"}, OneOrderMoves(p, next),
           out' = out, orders'[OrderOf(p)].shipped = orders[OrderOf(p)].shipped
    PROVE  \A o \in Order : Backed(o)' /\ (orders[o].shipped # 0 => orders'[o].shipped # 0)
<1>0. phase[p] = "write" /\ OrderOf(p) \in Order
  BY ServedOrder DEF OneOrderMoves
<1>1. PICK w \in Order : w = OrderOf(p)
  BY <1>0
<1>2. ASSUME next = "delivered" PROVE orders[w].shipped = Wanted[w]
  <2>1. seenOrder[p].status = "shipped"
    BY <1>0, <1>2, TransitionSources DEF SeenBacked, OneOrderMoves
  <2>2. orders[w].shipped # 0
    BY <1>0, <1>1, <2>1 DEF SeenBacked
  <2>3. QED
    BY <1>1, <2>2 DEF ShipmentsRecorded
<1>3. \A o \in Order : Backed(o)
  BY DEF ShipmentsRecorded, Backed
<1>4. Backed(w)'
  BY <1>1, <1>2, <1>3 DEF Backed, OneOrderMoves
<1>5. ASSUME NEW o \in Order \ {w} PROVE orders'[o] = orders[o] /\ Backed(o)'
  BY <1>1, <1>3 DEF Backed, OneOrderMoves
<1>6. QED
  BY <1>1, <1>4, <1>5

(* A shipment moves what it still saw outstanding, which is the whole line *)
(* or nothing.                                                             *)
LEMMA BackedShip ==
    ASSUME TypeOK, Working, SeenBacked, ShipmentsRecorded, NEW p \in Request, Ship(p)
    PROVE  \A o \in Order : Backed(o)' /\ (orders[o].shipped # 0 => orders'[o].shipped # 0)
<1>0. /\ phase[p] = "write" /\ OrderOf(p) \in Order
      /\ OneOrderMoves(p, "shipped")
  BY ServedOrder, WritesOneOrder DEF Ship
<1>1. PICK w \in Order : w = OrderOf(p)
  BY <1>0
<1> DEFINE q == Outstanding(w, seenOrder[p])
<1>2. Wanted[w] \in Nat /\ Wanted[w] > 0 /\ out[w] \in Nat
  BY WantedAssumption DEF TypeOK
<1>3. seenOrder[p].shipped \in {0, Wanted[w]}
      /\ (seenOrder[p].shipped # 0 => orders[w].shipped # 0)
  BY <1>0, <1>1 DEF SeenBacked
<1>4. orders'[w].shipped = Wanted[w] /\ orders'[w].status = "shipped"
  BY <1>0, <1>1 DEF Ship, TypeOK
<1>5. \A o \in Order : Backed(o)
  BY DEF ShipmentsRecorded, Backed
<1>6. Wanted[w] <= out'[w]
  <2>1. CASE seenOrder[p].shipped = 0
    <3>1. q = Wanted[w]
      BY <1>2, <2>1 DEF Outstanding
    <3>2. TouchesStock(w, "shipped", seenOrder[p])
      BY <1>2, <3>1 DEF TouchesStock
    <3>3. out' = [out EXCEPT ![w] = out[w] + q]
      BY <1>1, <3>2 DEF Ship
    <3>4. out'[w] = out[w] + Wanted[w]
      BY <3>1, <3>3 DEF TypeOK
    <3>5. QED
      BY <1>2, <3>4
  <2>2. CASE seenOrder[p].shipped # 0
    <3>1. q = 0
      BY <1>2, <1>3, <2>2 DEF Outstanding
    <3>2. ~TouchesStock(w, "shipped", seenOrder[p])
      BY <3>1 DEF TouchesStock
    <3>3. out' = out
      BY <1>1, <3>2 DEF Ship
    <3>4. orders[w].shipped = Wanted[w]
      BY <1>1, <1>3, <1>5, <2>2 DEF Backed
    <3>5. QED
      BY <1>1, <1>5, <3>3, <3>4 DEF Backed
  <2>3. QED
    BY <2>1, <2>2
<1>7. Backed(w)'
  BY <1>2, <1>4, <1>6 DEF Backed
<1>8. ASSUME NEW o \in Order \ {w} PROVE orders'[o] = orders[o] /\ Backed(o)'
  BY <1>0, <1>1, <1>5 DEF Backed, OneOrderMoves
<1>9. QED
  BY <1>2, <1>4, <1>7, <1>8

LEMMA BackedStep ==
    ASSUME TypeOK, Working, SeenBacked, ShipmentsRecorded, [Next]_vars
    PROVE  ShipmentsRecorded' /\ ShippedKept
<1>1. SUFFICES \A o \in Order : Backed(o)' /\ (orders[o].shipped # 0 => orders'[o].shipped # 0)
  BY DEF ShipmentsRecorded, ShippedKept, Backed
<1>2. \A o \in Order : Backed(o)
  BY DEF ShipmentsRecorded, Backed
<1>3. CASE UNCHANGED <<orders, out>>
  BY <1>2, <1>3 DEF Backed
<1>4. ASSUME NEW x \in Order, CreateOrder(x)
      PROVE  \A o \in Order : Backed(o)' /\ (orders[o].shipped # 0 => orders'[o].shipped # 0)
  <2>1. orders[x].shipped = 0 /\ orders[x].status = "none" /\ out' = out
    BY <1>4 DEF CreateOrder, Absent
  <2>2. /\ orders'[x].status = "draft" /\ orders'[x].shipped = 0
        /\ \A o \in Order \ {x} : orders'[o] = orders[o]
    BY <1>4 DEF CreateOrder, TypeOK
  <2>3. QED
    BY <1>2, <2>1, <2>2 DEF Backed
<1>5. ASSUME NEW p \in Request, Confirm(p)
      PROVE  \A o \in Order : Backed(o)' /\ (orders[o].shipped # 0 => orders'[o].shipped # 0)
  <2>1. OneOrderMoves(p, "confirmed")
    BY <1>5, WritesOneOrder
  <2>2. OrderOf(p) \in Order
    BY <1>5, ServedOrder DEF Confirm
  <2>3. out' = out /\ orders'[OrderOf(p)].shipped = orders[OrderOf(p)].shipped
    BY <1>5, <2>2 DEF Confirm, TypeOK
  <2>4. "confirmed" \in Status \ {"shipped"}
    BY DEF Status
  <2>5. QED
    BY <2>1, <2>3, <2>4, BackedMove
<1>6. ASSUME NEW p \in Request, Advance(p)
      PROVE  \A o \in Order : Backed(o)' /\ (orders[o].shipped # 0 => orders'[o].shipped # 0)
  <2>1. PICK next \in {"picking", "packed", "delivered"} : OneOrderMoves(p, next)
    BY <1>6, WritesOneOrder
  <2>2. OrderOf(p) \in Order
    BY <1>6, ServedOrder DEF Advance
  <2>3. out' = out /\ orders'[OrderOf(p)].shipped = orders[OrderOf(p)].shipped
    BY <1>6, <2>2 DEF Advance, SetStatus, TypeOK
  <2>4. next \in Status \ {"shipped"}
    BY DEF Status
  <2>5. QED
    BY <2>1, <2>3, <2>4, BackedMove
<1>7. ASSUME NEW p \in Request, Cancel(p)
      PROVE  \A o \in Order : Backed(o)' /\ (orders[o].shipped # 0 => orders'[o].shipped # 0)
  <2>1. OneOrderMoves(p, "cancelled")
    BY <1>7, WritesOneOrder
  <2>2. OrderOf(p) \in Order
    BY <1>7, ServedOrder DEF Cancel
  <2>3. out' = out /\ orders'[OrderOf(p)].shipped = orders[OrderOf(p)].shipped
    BY <1>7, <2>2 DEF Cancel, SetStatus, TypeOK
  <2>4. "cancelled" \in Status \ {"shipped"}
    BY DEF Status
  <2>5. QED
    BY <2>1, <2>3, <2>4, BackedMove
<1>8. ASSUME NEW p \in Request, Serve(p), ~UNCHANGED <<orders, out>>
      PROVE  \A o \in Order : Backed(o)' /\ (orders[o].shipped # 0 => orders'[o].shipped # 0)
  <2>1. Confirm(p) \/ Advance(p) \/ Cancel(p) \/ Ship(p)
    BY <1>8 DEF Serve, Arrive, Load, RefuseTransition, Peek, RefuseConfirm, RefuseShip, Abort
  <2>2. QED
    BY <1>5, <1>6, <1>7, <2>1, BackedShip
<1>9. QED
  BY <1>3, <1>4, <1>8 DEF Next, Adjust, vars

(* Whatever requests on one order overlap, an order never claims goods     *)
(* that did not leave for it, and goods that left are on record, for the   *)
(* whole line: the constraint so_lines_no_over_ship is a backstop only.    *)
THEOREM ShipmentsAreRecorded == Spec => []ShipmentsRecorded
<1> DEFINE IInv == TypeOK /\ Working /\ SeenBacked /\ ShipmentsRecorded
<1>1. Init => IInv
  <2> SUFFICES ASSUME Init PROVE IInv
    OBVIOUS
  <2>1. SeenBacked
    BY DEF Init, SeenBacked
  <2>2. ShipmentsRecorded
    BY DEF Init, ShipmentsRecorded, Absent
  <2>3. QED
    BY TypeInit, <2>1, <2>2
<1>2. IInv /\ [Next]_vars => IInv'
  BY TypeStep, BackedStep, SeenBackedStep
<1>3. QED
  BY <1>1, <1>2, PTL DEF Spec

-----------------------------------------------------------------------------
(* What is reserved is what the open orders still wait for.                *)

(* An order that is open has been confirmed, a draft has not.              *)
Flagged ==
    \A o \in Order :
        /\ Open(o) => orders[o].confirmed
        /\ orders[o].status \in {"none", "draft"} => ~orders[o].confirmed

LEMMA RowsFinite == IsFiniteSet(Rows)
BY RowsAssumption, FS_Interval DEF Rows

(* An open order waits for its whole line, any other for nothing.          *)
LEMMA OwedValue ==
    ASSUME TypeOK, ShippedOnce, NEW o \in Order
    PROVE  /\ Owed[o] = IF Open(o) THEN Wanted[o] ELSE 0
           /\ Owed[o] \in Nat
<1>1. Wanted[o] \in Nat
  BY WantedAssumption
<1>2. Open(o) => orders[o].shipped = 0
  BY DEF ShippedOnce, Open
<1>3. QED
  BY <1>1, <1>2 DEF Owed, Outstanding

(* The promises change by what one order no longer, or newly, waits for.   *)
LEMMA PromisedMoves ==
    ASSUME TypeOK, TypeOK', ShippedOnce, ShippedOnce', NEW o \in Order,
           \A other \in Order \ {o} : orders'[other] = orders[other]
    PROVE  /\ Promised' = Promised - Owed[o] + Owed'[o]
           /\ Owed[o] <= Promised
           /\ Promised \in Nat
<1>1. \A x \in Order : Owed[x] \in Nat
  BY OwedValue
<1>2. \A x \in Order : Owed'[x] \in Nat
  <2>1. ASSUME NEW x \in Order PROVE Owed'[x] \in Nat
    <3>1. Wanted[x] \in Nat
      BY WantedAssumption
    <3>2. Open(x)' => orders'[x].shipped = 0
      BY DEF ShippedOnce, Open
    <3>3. QED
      BY <3>1, <3>2 DEF Owed, Outstanding
  <2>2. QED
    BY <2>1
<1>3. \A x \in Order \ {o} : Owed'[x] = Owed[x]
  BY DEF Owed, Open, Outstanding
<1> HIDE DEF Owed
<1>4. SumFunctionOnSet(Owed', Order) = SumFunctionOnSet(Owed, Order) - Owed[o] + Owed'[o]
  BY <1>1, <1>2, <1>3, FiniteOrders, SumChanged
<1>5. Owed[o] <= SumFunctionOnSet(Owed, Order)
  BY <1>1, FiniteOrders, SumCovers
<1>6. SumFunctionOnSet(Owed, Order) \in Nat
  BY <1>1, FiniteOrders, SumOfNaturals
<1>7. QED
  BY <1>4, <1>5, <1>6 DEF Promised

(* Rows rewritten from an up-to-date read hold what they held and what was *)
(* taken, or less what was taken.                                          *)
LEMMA RewrittenHeld ==
    ASSUME TypeOK, NEW p \in Request, seen[p] = items, NEW q \in Int,
           NEW take \in [Rows -> 0..q], NEW sign \in {-1, 1}
    PROVE  /\ Total(Held(Rewritten(p, take, sign))) = Total(Held(items)) + sign * Total(take)
           /\ Total(take) \in Nat
<1> DEFINE old == Held(items)
           new == Held(Rewritten(p, take, sign))
<1>1. ASSUME NEW i \in Rows
      PROVE  /\ old[i] \in Int /\ take[i] \in Nat /\ new[i] \in Int
             /\ new[i] = old[i] + sign * take[i]
  <2>1. items[i] \in Item /\ take[i] \in 0..q
    BY DEF TypeOK
  <2>2. QED
    BY <2>1 DEF Held, Rewritten, Item
<1> HIDE DEF old, new
<1>2. SumFunctionOnSet(take, Rows) \in Nat
  BY <1>1, RowsFinite, SumOfNaturals
<1>3. SumFunctionOnSet(old, Rows) \in Int
  BY <1>1, RowsFinite, SumType
<1>4. SumFunctionOnSet(new, Rows) \in Int
  BY <1>1, RowsFinite, SumType
<1>5. CASE sign = 1
  <2>1. \A i \in Rows : old[i] \in Int /\ take[i] \in Int /\ new[i] = old[i] + take[i]
    BY <1>1, <1>5
  <2>2. SumFunctionOnSet(new, Rows) = SumFunctionOnSet(old, Rows) + SumFunctionOnSet(take, Rows)
    BY <1>1, <2>1, RowsFinite, SumOfSums
  <2>3. QED
    BY <1>2, <1>3, <1>5, <2>2 DEF Total, old, new
<1>6. CASE sign = -1
  <2>1. \A i \in Rows : old[i] \in Int /\ take[i] \in Int /\ old[i] = new[i] + take[i]
    BY <1>1, <1>6
  <2>2. SumFunctionOnSet(old, Rows) = SumFunctionOnSet(new, Rows) + SumFunctionOnSet(take, Rows)
    BY <1>1, <2>1, RowsFinite, SumOfSums
  <2>3. QED
    BY <1>2, <1>3, <1>4, <1>6, <2>2 DEF Total, old, new
<1>7. QED
  BY <1>5, <1>6

(* Released is what is asked for, or all that is held.                     *)
LEMMA ReleaseHeld ==
    ASSUME TypeOK, NEW p \in Request, seen[p] = items, NEW q \in Nat,
           NEW take \in [Rows -> 0..q], OldestFirst(Held(seen[p]), q, take),
           q <= Total(Held(items))
    PROVE  Total(Held(Rewritten(p, take, -1))) = Total(Held(items)) - q
<1>1. Total(take) = q
  <2> DEFINE t == Total(Held(items))
  <2>1. t \in Int
    <3>1. \A i \in Rows : Held(items)[i] \in Int
      BY DEF TypeOK, Item, Held
    <3>2. QED
      BY <3>1, RowsFinite, SumType DEF Total
  <2>2. Total(take) = (IF t < q THEN t ELSE q) /\ q <= t
    BY DEF OldestFirst
  <2> HIDE DEF t
  <2>3. QED
    BY <2>1, <2>2
<1> DEFINE t == Total(Held(items))
           n == Total(Held(Rewritten(p, take, -1)))
<1>2. n = t + (-1) * Total(take)
  BY RewrittenHeld
<1>3. t \in Int
  <2>1. \A i \in Rows : Held(items)[i] \in Int
    BY DEF TypeOK, Item, Held
  <2>2. QED
    BY <2>1, RowsFinite, SumType DEF Total
<1> HIDE DEF t, n
<1>4. n = t - q
  BY <1>1, <1>2, <1>3
<1>5. QED
  BY <1>4 DEF t, n

(* Where each move comes from.                                             *)
LEMMA MoveSources ==
    ASSUME TypeOK, Working, Decided, NEW p \in Request, NEW next, OneOrderMoves(p, next)
    PROVE  LET was == orders[OrderOf(p)].status
           IN  /\ next = "confirmed" => was = "draft"
               /\ next \in {"picking", "packed", "shipped"} => Open(OrderOf(p))
               /\ next = "delivered" => was = "shipped"
               /\ next = "cancelled" => was = "draft" \/ Open(OrderOf(p))
<1> DEFINE was == orders[OrderOf(p)].status
<1>1. CanTransitionTo(was, next)
  BY MoveLegal
<1>2. was \in Status /\ next \in soTransitions[was]
  BY <1>1 DEF CanTransitionTo
<1>3. Open(OrderOf(p)) <=> was \in {"confirmed", "picking", "packed"}
  BY DEF Open
<1> HIDE DEF was
<1>4. QED
  BY <1>2, <1>3 DEF was, soTransitions, Status

(* A handler's move keeps the flags.                                       *)
LEMMA FlaggedMove ==
    ASSUME TypeOK, Working, Decided, Flagged, NEW p \in Request, NEW next,
           OneOrderMoves(p, next), next # "draft", next # "none",
           \/ next = "confirmed" /\ orders'[OrderOf(p)].confirmed
           \/ next # "confirmed" /\ orders'[OrderOf(p)].confirmed = orders[OrderOf(p)].confirmed
    PROVE  Flagged'
<1> SUFFICES ASSUME NEW o \in Order
             PROVE  /\ Open(o)' => orders'[o].confirmed
                    /\ orders'[o].status \in {"none", "draft"} => ~orders'[o].confirmed
  BY DEF Flagged
<1>1. CASE o # OrderOf(p)
  <2>1. orders'[o] = orders[o]
    BY <1>1 DEF OneOrderMoves
  <2>2. QED
    BY <2>1 DEF Flagged, Open
<1>2. CASE o = OrderOf(p)
  <2>1. orders'[o].status = next
    BY <1>2 DEF OneOrderMoves
  <2>2. next \in {"picking", "packed"} => orders[o].confirmed
    BY <1>2, MoveSources DEF Flagged
  <2>3. CASE next = "confirmed" /\ orders'[o].confirmed
    BY <2>1, <2>3 DEF Open
  <2>4. CASE orders'[o].confirmed = orders[o].confirmed /\ next # "confirmed"
    BY <2>1, <2>2, <2>4 DEF Open
  <2>5. QED
    BY <1>2, <2>3, <2>4
<1>3. QED
  BY <1>1, <1>2

(* A move between two open states, or between two that are not, changes    *)
(* no promise.                                                             *)
LEMMA PromisedKept ==
    ASSUME TypeOK, TypeOK', ShippedOnce, ShippedOnce', NEW o \in Order,
           \A other \in Order \ {o} : orders'[other] = orders[other],
           Open(o)' = Open(o)
    PROVE  Promised' = Promised
<1>1. Owed[o] = (IF Open(o) THEN Wanted[o] ELSE 0) /\ Owed[o] \in Nat
  BY OwedValue
<1>2. Owed'[o] = (IF Open(o)' THEN Wanted[o] ELSE 0)
  <2>1. Wanted[o] \in Nat /\ (Open(o)' => orders'[o].shipped = 0)
    BY WantedAssumption DEF ShippedOnce, Open
  <2>2. QED
    BY <2>1 DEF Owed, Outstanding
<1>3. Promised' = Promised - Owed[o] + Owed'[o] /\ Promised \in Nat
  BY PromisedMoves
<1>4. QED
  BY <1>1, <1>2, <1>3

(* An order that opens or closes adds or withdraws its line.               *)
LEMMA PromisedTurns ==
    ASSUME TypeOK, TypeOK', ShippedOnce, ShippedOnce', NEW o \in Order,
           \A other \in Order \ {o} : orders'[other] = orders[other]
    PROVE  /\ ~Open(o) /\ Open(o)' => Promised' = Promised + Wanted[o]
           /\ Open(o) /\ ~Open(o)' => /\ Promised' = Promised - Wanted[o]
                                      /\ Wanted[o] <= Promised
<1>1. Owed[o] = (IF Open(o) THEN Wanted[o] ELSE 0) /\ Wanted[o] \in Nat
  BY OwedValue, WantedAssumption
<1>2. Owed'[o] = (IF Open(o)' THEN Wanted[o] ELSE 0)
  <2>1. Wanted[o] \in Nat /\ (Open(o)' => orders'[o].shipped = 0)
    BY WantedAssumption DEF ShippedOnce, Open
  <2>2. QED
    BY <2>1 DEF Owed, Outstanding
<1>3. Promised' = Promised - Owed[o] + Owed'[o] /\ Owed[o] <= Promised /\ Promised \in Nat
  BY PromisedMoves
<1>4. QED
  BY <1>1, <1>2, <1>3

(* Everything a step is taken from.                                        *)
Consistent ==
    TypeOK /\ Working /\ Decided /\ ShippedOnce /\ Flagged /\ ReservedMatchesOrders

LEMMA ConfirmMatches ==
    ASSUME Consistent, TypeOK', ShippedOnce', NEW p \in Request, Confirm(p)
    PROVE  Flagged' /\ ReservedMatchesOrders'
<1> USE DEF Consistent
<1>0. PICK w \in Order : w = OrderOf(p)
  BY ServedOrder DEF Confirm
<1>1. OneOrderMoves(p, "confirmed") /\ Wanted[w] \in Nat
  BY WritesOneOrder, WantedAssumption
<1>2. orders[w].status = "draft" /\ orders'[w].status = "confirmed" /\ orders'[w].confirmed
  <2>1. orders[w].status = "draft"
    BY <1>0, <1>1, MoveSources
  <2>2. orders'[w] = [status |-> "confirmed", confirmed |-> TRUE, shipped |-> orders[w].shipped]
    BY <1>0, <1>1 DEF Confirm, TypeOK
  <2>3. QED
    BY <2>1, <2>2
<1>3. Flagged'
  BY <1>0, <1>1, <1>2, FlaggedMove
<1>4. ASSUME ~stale' PROVE Total(Held(items))' = Promised'
  <2>1. ~stale /\ seen[p] = items
    BY <1>4 DEF Confirm
  <2>2. PICK take \in [Rows -> 0..Wanted[w]] :
          Total(take) = Wanted[w] /\ items' = Rewritten(p, take, 1)
    BY <1>0 DEF Confirm
  <2>3. Total(Held(Rewritten(p, take, 1))) = Total(Held(items)) + 1 * Total(take)
    BY <1>0, <1>1, <2>1, RewrittenHeld
  <2>4. Promised' = Promised + Wanted[w] /\ Promised \in Nat
    <3>1. ~Open(w) /\ Open(w)'
      BY <1>2 DEF Open
    <3>2. \A other \in Order \ {w} : orders'[other] = orders[other]
      BY <1>0, <1>1 DEF OneOrderMoves
    <3>3. QED
      BY <1>0, <1>1, <3>1, <3>2, PromisedTurns, PromisedMoves
  <2>5. Total(Held(items)) = Promised
    BY <2>1 DEF ReservedMatchesOrders
  <2>6. Total(Held(items))' = Total(Held(Rewritten(p, take, 1)))
    BY <2>2 DEF Total, Held
  <2>7. QED
    BY <1>0, <1>1, <2>2, <2>3, <2>4, <2>5, <2>6
<1>5. QED
  BY <1>3, <1>4 DEF ReservedMatchesOrders

(* Advance keeps an order open, or moves it from shipped to delivered.     *)
LEMMA AdvanceMatches ==
    ASSUME Consistent, TypeOK', ShippedOnce', NEW p \in Request, Advance(p)
    PROVE  Flagged' /\ ReservedMatchesOrders'
<1> USE DEF Consistent
<1>1. PICK next \in {"picking", "packed", "delivered"} : OneOrderMoves(p, next)
  BY WritesOneOrder
<1>2. PICK w \in Order : w = OrderOf(p)
  BY ServedOrder DEF Advance
<1>3. orders'[w].status = next /\ orders'[w].confirmed = orders[w].confirmed
  BY <1>1, <1>2 DEF Advance, SetStatus, OneOrderMoves, TypeOK
<1>4. Flagged'
  BY <1>1, <1>2, <1>3, FlaggedMove
<1>5. Promised' = Promised
  <2>1. Open(w)' = Open(w)
    BY <1>1, <1>2, <1>3, MoveSources DEF Open
  <2>2. \A other \in Order \ {w} : orders'[other] = orders[other]
    BY <1>1, <1>2 DEF OneOrderMoves
  <2>3. QED
    BY <1>2, <2>1, <2>2, PromisedKept
<1>6. QED
  BY <1>4, <1>5 DEF Advance, ReservedMatchesOrders, Total, Held

(* Cancel withdraws what the order was promised, and releases it.          *)
LEMMA CancelMatches ==
    ASSUME Consistent, TypeOK', ShippedOnce', NEW p \in Request, Cancel(p)
    PROVE  Flagged' /\ ReservedMatchesOrders'
<1> USE DEF Consistent
<1>0. PICK w \in Order : w = OrderOf(p)
  BY ServedOrder DEF Cancel
<1> DEFINE q == Outstanding(w, seenOrder[p])
<1>1. OneOrderMoves(p, "cancelled") /\ Wanted[w] \in Nat /\ Wanted[w] > 0
  BY WritesOneOrder, WantedAssumption
<1>2. orders'[w].status = "cancelled" /\ orders'[w].confirmed = orders[w].confirmed
  BY <1>0, <1>1 DEF Cancel, SetStatus, TypeOK
<1>3. Flagged'
  BY <1>0, <1>1, <1>2, FlaggedMove
<1>4. seenOrder[p] = orders[w]
  BY <1>0 DEF Decided, OrderOf, Cancel
<1>5. \A other \in Order \ {w} : orders'[other] = orders[other]
  BY <1>0, <1>1 DEF OneOrderMoves
<1>6. ASSUME ~stale' PROVE Total(Held(items))' = Promised'
  <2>1. CASE Open(w)
    <3>1. orders[w].confirmed /\ orders[w].shipped = 0
      BY <1>0, <1>1, <2>1 DEF Flagged, ShippedOnce, Open
    <3>2. q = Wanted[w] /\ TouchesStock(w, "cancelled", seenOrder[p])
      BY <1>0, <1>1, <1>4, <3>1 DEF Outstanding, TouchesStock
    <3>3. ~stale /\ seen[p] = items
      BY <1>0, <1>6, <3>2 DEF Cancel
    <3>4. PICK take \in [Rows -> 0..q] :
            OldestFirst(Held(seen[p]), q, take) /\ items' = Rewritten(p, take, -1)
      BY <1>0, <3>2 DEF Cancel
    <3>5. Total(Held(items)) = Promised
      BY <3>3 DEF ReservedMatchesOrders
    <3>6. Promised' = Promised - Wanted[w] /\ Wanted[w] <= Promised
      BY <1>0, <1>1, <1>2, <1>5, <2>1, PromisedTurns DEF Open
    <3>7. Total(Held(Rewritten(p, take, -1))) = Total(Held(items)) - q
      <4>1. q \in Nat /\ q <= Total(Held(items))
        BY <1>0, <1>1, <3>2, <3>5, <3>6
      <4> HIDE DEF q
      <4>2. QED
        BY <3>3, <3>4, <4>1, ReleaseHeld
    <3>8. Total(Held(items))' = Total(Held(Rewritten(p, take, -1)))
      BY <3>4 DEF Total, Held
    <3>9. QED
      BY <3>2, <3>5, <3>6, <3>7, <3>8
  <2>2. CASE ~Open(w)
    <3>1. ~orders[w].confirmed
      BY <1>0, <1>1, <2>2, MoveSources DEF Flagged
    <3>2. UNCHANGED <<items, stale>>
      BY <1>4, <3>1 DEF Cancel, TouchesStock
    <3>3. Promised' = Promised
      BY <1>0, <1>1, <1>2, <1>5, <2>2, PromisedKept DEF Open
    <3>4. QED
      BY <1>6, <3>2, <3>3 DEF ReservedMatchesOrders, Total, Held
  <2>3. QED
    BY <2>1, <2>2
<1>7. QED
  BY <1>3, <1>6 DEF ReservedMatchesOrders

(* Ship releases what the order was promised before its goods leave.       *)
LEMMA ShipMatches ==
    ASSUME Consistent, TypeOK', ShippedOnce', NEW p \in Request, Ship(p)
    PROVE  Flagged' /\ ReservedMatchesOrders'
<1> USE DEF Consistent
<1>0. PICK w \in Order : w = OrderOf(p)
  BY ServedOrder DEF Ship
<1> DEFINE q == Outstanding(w, seenOrder[p])
<1>1. OneOrderMoves(p, "shipped") /\ Wanted[w] \in Nat /\ Wanted[w] > 0
  BY WritesOneOrder, WantedAssumption
<1>2. orders'[w].status = "shipped" /\ orders'[w].confirmed = orders[w].confirmed
  BY <1>0, <1>1 DEF Ship, TypeOK
<1>3. Flagged'
  BY <1>0, <1>1, <1>2, FlaggedMove
<1>4. seenOrder[p] = orders[w]
  BY <1>0 DEF Decided, OrderOf, Ship
<1>5. \A other \in Order \ {w} : orders'[other] = orders[other]
  BY <1>0, <1>1 DEF OneOrderMoves
<1>6. ASSUME ~stale' PROVE Total(Held(items))' = Promised'
  <2>1. Open(w)
    BY <1>0, <1>1, MoveSources
  <2>2. orders[w].shipped = 0
    BY <1>0, <1>1, <2>1 DEF ShippedOnce, Open
  <2>3. q = Wanted[w] /\ TouchesStock(w, "shipped", seenOrder[p])
    BY <1>0, <1>1, <1>4, <2>2 DEF Outstanding, TouchesStock
  <2>4. ~stale /\ seen[p] = items
    BY <1>0, <1>6, <2>3 DEF Ship
  <2>5. PICK take \in [Rows -> 0..q] :
          /\ OldestFirst(Held(seen[p]), q, take)
          /\ items' = [Rewritten(p, take, -1) EXCEPT ![Home] =
                         AfterShip(Rewritten(p, take, -1)[Home], q)]
    BY <1>0, <2>3 DEF Ship
  <2>6. Total(Held(items)) = Promised
    BY <2>4 DEF ReservedMatchesOrders
  <2>7. Promised' = Promised - Wanted[w] /\ Wanted[w] <= Promised
    BY <1>0, <1>1, <1>2, <1>5, <2>1, PromisedTurns DEF Open
  <2>8. Total(Held(Rewritten(p, take, -1))) = Total(Held(items)) - q
    <3>1. q \in Nat /\ q <= Total(Held(items))
      BY <1>0, <1>1, <2>3, <2>6, <2>7
    <3> HIDE DEF q
    <3>2. QED
      BY <2>4, <2>5, <3>1, ReleaseHeld
  <2>9. Held(items') = Held(Rewritten(p, take, -1))
    <3> DEFINE rel == Rewritten(p, take, -1)
    <3>1. DOMAIN rel = Rows
      BY DEF Rewritten
    <3>2. items' = [rel EXCEPT ![Home] = AfterShip(rel[Home], q)]
      BY <2>5
    <3> HIDE DEF rel, q
    <3>3. ASSUME NEW i \in Rows PROVE items'[i].reserved = rel[i].reserved
      BY <3>1, <3>2 DEF AfterShip
    <3>4. QED
      BY <3>3 DEF Held, rel
  <2>10. QED
    BY <2>3, <2>6, <2>7, <2>8, <2>9 DEF Total, Held
<1>7. QED
  BY <1>3, <1>6 DEF ReservedMatchesOrders

(* One step of the system.                                                 *)
LEMMA MatchesStep ==
    ASSUME Consistent, TypeOK', ShippedOnce', [Next]_vars
    PROVE  Flagged' /\ ReservedMatchesOrders'
<1>1. ASSUME UNCHANGED <<items, orders, stale>> PROVE Flagged' /\ ReservedMatchesOrders'
  BY <1>1 DEF Consistent, Flagged, ReservedMatchesOrders, Total, Held, Promised, Owed, Open,
              Outstanding
<1>2. ASSUME NEW o \in Order, CreateOrder(o) PROVE Flagged' /\ ReservedMatchesOrders'
  <2>1. /\ orders[o] = Absent /\ UNCHANGED <<items, stale>>
        /\ orders' = [orders EXCEPT ![o] =
             [status |-> "draft", confirmed |-> FALSE, shipped |-> 0]]
    BY <1>2 DEF CreateOrder
  <2>2. /\ \A other \in Order \ {o} : orders'[other] = orders[other]
        /\ orders'[o].status = "draft" /\ ~orders'[o].confirmed
    BY <2>1 DEF Consistent, TypeOK
  <2>3. Flagged'
    BY <2>2 DEF Consistent, Flagged, Open
  <2>4. Promised' = Promised
    <3>1. Open(o)' = Open(o)
      BY <2>1, <2>2 DEF Open, Absent
    <3>2. QED
      BY <2>2, <3>1, PromisedKept DEF Consistent
  <2>5. QED
    BY <2>1, <2>3, <2>4 DEF Consistent, ReservedMatchesOrders, Total, Held
<1>3. ASSUME NEW p \in Request, Serve(p) PROVE Flagged' /\ ReservedMatchesOrders'
  <2>1. CASE Confirm(p)
    BY <2>1, ConfirmMatches
  <2>2. CASE Advance(p)
    BY <2>2, AdvanceMatches
  <2>3. CASE Cancel(p)
    BY <2>3, CancelMatches
  <2>4. CASE Ship(p)
    BY <2>4, ShipMatches
  <2>5. CASE ~(Confirm(p) \/ Advance(p) \/ Cancel(p) \/ Ship(p))
    BY <1>1, <1>3, <2>5 DEF Serve, Arrive, Load, RefuseTransition, Peek, RefuseConfirm,
                            RefuseShip, Abort
  <2>6. QED
    BY <2>1, <2>2, <2>3, <2>4, <2>5
<1>4. ASSUME NEW i \in Rows, NEW d \in {-1, 1}, Adjust(i, d)
      PROVE  Flagged' /\ ReservedMatchesOrders'
  <2>1. Held(items') = Held(items)
    BY <1>4 DEF Adjust, Held, Consistent, TypeOK
  <2>2. UNCHANGED <<orders, stale>>
    BY <1>4 DEF Adjust
  <2>3. Total(Held(items))' = Total(Held(items))
    BY <2>1 DEF Total, Held
  <2>4. Flagged' /\ Promised' = Promised
    BY <2>2 DEF Consistent, Flagged, Promised, Owed, Open, Outstanding
  <2>5. QED
    BY <2>2, <2>3, <2>4 DEF Consistent, ReservedMatchesOrders
<1>5. QED
  BY <1>1, <1>2, <1>3, <1>4 DEF Next, vars

(* At the start nothing is reserved and nothing is promised.               *)
LEMMA MatchesInit == Init => Flagged /\ ReservedMatchesOrders
<1> SUFFICES ASSUME Init PROVE Flagged /\ ReservedMatchesOrders
  OBVIOUS
<1>1. Flagged
  BY DEF Init, Flagged, Open, Absent
<1>2. \A o \in Order : Owed[o] = 0
  BY DEF Init, Owed, Open, Absent
<1>3. \A i \in Rows : Held(items)[i] = 0
  BY DEF Init, Held
<1>4. Promised = 0
  <2> HIDE DEF Owed
  <2>1. QED
    BY <1>2, FiniteOrders, SumOfZeros DEF Promised
<1>5. Total(Held(items)) = 0
  <2> HIDE DEF Held
  <2>1. QED
    BY <1>3, RowsFinite, SumOfZeros DEF Total
<1>6. QED
  BY <1>1, <1>4, <1>5 DEF ReservedMatchesOrders

(* No request leaks a reservation.  When the requests on one order do not  *)
(* overlap, and as long as no reservation is written from an outdated      *)
(* read, what the rows have reserved is what the open orders still wait    *)
(* for, to the unit: over any orders, rows, receipts, refusals and crashes.*)
THEOREM NoReservationLeaks ==
    ASSUME OneHandlerPerOrder
    PROVE  Spec => []ReservedMatchesOrders
<1>1. Init => Consistent
  BY TypeInit, OrderInit, MatchesInit DEF Consistent
<1>2. Consistent /\ [Next]_vars => Consistent'
  <2>1. SUFFICES ASSUME Consistent, [Next]_vars PROVE Consistent'
    OBVIOUS
  <2>2. TypeOK' /\ Working' /\ Decided' /\ ShippedOnce'
    BY <2>1, TypeStep, OrderStep DEF Consistent
  <2>3. QED
    BY <2>1, <2>2, MatchesStep DEF Consistent
<1>3. Consistent => ReservedMatchesOrders
  BY DEF Consistent
<1>4. QED
  BY <1>1, <1>2, <1>3, PTL DEF Spec

-----------------------------------------------------------------------------
(* Billing.                                                                *)
(*                                                                         *)
(* As in StockServiceProofs a handler writes on the strength of what it    *)
(* read; Read says what holds of that however handlers overlap, Turns what *)
(* holds of it as long as nobody else works on the document.               *)

WorkRow == [op : Op \cup {"idle"}, doc : Doc \cup {Nobody}, paid : Nat, amount : Int]

(* Every handler works on a document of the kind its operation is for.     *)
Kinds ==
    \A h \in Handler :
        /\ work[h].op = "issue" => work[h].doc \in SalesOrder
        /\ work[h].op = "pay" => work[h].doc \in Invoice
        /\ work[h].op \in {"decide", "receive"} => work[h].doc \in Return

(* What stays true of a document once a handler has read it: an order      *)
(* stays shipped, an invoice keeps its total, and a return stays one.      *)
Read ==
    \A h \in Handler :
        /\ work[h].op = "issue" => work[h].doc \in shipped
        /\ work[h].op = "pay" =>
             /\ work[h].amount > 0
             /\ invoices[work[h].doc].status # "absent"
             /\ NewPaid(work[h].paid, work[h].amount) <= invoices[work[h].doc].total
        /\ work[h].op \in {"decide", "receive"} => returns[work[h].doc].status # "absent"

(* A document nobody else has touched is still as its handler read it.     *)
Alone(h) ==
    \A g \in Handler : (work[g].op # "idle" /\ work[g].doc = work[h].doc) => g = h

StillTrue(h) ==
    /\ work[h].op = "issue" => Unbilled(work[h].doc)
    /\ work[h].op = "pay" =>
         /\ invoices[work[h].doc].status \in {"issued", "partially_paid"}
         /\ invoices[work[h].doc].paid = work[h].paid
    /\ work[h].op = "decide" => returns[work[h].doc].status = "requested"
    /\ work[h].op = "receive" => returns[work[h].doc].status = "approved"

Turns ==
    \A h \in Handler :
        (work[h].op # "idle" /\ work[h].doc \notin raced) => Alone(h) /\ StillTrue(h)

(* An invoice that was not issued is nobody's and has no payments.         *)
Unissued ==
    \A i \in Invoice :
        /\ invoices[i].status = "absent" <=> invoices[i].order = Nobody
        /\ invoices[i].status = "absent" => handed[i] = 0 /\ payments[i] = 0

BillingInv ==
    /\ BillingTypeOK /\ Kinds /\ Read /\ Turns /\ Unissued
    /\ InvoicedOnce /\ PaidTells /\ PaymentsCounted /\ RestockedOnce

-----------------------------------------------------------------------------
(* Rounding.                                                               *)
LEMMA Quotient ==
    ASSUME NEW y \in Int, NEW m \in Nat, m > 0
    PROVE  /\ y \div m \in Int
           /\ m * (y \div m) <= y /\ y < m * (y \div m) + m
           /\ y >= 0 => y \div m >= 0
  OBVIOUS

(* A rounded amount is within half a stored unit of what it rounds.        *)
LEMMA Rounded ==
    ASSUME NEW x \in Int
    PROVE  /\ Round(x) \in Int
           /\ 2 * (Fine * Round(x)) <= 2 * x + Fine
           /\ 2 * x < 2 * (Fine * Round(x)) + Fine
           /\ x >= 0 => Round(x) \in Nat
<1> DEFINE q == (2 * x + Fine) \div (2 * Fine)
<1>1. Fine \in Nat /\ Fine > 0 /\ 2 * Fine \in Nat /\ 2 * Fine > 0 /\ 2 * x + Fine \in Int
  BY MoneyAssumption
<1>2. /\ q \in Int
      /\ (2 * Fine) * q <= 2 * x + Fine /\ 2 * x + Fine < (2 * Fine) * q + 2 * Fine
      /\ 2 * x + Fine >= 0 => q >= 0
  BY <1>1, Quotient
<1> HIDE DEF q
<1>3. (2 * Fine) * q = 2 * (Fine * q) /\ Fine * q \in Int
  BY <1>1, <1>2
<1>4. Round(x) = q
  BY DEF Round, q
<1> QED BY <1>1, <1>2, <1>3, <1>4

LEMMA NewPaidType ==
    ASSUME NEW paid \in Nat, NEW amount \in Int
    PROVE  /\ NewPaid(paid, amount) \in Int
           /\ amount > 0 => NewPaid(paid, amount) \in Nat
<1>1. Fine * paid \in Nat
  BY MoneyAssumption
<1>2. Fine * paid + amount \in Int /\ (amount > 0 => Fine * paid + amount >= 0)
  BY <1>1
<1> QED BY <1>2, Rounded DEF NewPaid

(* One more payment: the error grows by half a unit at most.               *)
LEMMA ErrorGrows ==
    ASSUME NEW paid \in Nat, NEW amount \in Int, NEW told \in Int, NEW n \in Nat,
           2 * (Fine * paid - told) <= Fine * n, -(2 * (Fine * paid - told)) <= Fine * n
    PROVE  LET error == Fine * NewPaid(paid, amount) - (told + amount) IN
           2 * error <= Fine * (n + 1) /\ -(2 * error) <= Fine * (n + 1)
<1> DEFINE x == Fine * paid + amount
           a == Fine * NewPaid(paid, amount)
           b == Fine * paid
           c == Fine * n
<1>1. Fine \in Nat /\ b \in Int /\ c \in Int /\ x \in Int
  BY MoneyAssumption
<1>2. NewPaid(paid, amount) \in Int /\ 2 * a <= 2 * x + Fine /\ 2 * x < 2 * a + Fine
  BY <1>1, Rounded DEF NewPaid
<1>3. a \in Int
  BY <1>1, <1>2
<1>4. Fine * (n + 1) = c + Fine
  BY <1>1
<1>5. x = b + amount
  OBVIOUS
<1> HIDE DEF a, b, c, x
<1>6. 2 * (b - told) <= c /\ -(2 * (b - told)) <= c
  BY DEF b, c
<1>7. 2 * (a - (told + amount)) <= c + Fine /\ -(2 * (a - (told + amount))) <= c + Fine
  BY <1>1, <1>2, <1>3, <1>5, <1>6
<1> QED BY <1>4, <1>7 DEF a

-----------------------------------------------------------------------------
(* What the pieces of the actions do.                                      *)
LEMMA StartFacts ==
    ASSUME BillingTypeOK, NEW h \in Handler, NEW op \in Op, NEW d \in Doc, NEW paid \in Nat,
           NEW amount \in Int, Start(h, op, d, paid, amount)
    PROVE  /\ work' \in [Handler -> WorkRow] /\ work[h].op = "idle"
           /\ work'[h].op = op /\ work'[h].doc = d /\ work'[h].paid = paid /\ work'[h].amount = amount
           /\ \A g \in Handler : g # h => work'[g] = work[g]
           /\ raced' \in SUBSET Doc /\ raced \subseteq raced'
           /\ \A g \in Handler : (work[g].op # "idle" /\ work[g].doc = d) => d \in raced'
<1> DEFINE w == [op |-> op, doc |-> d, paid |-> paid, amount |-> amount]
<1>1. w \in WorkRow /\ work' = [work EXCEPT ![h] = w] /\ work[h].op = "idle"
  BY DEF Start, WorkRow
<1>2. /\ work' \in [Handler -> WorkRow] /\ work'[h] = w
      /\ \A g \in Handler : g # h => work'[g] = work[g]
  BY <1>1 DEF BillingTypeOK, WorkRow
<1>3. raced' = raced \cup (IF Busy(d) THEN {d} ELSE {})
  BY DEF Start
<1>4. raced' \in SUBSET Doc /\ raced \subseteq raced'
  BY <1>3 DEF BillingTypeOK
<1>5. \A g \in Handler : (work[g].op # "idle" /\ work[g].doc = d) => d \in raced'
  BY <1>3 DEF Busy
<1> QED BY <1>1, <1>2, <1>4, <1>5

LEMMA FinishFacts ==
    ASSUME BillingTypeOK, NEW h \in Handler, Finish(h)
    PROVE  /\ work' \in [Handler -> WorkRow] /\ work'[h].op = "idle"
           /\ \A g \in Handler : g # h => work'[g] = work[g]
           /\ raced' = raced
<1>1. Idle \in WorkRow /\ Idle.op = "idle"
  BY DEF Idle, WorkRow
<1>2. work' = [work EXCEPT ![h] = Idle] /\ raced' = raced
  BY DEF Finish
<1> QED BY <1>1, <1>2 DEF BillingTypeOK, WorkRow

LEMMA SetReturnFacts ==
    ASSUME BillingTypeOK, NEW r \in Return, NEW s \in ReturnStatus, SetReturn(r, s)
    PROVE  /\ returns' \in [Return -> ReturnRow]
           /\ returns'[r].status = s /\ returns'[r].restock = returns[r].restock
           /\ returns'[r].lines = returns[r].lines
           /\ \A q \in Return : q # r => returns'[q] = returns[q]
<1>1. returns[r] \in ReturnRow
  BY DEF BillingTypeOK
<1> DEFINE row == [status |-> s, order |-> returns[r].order, restock |-> returns[r].restock,
                   lines |-> returns[r].lines]
<1>2. row \in ReturnRow
  BY <1>1 DEF ReturnRow
<1>3. returns' = [returns EXCEPT ![r] = row]
  BY DEF SetReturn
<1> QED BY <1>2, <1>3 DEF BillingTypeOK

(* A handler that ends leaves the others where they were, if what it wrote *)
(* is none of theirs.                                                      *)
LEMMA TurnsFinish ==
    ASSUME BillingInv, NEW h \in Handler, work[h].op # "idle", Finish(h),
           \A g \in Handler :
             (/\ work[g].op # "idle" /\ work[g].doc # work[h].doc /\ work[g].doc \notin raced
              /\ work'[g] = work[g] /\ StillTrue(g)) => StillTrue(g)'
    PROVE  Turns'
<1>1. /\ work'[h].op = "idle" /\ raced' = raced
      /\ \A g \in Handler : g # h => work'[g] = work[g]
  BY FinishFacts DEF BillingInv
<1>2. ASSUME NEW g \in Handler, work'[g].op # "idle", work'[g].doc \notin raced'
      PROVE  Alone(g)' /\ StillTrue(g)'
  <2>1. g # h /\ work'[g] = work[g]
    BY <1>1, <1>2
  <2>2. Alone(g) /\ StillTrue(g)
    BY <1>1, <1>2, <2>1 DEF BillingInv, Turns
  <2>3. work[g].doc # work[h].doc
    BY <2>1, <2>2 DEF Alone
  <2>4. StillTrue(g)'
    BY <1>1, <1>2, <2>1, <2>2, <2>3
  <2>5. Alone(g)'
    BY <1>1, <2>1, <2>2 DEF Alone
  <2> QED BY <2>4, <2>5
<1> QED BY <1>2 DEF Turns

-----------------------------------------------------------------------------
(* A handler begins: nothing is written, and what it read holds.           *)
LEMMA Begun ==
    ASSUME BillingInv, NEW h \in Handler, NEW op \in Op, NEW d \in Doc, NEW paid \in Nat,
           NEW amount \in Int, Start(h, op, d, paid, amount),
           UNCHANGED <<shipped, invoices, returns, restocked, handed, payments>>,
           op = "issue" => d \in SalesOrder /\ d \in shipped /\ Unbilled(d),
           op = "pay" => /\ d \in Invoice /\ amount > 0
                         /\ invoices[d].status \in {"issued", "partially_paid"}
                         /\ invoices[d].paid = paid
                         /\ NewPaid(paid, amount) <= invoices[d].total,
           op \in {"decide", "receive"} => d \in Return,
           op = "decide" => returns[d].status = "requested",
           op = "receive" => returns[d].status = "approved"
    PROVE  BillingInv'
<1> USE DEF BillingInv
<1>1. /\ work' \in [Handler -> WorkRow] /\ work[h].op = "idle"
      /\ work'[h].op = op /\ work'[h].doc = d /\ work'[h].paid = paid /\ work'[h].amount = amount
      /\ \A g \in Handler : g # h => work'[g] = work[g]
      /\ raced' \in SUBSET Doc /\ raced \subseteq raced'
      /\ \A g \in Handler : (work[g].op # "idle" /\ work[g].doc = d) => d \in raced'
  BY StartFacts
<1>2. BillingTypeOK'
  BY <1>1 DEF BillingTypeOK, WorkRow
<1>3. Kinds'
  BY <1>1 DEF Kinds, Op
<1>4. Read'
  BY <1>1 DEF Read, NewPaid, Round
<1>5. Turns'
  <2>1. ASSUME NEW g \in Handler, work'[g].op # "idle", work'[g].doc \notin raced'
        PROVE  Alone(g)' /\ StillTrue(g)'
    <3>1. CASE g = h
      <4>1. Alone(g)'
        BY <1>1, <2>1, <3>1 DEF Alone
      <4>2. StillTrue(g)'
        BY <1>1, <3>1 DEF StillTrue, Unbilled
      <4> QED BY <4>1, <4>2
    <3>2. CASE g # h
      <4>1. work'[g] = work[g] /\ work[g].doc # d
        BY <1>1, <2>1, <3>2
      <4>2. Alone(g) /\ StillTrue(g)
        BY <1>1, <2>1, <4>1 DEF Turns
      <4>3. Alone(g)'
        BY <1>1, <4>1, <4>2 DEF Alone
      <4>4. StillTrue(g)'
        BY <4>1, <4>2 DEF StillTrue, Unbilled
      <4> QED BY <4>3, <4>4
    <3> QED BY <3>1, <3>2
  <2> QED BY <2>1 DEF Turns
<1>6. Unissued' /\ InvoicedOnce' /\ PaidTells' /\ PaymentsCounted' /\ RestockedOnce'
  BY <1>1 DEF Unissued, InvoicedOnce, PaidTells, PaymentsCounted, RestockedOnce
<1> QED BY <1>2, <1>3, <1>4, <1>5, <1>6

LEMMA GaveUp ==
    ASSUME BillingInv, NEW h \in Handler, GiveUp(h)
    PROVE  BillingInv'
<1> USE DEF BillingInv
<1>1. /\ work[h].op # "idle" /\ Finish(h)
      /\ UNCHANGED <<shipped, invoices, returns, restocked, handed, payments>>
  BY DEF GiveUp
<1>2. /\ work' \in [Handler -> WorkRow] /\ work'[h].op = "idle" /\ raced' = raced
      /\ \A g \in Handler : g # h => work'[g] = work[g]
  BY <1>1, FinishFacts
<1>3. BillingTypeOK'
  BY <1>1, <1>2 DEF BillingTypeOK, WorkRow
<1>4. Kinds' /\ Read'
  BY <1>1, <1>2 DEF Kinds, Read
<1>5. Turns'
  BY <1>1, TurnsFinish DEF StillTrue, Unbilled
<1>6. Unissued' /\ InvoicedOnce' /\ PaidTells' /\ PaymentsCounted' /\ RestockedOnce'
  BY <1>1, <1>2 DEF Unissued, InvoicedOnce, PaidTells, PaymentsCounted, RestockedOnce
<1> QED BY <1>3, <1>4, <1>5, <1>6


-----------------------------------------------------------------------------
(* An order is billed: nobody has paid on an invoice that was not there.   *)
LEMMA Issued ==
    ASSUME BillingInv, NEW h \in Handler, NEW i \in Invoice, IssueInvoice(h, i)
    PROVE  BillingInv'
<1> USE DEF BillingInv
<1> DEFINE o == work[h].doc
           row == [status |-> "issued", order |-> o, total |-> GrandTotal[o], paid |-> 0]
<1>1. /\ work[h].op = "issue" /\ invoices[i].status = "absent" /\ Finish(h)
      /\ invoices' = [invoices EXCEPT ![i] = row]
      /\ UNCHANGED <<shipped, returns, restocked, handed, payments>>
  BY DEF IssueInvoice
<1>2. /\ work' \in [Handler -> WorkRow] /\ work'[h].op = "idle" /\ raced' = raced
      /\ \A g \in Handler : g # h => work'[g] = work[g]
  BY <1>1, FinishFacts
<1>3. o \in SalesOrder /\ o \in shipped /\ o # Nobody /\ o \notin Invoice /\ o \notin Return
  BY <1>1, KindsAssumption DEF Kinds, Read, Doc
<1>4. row \in InvoiceRow
  BY <1>3, OrderAssumption DEF InvoiceRow, InvoiceStatus
<1>5. /\ invoices' \in [Invoice -> InvoiceRow] /\ invoices'[i] = row
      /\ \A j \in Invoice : j # i => invoices'[j] = invoices[j]
  BY <1>1, <1>4 DEF BillingTypeOK
<1>6. BillingTypeOK'
  BY <1>1, <1>2, <1>5 DEF BillingTypeOK, WorkRow
<1>7. Kinds'
  BY <1>1, <1>2 DEF Kinds
<1>8. Read'
  BY <1>1, <1>2, <1>5 DEF Read, Kinds
<1>9. Turns'
  <2>1. ASSUME NEW g \in Handler, work[g].op # "idle", work[g].doc # o, work'[g] = work[g],
               StillTrue(g)
        PROVE  StillTrue(g)'
    <3>1. work[g].op = "issue" => Unbilled(work[g].doc)'
      BY <1>5, <2>1 DEF StillTrue, Unbilled
    <3>2. work[g].op = "pay" => work[g].doc \in Invoice /\ work[g].doc # i
      BY <1>1, <2>1 DEF Read, Kinds
    <3> QED BY <1>1, <1>5, <2>1, <3>1, <3>2 DEF StillTrue
  <2> QED BY <1>1, <2>1, TurnsFinish
<1>10. Unissued'
  BY <1>1, <1>3, <1>5 DEF Unissued
<1>11. InvoicedOnce'
  <2>1. \A j \in Invoice : (j # i /\ o \notin raced) => invoices[j].order # o
    BY <1>1, <1>3 DEF Turns, StillTrue, Unbilled, Unissued
  <2>2. ASSUME NEW j \in Invoice, NEW k \in Invoice, invoices'[j].order # Nobody
        PROVE  /\ invoices'[j].order \in shipped'
               /\ invoices'[j].total = GrandTotal[invoices'[j].order]
               /\ (invoices'[k].order = invoices'[j].order /\ invoices'[j].order \notin raced')
                    => j = k
    BY <1>1, <1>2, <1>3, <1>5, <2>1, <2>2 DEF InvoicedOnce
  <2> QED BY <2>2 DEF InvoicedOnce
<1>12. PaidTells'
  <2>1. GrandTotal[o] \in Nat
    BY <1>3, OrderAssumption
  <2> QED BY <1>5, <2>1 DEF PaidTells
<1>13. PaymentsCounted'
  <2>1. ASSUME NEW j \in Invoice, j \notin raced
        PROVE  /\ 2 * (Fine * invoices'[j].paid - handed[j]) <= Fine * payments[j]
               /\ -(2 * (Fine * invoices'[j].paid - handed[j])) <= Fine * payments[j]
    <3>1. CASE j = i
      <4>1. invoices'[j].paid = 0 /\ handed[j] = 0 /\ payments[j] = 0
        BY <1>1, <1>5, <3>1 DEF Unissued
      <4> QED BY <4>1, MoneyAssumption
    <3>2. CASE j # i
      BY <1>5, <2>1, <3>2 DEF PaymentsCounted
    <3> QED BY <3>1, <3>2
  <2> QED BY <1>1, <1>2, <2>1 DEF PaymentsCounted
<1>14. RestockedOnce'
  BY <1>1, <1>2 DEF RestockedOnce
<1> QED BY <1>6, <1>7, <1>8, <1>9, <1>10, <1>11, <1>12, <1>13, <1>14

(* A payment is written: the amount decided on fits the total, which no    *)
(* overlapping payment changes.                                            *)
LEMMA Paid ==
    ASSUME BillingInv, NEW h \in Handler, RecordPayment(h)
    PROVE  BillingInv'
<1> USE DEF BillingInv
<1> DEFINE i == work[h].doc
           new == NewPaid(work[h].paid, work[h].amount)
           row == [status |-> IF new = invoices[i].total THEN "paid" ELSE "partially_paid",
                   order |-> invoices[i].order, total |-> invoices[i].total, paid |-> new]
<1>1. /\ work[h].op = "pay" /\ Finish(h)
      /\ invoices' = [invoices EXCEPT ![i] = row]
      /\ handed' = [handed EXCEPT ![i] = handed[i] + work[h].amount]
      /\ payments' = [payments EXCEPT ![i] = payments[i] + 1]
      /\ UNCHANGED <<shipped, returns, restocked>>
  BY DEF RecordPayment
<1>2. /\ work' \in [Handler -> WorkRow] /\ work'[h].op = "idle" /\ raced' = raced
      /\ \A g \in Handler : g # h => work'[g] = work[g]
  BY <1>1, FinishFacts
<1>3. /\ i \in Invoice /\ i \notin SalesOrder /\ i \notin Return
      /\ work[h].paid \in Nat /\ work[h].amount \in Int /\ work[h].amount > 0
      /\ invoices[i] \in InvoiceRow /\ invoices[i].status # "absent"
      /\ handed[i] \in Int /\ payments[i] \in Nat
      /\ new <= invoices[i].total
  BY <1>1, KindsAssumption DEF Kinds, Read, BillingTypeOK
<1>4. new \in Nat
  BY <1>3, NewPaidType
<1> HIDE DEF new
<1>5. row \in InvoiceRow /\ row.status \in {"paid", "partially_paid"}
  BY <1>3, <1>4 DEF InvoiceRow, InvoiceStatus
<1>6. /\ invoices' \in [Invoice -> InvoiceRow] /\ invoices'[i] = row
      /\ \A j \in Invoice : j # i => invoices'[j] = invoices[j]
  BY <1>1, <1>3, <1>5 DEF BillingTypeOK
<1>7. /\ handed' \in [Invoice -> Int] /\ handed'[i] = handed[i] + work[h].amount
      /\ payments' \in [Invoice -> Nat] /\ payments'[i] = payments[i] + 1
      /\ \A j \in Invoice : j # i => handed'[j] = handed[j] /\ payments'[j] = payments[j]
  BY <1>1, <1>3 DEF BillingTypeOK
<1>8. BillingTypeOK'
  BY <1>1, <1>2, <1>6, <1>7 DEF BillingTypeOK, WorkRow
<1>9. Kinds'
  BY <1>1, <1>2 DEF Kinds
<1>10. \A j \in Invoice : /\ invoices'[j].total = invoices[j].total
                          /\ invoices'[j].order = invoices[j].order
                          /\ invoices'[j].status = "absent" <=> invoices[j].status = "absent"
  BY <1>3, <1>5, <1>6
<1>11. Read'
  <2>1. ASSUME NEW g \in Handler
        PROVE  /\ work'[g].op = "issue" => work'[g].doc \in shipped'
               /\ work'[g].op = "pay" =>
                    /\ work'[g].amount > 0
                    /\ invoices'[work'[g].doc].status # "absent"
                    /\ NewPaid(work'[g].paid, work'[g].amount) <= invoices'[work'[g].doc].total
               /\ work'[g].op \in {"decide", "receive"} => returns'[work'[g].doc].status # "absent"
    BY <1>1, <1>2, <1>10 DEF Read, Kinds
  <2> QED BY <2>1 DEF Read, NewPaid, Round
<1>12. Turns'
  <2>1. ASSUME NEW g \in Handler, work[g].op # "idle", work[g].doc # i, work'[g] = work[g],
               StillTrue(g)
        PROVE  StillTrue(g)'
    <3>1. work[g].op = "issue" => Unbilled(work[g].doc)'
      BY <1>10, <2>1 DEF StillTrue, Unbilled
    <3>2. work[g].op = "pay" => work[g].doc \in Invoice
      BY DEF Kinds
    <3> QED BY <1>1, <1>6, <2>1, <3>1, <3>2 DEF StillTrue
  <2> QED BY <1>1, <2>1, TurnsFinish
<1>13. Unissued'
  BY <1>3, <1>6, <1>7, <1>10 DEF Unissued
<1>14. InvoicedOnce'
  BY <1>1, <1>2, <1>10 DEF InvoicedOnce
<1>15. PaidTells'
  BY <1>3, <1>4, <1>6 DEF PaidTells, InvoiceRow
<1>16. PaymentsCounted'
  <2>1. ASSUME NEW j \in Invoice, j \notin raced
        PROVE  /\ 2 * (Fine * invoices'[j].paid - handed'[j]) <= Fine * payments'[j]
               /\ -(2 * (Fine * invoices'[j].paid - handed'[j])) <= Fine * payments'[j]
    <3>1. CASE j = i
      <4>1. invoices[i].paid = work[h].paid
        BY <1>1, <2>1, <3>1 DEF Turns, StillTrue
      <4>2. /\ 2 * (Fine * work[h].paid - handed[i]) <= Fine * payments[i]
            /\ -(2 * (Fine * work[h].paid - handed[i])) <= Fine * payments[i]
        BY <1>3, <2>1, <3>1, <4>1 DEF PaymentsCounted
      <4>3. /\ 2 * (Fine * new - (handed[i] + work[h].amount)) <= Fine * (payments[i] + 1)
            /\ -(2 * (Fine * new - (handed[i] + work[h].amount))) <= Fine * (payments[i] + 1)
        BY <1>3, <4>2, ErrorGrows DEF new
      <4>4. invoices'[j].paid = new
        BY <1>6, <3>1
      <4> QED BY <1>7, <3>1, <4>3, <4>4
    <3>2. CASE j # i
      BY <1>6, <1>7, <2>1, <3>2 DEF PaymentsCounted
    <3> QED BY <3>1, <3>2
  <2> QED BY <1>2, <2>1 DEF PaymentsCounted
<1>17. RestockedOnce'
  BY <1>1, <1>2 DEF RestockedOnce
<1> QED BY <1>8, <1>9, <1>11, <1>12, <1>13, <1>14, <1>15, <1>16, <1>17


-----------------------------------------------------------------------------
(* Returns.                                                                *)
LEMMA ReturnDecided ==
    ASSUME BillingInv, NEW h \in Handler, DecideReturn(h)
    PROVE  BillingInv'
<1> USE DEF BillingInv
<1> DEFINE r == work[h].doc
<1>1. /\ work[h].op = "decide" /\ Finish(h)
      /\ UNCHANGED <<shipped, invoices, restocked, handed, payments>>
  BY DEF DecideReturn
<1>2. /\ work' \in [Handler -> WorkRow] /\ work'[h].op = "idle" /\ raced' = raced
      /\ \A g \in Handler : g # h => work'[g] = work[g]
  BY <1>1, FinishFacts
<1>3. r \in Return
  BY <1>1 DEF Kinds
<1>4. PICK s \in {"approved", "rejected"} : SetReturn(r, s)
  BY DEF DecideReturn
<1>5. /\ returns' \in [Return -> ReturnRow]
      /\ returns'[r].status = s /\ returns'[r].restock = returns[r].restock
      /\ returns'[r].lines = returns[r].lines
      /\ \A q \in Return : q # r => returns'[q] = returns[q]
  BY <1>3, <1>4, SetReturnFacts DEF ReturnStatus
<1>6. BillingTypeOK'
  BY <1>1, <1>2, <1>5 DEF BillingTypeOK, WorkRow
<1>7. Kinds'
  BY <1>1, <1>2 DEF Kinds
<1>8. Read'
  BY <1>1, <1>2, <1>4, <1>5 DEF Read, Kinds, NewPaid, Round
<1>9. Turns'
  <2>1. ASSUME NEW g \in Handler, work[g].op # "idle", work[g].doc # r, work'[g] = work[g],
               StillTrue(g)
        PROVE  StillTrue(g)'
    BY <1>1, <1>5, <2>1 DEF StillTrue, Unbilled, Kinds
  <2> QED BY <1>1, <2>1, TurnsFinish
<1>10. Unissued' /\ InvoicedOnce' /\ PaidTells' /\ PaymentsCounted'
  BY <1>1, <1>2 DEF Unissued, InvoicedOnce, PaidTells, PaymentsCounted
<1>11. RestockedOnce'
  <2>1. r \notin raced => returns[r].status = "requested"
    BY <1>1 DEF Turns, StillTrue
  <2> QED BY <1>1, <1>2, <1>4, <1>5, <2>1 DEF RestockedOnce
<1> QED BY <1>6, <1>7, <1>8, <1>9, <1>10, <1>11

LEMMA Received ==
    ASSUME BillingInv, NEW h \in Handler, ReceiveReturn(h)
    PROVE  BillingInv'
<1> USE DEF BillingInv
<1> DEFINE r == work[h].doc
<1>1. /\ work[h].op = "receive" /\ Finish(h) /\ SetReturn(r, "received")
      /\ restocked' = [restocked EXCEPT ![r] = BackToStock(r)]
      /\ UNCHANGED <<shipped, invoices, handed, payments>>
  BY DEF ReceiveReturn
<1>2. /\ work' \in [Handler -> WorkRow] /\ work'[h].op = "idle" /\ raced' = raced
      /\ \A g \in Handler : g # h => work'[g] = work[g]
  BY <1>1, FinishFacts
<1>3. r \in Return /\ returns[r] \in ReturnRow /\ restocked[r] \in [Line -> Nat]
  BY <1>1 DEF Kinds, BillingTypeOK
<1>4. /\ returns' \in [Return -> ReturnRow]
      /\ returns'[r].status = "received" /\ returns'[r].restock = returns[r].restock
      /\ returns'[r].lines = returns[r].lines
      /\ \A q \in Return : q # r => returns'[q] = returns[q]
  BY <1>1, <1>3, SetReturnFacts DEF ReturnStatus
<1>5. \A l \in Line : returns[r].lines[l] \in Nat
  BY <1>3 DEF ReturnRow
<1>6. BackToStock(r) \in [Line -> Nat]
  BY <1>3, <1>5 DEF BackToStock
<1>7. /\ restocked' \in [Return -> [Line -> Nat]] /\ restocked'[r] = BackToStock(r)
      /\ \A q \in Return : q # r => restocked'[q] = restocked[q]
  BY <1>1, <1>3, <1>6 DEF BillingTypeOK
<1>8. BillingTypeOK'
  BY <1>1, <1>2, <1>4, <1>7 DEF BillingTypeOK, WorkRow
<1>9. Kinds'
  BY <1>1, <1>2 DEF Kinds
<1>10. Read'
  BY <1>1, <1>2, <1>4 DEF Read, Kinds, NewPaid, Round
<1>11. Turns'
  <2>1. ASSUME NEW g \in Handler, work[g].op # "idle", work[g].doc # r, work'[g] = work[g],
               StillTrue(g)
        PROVE  StillTrue(g)'
    BY <1>1, <1>4, <2>1 DEF StillTrue, Unbilled, Kinds
  <2> QED BY <1>1, <2>1, TurnsFinish
<1>12. Unissued' /\ InvoicedOnce' /\ PaidTells' /\ PaymentsCounted'
  BY <1>1, <1>2 DEF Unissued, InvoicedOnce, PaidTells, PaymentsCounted
<1>13. RestockedOnce'
  <2>1. r \notin raced => \A l \in Line : restocked[r][l] = 0
    BY <1>1, <1>3 DEF Turns, StillTrue, RestockedOnce
  <2>2. r \notin raced => \A l \in Line : restocked'[r][l] =
                            IF returns[r].restock THEN returns[r].lines[l] ELSE 0
    BY <1>5, <1>7, <2>1 DEF BackToStock
  <2> QED BY <1>2, <1>4, <1>7, <2>2 DEF RestockedOnce
<1> QED BY <1>8, <1>9, <1>10, <1>11, <1>12, <1>13

LEMMA Requested ==
    ASSUME BillingInv, NEW r \in Return, NEW o \in SalesOrder, RequestReturn(r, o)
    PROVE  BillingInv'
<1> USE DEF BillingInv
<1>1. /\ returns[r].status = "absent" /\ UNCHANGED work /\ UNCHANGED raced
      /\ UNCHANGED <<shipped, invoices, restocked, handed, payments>>
  BY DEF RequestReturn
<1>2. PICK once \in [Line -> Returned] : \E again \in [Line -> Returned] : \E restock \in BOOLEAN :
          returns' = [returns EXCEPT ![r] =
                        [status |-> "requested", order |-> o, restock |-> restock,
                         lines |-> [l \in Line |-> once[l] + again[l]]]]
  BY DEF RequestReturn
<1>3. PICK again \in [Line -> Returned] : \E restock \in BOOLEAN :
          returns' = [returns EXCEPT ![r] =
                        [status |-> "requested", order |-> o, restock |-> restock,
                         lines |-> [l \in Line |-> once[l] + again[l]]]]
  BY <1>2
<1>4. PICK restock \in BOOLEAN :
          returns' = [returns EXCEPT ![r] =
                        [status |-> "requested", order |-> o, restock |-> restock,
                         lines |-> [l \in Line |-> once[l] + again[l]]]]
  BY <1>3
<1>5. [l \in Line |-> once[l] + again[l]] \in [Line -> Nat]
  <2>1. \A l \in Line : once[l] \in Nat /\ again[l] \in Nat
    BY ReturnAssumption
  <2> QED BY <2>1
<1>6. /\ returns' \in [Return -> ReturnRow] /\ returns'[r].status = "requested"
      /\ \A q \in Return : q # r => returns'[q] = returns[q]
  BY <1>4, <1>5 DEF BillingTypeOK, ReturnRow, ReturnStatus
<1>7. BillingTypeOK' /\ Kinds'
  BY <1>1, <1>6 DEF BillingTypeOK, Kinds
<1>8. Read'
  BY <1>1, <1>6 DEF Read, Kinds, NewPaid, Round
<1>9. Turns'
  <2>1. ASSUME NEW g \in Handler, work[g].op # "idle", work[g].doc \notin raced
        PROVE  Alone(g)' /\ StillTrue(g)'
    <3>1. Alone(g) /\ StillTrue(g)
      BY <2>1 DEF Turns
    <3>2. work[g].op \in {"decide", "receive"} => work[g].doc # r
      BY <1>1 DEF Read
    <3>3. StillTrue(g)'
      BY <1>1, <1>6, <3>1, <3>2 DEF StillTrue, Unbilled, Kinds
    <3> QED BY <1>1, <3>1, <3>3 DEF Alone
  <2> QED BY <1>1, <2>1 DEF Turns
<1>10. Unissued' /\ InvoicedOnce' /\ PaidTells' /\ PaymentsCounted'
  BY <1>1 DEF Unissued, InvoicedOnce, PaidTells, PaymentsCounted
<1>11. RestockedOnce'
  BY <1>1, <1>6 DEF RestockedOnce
<1> QED BY <1>7, <1>8, <1>9, <1>10, <1>11

LEMMA Shipping ==
    ASSUME BillingInv, NEW o \in SalesOrder, ShipOrder(o)
    PROVE  BillingInv'
<1> USE DEF BillingInv
<1>1. /\ shipped' = shipped \cup {o}
      /\ UNCHANGED <<invoices, returns, restocked, handed, payments, work, raced>>
  BY DEF ShipOrder
<1>2. BillingTypeOK' /\ Kinds'
  BY <1>1 DEF BillingTypeOK, Kinds
<1>3. Read'
  <2>1. \A x : x \in shipped => x \in shipped'
    BY <1>1
  <2>2. work' = work /\ invoices' = invoices /\ returns' = returns
    BY <1>1
  <2> QED BY <2>1, <2>2 DEF Read, NewPaid, Round
<1>4. Turns'
  BY <1>1 DEF Turns, Alone, StillTrue, Unbilled
<1>5. Unissued' /\ InvoicedOnce' /\ PaidTells' /\ PaymentsCounted' /\ RestockedOnce'
  BY <1>1 DEF Unissued, InvoicedOnce, PaidTells, PaymentsCounted, RestockedOnce
<1> QED BY <1>2, <1>3, <1>4, <1>5

-----------------------------------------------------------------------------
LEMMA InitInv == BillingInit => BillingInv
<1> SUFFICES ASSUME BillingInit PROVE BillingInv
  OBVIOUS
<1> USE DEF BillingInit
<1>1. BillingTypeOK
  BY DEF BillingTypeOK, InvoiceRow, InvoiceStatus, ReturnRow, ReturnStatus, NoLines, Idle
<1>2. Kinds /\ Read /\ Turns /\ Unissued
  BY DEF Kinds, Read, Turns, Unissued, Idle
<1>3. InvoicedOnce /\ PaidTells /\ RestockedOnce
  BY DEF InvoicedOnce, PaidTells, RestockedOnce, NoLines
<1>4. PaymentsCounted
  BY MoneyAssumption DEF PaymentsCounted
<1> QED BY <1>1, <1>2, <1>3, <1>4 DEF BillingInv

LEMMA NextInv == BillingInv /\ [BillingNext]_billing => BillingInv'
<1> SUFFICES ASSUME BillingInv, [BillingNext]_billing PROVE BillingInv'
  OBVIOUS
<1>1. ASSUME NEW o \in SalesOrder, ShipOrder(o) PROVE BillingInv'
  BY <1>1, Shipping
<1>2. ASSUME NEW h \in Handler, NEW o \in SalesOrder, CheckUnbilled(h, o) PROVE BillingInv'
  <2>1. "issue" \in Op /\ o \in Doc /\ 0 \in Nat /\ 0 \in Int
    BY DEF Op, Doc
  <2> QED BY <1>2, <2>1, Begun DEF CheckUnbilled
<1>3. ASSUME NEW h \in Handler, NEW i \in Invoice, IssueInvoice(h, i) PROVE BillingInv'
  BY <1>3, Issued
<1>4. ASSUME NEW h \in Handler, NEW i \in Invoice, NEW amount \in Amounts,
             ReadInvoice(h, i, amount)
      PROVE  BillingInv'
  <2>1. "pay" \in Op /\ i \in Doc /\ invoices[i].paid \in Nat /\ amount \in Int
    BY MoneyAssumption DEF Op, Doc, BillingInv, BillingTypeOK, InvoiceRow
  <2>2. /\ Start(h, "pay", i, invoices[i].paid, amount) /\ amount > 0
        /\ invoices[i].status \in {"issued", "partially_paid"}
        /\ NewPaid(invoices[i].paid, amount) <= invoices[i].total
        /\ UNCHANGED <<shipped, invoices, returns, restocked, handed, payments>>
    BY <1>4 DEF ReadInvoice, Accepts
  <2> QED BY <2>1, <2>2, Begun
<1>5. ASSUME NEW h \in Handler, RecordPayment(h) PROVE BillingInv'
  BY <1>5, Paid
<1>6. ASSUME NEW r \in Return, NEW o \in SalesOrder, RequestReturn(r, o) PROVE BillingInv'
  BY <1>6, Requested
<1>7. ASSUME NEW h \in Handler, NEW op \in {"decide", "receive"}, NEW r \in Return,
             ReadReturn(h, op, r)
      PROVE  BillingInv'
  <2>1. op \in Op /\ r \in Doc /\ 0 \in Nat /\ 0 \in Int
    BY DEF Op, Doc
  <2>2. /\ Start(h, op, r, 0, 0)
        /\ op = "decide" => returns[r].status = "requested"
        /\ op = "receive" => returns[r].status = "approved"
        /\ UNCHANGED <<shipped, invoices, returns, restocked, handed, payments>>
    BY <1>7 DEF ReadReturn, Awaited
  <2> QED BY <2>1, <2>2, Begun
<1>8. ASSUME NEW h \in Handler, DecideReturn(h) PROVE BillingInv'
  BY <1>8, ReturnDecided
<1>9. ASSUME NEW h \in Handler, ReceiveReturn(h) PROVE BillingInv'
  BY <1>9, Received
<1>10. ASSUME NEW h \in Handler, GiveUp(h) PROVE BillingInv'
  BY <1>10, GaveUp
<1>11. CASE UNCHANGED billing
  BY <1>11 DEF billing, BillingInv, BillingTypeOK, Kinds, Read, Turns, Alone, StillTrue, Unbilled, Unissued,
               InvoicedOnce, PaidTells, PaymentsCounted, RestockedOnce, NewPaid, Round
<1> QED BY <1>1, <1>2, <1>3, <1>4, <1>5, <1>6, <1>7, <1>8, <1>9, <1>10, <1>11 DEF BillingNext

LEMMA Invariance == BillingSpec => []BillingInv
  BY InitInv, NextInv, PTL DEF BillingSpec

-----------------------------------------------------------------------------
(* Every variable keeps its type: in particular no amount shown as paid    *)
(* becomes negative, however rounding falls (service.go:583-603).          *)
THEOREM BillingTypeCorrect == BillingSpec => []BillingTypeOK
<1>1. BillingInv => BillingTypeOK
  BY DEF BillingInv
<1> QED BY <1>1, Invariance, PTL

(* An order is billed once, for its grand total and after it was shipped,  *)
(* unless two requests to bill it overlap (service.go:533-552).            *)
THEOREM OrdersInvoicedOnce == BillingSpec => []InvoicedOnce
<1>1. BillingInv => InvoicedOnce
  BY DEF BillingInv
<1> QED BY <1>1, Invariance, PTL

(* However payments overlap, an invoice shows no more than its total as    *)
(* paid, and the status its amounts call for (service.go:594-603).         *)
THEOREM PaidTellsTruth == BillingSpec => []PaidTells
<1>1. BillingInv => PaidTells
  BY DEF BillingInv
<1> QED BY <1>1, Invariance, PTL

(* Payments that do not overlap all count: what is shown as paid is what   *)
(* clients were told was accepted, up to half a stored unit of rounding    *)
(* for each payment, at every scale of money (service.go:588-603).         *)
THEOREM PaymentsAllCounted == BillingSpec => []PaymentsCounted
<1>1. BillingInv => PaymentsCounted
  BY DEF BillingInv
<1> QED BY <1>1, Invariance, PTL

(* A return whose handlers take turns goes back to stock once, when it is  *)
(* received, and only what was restockable (service.go:699-753).           *)
THEOREM ReturnsRestockedOnce == BillingSpec => []RestockedOnce
<1>1. BillingInv => RestockedOnce
  BY DEF BillingInv
<1> QED BY <1>1, Invariance, PTL

-----------------------------------------------------------------------------
LEMMA StatusStep ==
    BillingInv /\ [BillingNext]_billing =>
      /\ \A i \in Invoice \ raced :
            invoices'[i].status # invoices[i].status =>
              Legal(invoices[i].status, invoices'[i].status)
      /\ \A r \in Return \ raced :
            returns'[r].status # returns[r].status =>
              Legal(returns[r].status, returns'[r].status)
<1> DEFINE Good ==
      /\ \A i \in Invoice \ raced :
            invoices'[i].status # invoices[i].status =>
              Legal(invoices[i].status, invoices'[i].status)
      /\ \A r \in Return \ raced :
            returns'[r].status # returns[r].status =>
              Legal(returns[r].status, returns'[r].status)
<1> SUFFICES ASSUME BillingInv, [BillingNext]_billing PROVE Good
  OBVIOUS
<1> USE DEF BillingInv
<1>1. CASE UNCHANGED <<invoices, returns>>
  BY <1>1
<1>2. ASSUME NEW h \in Handler, NEW i \in Invoice, IssueInvoice(h, i) PROVE Good
  BY <1>2 DEF IssueInvoice, BillingTypeOK, Legal
<1>3. ASSUME NEW h \in Handler, RecordPayment(h) PROVE Good
  <2>1. /\ work[h].op = "pay" /\ work[h].doc \in Invoice /\ returns' = returns
        /\ work[h].doc \notin raced =>
             invoices[work[h].doc].status \in {"issued", "partially_paid"}
    BY <1>3 DEF RecordPayment, Kinds, Turns, StillTrue
  <2>2. \E s \in {"paid", "partially_paid"} : \E order : \E total : \E paid :
          invoices' = [invoices EXCEPT ![work[h].doc] =
                         [status |-> s, order |-> order, total |-> total, paid |-> paid]]
    BY <1>3 DEF RecordPayment
  <2>3. PICK s \in {"paid", "partially_paid"} :
          /\ invoices'[work[h].doc].status = s
          /\ \A i \in Invoice : i # work[h].doc => invoices'[i] = invoices[i]
    BY <2>1, <2>2 DEF BillingTypeOK
  <2> QED BY <2>1, <2>3 DEF Legal
<1>4. ASSUME NEW r \in Return, NEW o \in SalesOrder, RequestReturn(r, o) PROVE Good
  <2>1. /\ returns[r].status = "absent" /\ invoices' = invoices
        /\ \E order : \E restock : \E lines :
             returns' = [returns EXCEPT ![r] = [status |-> "requested", order |-> order,
                                                restock |-> restock, lines |-> lines]]
    BY <1>4 DEF RequestReturn
  <2>2. /\ returns'[r].status = "requested"
        /\ \A q \in Return : q # r => returns'[q] = returns[q]
    BY <2>1 DEF BillingTypeOK
  <2> QED BY <2>1, <2>2 DEF Legal
<1>5. ASSUME NEW h \in Handler, DecideReturn(h) \/ ReceiveReturn(h) PROVE Good
  <2> DEFINE r == work[h].doc
  <2>1. r \in Return /\ invoices' = invoices
    BY <1>5 DEF DecideReturn, ReceiveReturn, Kinds
  <2>2. PICK s \in ReturnStatus :
          /\ SetReturn(r, s)
          /\ \/ work[h].op = "decide" /\ s \in {"approved", "rejected"}
             \/ work[h].op = "receive" /\ s = "received"
    BY <1>5 DEF DecideReturn, ReceiveReturn, ReturnStatus
  <2>3. /\ returns'[r].status = s
        /\ \A q \in Return : q # r => returns'[q] = returns[q]
    BY <2>1, <2>2, SetReturnFacts
  <2>4. r \notin raced => Legal(returns[r].status, s)
    BY <2>2 DEF Turns, StillTrue, Legal
  <2> QED BY <2>1, <2>3, <2>4
<1>6. ASSUME NEW o \in SalesOrder, ShipOrder(o) PROVE Good
  BY <1>1, <1>6 DEF ShipOrder
<1>7. ASSUME NEW h \in Handler, NEW o \in SalesOrder, CheckUnbilled(h, o) PROVE Good
  BY <1>1, <1>7 DEF CheckUnbilled
<1>8. ASSUME NEW h \in Handler, NEW i \in Invoice, NEW amount \in Amounts,
             ReadInvoice(h, i, amount)
      PROVE  Good
  BY <1>1, <1>8 DEF ReadInvoice
<1>9. ASSUME NEW h \in Handler, NEW op \in {"decide", "receive"}, NEW r \in Return,
             ReadReturn(h, op, r)
      PROVE  Good
  BY <1>1, <1>9 DEF ReadReturn
<1>10. ASSUME NEW h \in Handler, GiveUp(h) PROVE Good
  BY <1>1, <1>10 DEF GiveUp
<1>11. CASE UNCHANGED billing
  BY <1>1, <1>11 DEF billing
<1> QED BY <1>2, <1>3, <1>4, <1>5, <1>6, <1>7, <1>8, <1>9, <1>10, <1>11 DEF BillingNext

(* An invoice or a return that handlers take in turn never goes back: a    *)
(* paid invoice stays paid, a decided return is not decided again, and     *)
(* nothing is received that was not approved (service.go:581, 674, 707).   *)
THEOREM DocumentsMoveForward == BillingSpec => DocumentSteps
<1>1. BillingInv /\ [BillingNext]_billing =>
        [/\ \A i \in Invoice \ raced :
              invoices'[i].status # invoices[i].status =>
                Legal(invoices[i].status, invoices'[i].status)
         /\ \A r \in Return \ raced :
              returns'[r].status # returns[r].status =>
                Legal(returns[r].status, returns'[r].status)]_billing
  BY StatusStep
<1> QED BY <1>1, Invariance, PTL DEF BillingSpec, DocumentSteps
=============================================================================
