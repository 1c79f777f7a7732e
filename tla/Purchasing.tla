----------------------------- MODULE Purchasing -----------------------------
(***************************************************************************)
(* Purchase orders and goods receipts (internal/purchasing/service.go).    *)
(*                                                                         *)
(* A request reads its order without a lock, at the beginning of its       *)
(* transaction, and decides from that read.  A status change then writes   *)
(* the status.  A receipt takes a GRN code, which makes concurrent         *)
(* receipts of the organization wait for one another (Sequencer.Next is    *)
(* called after the order has been read), books its lines one by one and   *)
(* writes quantity_received, the status and the stock in one commit.       *)
(*                                                                         *)
(* The stock movements are those of Ledger.Apply (module StockLedger):     *)
(* here, the total that receipts of an order line have put into stock.     *)
(* Prices, suppliers and notifications are left out.                       *)
(***************************************************************************)
EXTENDS Sequencer

CONSTANTS
    PO,
    NoPO,
    Line,       \* order lines, by position
    Ordered,    \* quantity_ordered of a line, 0 if the order has no such line
    User,
    NoUser,
    Admin,      \* the users with the role admin
    MaxReceipts \* bound: no receipt arrives once so many are committed

ASSUME NoPOAssumption == NoPO \notin PO /\ NoUser \notin User
ASSUME OrderedAssumption == Ordered \in [PO -> [Line -> Nat]]
(* An order has a line, of a positive quantity (service.go:187, 260-262).  *)
ASSUME OrderHasLine == \A po \in PO : \E l \in Line : Ordered[po][l] > 0
ASSUME DocTypeAssumption == {"purchase_order", "goods_receipt"} \subseteq DocType

VARIABLES
    orders,     \* committed purchase_orders rows with their lines
    stock,      \* what goods receipts of an order line have put into stock
    phase,      \* what a handler does next
    req,        \* the request a handler serves
    seen,       \* the order as the handler read it
    booked,     \* what the handler's receipt has booked on each line so far
    stale       \* whether something was written from an outdated read

poVars == <<orders, stock, stale>>
handlerVars == <<phase, req, seen, booked>>
vars == <<seqVars, poVars, handlerVars>>

Status == {"draft", "pending_approval", "approved", "rejected",
           "partially_received", "received", "cancelled"}

poTransitions ==
    [ draft              |-> {"pending_approval", "cancelled"},
      pending_approval   |-> {"approved", "rejected", "cancelled"},
      approved           |-> {"partially_received", "received", "cancelled"},
      rejected           |-> {"draft", "cancelled"},
      partially_received |-> {"partially_received", "received", "cancelled"},
      received           |-> {},
      cancelled          |-> {} ]

CanTransitionTo(s, next) == s \in Status /\ next \in poTransitions[s]

(* What a request can ask for: a new order, a receipt, or a status.        *)
Op == {"create", "receive", "pending_approval", "approved", "rejected", "cancelled"}

Quantities == [Line -> Nat]
Zero == [l \in Line |-> 0]

OrderRow == [ status : Status \cup {"none"}, received : Quantities,
              createdBy : User \cup {NoUser}, approvedBy : User \cup {NoUser} ]
Absent == [status |-> "none", received |-> Zero, createdBy |-> NoUser, approvedBy |-> NoUser]

RequestRow == [po : PO \cup {NoPO}, op : Op, user : User \cup {NoUser}]
NoRequestRow == [po |-> NoPO, op |-> "create", user |-> NoUser]

Outstanding(po, row, l) == Ordered[po][l] - row.received[l]

Init ==
    /\ SeqInit
    /\ orders = [po \in PO |-> Absent]
    /\ stock = [po \in PO |-> Zero]
    /\ stale = FALSE
    /\ phase = [p \in Request |-> "idle"]
    /\ req = [p \in Request |-> NoRequestRow]
    /\ seen = [p \in Request |-> Absent]
    /\ booked = [p \in Request |-> Zero]

Reply(p) ==
    /\ phase' = [phase EXCEPT ![p] = "idle"]
    /\ req' = [req EXCEPT ![p] = NoRequestRow]
    /\ seen' = [seen EXCEPT ![p] = Absent]
    /\ booked' = [booked EXCEPT ![p] = Zero]

-----------------------------------------------------------------------------
(* Requests arrive: a new order, with a fresh id, or work on an order.     *)
(* Who asks matters for an approval only.                                  *)
ArriveCreate(p) ==
    /\ phase[p] = "idle"
    /\ \E po \in PO, u \in User :
         /\ orders[po] = Absent
         /\ \A r \in Request : req[r].po # po
         /\ req' = [req EXCEPT ![p] = [po |-> po, op |-> "create", user |-> u]]
    /\ phase' = [phase EXCEPT ![p] = "number"]
    /\ UNCHANGED <<seqVars, poVars, seen, booked>>

Arrive(p) ==
    /\ phase[p] = "idle"
    /\ \E po \in PO, op \in Op \ {"create"}, u \in User :
         /\ orders[po] # Absent
         /\ op = "receive" => last["goods_receipt"] < MaxReceipts
         /\ req' = [req EXCEPT ![p] =
              [po |-> po, op |-> op, user |-> IF op = "approved" THEN u ELSE NoUser]]
    /\ phase' = [phase EXCEPT ![p] = "load"]
    /\ UNCHANGED <<seqVars, poVars, seen, booked>>

(* ApprovePO: nobody but an admin approves an order they raised.           *)
ApprovedByAnother(creator, u) == u # creator \/ u \in Admin

(* Mutant of Permitted: a receipt is accepted before approval.             *)
PermittedEarly(r, row) ==
    \/ r.op = "receive" /\ row.status \notin {"none", "draft", "received", "cancelled"}
    \/ /\ r.op # "receive" /\ CanTransitionTo(row.status, r.op)
       /\ r.op = "approved" => ApprovedByAnother(row.createdBy, r.user)

(* The guards of Receive and of transition.                                *)
Permitted(r, row) ==
    \/ r.op = "receive" /\ row.status \in {"approved", "partially_received"}
    \/ /\ r.op # "receive" /\ CanTransitionTo(row.status, r.op)
       /\ r.op = "approved" => ApprovedByAnother(row.createdBy, r.user)

(* The order is read, without a lock, and the request is checked.          *)
Load(p) ==
    LET row == orders[req[p].po] IN
    /\ phase[p] = "load"
    /\ Permitted(req[p], row)
    /\ seen' = [seen EXCEPT ![p] = row]
    /\ phase' = [phase EXCEPT ![p] = IF req[p].op = "receive" THEN "number" ELSE "write"]
    /\ UNCHANGED <<seqVars, poVars, req, booked>>

Refuse(p) ==
    /\ phase[p] = "load"
    /\ ~Permitted(req[p], orders[req[p].po])
    /\ Reply(p)
    /\ UNCHANGED <<seqVars, poVars>>

(* Mutant of Transition: the row that was read is written back, and with   *)
(* it the approver of that time.                                           *)
TransitionSavesRow(p) ==
    LET po == req[p].po
        op == req[p].op
        row == orders[po]
    IN
    /\ phase[p] = "write"
    /\ orders' = [orders EXCEPT ![po] =
         [status |-> op, received |-> row.received, createdBy |-> row.createdBy,
          approvedBy |-> IF op = "approved" THEN req[p].user ELSE seen[p].approvedBy]]
    /\ stale' = (stale \/ seen[p] # row)
    /\ Reply(p)
    /\ UNCHANGED <<seqVars, stock>>

(* transition: UPDATE of the status, whatever it is by now, and COMMIT.    *)
Transition(p) ==
    LET po == req[p].po
        op == req[p].op
        row == orders[po]
    IN
    /\ phase[p] = "write"
    /\ orders' = [orders EXCEPT ![po] =
         [status |-> op, received |-> row.received, createdBy |-> row.createdBy,
          approvedBy |-> IF op = "approved" THEN req[p].user ELSE row.approvedBy]]
    /\ stale' = (stale \/ seen[p] # row)
    /\ Reply(p)
    /\ UNCHANGED <<seqVars, stock>>

-----------------------------------------------------------------------------
(* CreatePO and Receive take a code, waiting for the counter.              *)
Number(p) ==
    /\ phase[p] = "number"
    /\ Allocate(p, IF req[p].op = "create" THEN "purchase_order" ELSE "goods_receipt")
    /\ phase' = [phase EXCEPT ![p] = "book"]
    /\ UNCHANGED <<poVars, req, seen, booked>>

CommitCreate(p) ==
    /\ phase[p] = "book" /\ req[p].op = "create"
    /\ orders' = [orders EXCEPT ![req[p].po] =
         [status |-> "draft", received |-> Zero, createdBy |-> req[p].user,
          approvedBy |-> NoUser]]
    /\ CommitCodes(p)
    /\ Reply(p)
    /\ UNCHANGED <<stock, stale>>

(* Mutant of Acceptable: a line that repeats in the receipt is checked     *)
(* against what was outstanding before the receipt.                        *)
AcceptableEach(p, l, q) == q > 0 /\ q <= Outstanding(req[p].po, seen[p], l)

(* A line of the delivery belongs to the order, is positive, and fits what *)
(* is outstanding after the lines before it.                               *)
Acceptable(p, l, q) ==
    q > 0 /\ q <= Outstanding(req[p].po, seen[p], l) - booked[p][l]

Plus(n, l, q) == [n EXCEPT ![l] = @ + q]

BookLine(p) ==
    /\ phase[p] = "book" /\ req[p].op = "receive"
    /\ \E l \in Line :
         \E q \in 0..Ordered[req[p].po][l] :
           /\ Acceptable(p, l, q)
           /\ booked' = [booked EXCEPT ![p] = Plus(booked[p], l, q)]
    /\ UNCHANGED <<seqVars, poVars, phase, req, seen>>

(* A line that is not acceptable fails the whole receipt.                  *)
RefuseLine(p) ==
    /\ phase[p] = "book" /\ req[p].op = "receive"
    /\ \E l \in Line : \E q \in 0..(Ordered[req[p].po][l] + 1) : ~Acceptable(p, l, q)
    /\ AbortCodes(p)
    /\ Reply(p)
    /\ UNCHANGED poVars

(* The ledger or the database refuses, the connection is lost, the server  *)
(* dies: the transaction is rolled back.                                   *)
Abort(p) ==
    /\ phase[p] # "idle"
    /\ AbortCodes(p)
    /\ Reply(p)
    /\ UNCHANGED poVars

(* quantity_received of the lines once the receipt is committed.           *)
Received(p) == [l \in Line |-> seen[p].received[l] + booked[p][l]]

(* Fully received only when every line is satisfied.                       *)
NextStatus(p) ==
    IF \E l \in Line : Ordered[req[p].po][l] > Received(p)[l]
    THEN "partially_received" ELSE "received"

(* quantity_received of the lines in the receipt and the status are        *)
(* written from what was read; the movements add to the stock.             *)
CommitReceipt(p) ==
    LET po == req[p].po
        row == orders[po]
    IN
    /\ phase[p] = "book" /\ req[p].op = "receive" /\ booked[p] # Zero
    /\ orders' = [orders EXCEPT ![po] =
         [status |-> NextStatus(p),
          received |-> [l \in Line |-> IF booked[p][l] = 0 THEN row.received[l]
                                       ELSE Received(p)[l]],
          createdBy |-> row.createdBy, approvedBy |-> row.approvedBy]]
    /\ stock' = [stock EXCEPT ![po] = [l \in Line |-> stock[po][l] + booked[p][l]]]
    /\ stale' = (stale \/ seen[p] # row)
    /\ CommitCodes(p)
    /\ Reply(p)

-----------------------------------------------------------------------------
Work(p) ==
    \/ Load(p) \/ Refuse(p) \/ Transition(p)
    \/ CommitCreate(p) \/ BookLine(p) \/ RefuseLine(p)
    \/ CommitReceipt(p)

Next ==
    \E p \in Request :
        ArriveCreate(p) \/ Arrive(p) \/ Work(p) \/ Number(p) \/ Abort(p)

Spec == Init /\ [][Next]_vars

(* A handler goes on with its request, a receipt has finitely many lines,  *)
(* and PostgreSQL queues the transactions that wait for a counter, so none *)
(* waits for ever while others come and go.                                *)
Fairness == \A p \in Request : WF_vars(Work(p)) /\ SF_vars(Number(p))

FairSpec == Spec /\ Fairness
-----------------------------------------------------------------------------
(* Properties.                                                             *)

(* Every variable has its type.                                            *)
TypeOK ==
    /\ SeqTypeOK
    /\ orders \in [PO -> OrderRow]
    /\ stock \in [PO -> Quantities]
    /\ stale \in BOOLEAN
    /\ phase \in [Request -> {"idle", "load", "write", "number", "book"}]
    /\ req \in [Request -> RequestRow]
    /\ seen \in [Request -> OrderRow]
    /\ booked \in [Request -> Quantities]

(* However requests overlap, goods of an order are in stock, or can be     *)
(* received, only after a user other than the one who raised it, or an     *)
(* admin, has approved it (service.go:302-310, 464-467).                   *)
GoodsWereApproved ==
    \A po \in PO :
        (stock[po] # Zero \/ orders[po].status \in {"approved", "partially_received", "received"})
        => /\ orders[po].approvedBy \in User
           /\ ApprovedByAnother(orders[po].createdBy, orders[po].approvedBy)

(* However requests overlap, an order line never claims more than was put  *)
(* into stock, and never more than was ordered: the check constraint       *)
(* po_lines_no_over_receipt (migrations/000004:63) is never what stops a   *)
(* receipt.                                                                *)
LineWithinStock ==
    \A po \in PO, l \in Line :
        /\ orders[po].received[l] <= stock[po][l]
        /\ orders[po].received[l] <= Ordered[po][l]

(* As long as nothing is written from an outdated read, the order knows    *)
(* exactly what was put into stock, whatever receipts fail half-way, and   *)
(* its status tells how much is outstanding.                               *)
StatusTells(po) ==
    LET row == orders[po]
        open == \E l \in Line : Outstanding(po, row, l) > 0
    IN CASE row.status = "received" -> ~open
         [] row.status = "partially_received" -> open /\ row.received # Zero
         [] row.status = "cancelled" -> open
         [] OTHER -> row.received = Zero

OrderKnowsStock ==
    ~stale => \A po \in PO : orders[po].received = stock[po] /\ StatusTells(po)

(* As long as nothing is written from an outdated read, an order only ever *)
(* moves along poTransitions (purchasing/model.go:45-55): the status is    *)
(* written without looking at the one it replaces (service.go:376), and a  *)
(* receipt writes the one it computed long before (service.go:558-566).    *)
StatusSteps ==
    [][~stale' => \A po \in PO :
         orders'[po].status # orders[po].status =>
             \/ orders[po].status = "none" /\ orders'[po].status = "draft"
             \/ CanTransitionTo(orders[po].status, orders'[po].status)]_vars

(* A user entitled to it has approved the order of this row.               *)
ApprovedRow(row) ==
    /\ row.approvedBy \in User
    /\ ApprovedByAnother(row.createdBy, row.approvedBy)

(* Whatever overlaps, even from outdated reads, an order is never lost nor *)
(* given to another author, and once a user entitled to it has approved    *)
(* it, no status change or receipt leaves it without such an approval.     *)
ApprovalLasts ==
    [][\A po \in PO :
         orders[po].status # "none" =>
             /\ orders'[po].status # "none"
             /\ orders'[po].createdBy = orders[po].createdBy
             /\ ApprovedRow(orders[po]) => ApprovedRow(orders'[po])]_vars

(* Every request is answered, although receipts and new orders wait for    *)
(* one another's counters.                                                 *)
EveryRequestAnswered == \A p \in Request : (phase[p] # "idle") ~> (phase[p] = "idle")

=============================================================================
