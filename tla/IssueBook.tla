----------------------------- MODULE IssueBook -----------------------------
(***************************************************************************)
(* What Ledger.Issue and Ledger.Apply promise a request for the stock of a *)
(* product in a warehouse, with no snapshots, locks or statements: it is   *)
(* answered once, and what the answer says happens at once, to the rows,   *)
(* the movements, the idempotency keys, the cost layers and the cost that  *)
(* is handed back, or none of it does.  (ledger.go:64-66: "callers supply  *)
(* the transaction, so a goods receipt with ten lines is one atomic        *)
(* unit".)  Which layers goods come out of is left open; that they are the *)
(* oldest is StockIssue's OldestFirst.                                     *)
(***************************************************************************)
EXTENDS Integers, Functions

CONSTANTS
    Proc,           \* requests
    Row,            \* the stock_items rows
    ReservedOf,     \* reserved_quantity of a row
    Layer,          \* cost layers; a receipt creates the layer of its name
    StdCost,        \* products.cost_price
    NoKey           \* the key of a request without a client_request_id

VARIABLES
    quantity,       \* stock_items.quantity
    layers,         \* cost_layers
    used,           \* client_request_ids on movements
    posted,         \* what each row gained by a request
    cogs,           \* the cost a request was given for its goods
    short,          \* units of it that no layer was found for
    asked,          \* the requests that have been sent
    job,            \* what they were sent with
    outcome         \* their answers

books == <<quantity, layers, used, posted, cogs, short>>
vars == <<books, asked, job, outcome>>

Total(f) == SumFunctionOnSet(f, DOMAIN f)
Units(d) == Total([r \in Row |-> IF d[r] < 0 THEN -d[r] ELSE d[r]])

(* Of the functions f and g, nothing differs but what they say of p.       *)
OnlyAt(p, f, g) == g = [f EXCEPT ![p] = g[p]]

Init ==
    /\ \A r \in Row : quantity[r] >= ReservedOf[r]
    /\ \A l \in Layer : layers[l].left >= 0
    /\ used = {} /\ asked = {}
    /\ posted = [p \in Proc |-> [r \in Row |-> 0]]
    /\ cogs = [p \in Proc |-> 0]
    /\ short = [p \in Proc |-> 0]
    /\ outcome = [p \in Proc |-> "none"]

(* A request is sent; the one without the key it needs is turned away.     *)
Ask(p) ==
    /\ p \notin asked
    /\ asked' = asked \cup {p}
    /\ OnlyAt(p, job, job')
    /\ outcome' \in {outcome, [outcome EXCEPT ![p] = "rejected"]}
    /\ UNCHANGED books

(* It is refused, or fails: nothing has happened.                          *)
Decline(p, o) ==
    /\ p \in asked /\ outcome[p] = "none"
    /\ outcome' = [outcome EXCEPT ![p] = o]
    /\ UNCHANGED <<books, asked, job>>

(* Rows gain what is received or lose what is drawn, and keep what is      *)
(* reserved of them.                                                       *)
MoveRows(p) ==
    /\ OnlyAt(p, posted, posted')
    /\ \A r \in Row : IF job[p].kind = "receive" THEN posted'[p][r] >= 0
                                                 ELSE posted'[p][r] <= 0
    /\ quantity' = [r \in Row |-> quantity[r] + posted'[p][r]]
    /\ \A r \in Row : quantity'[r] >= ReservedOf[r]

(* Goods that leave were in layers, at their cost, or are short and valued *)
(* at standard cost.                                                       *)
DrawLayers(p) ==
    LET taken == [l \in Layer |-> layers[l].left - layers'[l].left] IN
    /\ \A l \in Layer : 0 <= layers'[l].left /\ layers'[l].left <= layers[l].left
    /\ layers' = [l \in Layer |-> [layers[l] EXCEPT !.left = layers'[l].left]]
    /\ OnlyAt(p, short, short') /\ short'[p] >= 0
    /\ Total(taken) + short'[p] = Units(posted'[p])
    /\ OnlyAt(p, cogs, cogs')
    /\ cogs'[p] = Total([l \in Layer |-> taken[l] * layers[l].cost]) + StdCost * short'[p]

(* Goods that are received are a layer of their own, at their own cost.    *)
NewLayer(p) ==
    /\ OnlyAt(p, layers, layers')
    /\ layers[p].left = 0 /\ layers'[p].total = job[p].qty
    /\ layers'[p].left = job[p].qty /\ layers'[p].cost = job[p].cost
    /\ UNCHANGED <<cogs, short>>

(* It is answered "applied": it moved what was asked, under a key that     *)
(* nobody had used.                                                        *)
Apply(p) ==
    /\ p \in asked /\ outcome[p] = "none"
    /\ MoveRows(p) /\ Units(posted'[p]) = job[p].qty
    /\ IF job[p].kind = "receive" THEN NewLayer(p) ELSE DrawLayers(p)
    /\ job[p].key \notin used
    /\ used' = used \cup ({job[p].key} \ {NoKey})
    /\ outcome' = [outcome EXCEPT ![p] = "applied"]
    /\ UNCHANGED <<asked, job>>

(* It is answered "duplicate": its key had been used, and it moved less    *)
(* than was asked; nothing, unless it is an issue, whose later rows carry  *)
(* no key.                                                                 *)
Repeat(p) ==
    /\ p \in asked /\ outcome[p] = "none"
    /\ MoveRows(p) /\ Units(posted'[p]) < job[p].qty
    /\ job[p].kind # "issue" => \A r \in Row : posted'[p][r] = 0
    /\ DrawLayers(p)
    /\ job[p].key \in used
    /\ outcome' = [outcome EXCEPT ![p] = "duplicate"]
    /\ UNCHANGED <<used, asked, job>>

Next ==
    \E p \in Proc :
        \/ Ask(p) \/ Apply(p) \/ Repeat(p)
        \/ \E o \in {"rejected", "failed"} : Decline(p, o)

Spec == Init /\ [][Next]_vars
=============================================================================
