----------------------------- MODULE MasterData -----------------------------
(***************************************************************************)
(* Warehouses and products against the stock that refers to them           *)
(* (warehouse/warehouse.go, product/service.go).                           *)
(*                                                                         *)
(* A request reads the row, counts the stock, and then writes: three       *)
(* statements, and no lock.  A movement of stock looks at the warehouse    *)
(* before its transaction, at the batch policy of the product inside it,   *)
(* and locks neither row.  Both kinds of request keep the other's tables   *)
(* in order, each by a look at what may change before it is done.          *)
(***************************************************************************)

CONSTANTS
    Warehouse, Product,
    Handler      \* requests, of any kind

ASSUME SubjectAssumption == Warehouse \cap Product = {}

VARIABLES
    wh,        \* warehouses
    prod,      \* products
    stock,     \* the coordinates that hold goods
    ask,       \* what a request is doing
    raced,     \* history: rows that requests overlapped on
    supplied,  \* history: deleted rows that goods were booked to, unlooked at
    unticked   \* history: the default was taken away from a warehouse, and no
               \* other has it since

vars == <<wh, prod, stock, ask, raced, supplied, unticked>>
history == <<raced, supplied, unticked>>
-----------------------------------------------------------------------------
Status == {"absent", "live", "deleted"}

(* A coordinate of stock, with a batch or without.                         *)
Goods == Product \X Warehouse \X {"lot", "plain"}

Subjects(g) == {g[1], g[2]}

Idle == [op |-> "idle", on |-> {}]

Init ==
    /\ wh = [w \in Warehouse |-> [status |-> "absent", isDefault |-> FALSE]]
    /\ prod = [p \in Product |-> [status |-> "absent", tracked |-> FALSE]]
    /\ stock = {}
    /\ ask = [h \in Handler |-> Idle]
    /\ raced = {} /\ supplied = {} /\ unticked = FALSE

Live(x) == IF x \in Warehouse THEN wh[x].status = "live" ELSE prod[x].status = "live"

Exists(x) == IF x \in Warehouse THEN wh[x].status # "absent" ELSE prod[x].status # "absent"

(* Two movements do not disturb one another here; every other pair on one  *)
(* row may.                                                                *)
Met(h, r) ==
    UNION {ask[g].on \cap r.on : g \in {g \in Handler \ {h} : ~(r.op = "move" /\ ask[g].op = "move")}}

Begin(h, r) ==
    /\ ask[h] = Idle
    /\ ask' = [ask EXCEPT ![h] = r]
    /\ raced' = raced \cup Met(h, r)
    /\ UNCHANGED <<wh, prod, stock, supplied, unticked>>

(* A request that is refused, or whose statement fails.                    *)
GiveUp(h) ==
    /\ ask[h] # Idle
    /\ ask' = [ask EXCEPT ![h] = Idle]
    /\ UNCHANGED <<wh, prod, stock, history>>

At(h, op, step) == ask[h].op = op /\ ask[h].step = step

The(h) == CHOOSE x \in ask[h].on : TRUE

Proceed(h, step) ==
    /\ ask' = [ask EXCEPT ![h].step = step]
    /\ UNCHANGED <<wh, prod, stock, history>>
-----------------------------------------------------------------------------
(* Warehouses.                                                             *)

(* clearDefault: the default is taken from the row that has it.            *)
Cleared(claiming) ==
    [w \in Warehouse |->
       IF claiming /\ wh[w].status = "live" THEN [wh[w] EXCEPT !.isDefault = FALSE] ELSE wh[w]]

(* The first warehouse becomes the default.                                *)
CreateWarehouse(w, claiming) ==
    /\ ~Exists(w)
    /\ LET first == ~\E v \in Warehouse : Live(v)
       IN /\ wh' = [Cleared(claiming) EXCEPT ![w] =
                      [status |-> "live", isDefault |-> claiming \/ first]]
          /\ unticked' = (unticked /\ ~claiming /\ ~first)
    /\ UNCHANGED <<prod, stock, ask, raced, supplied>>

GetForUpdate(h, w, default) ==
    /\ Live(w)
    /\ Begin(h, [op |-> "update", step |-> "write", on |-> {w}, flag |-> default])

(* Save writes every column of the row that was read: UPDATE, and when no  *)
(* live row has the id any more, INSERT ... ON CONFLICT DO UPDATE, which   *)
(* brings a warehouse back that was deleted meanwhile.                     *)
UpdateWarehouse(h) ==
    /\ At(h, "update", "write")
    /\ LET w == The(h)
           default == ask[h].flag
       IN /\ wh' = [Cleared(default) EXCEPT ![w] = [status |-> "live", isDefault |-> default]]
          /\ unticked' = IF default THEN FALSE ELSE unticked \/ (Live(w) /\ wh[w].isDefault)
    /\ ask' = [ask EXCEPT ![h] = Idle]
    /\ UNCHANGED <<prod, stock, raced, supplied>>

GetForDelete(h, w) ==
    /\ Live(w)
    /\ Begin(h, [op |-> "delete", step |-> "count", on |-> {w}, flag |-> wh[w].isDefault])

(* Mutant of Holds: goods that belong to a batch are not looked at.        *)
HoldsPlain(x) == \E g \in stock : x \in Subjects(g) /\ g[3] = "plain"

(* A row of stock with a quantity refers to the warehouse or the product.  *)
Holds(x) == \E g \in stock : x \in Subjects(g)

(* Mutant of MayDelete: any warehouse that is empty.                       *)
MayDeleteAny(h) == ~Holds(The(h))

(* Counted now; whether it is the default is what was read before.         *)
MayDelete(h) == ~Holds(The(h)) /\ ~ask[h].flag

CountForDelete(h) ==
    /\ At(h, "delete", "count")
    /\ MayDelete(h)
    /\ Proceed(h, "write")

(* Mutant of DeleteWarehouse: the row is removed, not marked.              *)
RemoveWarehouse(h) ==
    /\ At(h, "delete", "write")
    /\ wh' = [wh EXCEPT ![The(h)].status = "absent"]
    /\ ask' = [ask EXCEPT ![h] = Idle]
    /\ UNCHANGED <<prod, stock, history>>

DeleteWarehouse(h) ==
    /\ At(h, "delete", "write")
    /\ wh' = [wh EXCEPT ![The(h)].status = "deleted"]
    /\ ask' = [ask EXCEPT ![h] = Idle]
    /\ UNCHANGED <<prod, stock, history>>
-----------------------------------------------------------------------------
(* Products.                                                               *)

CreateProduct(p, tracked) ==
    /\ ~Exists(p)
    /\ prod' = [prod EXCEPT ![p] = [status |-> "live", tracked |-> tracked]]
    /\ UNCHANGED <<wh, stock, ask, history>>

(* An update that changes track_batches, or a deletion.                    *)
GetProduct(h, p, op) ==
    /\ Live(p)
    /\ Begin(h, [op |-> op, step |-> "count", on |-> {p},
                 flag |-> op = "flip" /\ ~prod[p].tracked])

AssertNoStock(h) ==
    /\ At(h, "flip", "count") \/ At(h, "remove", "count")
    /\ ~Holds(The(h))
    /\ Proceed(h, "write")

(* The UPDATE passes over a product that was deleted meanwhile.            *)
UpdateProduct(h) ==
    /\ At(h, "flip", "write")
    /\ prod' = IF Live(The(h)) THEN [prod EXCEPT ![The(h)].tracked = ask[h].flag] ELSE prod
    /\ ask' = [ask EXCEPT ![h] = Idle]
    /\ UNCHANGED <<wh, stock, history>>

DeleteProduct(h) ==
    /\ At(h, "remove", "write")
    /\ prod' = [prod EXCEPT ![The(h)].status = "deleted"]
    /\ ask' = [ask EXCEPT ![h] = Idle]
    /\ UNCHANGED <<wh, stock, history>>
-----------------------------------------------------------------------------
(* Movements.                                                              *)

AssertWarehouse(w) == Live(w)

Movement(g, into, blind) ==
    [op |-> "move", step |-> "policy", on |-> Subjects(g), goods |-> g, into |-> into,
     blind |-> blind]

(* Adjust looks at the warehouse first, in a statement of its own.         *)
Adjust(h, g, into) ==
    /\ Exists(g[1]) /\ AssertWarehouse(g[2])
    /\ Begin(h, Movement(g, into, FALSE))

(* What a document books (the receipt of an order or of a transfer, the    *)
(* variance of a count, a return) goes to the warehouse the document was   *)
(* written for, which nobody looks at again.                               *)
Deliver(h, g, into) ==
    /\ Exists(g[1]) /\ Exists(g[2])
    /\ Begin(h, Movement(g, into, ~Live(g[2])))

(* Mutant of Accepts: the policy is not looked at.                         *)
AcceptsAll(g) == TRUE

(* assertBatchPolicy.  Of a product that was deleted no row is found, and  *)
(* it counts as one without batches.                                       *)
Accepts(g) == (Live(g[1]) /\ prod[g[1]].tracked) => g[3] = "lot"

CheckPolicy(h) ==
    /\ At(h, "move", "policy")
    /\ Accepts(ask[h].goods)
    /\ Proceed(h, "write")

(* What a movement goes by without having looked whether it was deleted.   *)
Unlooked(h) == IF ask[h].blind THEN ask[h].on ELSE ask[h].on \cap Product

(* COMMIT.  Drawing takes all there is, or a part.                         *)
Move(h) ==
    /\ At(h, "move", "write")
    /\ LET g == ask[h].goods
       IN IF ask[h].into
          THEN /\ stock' = stock \cup {g}
               /\ supplied' = supplied \cup {x \in Unlooked(h) \ raced : ~Live(x)}
          ELSE /\ g \in stock
               /\ stock' = stock \ {g}
               /\ UNCHANGED supplied
    /\ ask' = [ask EXCEPT ![h] = Idle]
    /\ UNCHANGED <<wh, prod, raced, unticked>>
-----------------------------------------------------------------------------
Next ==
    \/ \E w \in Warehouse, b \in BOOLEAN : CreateWarehouse(w, b)
    \/ \E p \in Product, b \in BOOLEAN : CreateProduct(p, b)
    \/ \E h \in Handler :
         \/ \E w \in Warehouse : (\E b \in BOOLEAN : GetForUpdate(h, w, b)) \/ GetForDelete(h, w)
         \/ UpdateWarehouse(h) \/ CountForDelete(h) \/ DeleteWarehouse(h)
         \/ \E p \in Product, op \in {"flip", "remove"} : GetProduct(h, p, op)
         \/ AssertNoStock(h) \/ UpdateProduct(h) \/ DeleteProduct(h)
         \/ \E g \in Goods, into \in BOOLEAN : Adjust(h, g, into) \/ Deliver(h, g, into)
         \/ CheckPolicy(h) \/ Move(h)
         \/ GiveUp(h)

Spec == Init /\ [][Next]_vars
-----------------------------------------------------------------------------
(* Properties.                                                             *)

Ask ==
    {Idle}
    \cup [op : {"update", "delete"}, step : {"count", "write"},
          on : {{w} : w \in Warehouse}, flag : BOOLEAN]
    \cup [op : {"flip", "remove"}, step : {"count", "write"},
          on : {{p} : p \in Product}, flag : BOOLEAN]
    \cup [op : {"move"}, step : {"policy", "write"}, on : {Subjects(g) : g \in Goods},
          goods : Goods, into : BOOLEAN, blind : BOOLEAN]

(* Every variable has its type, and goods lie where a product and a        *)
(* warehouse once were.                                                    *)
TypeOK ==
    /\ wh \in [Warehouse -> [status : Status, isDefault : BOOLEAN]]
    /\ prod \in [Product -> [status : Status, tracked : BOOLEAN]]
    /\ stock \in SUBSET Goods
    /\ \A g \in stock : \A x \in Subjects(g) : Exists(x)
    /\ ask \in [Handler -> Ask]
    /\ raced \cup supplied \subseteq Warehouse \cup Product
    /\ unticked \in BOOLEAN

(* warehouse.go:97-98, 203: "the first warehouse in an organization        *)
(* becomes the default, so stock receipts have somewhere to go", and "the  *)
(* default warehouse cannot be deleted; make another one default first".   *)
(* An organization with a warehouse has exactly one default, unless an     *)
(* update took it away from the one that had it, or requests overlapped on *)
(* a warehouse; and never two.                                             *)
Defaults == {w \in Warehouse : Live(w) /\ wh[w].isDefault}

OneDefault ==
    /\ \A v, w \in Defaults : v = w
    /\ (~unticked /\ raced \cap Warehouse = {} /\ \E w \in Warehouse : Live(w)) => Defaults # {}

(* warehouse.go:200, product/service.go:261-262: a warehouse or a product  *)
(* is deleted only when nothing is left of it, and nothing comes back,     *)
(* unless a movement overlapped the deletion, or goods were booked to what *)
(* was deleted already: by a document that was written for the warehouse,  *)
(* or by any movement of the product, which no movement looks at.          *)
DeletedIsEmpty ==
    \A x \in Warehouse \cup Product :
        (Exists(x) /\ ~Live(x) /\ x \notin raced \cup supplied)
            => \A g \in stock : x \notin Subjects(g)

(* migrations/000002:70-72: "stock for this product must always be         *)
(* attributed to a batch", of every product that tracks batches, whenever  *)
(* it began to (product/service.go:180-181), unless a movement overlapped  *)
(* that update.                                                            *)
TrackedHasBatch ==
    \A p \in Product \ raced :
        (Live(p) /\ prod[p].tracked) => \A g \in stock : g[1] = p => g[3] = "lot"
=============================================================================
