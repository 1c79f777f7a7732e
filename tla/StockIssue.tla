----------------------------- MODULE StockIssue -----------------------------
(***************************************************************************)
(* Ledger.Issue (internal/stock/ledger.go): stock leaves a warehouse       *)
(* without the caller naming a bin, from as many rows as it takes, and at  *)
(* the cost of the oldest layers.  Service.Adjust calls it for a negative  *)
(* quantity with no location, and Ledger.Apply for everything else.        *)
(*                                                                         *)
(* One product in one warehouse.  As in StockLedger a request is one       *)
(* transaction under READ COMMITTED.  SELECT ... ORDER BY ... FOR UPDATE   *)
(* takes its rows from a snapshot, then locks them one after the other,    *)
(* waiting for their owners, and drops (but keeps locked) those that no    *)
(* longer qualify; a row that qualifies only since the snapshot is missed. *)
(* Rows exist: their creation is StockLedger's.  Amounts are whole, so     *)
(* that no cost has to be rounded.                                         *)
(*                                                                         *)
(* Names that StockDocuments has too are avoided, so that one module may   *)
(* extend both.                                                            *)
(***************************************************************************)
EXTENDS Integers, FiniteSets, Functions

CONSTANTS
    Proc,           \* requests
    NoProc,
    Row,            \* the stock_items rows
    Place,          \* of a row, in the order of batch expiry (none last) and age
    Rank,           \* of a row, as the query of a request orders it
    Batch,
    BatchOf,        \* the batch of a row
    NoBatch,        \* batch_id NULL
    ReservedOf,     \* reserved_quantity of a row
    OldLayer,       \* the cost layers there are at the start
    OpeningRows,    \* opening quantity of a row
    OpeningLayers,  \* the layers at the start
    StdCost,        \* products.cost_price
    Key,            \* client_request_id values
    NoKey,
    Jobs            \* what a request may ask for

Layer == OldLayer \cup Proc     \* a receipt creates the layer of its name

Job == [kind : {"issue", "draw", "receive"}, row : Row, qty : Nat, key : Key \cup {NoKey},
        cost : Nat, age : Int, scan : BOOLEAN]
LayerRow == [total : Nat, left : Nat, cost : Nat, age : Int, batch : Batch \cup {NoBatch}]

ASSUME ProcAssumption ==
    /\ NoProc \notin Proc /\ Proc \cap OldLayer = {}
    /\ IsFiniteSet(Proc) /\ IsFiniteSet(OldLayer)
ASSUME KeyAssumption == NoKey \notin Key
ASSUME JobsAssumption == Jobs \subseteq Job /\ \A j \in Jobs : j.qty > 0
ASSUME RowAssumption ==
    /\ IsFiniteSet(Row) /\ Row # {}
    /\ Place \in [Row -> Nat]
    /\ OpeningRows \in [Row -> Nat] /\ ReservedOf \in [Row -> Nat]
    /\ \A r \in Row : OpeningRows[r] >= ReservedOf[r]
    /\ BatchOf \in [Row -> Batch \cup {NoBatch}]
(* Rows of one expiry and one age are tied, and come in an order that each *)
(* request's query is free to choose.                                      *)
ASSUME RankAssumption ==
    /\ Rank \in [Proc -> [Row -> Nat]]
    /\ \A p \in Proc, r, s \in Row :
         /\ Rank[p][r] = Rank[p][s] => r = s
         /\ Place[r] < Place[s] => Rank[p][r] < Rank[p][s]
ASSUME LayerAssumption == OpeningLayers \in [OldLayer -> LayerRow] /\ StdCost \in Nat

VARIABLES
    quantity,       \* stock_items.quantity
    layers,         \* cost_layers; total 0 while a receipt has not created its own
    used,           \* client_request_ids on committed movements
    posted,         \* the committed movements of a request: what each row gained
    cogs,           \* the cost a committed request was given for its goods
    short,          \* units of it that no layer was found for
    rowLock,        \* the transaction that holds a row FOR UPDATE
    layerLock,      \* the transaction that holds a layer FOR UPDATE
    pc,             \* the next statement of a request
    job,            \* what a request was sent with
    tx,             \* what its transaction has read and written
    outcome         \* its answer

stored == <<quantity, layers, used, posted, cogs, short>>
locks == <<rowLock, layerLock>>
issues == <<stored, locks, pc, job, tx, outcome>>

NoLayer == [total |-> 0, left |-> 0, cost |-> 0, age |-> 0, batch |-> NoBatch]

(* cand: rows of the snapshot not locked yet; lines: rows to draw from;    *)
(* owed: what is still to be drawn; key: whether the line that carries the *)
(* client_request_id is due, on the book, a duplicate, or had none; after, *)
(* delta: what was written of a row and its movement; batch, need: of the  *)
(* row just drawn from, and how much of it has no cost yet; found, held:   *)
(* layers of the snapshot not locked yet, and locked; taken, left: what    *)
(* was taken from a layer and written of it.                               *)
Fresh == [cand |-> {}, lines |-> {}, owed |-> 0, key |-> "due",
          after |-> [r \in Row |-> 0], delta |-> [r \in Row |-> 0],
          batch |-> NoBatch, need |-> 0, found |-> {}, held |-> {},
          taken |-> [l \in Layer |-> 0], left |-> [l \in Layer |-> 0],
          cogs |-> 0, short |-> 0]

NoJob == [kind |-> "draw", row |-> CHOOSE r \in Row : TRUE, qty |-> 0, key |-> NoKey,
          cost |-> 0, age |-> 0, scan |-> FALSE]

IssueInit ==
    /\ quantity = OpeningRows
    /\ layers = [l \in Layer |-> IF l \in OldLayer THEN OpeningLayers[l] ELSE NoLayer]
    /\ used = {}
    /\ posted = [p \in Proc |-> [r \in Row |-> 0]]
    /\ cogs = [p \in Proc |-> 0]
    /\ short = [p \in Proc |-> 0]
    /\ rowLock = [r \in Row |-> NoProc]
    /\ layerLock = [l \in Layer |-> NoProc]
    /\ pc = [p \in Proc |-> "idle"]
    /\ job = [p \in Proc |-> NoJob]
    /\ tx = [p \in Proc |-> Fresh]
    /\ outcome = [p \in Proc |-> "none"]

-----------------------------------------------------------------------------
Goto(p, s, t) ==
    /\ pc' = [pc EXCEPT ![p] = s]
    /\ tx' = [tx EXCEPT ![p] = t]
    /\ UNCHANGED <<job, outcome>>

(* The end of a transaction, either way.                                   *)
End(p, o) ==
    /\ rowLock' = [r \in Row |-> IF rowLock[r] = p THEN NoProc ELSE rowLock[r]]
    /\ layerLock' = [l \in Layer |-> IF layerLock[l] = p THEN NoProc ELSE layerLock[l]]
    /\ pc' = [pc EXCEPT ![p] = "done"]
    /\ tx' = [tx EXCEPT ![p] = Fresh]
    /\ outcome' = [outcome EXCEPT ![p] = o]
    /\ UNCHANGED job

(* Mutant of Fail: rows are written outside the transaction.               *)
FailKeepsRows(p, o) ==
    /\ End(p, o)
    /\ quantity' = [r \in Row |-> IF tx[p].delta[r] # 0 THEN tx[p].after[r] ELSE quantity[r]]
    /\ UNCHANGED <<layers, used, posted, cogs, short>>

Fail(p, o) == End(p, o) /\ UNCHANGED stored

(* Service.Adjust, or one entry of Service.Sync, begins.  Sync refuses an  *)
(* entry without a key; every other entry is a request of its own.         *)
Begin(p) ==
    /\ pc[p] = "idle"
    /\ \E j \in Jobs :
         /\ j.scan => j.key # NoKey
         /\ job' = [job EXCEPT ![p] = j]
         /\ pc' = [pc EXCEPT ![p] = IF j.kind = "issue" THEN "select" ELSE "lookup"]
         /\ tx' = [tx EXCEPT ![p] = [Fresh EXCEPT !.owed = j.qty,
                                       !.lines = IF j.kind = "issue" THEN {} ELSE {j.row}]]
    /\ UNCHANGED <<stored, locks, outcome>>

RefuseKeyless(p) ==
    /\ pc[p] = "idle"
    /\ \E j \in Jobs :
         /\ j.scan /\ j.key = NoKey
         /\ job' = [job EXCEPT ![p] = j]
    /\ pc' = [pc EXCEPT ![p] = "done"]
    /\ outcome' = [outcome EXCEPT ![p] = "rejected"]
    /\ UNCHANGED <<stored, locks, tx>>

Issuable(r) == quantity[r] > ReservedOf[r]
First(p, S, r) == r \in S /\ \A s \in S : Rank[p][r] <= Rank[p][s]

(* The snapshot of the rows an issue may draw from.                        *)
Candidates(p) ==
    /\ pc[p] = "select"
    /\ Goto(p, "lock", [tx[p] EXCEPT !.cand = {r \in Row : Issuable(r)}])
    /\ UNCHANGED <<stored, locks>>

Lock(p, r) ==
    /\ pc[p] = "lock" /\ r \in tx[p].cand
    /\ rowLock[r] = NoProc
    /\ rowLock' = [rowLock EXCEPT ![r] = p]
    /\ Goto(p, "lock", [tx[p] EXCEPT !.cand = @ \ {r},
                          !.lines = IF Issuable(r) THEN @ \cup {r} ELSE @])
    /\ UNCHANGED <<stored, layerLock>>

(* Mutant of LockRow: no ORDER BY.                                         *)
LockAnyRow(p) == \E r \in Row : Lock(p, r)

(* The rows are locked in the order of the query.                          *)
LockRow(p) == \E r \in Row : First(p, tx[p].cand, r) /\ Lock(p, r)

Available == [r \in Row |-> quantity[r] - ReservedOf[r]]
Enough(p) == SumFunctionOnSet(Available, tx[p].lines) >= tx[p].owed

Check(p) ==
    /\ pc[p] = "lock" /\ tx[p].cand = {}
    /\ Enough(p)
    /\ Goto(p, "lookup", tx[p])
    /\ UNCHANGED <<stored, locks>>

-----------------------------------------------------------------------------
(* Ledger.Apply for one source row.  Only the first carries the key.       *)

Source(p) == CHOOSE r \in tx[p].lines : First(p, tx[p].lines, r)
Smaller(a, b) == IF a < b THEN a ELSE b
Take(p) == IF job[p].kind = "issue" THEN Smaller(Available[Source(p)], tx[p].owed)
                                    ELSE tx[p].owed

(* Mutant of KeyOf: no line carries the key.                               *)
KeyForgotten(p) == NoKey

KeyOf(p) == IF tx[p].key = "due" THEN job[p].key ELSE NoKey

(* A line whose key is on the book: nothing is drawn from its row, and     *)
(* what would have been drawn counts as drawn (ledger.go:532-538).         *)
Skip(p) == [tx[p] EXCEPT !.owed = @ - Take(p), !.lines = @ \ {Source(p)}, !.key = "dup"]

After(t) == IF t.owed = 0 THEN "commit" ELSE "lookup"

Lookup(p) ==
    /\ pc[p] = "lookup"
    /\ IF KeyOf(p) \in used THEN Goto(p, After(Skip(p)), Skip(p))
       ELSE Goto(p, IF job[p].kind = "issue" THEN "write" ELSE "row", tx[p])
    /\ UNCHANGED <<stored, locks>>

LockItem(p) ==
    /\ pc[p] = "row"
    /\ rowLock[Source(p)] = NoProc
    /\ rowLock' = [rowLock EXCEPT ![Source(p)] = p]
    /\ Goto(p, "write", tx[p])
    /\ UNCHANGED <<stored, layerLock>>

Gain(p) == IF job[p].kind = "receive" THEN Take(p) ELSE -Take(p)

Drawable(p) == Gain(p) < 0 => quantity[Source(p)] + Gain(p) >= ReservedOf[Source(p)]

(* Another transaction has the key on a movement it has not committed.     *)
KeyPending(p, q) ==
    p # q /\ KeyOf(p) # NoKey /\ tx[q].key = "book" /\ job[q].key = KeyOf(p)

(* UPDATE stock_items and INSERT INTO stock_movements; an inbound line     *)
(* also inserts its layer.  The unique index makes the INSERT wait for     *)
(* another movement with the key.                                          *)
Write(p) ==
    LET r == Source(p) IN
    /\ pc[p] = "write"
    /\ Drawable(p)
    /\ KeyOf(p) \notin used
    /\ \A q \in Proc : ~KeyPending(p, q)
    /\ Goto(p, IF job[p].kind = "receive" THEN "commit" ELSE "layers",
         [tx[p] EXCEPT !.after[r] = quantity[r] + Gain(p), !.delta[r] = Gain(p),
                       !.key = IF @ # "due" THEN @
                               ELSE IF KeyOf(p) = NoKey THEN "none" ELSE "book",
                       !.batch = BatchOf[r], !.need = Take(p),
                       !.owed = @ - Take(p), !.lines = @ \ {r}])
    /\ UNCHANGED <<stored, locks>>

(* An issue that finds too little, a row too small, or a key another       *)
(* request has committed since the lookup.                                 *)
Refused(p) ==
    \/ pc[p] = "lock" /\ tx[p].cand = {} /\ ~Enough(p)
    \/ pc[p] = "write" /\ (~Drawable(p) \/ KeyOf(p) \in used)

Refuse(p) == Refused(p) /\ Fail(p, "rejected")

-----------------------------------------------------------------------------
(* consumeCostLayers.                                                      *)

Left(p, l) == IF tx[p].taken[l] > 0 THEN tx[p].left[l] ELSE layers[l].left

(* A row of a batch takes that batch's layers, a row without one takes     *)
(* them all.                                                               *)
Serves(p, l) == tx[p].batch \in {NoBatch, layers[l].batch} /\ Left(p, l) > 0

Older(l, m) == layers[l].age < layers[m].age
Oldest(S, l) == l \in S /\ \A m \in S : ~Older(m, l)

ChooseLayers(p) ==
    /\ pc[p] = "layers"
    /\ Goto(p, "hold", [tx[p] EXCEPT !.found = {l \in Layer : Serves(p, l)}])
    /\ UNCHANGED <<stored, locks>>

(* Mutant of LockLayer: a plain SELECT, which waits for nobody.            *)
ReadLayer(p) ==
    /\ pc[p] = "hold" /\ tx[p].found # {}
    /\ Goto(p, "hold", [tx[p] EXCEPT !.found = {}, !.held = tx[p].found])
    /\ UNCHANGED <<stored, locks>>

(* The layers are locked from the oldest to the youngest.                  *)
LockLayer(p) ==
    /\ pc[p] = "hold"
    /\ \E l \in Layer :
         /\ Oldest(tx[p].found, l)
         /\ layerLock[l] \in {NoProc, p}
         /\ layerLock' = [layerLock EXCEPT ![l] = p]
         /\ Goto(p, "hold", [tx[p] EXCEPT !.found = @ \ {l},
                               !.held = IF Serves(p, l) THEN @ \cup {l} ELSE @])
    /\ UNCHANGED <<stored, rowLock>>

Total(f) == SumFunctionOnSet(f, DOMAIN f)

(* What the loop takes from each layer: an older layer is used up before a *)
(* younger one is touched, and the loop ends when nothing is needed or     *)
(* nothing is left.                                                        *)
OldestFirst(p, take) ==
    /\ \A l \in tx[p].held : take[l] <= Left(p, l)
    /\ \A l, m \in tx[p].held : Older(l, m) /\ take[m] > 0 => take[l] = Left(p, l)
    /\ \A l, m \in tx[p].held :
         take[l] \in 1..(Left(p, l) - 1) /\ take[m] \in 1..(Left(p, m) - 1) => l = m
    /\ \/ Total(take) = tx[p].need
       \/ Total(take) < tx[p].need /\ \A l \in tx[p].held : take[l] = Left(p, l)

(* What no layer was found for is valued at standard cost.                 *)
Consume(p) ==
    LET t == tx[p] IN
    /\ pc[p] = "hold" /\ t.found = {}
    /\ \E take \in [t.held -> 0..t.need] :
         LET missing == t.need - Total(take) IN
         /\ OldestFirst(p, take)
         /\ Goto(p, After(t),
              [t EXCEPT !.taken = [l \in Layer |-> IF l \in t.held THEN @[l] + take[l] ELSE @[l]],
                        !.left = [l \in Layer |-> IF l \in t.held /\ take[l] > 0
                                                  THEN Left(p, l) - take[l] ELSE @[l]],
                        !.cogs = @ + Total([l \in t.held |-> take[l] * layers[l].cost])
                                   + missing * StdCost,
                        !.short = @ + missing, !.need = 0, !.held = {}])
    /\ UNCHANGED <<stored, locks>>

(* createCostLayer, for the receipt that names the layer.                  *)
Created(p) ==
    [total |-> job[p].qty, left |-> job[p].qty, cost |-> job[p].cost, age |-> job[p].age,
     batch |-> BatchOf[job[p].row]]

(* COMMIT publishes the rows, the movements and the layers.                *)
Commit(p) ==
    LET t == tx[p] IN
    /\ pc[p] = "commit"
    /\ quantity' = [r \in Row |-> IF t.delta[r] # 0 THEN t.after[r] ELSE quantity[r]]
    /\ posted' = [posted EXCEPT ![p] = t.delta]
    /\ used' = IF t.key = "book" THEN used \cup {job[p].key} ELSE used
    /\ layers' = [l \in Layer |->
                    IF l = p /\ job[p].kind = "receive" /\ t.key # "dup" THEN Created(p)
                    ELSE [layers[l] EXCEPT !.left = Left(p, l)]]
    /\ cogs' = [cogs EXCEPT ![p] = t.cogs]
    /\ short' = [short EXCEPT ![p] = t.short]
    /\ End(p, IF t.key = "dup" THEN "duplicate" ELSE "applied")

(* The connection or the server dies.                                      *)
Rollback(p) ==
    /\ pc[p] \notin {"idle", "done"}
    /\ Fail(p, "failed")

Step(p) ==
    \/ Candidates(p) \/ LockRow(p) \/ Check(p)
    \/ Lookup(p) \/ LockItem(p) \/ Write(p) \/ Refuse(p)
    \/ ChooseLayers(p) \/ LockLayer(p) \/ Consume(p) \/ Commit(p)

IssueNext == \E p \in Proc : Begin(p) \/ RefuseKeyless(p) \/ Step(p) \/ Rollback(p)

IssueSpec == IssueInit /\ [][IssueNext]_issues
-----------------------------------------------------------------------------
(* Properties.                                                             *)

Statement == {"select", "lock", "lookup", "row", "write", "layers", "hold", "commit"}

TxRow == [cand : SUBSET Row, lines : SUBSET Row, owed : Nat,
          key : {"due", "none", "book", "dup"},
          after : [Row -> Int], delta : [Row -> Int],
          batch : Batch \cup {NoBatch}, need : Nat,
          found : SUBSET Layer, held : SUBSET Layer,
          taken : [Layer -> Nat], left : [Layer -> Nat], cogs : Nat, short : Nat]

(* Every variable has its type, and no balance or layer is below zero.     *)
IssueTypeOK ==
    /\ quantity \in [Row -> Nat]
    /\ layers \in [Layer -> LayerRow]
    /\ used \subseteq Key
    /\ posted \in [Proc -> [Row -> Int]]
    /\ cogs \in [Proc -> Nat] /\ short \in [Proc -> Nat]
    /\ rowLock \in [Row -> Proc \cup {NoProc}]
    /\ layerLock \in [Layer -> Proc \cup {NoProc}]
    /\ pc \in [Proc -> Statement \cup {"idle", "done"}]
    /\ job \in [Proc -> Job]
    /\ tx \in [Proc -> TxRow]
    /\ outcome \in [Proc -> {"none", "applied", "duplicate", "rejected", "failed"}]

Sizes(f) == [r \in Row |-> IF f[r] < 0 THEN -f[r] ELSE f[r]]
Moved(p) == Total(Sizes(posted[p]))

(* ledger.go:458-459: an issue is whole.  Answered "applied", it took      *)
(* exactly what was asked, from however many rows; answered "duplicate",   *)
(* its key is on another request's movement and it took less than that;    *)
(* with any other answer it took nothing; and a key is applied once.       *)
IssueWhole ==
    /\ \A p, q \in Proc :
         /\ p # q /\ outcome[p] = "applied" /\ outcome[q] = "applied"
         => job[p].key # job[q].key \/ job[p].key = NoKey
    /\ \A p \in Proc :
        CASE outcome[p] = "applied" -> Moved(p) = job[p].qty
          [] outcome[p] = "duplicate" ->
               /\ Moved(p) < job[p].qty
               /\ \E q \in Proc : q # p /\ job[q].key = job[p].key /\ outcome[q] = "applied"
          [] OTHER -> Moved(p) = 0

(* A row holds what it opened with and what the committed movements say,   *)
(* and never less than is reserved of it, however many issues, draws and   *)
(* receipts met on it (ledger.go:123-131, 483-485).                        *)
RowsAddUp ==
    \A r \in Row :
        /\ quantity[r] = OpeningRows[r] + Total([p \in Proc |-> posted[p][r]])
        /\ quantity[r] >= ReservedOf[r]

Value(ls) == [l \in DOMAIN ls |-> ls[l].left * ls[l].cost]
Units(ls) == [l \in DOMAIN ls |-> ls[l].left]
Received == [p \in Proc |-> layers[p].total * layers[p].cost]

(* Goods and cost are conserved: what is left in the layers is what is on  *)
(* the shelves, as far as layers were found, and the cost given to         *)
(* requests plus the value still in the layers is the value that came in   *)
(* plus the standard cost of what no layer was found for                   *)
(* (ledger.go:380-386, 419-433): no unit is costed twice or never.         *)
CostConserved ==
    /\ RowsAddUp
    /\ Total(Units(layers)) - Total(quantity)
         = Total(Units(OpeningLayers)) - Total(OpeningRows) + Total(short)
    /\ Total(cogs) + Total(Value(layers))
         = Total(Value(OpeningLayers)) + Total(Received) + StdCost * Total(short)

(* Who waits for whom.                                                     *)
WaitsFor(p, q) ==
    /\ p # q
    /\ \/ pc[p] = "lock" /\ \E r \in Row : First(p, tx[p].cand, r) /\ rowLock[r] = q
       \/ pc[p] = "row" /\ rowLock[Source(p)] = q
       \/ pc[p] = "write" /\ KeyPending(p, q)
       \/ pc[p] = "hold" /\ \E l \in Layer : Oldest(tx[p].found, l) /\ layerLock[l] = q

Deadlocked(S) ==
    S # {} /\ \A p \in S : (\E q \in S : WaitsFor(p, q)) /\ (\E q \in S : WaitsFor(q, p))

(* p has locked a row and waits for another one that is tied with it.      *)
WaitsForTied(p, S) ==
    /\ pc[p] = "lock"
    /\ \E r, s \in Row :
         /\ rowLock[r] = p /\ rowLock[s] \in S /\ First(p, tx[p].cand, s)
         /\ r # s /\ Place[r] = Place[s]

(* ledger.go:455-457: issues lock rows by expiry and age, so that "two     *)
(* concurrent issues cannot deadlock".  What that order does rule out: no  *)
(* requests wait in a circle for rows that differ in expiry or age, nor    *)
(* for such rows and keys.  Where a circle comes about, either one of them *)
(* waits for a row tied with one it holds, which the ORDER BY leaves in    *)
(* any order; or one waits for a cost layer that another one holds, and    *)
(* that one waits for a layer too.  The second happens as well: an issue   *)
(* of several rows takes its layers row by row, and a layer that is        *)
(* entered late with an old date is older than one it holds already.       *)
OnlyTiesOrLayersDeadlock ==
    \A S \in SUBSET Proc :
        Deadlocked(S) =>
            \/ \E p \in S : WaitsForTied(p, S)
            \/ \E p, q \in S : WaitsFor(p, q) /\ pc[p] = "hold" /\ pc[q] = "hold"

(* ledger.go:64-66: however the statements of requests overlap, fail or    *)
(* die, all that is visible of a request happens in one step that is its   *)
(* own, to rows, movements, keys, layers and cost together, as its answer  *)
(* says, or not at all.                                                    *)
Book == INSTANCE IssueBook WITH asked <- {p \in Proc : pc[p] # "idle"}

ImplementsIssueBook == Book!Spec

(* ledger.go:58-60: a result is "duplicate" when the key matched an        *)
(* already-applied movement "and nothing changed".                         *)
DuplicateChangesNothing == \A p \in Proc : outcome[p] = "duplicate" => Moved(p) = 0
=============================================================================
