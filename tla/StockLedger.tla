---------------------------- MODULE StockLedger ----------------------------
(***************************************************************************)
(* Ledger.Apply (internal/stock/ledger.go), one action per SQL statement,  *)
(* run by concurrent requests under PostgreSQL READ COMMITTED.             *)
(*                                                                         *)
(* A request is a transaction that applies the lines of a job one after    *)
(* the other: one line for a manual adjustment or an entry of an offline   *)
(* sync, several for a goods receipt, a dispatch or a cycle count.  A row  *)
(* that a transaction has written or locked stays locked until it ends, so *)
(* the uncommitted version of a row and its uncommitted movements are kept *)
(* per coordinate and belong to the owner of the row lock.  gorm runs with *)
(* SkipDefaultTransaction and no savepoints (platform/database.go:28): an  *)
(* SQL error inside a transaction aborts the whole of it, and every later  *)
(* statement of that transaction fails.                                    *)
(*                                                                         *)
(* Cost layers appear here as the open quantity of a pool, the set of      *)
(* layers one issue draws from; their order and their cost are left out.   *)
(***************************************************************************)
EXTENDS Integers, Sequences

CONSTANTS
    Proc,           \* requests, each one transaction
    NoProc,
    Coord,          \* stock_items natural keys
    BatchOK,        \* coordinates assertBatchPolicy accepts
    Pool,           \* cost pools: product, warehouse and variant (and batch, when tracked)
    PoolOf,         \* the pool of a coordinate
    Key,            \* client_request_id values
    NoKey,
    Jobs,           \* what a request may ask for: sequences of lines
    Opening,        \* opening quantity of a coordinate, 0 for no row
    OpeningLayers   \* open layer quantity of a pool at the start

Line == [coord : Coord, delta : Int, key : Key \cup {NoKey}]

ASSUME ProcAssumption == NoProc \notin Proc
ASSUME KeyAssumption == NoKey \notin Key
ASSUME PoolAssumption == PoolOf \in [Coord -> Pool]
ASSUME JobsAssumption == \A j \in Jobs : j \in Seq(Line) /\ j # <<>>
(* A key comes with an adjustment only (service.go:99), which is one line: *)
(* when it draws from several rows it goes through Issue, in StockIssue.   *)
ASSUME KeyedJobAssumption ==
    \A j \in Jobs : Len(j) > 1 => \A i \in 1..Len(j) : j[i].key = NoKey
ASSUME OpeningAssumption == Opening \in [Coord -> Nat]
ASSUME LayersAssumption == OpeningLayers \in [Pool -> Nat]

VARIABLES
    items,      \* committed stock_items rows
    dirty,      \* the version of a row its lock owner has written or read
    rowLock,    \* the transaction that holds the row lock, or has inserted the row
    book,       \* committed stock_movements of a coordinate, oldest first
    pend,       \* uncommitted movements of the lock owner
    keyUsed,    \* client_request_ids on committed movements
    keyOwner,   \* the transaction with an uncommitted movement under that key
    layers,     \* committed open quantity of the cost layers of a pool
    layerDelta, \* what a transaction has added to, or drawn from, a pool
    poolLock,   \* the transaction that holds the layers of a pool FOR UPDATE
    pc,         \* the next statement of a request
    job,        \* the lines a request was sent with
    todo,       \* the lines it has still to apply
    seen,       \* the item row as selectForUpdate returned it
    outcome     \* the answer of a request

rowVars == <<items, dirty, rowLock>>
bookVars == <<book, pend>>
keyVars == <<keyUsed, keyOwner>>
layerVars == <<layers, layerDelta, poolLock>>
vars == <<rowVars, bookVars, keyVars, layerVars, pc, job, todo, seen, outcome>>

Row == [exists : BOOLEAN, quantity : Int, reserved : Int]
NoRow == [exists |-> FALSE, quantity |-> 0, reserved |-> 0]
ZeroRow == [exists |-> TRUE, quantity |-> 0, reserved |-> 0]

Entry == [delta : Int, before : Int, after : Int, key : Key \cup {NoKey},
          by : Proc \cup {NoProc}]

Statement == {"lookup", "select", "insert", "update", "record", "layers", "commit"}
Outcome == {"none", "applied", "duplicate", "rejected", "rowConflict",
            "keyConflict", "failed"}

Cur(p) == Head(todo[p])

Init ==
    /\ items = [c \in Coord |->
                  IF Opening[c] = 0 THEN NoRow
                  ELSE [exists |-> TRUE, quantity |-> Opening[c], reserved |-> 0]]
    /\ dirty = [c \in Coord |-> NoRow]
    /\ rowLock = [c \in Coord |-> NoProc]
    /\ book = [c \in Coord |->
                 IF Opening[c] = 0 THEN <<>>
                 ELSE <<[delta |-> Opening[c], before |-> 0, after |-> Opening[c],
                         key |-> NoKey, by |-> NoProc]>>]
    /\ pend = [c \in Coord |-> <<>>]
    /\ keyUsed = {}
    /\ keyOwner = [k \in Key |-> NoProc]
    /\ layers = OpeningLayers
    /\ layerDelta = [p \in Proc |-> [l \in Pool |-> 0]]
    /\ poolLock = [l \in Pool |-> NoProc]
    /\ pc = [p \in Proc |-> "idle"]
    /\ job = [p \in Proc |-> <<>>]
    /\ todo = [p \in Proc |-> <<>>]
    /\ seen = [p \in Proc |-> NoRow]
    /\ outcome = [p \in Proc |-> "none"]

-----------------------------------------------------------------------------
(* The end of a transaction: its locks go, its uncommitted work is dropped *)
(* (after Commit has published it), and the request has its answer.        *)

Release(p) ==
    /\ rowLock' = [c \in Coord |-> IF rowLock[c] = p THEN NoProc ELSE rowLock[c]]
    /\ dirty' = [c \in Coord |-> IF rowLock[c] = p THEN NoRow ELSE dirty[c]]
    /\ pend' = [c \in Coord |-> IF rowLock[c] = p THEN <<>> ELSE pend[c]]
    /\ keyOwner' = [k \in Key |-> IF keyOwner[k] = p THEN NoProc ELSE keyOwner[k]]
    /\ layerDelta' = [layerDelta EXCEPT ![p] = [l \in Pool |-> 0]]
    /\ poolLock' = [l \in Pool |-> IF poolLock[l] = p THEN NoProc ELSE poolLock[l]]

Answer(p, o) ==
    /\ pc' = [pc EXCEPT ![p] = "done"]
    /\ todo' = [todo EXCEPT ![p] = <<>>]
    /\ seen' = [seen EXCEPT ![p] = NoRow]
    /\ outcome' = [outcome EXCEPT ![p] = o]
    /\ UNCHANGED job

(* Mutants of Fail: the error is swallowed and the transaction commits     *)
(* what it has done so far; the transaction is neither committed nor       *)
(* rolled back, and keeps its locks.                                       *)
FailCommits(p, o) ==
    /\ items' = [c \in Coord |-> IF rowLock[c] = p THEN dirty[c] ELSE items[c]]
    /\ book' = [c \in Coord |-> IF rowLock[c] = p THEN book[c] \o pend[c] ELSE book[c]]
    /\ keyUsed' = keyUsed \cup {k \in Key : keyOwner[k] = p}
    /\ layers' = [l \in Pool |-> layers[l] + layerDelta[p][l]]
    /\ Release(p)
    /\ Answer(p, o)

FailKeepsLocks(p, o) ==
    /\ Answer(p, o)
    /\ UNCHANGED <<rowVars, bookVars, keyVars, layerVars>>

(* An error returned to gorm's Transaction rolls back everything.          *)
Fail(p, o) ==
    /\ Release(p)
    /\ Answer(p, o)
    /\ UNCHANGED <<items, book, keyUsed, layers>>

(* On to the next line of the job, or to COMMIT after the last.            *)
NextLine(p) ==
    /\ todo' = [todo EXCEPT ![p] = Tail(todo[p])]
    /\ pc' = [pc EXCEPT ![p] = IF Tail(todo[p]) = <<>> THEN "commit" ELSE "lookup"]
    /\ seen' = [seen EXCEPT ![p] = NoRow]
    /\ UNCHANGED <<job, outcome>>

Goto(p, s) ==
    /\ pc' = [pc EXCEPT ![p] = s]
    /\ UNCHANGED <<job, todo, outcome>>

Hold(p, c, row) ==
    /\ rowLock' = [rowLock EXCEPT ![c] = p]
    /\ dirty' = [dirty EXCEPT ![c] = row]
    /\ seen' = [seen EXCEPT ![p] = row]

-----------------------------------------------------------------------------
(* BEGIN: a request arrives with its lines.                                *)
Begin(p) ==
    /\ pc[p] = "idle"
    /\ \E j \in Jobs :
         /\ job' = [job EXCEPT ![p] = j]
         /\ todo' = [todo EXCEPT ![p] = j]
    /\ pc' = [pc EXCEPT ![p] = "lookup"]
    /\ UNCHANGED <<rowVars, bookVars, keyVars, layerVars, seen, outcome>>

(* findByClientRequestID sees committed movements and the transaction's    *)
(* own; a hit is a duplicate, and the line changes nothing.                *)
KeyVisible(p, k) == k \in keyUsed \/ (k \in Key /\ keyOwner[k] = p)

Lookup(p) ==
    /\ pc[p] = "lookup"
    /\ Cur(p).delta # 0
    /\ IF KeyVisible(p, Cur(p).key)
       THEN NextLine(p)
       ELSE Goto(p, "select") /\ UNCHANGED seen
    /\ UNCHANGED <<rowVars, bookVars, keyVars, layerVars>>

RejectZero(p) ==
    /\ pc[p] = "lookup"
    /\ Cur(p).delta = 0
    /\ Fail(p, "rejected")

RejectBatch(p) ==
    /\ pc[p] = "select"
    /\ Cur(p).coord \notin BatchOK
    /\ Fail(p, "rejected")

(* Mutant of Select: a plain SELECT, which waits for nobody.               *)
SelectUnlocked(p) ==
    LET c == Cur(p).coord IN
    /\ pc[p] = "select"
    /\ c \in BatchOK
    /\ IF items[c].exists
       THEN Hold(p, c, items[c]) /\ Goto(p, "update")
       ELSE Goto(p, "insert") /\ UNCHANGED <<dirty, rowLock, seen>>
    /\ UNCHANGED <<items, bookVars, keyVars, layerVars>>

(* SELECT ... FOR UPDATE waits for the owner of a committed row and then   *)
(* returns its latest version; it does not see a row another transaction   *)
(* has inserted and not committed.                                         *)
Select(p) ==
    LET c == Cur(p).coord IN
    /\ pc[p] = "select"
    /\ c \in BatchOK
    /\ \/ /\ rowLock[c] = p
          /\ Hold(p, c, dirty[c])
          /\ Goto(p, "update")
       \/ /\ items[c].exists
          /\ rowLock[c] = NoProc
          /\ Hold(p, c, items[c])
          /\ Goto(p, "update")
       \/ /\ ~items[c].exists
          /\ rowLock[c] # p
          /\ Goto(p, "insert")
          /\ UNCHANGED <<dirty, rowLock, seen>>
    /\ UNCHANGED <<items, bookVars, keyVars, layerVars>>

(* INSERT of the zero row.  While another transaction has the same         *)
(* coordinate inserted and uncommitted, the unique index makes this one    *)
(* wait; if that one commits, this one gets a unique violation.            *)
Insert(p) ==
    LET c == Cur(p).coord IN
    /\ pc[p] = "insert"
    /\ ~items[c].exists
    /\ rowLock[c] = NoProc
    /\ Hold(p, c, ZeroRow)
    /\ Goto(p, "update")
    /\ UNCHANGED <<items, bookVars, keyVars, layerVars>>

(* The unique violation has aborted the transaction, so the second         *)
(* selectForUpdate (ledger.go:247) fails as well.                          *)
InsertConflict(p) ==
    /\ pc[p] = "insert"
    /\ items[Cur(p).coord].exists
    /\ Fail(p, "rowConflict")

(* The checks on the balance, then UPDATE stock_items SET quantity.        *)
Sufficient(row, d) ==
    /\ row.quantity + d >= 0
    /\ d < 0 => row.quantity + d >= row.reserved

Update(p) ==
    LET c == Cur(p).coord IN
    /\ pc[p] = "update"
    /\ Sufficient(seen[p], Cur(p).delta)
    /\ dirty' = [dirty EXCEPT ![c].quantity = seen[p].quantity + Cur(p).delta]
    /\ Goto(p, "record")
    /\ UNCHANGED <<items, rowLock, bookVars, keyVars, layerVars, seen>>

RejectBalance(p) ==
    /\ pc[p] = "update"
    /\ ~Sufficient(seen[p], Cur(p).delta)
    /\ Fail(p, "rejected")

(* INSERT INTO stock_movements.  The unique index on client_request_id     *)
(* makes the insert wait for another uncommitted movement with the key.    *)
Record(p) ==
    LET c == Cur(p).coord
        k == Cur(p).key
    IN
    /\ pc[p] = "record"
    /\ k \notin keyUsed
    /\ k \in Key => keyOwner[k] = NoProc
    /\ pend' = [pend EXCEPT ![c] =
                  Append(@, [delta |-> Cur(p).delta, before |-> seen[p].quantity,
                             after |-> seen[p].quantity + Cur(p).delta, key |-> k, by |-> p])]
    /\ keyOwner' = [j \in Key |-> IF j = k THEN p ELSE keyOwner[j]]
    /\ Goto(p, "layers")
    /\ UNCHANGED <<rowVars, book, keyUsed, layerVars, seen>>

(* The lookup for the winner's movement (ledger.go:175) runs in the        *)
(* transaction the unique violation aborted, so it fails too.              *)
RecordConflict(p) ==
    /\ pc[p] = "record"
    /\ Cur(p).key \in keyUsed
    /\ Fail(p, "keyConflict")

(* Mutant of ConsumeLayers: the layers are not locked.                     *)
ConsumeUnlocked(p) ==
    LET l == PoolOf[Cur(p).coord]
        open == layers[l] + layerDelta[p][l]
        q == -Cur(p).delta
    IN
    /\ pc[p] = "layers"
    /\ Cur(p).delta <= 0
    /\ layerDelta' = [layerDelta EXCEPT ![p][l] = @ - (IF open < q THEN open ELSE q)]
    /\ NextLine(p)
    /\ UNCHANGED <<rowVars, bookVars, keyVars, layers, poolLock>>

(* createCostLayer adds a layer and waits for nobody; consumeCostLayers    *)
(* waits for the open layers of the pool, locks them and draws from them.  *)
(* It sees only the layers committed when its SELECT began, so after a     *)
(* wait it may find less than the pool holds by then; what it does not     *)
(* find it values at standard cost.  StockIssue models the layers          *)
(* themselves.                                                             *)
OpenLayers(p, l) == layers[l] + layerDelta[p][l]

CreateLayer(p) ==
    LET l == PoolOf[Cur(p).coord] IN
    /\ pc[p] = "layers"
    /\ Cur(p).delta > 0
    /\ layerDelta' = [layerDelta EXCEPT ![p][l] = @ + Cur(p).delta]
    /\ NextLine(p)
    /\ UNCHANGED <<rowVars, bookVars, keyVars, layers, poolLock>>

Drawn(p, l, q) == 0..(IF OpenLayers(p, l) < q THEN OpenLayers(p, l) ELSE q)

ConsumeLayers(p) ==
    LET l == PoolOf[Cur(p).coord] IN
    /\ pc[p] = "layers"
    /\ Cur(p).delta <= 0
    /\ poolLock[l] \in {p, NoProc} \/ layers[l] = 0
    /\ poolLock' = [poolLock EXCEPT ![l] = IF layers[l] > 0 THEN p ELSE @]
    /\ \E take \in Drawn(p, l, -Cur(p).delta) :
         layerDelta' = [layerDelta EXCEPT ![p][l] = @ - take]
    /\ NextLine(p)
    /\ UNCHANGED <<rowVars, bookVars, keyVars, layers>>

(* COMMIT publishes everything the transaction wrote, in one step.         *)
Wrote(p) == \E c \in Coord : rowLock[c] = p /\ pend[c] # <<>>

Commit(p) ==
    /\ pc[p] = "commit"
    /\ items' = [c \in Coord |-> IF rowLock[c] = p THEN dirty[c] ELSE items[c]]
    /\ book' = [c \in Coord |-> IF rowLock[c] = p THEN book[c] \o pend[c] ELSE book[c]]
    /\ keyUsed' = keyUsed \cup {k \in Key : keyOwner[k] = p}
    /\ layers' = [l \in Pool |-> OpenLayers(p, l)]
    /\ Release(p)
    /\ Answer(p, IF Wrote(p) THEN "applied" ELSE "duplicate")

(* The connection, the server or the request's context dies, or PostgreSQL *)
(* picks the transaction as a deadlock victim: all of it is rolled back.   *)
Rollback(p) ==
    /\ pc[p] \in Statement
    /\ Fail(p, "failed")

Step(p) ==
    \/ Lookup(p) \/ RejectZero(p) \/ RejectBatch(p)
    \/ Select(p) \/ Insert(p) \/ InsertConflict(p)
    \/ Update(p) \/ RejectBalance(p)
    \/ Record(p) \/ RecordConflict(p)
    \/ CreateLayer(p) \/ ConsumeLayers(p)
    \/ Commit(p)

Next == \E p \in Proc : Begin(p) \/ Step(p) \/ Rollback(p)

-----------------------------------------------------------------------------
(* Who waits for whom, and the deadlock detector.                          *)

WaitsFor(p, q) ==
    /\ p # q
    /\ \/ pc[p] = "select" /\ items[Cur(p).coord].exists /\ rowLock[Cur(p).coord] = q
       \/ pc[p] = "insert" /\ ~items[Cur(p).coord].exists /\ rowLock[Cur(p).coord] = q
       \/ pc[p] = "record" /\ Cur(p).key \in Key /\ keyOwner[Cur(p).key] = q
       \/ /\ pc[p] = "layers" /\ Cur(p).delta < 0
          /\ layers[PoolOf[Cur(p).coord]] > 0 /\ poolLock[PoolOf[Cur(p).coord]] = q

Deadlocked(S) ==
    /\ S # {}
    /\ \A p \in S : (\E q \in S : WaitsFor(p, q)) /\ (\E q \in S : WaitsFor(q, p))

DeadlockVictim(p) ==
    /\ \E S \in SUBSET Proc : p \in S /\ Deadlocked(S)
    /\ Rollback(p)

(* Statements are executed and the deadlock detector runs; nothing obliges *)
(* a client to send a request, and nothing obliges a server to crash.      *)
Fairness == \A p \in Proc : WF_vars(Step(p)) /\ WF_vars(DeadlockVictim(p))

Spec == Init /\ [][Next]_vars
FairSpec == Spec /\ Fairness
-----------------------------------------------------------------------------
(* Properties.                                                             *)

(* Every variable has its type.                                            *)
TypeOK ==
    /\ items \in [Coord -> Row]
    /\ dirty \in [Coord -> Row]
    /\ rowLock \in [Coord -> Proc \cup {NoProc}]
    /\ book \in [Coord -> Seq(Entry)]
    /\ pend \in [Coord -> Seq(Entry)]
    /\ keyUsed \in SUBSET Key
    /\ keyOwner \in [Key -> Proc \cup {NoProc}]
    /\ layers \in [Pool -> Int]
    /\ layerDelta \in [Proc -> [Pool -> Int]]
    /\ poolLock \in [Pool -> Proc \cup {NoProc}]
    /\ pc \in [Proc -> Statement \cup {"idle", "done"}]
    /\ job \in [Proc -> Seq(Line)]
    /\ todo \in [Proc -> Seq(Line)]
    /\ seen \in [Proc -> Row]
    /\ outcome \in [Proc -> Outcome]

(* ledger.go:18-21: stock_items and stock_movements agree.  The committed  *)
(* movements of a coordinate follow on from one another, starting at zero, *)
(* none drives the balance below zero, and the last one says what the row  *)
(* says: no concurrent Apply ever works from a stale "before" quantity.    *)
Book == INSTANCE StockBook WITH balance <- [c \in Coord |-> items[c].quantity]

BookAgrees == \A c \in Coord : Book!Chain(book[c], 0, items[c].quantity)

(* A client_request_id is on at most one committed movement, whoever       *)
(* retries it and whatever else runs (migrations/000003:122-124).          *)
KeyAppliedOnce == Book!KeysOnce(book)

(* ledger.go:65-67: a request is one atomic unit.  If it was answered      *)
(* "applied", the books hold exactly its lines, in their order; with any   *)
(* other answer, or none yet, they hold nothing of it; and "duplicate" is  *)
(* only answered when the key really is on a committed movement.           *)
LinesOf(p, c) == {i \in 1..Len(job[p]) : job[p][i].coord = c}
EntriesOf(p, c) == {i \in 1..Len(book[c]) : book[c][i].by = p}

(* The lines at positions L of s are the entries at positions E of b, all  *)
(* of them and in the same order.                                          *)
SameInOrder(s, L, b, E) ==
    \E f \in [L -> E] :
        /\ \A e \in E : \E i \in L : f[i] = e
        /\ \A i, j \in L : i < j => f[i] < f[j]
        /\ \A i \in L : b[f[i]].delta = s[i].delta

AllOrNothing ==
    \A p \in Proc :
        /\ \A c \in Coord :
             IF outcome[p] = "applied"
             THEN SameInOrder(job[p], LinesOf(p, c), book[c], EntriesOf(p, c))
             ELSE EntriesOf(p, c) = {}
        /\ outcome[p] = "duplicate" =>
             \A i \in 1..Len(job[p]) : job[p][i].key \in keyUsed

(* The layers of a pool never go below zero, even counting the draws that  *)
(* an unfinished transaction has made (ledger.go:383-385).                 *)
LayersNotOverdrawn ==
    /\ \A l \in Pool : layers[l] >= 0
    /\ \A p \in Proc, l \in Pool : OpenLayers(p, l) >= 0

(* The ledger implements the book: every commit extends the books of the   *)
(* coordinates it touched and leaves them sound, and no other step is      *)
(* visible.                                                                *)
ImplementsBook == Book!Spec

(* Every request that has begun is answered, although requests wait for    *)
(* one another's rows, keys and layers and may deadlock.                   *)
EveryRequestAnswered ==
    \A p \in Proc : pc[p] \in Statement ~> pc[p] = "done"

-----------------------------------------------------------------------------
(* The inductive strengthening of BookAgrees, KeyAppliedOnce and           *)
(* LayersNotOverdrawn.                                                     *)

(* Uncommitted work on a coordinate belongs to a running lock owner, and a *)
(* request that has read its row still holds it, unchanged.                *)
LockInv ==
    /\ \A c \in Coord :
         IF rowLock[c] = NoProc THEN pend[c] = <<>>
         ELSE pc[rowLock[c]] \in Statement /\ dirty[c].exists
    /\ \A p \in Proc :
         /\ pc[p] \in {"update", "record", "layers"} => rowLock[Cur(p).coord] = p
         /\ pc[p] = "update" => seen[p] = dirty[Cur(p).coord]
         /\ pc[p] = "record" =>
              /\ dirty[Cur(p).coord].quantity = seen[p].quantity + Cur(p).delta
              /\ dirty[Cur(p).coord].quantity >= 0

(* The balance the uncommitted movements of c account for: the row itself, *)
(* except between its UPDATE and the INSERT of the movement.               *)
Recorded(c) ==
    IF pc[rowLock[c]] = "record" /\ Cur(rowLock[c]).coord = c
    THEN seen[rowLock[c]].quantity
    ELSE dirty[c].quantity

(* Committed and uncommitted movements of a coordinate follow on from one  *)
(* another, and account for the committed and the uncommitted row.         *)
ChainInv ==
    /\ BookAgrees
    /\ \A c \in Coord :
         /\ rowLock[c] # NoProc => Book!Chain(pend[c], items[c].quantity, Recorded(c))
         /\ ~items[c].exists => items[c].quantity = 0

(* The unique index knows every key in use and whose it is.                *)
KeyInv ==
    /\ \A k \in Key : keyOwner[k] # NoProc => k \notin keyUsed
    /\ \A c \in Coord :
         /\ \A i \in 1..Len(book[c]) : book[c][i].key \in keyUsed \cup {NoKey}
         /\ \A i \in 1..Len(pend[c]) :
              pend[c][i].key # NoKey => keyOwner[pend[c][i].key] = rowLock[c]
    /\ Book!KeysOnce(book)
    /\ Book!KeysOnce(pend)

(* Only the owner of a pool's layers has drawn more than it added.         *)
LayerInv ==
    /\ LayersNotOverdrawn
    /\ \A p \in Proc, l \in Pool : layerDelta[p][l] < 0 => poolLock[l] = p

IndInv == LockInv /\ ChainInv /\ KeyInv /\ LayerInv
=============================================================================
