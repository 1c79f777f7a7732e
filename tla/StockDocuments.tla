--------------------------- MODULE StockDocuments ---------------------------
(***************************************************************************)
(* Stock transfers and cycle counts (internal/stock/service.go): documents *)
(* with a life of several requests, whose movements go through the ledger. *)
(*                                                                         *)
(* A handler first reads its document, with no lock, and refuses it when   *)
(* its status is not the one the operation needs; later it posts its       *)
(* movements and writes the new status, in one transaction and without     *)
(* looking at the status again.  The two are separate steps here, so       *)
(* handlers of one document may overlap.  The movements of a transaction   *)
(* are one step: StockLedger!ImplementsBook is what allows that.           *)
(* Document codes are Sequencer's.                                         *)
(***************************************************************************)
EXTENDS Integers

CONSTANTS
    Handler,        \* requests being served
    Transfer,       \* stock_transfers that may be created
    Count,          \* cycle_counts that may be created
    Item,           \* product and variant and batch, the unit of a line
    Warehouse,
    Bin,            \* locations.id values
    NoBin,          \* location_id NULL
    Adjustment,     \* stands for every movement with no transfer or count behind it
    NotCounted,     \* counted_quantity NULL
    Wanted,         \* quantities of a transfer line, 0 for no line
    Found,          \* quantities a counter may report
    Opening,        \* opening balances
    Reserved,       \* reserved_quantity; sales orders change it, nothing here does
    Others,         \* bound: movements by others that are explored, [coord, delta]
    MaxDrift,       \* bound: how far they may take a balance, either way
    MaxStock        \* bound: the largest balance explored

Coord == Item \X Warehouse \X (Bin \cup {NoBin})
Doc == Transfer \cup Count

ASSUME WarehouseAssumption == Warehouse # {}
ASSUME DocAssumption == Transfer \cap Count = {} /\ Adjustment \notin Doc
ASSUME WantedAssumption == Wanted \subseteq Nat
ASSUME FoundAssumption == Found \subseteq Nat /\ NotCounted \notin Nat
ASSUME OpeningAssumption == Opening \in [Coord -> Nat] /\ Reserved \in [Coord -> Nat]
ASSUME BoundAssumption ==
    MaxStock \in Nat /\ MaxDrift \in Nat /\ Others \subseteq [coord : Coord, delta : Int]

VARIABLES
    stock,          \* stock_items.quantity
    rows,           \* the coordinates that have a stock_items row
    transfers,      \* stock_transfers with their lines
    counts,         \* cycle_counts with their lines
    moved,          \* the sum of the stock_movements of a document at a coordinate
    work,           \* what a handler has read and is about to write
    raced           \* documents two handlers have worked on at the same time

vars == <<stock, rows, transfers, counts, moved, work, raced>>

TransferStatus == {"absent", "draft", "in_transit", "received", "cancelled"}
CountStatus == {"absent", "counting", "review", "completed"}
Op == {"dispatch", "receive", "cancel", "record", "read", "complete"}

TransferRow == [status : TransferStatus, from : Warehouse, to : Warehouse,
                lines : [Item -> Nat]]
CountRow == [status : CountStatus, sheet : SUBSET Coord, expected : [Coord -> Nat],
             counted : [Coord -> Nat \cup {NotCounted}]]

(* A count that has found nothing yet.                                     *)
Blank == [c \in Coord |-> NotCounted]
Nothing == [c \in Coord |-> 0]
Idle == [op |-> "idle", doc |-> Adjustment, counted |-> Blank]

Init ==
    /\ stock = Opening
    /\ rows = {c \in Coord : Opening[c] > 0}
    /\ transfers = [t \in Transfer |->
                      [status |-> "absent", from |-> CHOOSE w \in Warehouse : TRUE,
                       to |-> CHOOSE w \in Warehouse : TRUE, lines |-> [i \in Item |-> 0]]]
    /\ counts = [d \in Count |->
                   [status |-> "absent", sheet |-> {}, expected |-> Nothing,
                    counted |-> Blank]]
    /\ moved = [d \in Doc \cup {Adjustment} |-> Nothing]
    /\ work = [h \in Handler |-> Idle]
    /\ raced = {}

-----------------------------------------------------------------------------
(* Mutant of Covered: the availability check is lost.                      *)
CoveredAlways(change) == TRUE

(* What Ledger.Apply does to the balances, for all the movements of a      *)
(* transaction at once: it creates missing rows, and fails the transaction *)
(* when a balance would go below zero or an outgoing movement would take   *)
(* what is reserved.                                                       *)
Covered(change) ==
    \A c \in Coord :
        /\ stock[c] + change[c] >= 0
        /\ change[c] < 0 => stock[c] + change[c] >= Reserved[c]

Fits(change) == \A c \in Coord : stock[c] + change[c] <= MaxStock

Post(d, change) ==
    /\ Covered(change)
    /\ Fits(change)
    /\ stock' = [c \in Coord |-> stock[c] + change[c]]
    /\ rows' = rows \cup {c \in Coord : change[c] # 0}
    /\ moved' = [moved EXCEPT ![d] = [c \in Coord |-> moved[d][c] + change[c]]]

(* What a transfer takes from, and brings to, a warehouse: the rows with   *)
(* no location, whatever bins the warehouse keeps its stock in.            *)
Lines(t, w) ==
    [c \in Coord |-> IF c[2] = w /\ c[3] = NoBin THEN transfers[t].lines[c[1]] ELSE 0]

Outgoing(t) == [c \in Coord |-> -Lines(t, transfers[t].from)[c]]
Incoming(t) == Lines(t, transfers[t].to)

(* Mutant of Variance: against the balance now, not the sheet's snapshot.  *)
VarianceNow(d, counted) ==
    [c \in Coord |->
       IF c \in counts[d].sheet /\ counted[c] # NotCounted
       THEN counted[c] - stock[c] ELSE 0]

(* CycleCountLine.Variance over the lines as the handler read them.        *)
Variance(d, counted) ==
    [c \in Coord |->
       IF c \in counts[d].sheet /\ counted[c] # NotCounted
       THEN counted[c] - counts[d].expected[c] ELSE 0]

-----------------------------------------------------------------------------
(* CreateTransfer drafts; CreateCycleCount freezes what the system         *)
(* believes now, over a warehouse or one of its bins, and refuses a scope  *)
(* that holds no row.                                                      *)
CreateTransfer(t) ==
    /\ transfers[t].status = "absent"
    /\ \E from, to \in Warehouse, lines \in [Item -> Wanted] :
         /\ from # to
         /\ \E i \in Item : lines[i] > 0
         /\ transfers' = [transfers EXCEPT ![t] =
                            [status |-> "draft", from |-> from, to |-> to, lines |-> lines]]
    /\ UNCHANGED <<stock, rows, counts, moved, work, raced>>

Scopes == {[wh |-> w, bins |-> Bin \cup {NoBin}] : w \in Warehouse}
          \cup {[wh |-> w, bins |-> {b}] : w \in Warehouse, b \in Bin}

CreateCycleCount(d) ==
    /\ counts[d].status = "absent"
    /\ \E s \in Scopes, items \in SUBSET Item :
         LET sheet == {c \in rows : c[1] \in items /\ c[2] = s.wh /\ c[3] \in s.bins} IN
         /\ sheet # {}
         /\ counts' = [counts EXCEPT ![d] =
                         [status |-> "counting", sheet |-> sheet,
                          expected |-> [c \in Coord |-> IF c \in sheet THEN stock[c] ELSE 0],
                          counted |-> Blank]]
    /\ UNCHANGED <<stock, rows, transfers, moved, work, raced>>

(* Mutant of Permitted: a draft may be received.                           *)
PermittedEarly(op, d) ==
    \/ op \in {"dispatch", "cancel", "receive"} /\ d \in Transfer
       /\ transfers[d].status \in {"draft", "in_transit"}
    \/ op \in {"record", "read"} /\ d \in Count /\ counts[d].status \in {"counting", "review"}

(* The first read of a handler, and the status it insists on.              *)
Permitted(op, d) ==
    \/ op \in {"dispatch", "cancel"} /\ d \in Transfer /\ transfers[d].status = "draft"
    \/ op = "receive" /\ d \in Transfer /\ transfers[d].status = "in_transit"
    \/ op \in {"record", "read"} /\ d \in Count /\ counts[d].status \in {"counting", "review"}

Busy(d) == \E h \in Handler : work[h].op # "idle" /\ work[h].doc = d

Load(h, op, d) ==
    /\ work[h].op = "idle"
    /\ Permitted(op, d)
    /\ work' = [work EXCEPT ![h] = [op |-> op, doc |-> d, counted |-> Blank]]
    /\ raced' = raced \cup (IF Busy(d) THEN {d} ELSE {})
    /\ UNCHANGED <<stock, rows, transfers, counts, moved>>

(* Preload reads the lines of a count in a statement of its own.           *)
ReadLines(h) ==
    /\ work[h].op = "read"
    /\ work' = [work EXCEPT ![h] =
                  [op |-> "complete", doc |-> work[h].doc,
                   counted |-> counts[work[h].doc].counted]]
    /\ UNCHANGED <<stock, rows, transfers, counts, moved, raced>>

Done(h) == work' = [work EXCEPT ![h] = Idle]

SetTransfer(t, s) ==
    /\ transfers' = [transfers EXCEPT ![t] =
                       [status |-> s, from |-> transfers[t].from, to |-> transfers[t].to,
                        lines |-> transfers[t].lines]]
    /\ UNCHANGED counts

SetCount(d, s, counted) ==
    /\ counts' = [counts EXCEPT ![d] =
                    [status |-> s, sheet |-> counts[d].sheet,
                     expected |-> counts[d].expected, counted |-> counted]]
    /\ UNCHANGED transfers

DispatchTransfer(h) ==
    /\ work[h].op = "dispatch"
    /\ Post(work[h].doc, Outgoing(work[h].doc))
    /\ SetTransfer(work[h].doc, "in_transit")
    /\ Done(h)
    /\ UNCHANGED raced

ReceiveTransfer(h) ==
    /\ work[h].op = "receive"
    /\ Post(work[h].doc, Incoming(work[h].doc))
    /\ SetTransfer(work[h].doc, "received")
    /\ Done(h)
    /\ UNCHANGED raced

CancelTransfer(h) ==
    /\ work[h].op = "cancel"
    /\ SetTransfer(work[h].doc, "cancelled")
    /\ Done(h)
    /\ UNCHANGED <<stock, rows, moved, raced>>

(* RecordCount overwrites the lines it is given and puts the count under   *)
(* review, whatever has become of it since it was read.                    *)
RecordCount(h) ==
    LET d == work[h].doc IN
    /\ work[h].op = "record"
    /\ \E given \in SUBSET counts[d].sheet : \E found \in [given -> Found] :
         /\ given # {}
         /\ SetCount(d, "review",
              [c \in Coord |-> IF c \in given THEN found[c] ELSE counts[d].counted[c]])
    /\ Done(h)
    /\ UNCHANGED <<stock, rows, moved, raced>>

(* CompleteCycleCount posts the variances of the lines it read, and fails  *)
(* at the end if one of them had not been counted.                         *)
CompleteCycleCount(h) ==
    LET d == work[h].doc IN
    /\ work[h].op = "complete"
    /\ \A c \in counts[d].sheet : work[h].counted[c] # NotCounted
    /\ Post(d, Variance(d, work[h].counted))
    /\ SetCount(d, "completed", counts[d].counted)
    /\ Done(h)
    /\ UNCHANGED raced

(* A handler fails: too little stock, a line not counted, a deadlock, a    *)
(* lost connection.  Its transaction leaves nothing behind.                *)
GiveUp(h) ==
    /\ work[h].op # "idle"
    /\ Done(h)
    /\ UNCHANGED <<stock, rows, transfers, counts, moved, raced>>

(* Any other movement: an adjustment, a sale, a receipt.                   *)
Adjust(m) ==
    /\ moved[Adjustment][m.coord] + m.delta \in -MaxDrift..MaxDrift
    /\ Post(Adjustment, [c \in Coord |-> IF c = m.coord THEN m.delta ELSE 0])
    /\ UNCHANGED <<transfers, counts, work, raced>>

Next ==
    \/ \E t \in Transfer : CreateTransfer(t)
    \/ \E d \in Count : CreateCycleCount(d)
    \/ \E h \in Handler, op \in Op, d \in Doc : Load(h, op, d)
    \/ \E h \in Handler :
         \/ ReadLines(h)
         \/ DispatchTransfer(h) \/ ReceiveTransfer(h) \/ CancelTransfer(h)
         \/ RecordCount(h) \/ CompleteCycleCount(h)
         \/ GiveUp(h)
    \/ \E m \in Others : Adjust(m)

Spec == Init /\ [][Next]_vars
-----------------------------------------------------------------------------
(* Properties.                                                             *)

(* Every variable has its type; balances are never negative.               *)
TypeOK ==
    /\ stock \in [Coord -> Nat]
    /\ rows \in SUBSET Coord
    /\ transfers \in [Transfer -> TransferRow]
    /\ counts \in [Count -> CountRow]
    /\ moved \in [Doc \cup {Adjustment} -> [Coord -> Int]]
    /\ work \in [Handler -> [op : Op \cup {"idle"}, doc : Doc \cup {Adjustment},
                             counted : [Coord -> Nat \cup {NotCounted}]]]
    /\ raced \in SUBSET Doc

(* service.go:459-462: between dispatch and receipt the goods belong to    *)
(* neither warehouse.  A transfer that handlers took in turn has moved     *)
(* exactly what its status says: nothing while a draft or cancelled, its   *)
(* lines out of the source once in transit, and the same lines into the    *)
(* destination once received.                                              *)
TransferBooked ==
    \A t \in Transfer \ raced : \A c \in Coord :
        moved[t][c] =
          CASE transfers[t].status \in {"absent", "draft", "cancelled"} -> 0
            [] transfers[t].status = "in_transit" -> Outgoing(t)[c]
            [] transfers[t].status = "received" -> Outgoing(t)[c] + Incoming(t)[c]

(* service.go:756-757: a count that handlers took in turn posts every      *)
(* variance, against the quantity frozen when the sheet was made and so    *)
(* without losing what has moved since, once, and only on completion.      *)
CountBooked ==
    \A d \in Count \ raced :
        IF counts[d].status = "completed"
        THEN /\ \A c \in counts[d].sheet : counts[d].counted[c] # NotCounted
             /\ \A c \in Coord :
                  moved[d][c] = IF c \in counts[d].sheet
                                THEN counts[d].counted[c] - counts[d].expected[c] ELSE 0
        ELSE \A c \in Coord : moved[d][c] = 0

(* Goods do not arrive that never left, and a draft has moved nothing,     *)
(* even when handlers of the transfer overlap: they are dispatched before  *)
(* any handler finds the transfer in transit.                              *)
ArrivedOnlyIfLeft ==
    \A t \in Transfer, c \in Coord :
        /\ transfers[t].status \in {"absent", "draft"} => moved[t][c] = 0
        /\ (c[2] = transfers[t].to /\ moved[t][c] > 0) =>
             \E e \in Coord : e[1] = c[1] /\ e[2] = transfers[t].from /\ moved[t][e] < 0

(* A document that handlers take in turn never goes back: a transfer is    *)
(* dispatched and then received, or cancelled as a draft (service.go:566), *)
(* and a completed count stays completed.                                  *)
Legal(before, after) ==
    <<before, after>> \in
        {<<"absent", "draft">>, <<"draft", "in_transit">>, <<"in_transit", "received">>,
         <<"draft", "cancelled">>, <<"absent", "counting">>, <<"counting", "review">>,
         <<"counting", "completed">>, <<"review", "completed">>}

StatusSteps ==
    [][/\ \A t \in Transfer \ raced :
            transfers'[t].status # transfers[t].status =>
              Legal(transfers[t].status, transfers'[t].status)
       /\ \A d \in Count \ raced :
            counts'[d].status # counts[d].status =>
              Legal(counts[d].status, counts'[d].status)]_vars
=============================================================================
