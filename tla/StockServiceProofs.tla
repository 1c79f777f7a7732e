------------------------- MODULE StockServiceProofs -------------------------
(***************************************************************************)
(* What is proved of the stock service beside the ledger's own Apply: of   *)
(* transfers and counts (StockDocuments) for every number of handlers,     *)
(* documents, items, warehouses and bins; of an issue from many rows       *)
(* (StockIssue) for every number of requests, rows and cost layers.        *)
(*                                                                         *)
(* TransferBooked and CountBooked are not inductive alone: a handler posts *)
(* on the strength of a status it read earlier.  Turns says what that read *)
(* is worth: on a document that is not in raced only one handler is at     *)
(* work, so the document is still as it read it.                           *)
(*                                                                         *)
(* Nor are the properties of an issue: what a request will commit is true  *)
(* of the shelves and of the layers when it does because it holds their    *)
(* locks, and whole because of how much it has still to move.  Own says    *)
(* both of one request; most of the proof is that a step of one leaves     *)
(* Own of every other alone.                                               *)
(***************************************************************************)
EXTENDS StockDocuments, StockIssue, SumLemmas, TLAPS

-----------------------------------------------------------------------------
(* Transfers and counts.                                                   *)

(* Every handler works on a document of the kind its operation is for.     *)
Kinds ==
    \A h \in Handler :
        /\ work[h].op \in {"dispatch", "receive", "cancel"} => work[h].doc \in Transfer
        /\ work[h].op \in {"record", "read", "complete"} => work[h].doc \in Count

(* A handler whose document nobody else has touched can rely on what it    *)
(* has read.                                                               *)
Alone(h) ==
    \A g \in Handler : (work[g].op # "idle" /\ work[g].doc = work[h].doc) => g = h

StillTrue(h) ==
    /\ work[h].op \in {"dispatch", "cancel"} => transfers[work[h].doc].status = "draft"
    /\ work[h].op = "receive" => transfers[work[h].doc].status = "in_transit"
    /\ work[h].op \in {"record", "read", "complete"} =>
         counts[work[h].doc].status \in {"counting", "review"}
    /\ work[h].op = "complete" => work[h].counted = counts[work[h].doc].counted

Turns ==
    \A h \in Handler :
        (work[h].op # "idle" /\ work[h].doc \notin raced) => Alone(h) /\ StillTrue(h)

Inv == TypeOK /\ Kinds /\ Turns

-----------------------------------------------------------------------------
(* What posting movements does to the balances and to the sums.            *)
LEMMA PostType ==
    ASSUME TypeOK, NEW d \in Doc \cup {Adjustment}, NEW change \in [Coord -> Int],
           Post(d, change)
    PROVE  /\ stock' \in [Coord -> Nat]
           /\ rows' \in SUBSET Coord
           /\ moved' \in [Doc \cup {Adjustment} -> [Coord -> Int]]
           /\ \A c \in Coord : moved'[d][c] = moved[d][c] + change[c]
           /\ \A e \in Doc \cup {Adjustment} : e # d => moved'[e] = moved[e]
<1>1. stock' \in [Coord -> Nat]
  <2>1. \A c \in Coord : stock[c] + change[c] \in Nat
    BY DEF TypeOK, Post, Covered
  <2> QED BY <2>1 DEF Post
<1>2. rows' \in SUBSET Coord
  BY DEF TypeOK, Post
<1>3. [c \in Coord |-> moved[d][c] + change[c]] \in [Coord -> Int]
  BY DEF TypeOK
<1>4. moved' = [moved EXCEPT ![d] = [c \in Coord |-> moved[d][c] + change[c]]]
  BY DEF Post
<1> QED BY <1>1, <1>2, <1>3, <1>4 DEF TypeOK

LEMMA ChangeTypes ==
    ASSUME TypeOK
    PROVE  /\ \A t \in Transfer : Outgoing(t) \in [Coord -> Int] /\ Incoming(t) \in [Coord -> Int]
           /\ \A d \in Count, k \in [Coord -> Nat \cup {NotCounted}] :
                Variance(d, k) \in [Coord -> Int]
<1>1. ASSUME NEW t \in Transfer, NEW w \in Warehouse
      PROVE  Lines(t, w) \in [Coord -> Nat]
  <2>1. transfers[t].lines \in [Item -> Nat]
    BY DEF TypeOK, TransferRow
  <2>2. \A c \in Coord : c[1] \in Item
    BY DEF Coord
  <2> QED BY <2>1, <2>2 DEF Lines
<1>2. ASSUME NEW t \in Transfer
      PROVE  Outgoing(t) \in [Coord -> Int] /\ Incoming(t) \in [Coord -> Int]
  <2>1. transfers[t].from \in Warehouse /\ transfers[t].to \in Warehouse
    BY DEF TypeOK, TransferRow
  <2>2. Lines(t, transfers[t].from) \in [Coord -> Nat]
    BY <1>1, <2>1
  <2>3. Lines(t, transfers[t].to) \in [Coord -> Nat]
    BY <1>1, <2>1
  <2> QED BY <2>2, <2>3 DEF Outgoing, Incoming
<1>3. ASSUME NEW d \in Count, NEW k \in [Coord -> Nat \cup {NotCounted}]
      PROVE  Variance(d, k) \in [Coord -> Int]
  <2>1. counts[d].expected \in [Coord -> Nat]
    BY DEF TypeOK, CountRow
  <2>2. \A c \in Coord : k[c] # NotCounted => k[c] \in Nat
    OBVIOUS
  <2>3. \A c \in Coord : k[c] # NotCounted => k[c] - counts[d].expected[c] \in Int
    BY <2>1, <2>2
  <2> QED BY <2>3 DEF Variance
<1> QED BY <1>2, <1>3

LEMMA IdleType ==
    ASSUME TypeOK, NEW h \in Handler, Done(h)
    PROVE  /\ work' \in [Handler -> [op : Op \cup {"idle"}, doc : Doc \cup {Adjustment},
                                     counted : [Coord -> Nat \cup {NotCounted}]]]
           /\ work'[h].op = "idle"
           /\ \A g \in Handler : g # h => work'[g] = work[g]
<1>1. Idle \in [op : Op \cup {"idle"}, doc : Doc \cup {Adjustment},
                counted : [Coord -> Nat \cup {NotCounted}]]
  BY DEF Idle, Blank
<1> QED BY <1>1 DEF TypeOK, Done, Idle


LEMMA SetTransferType ==
    ASSUME TypeOK, NEW t \in Transfer, NEW s \in TransferStatus, SetTransfer(t, s)
    PROVE  /\ transfers' \in [Transfer -> TransferRow]
           /\ transfers'[t].status = s
           /\ transfers'[t].from = transfers[t].from
           /\ transfers'[t].to = transfers[t].to
           /\ transfers'[t].lines = transfers[t].lines
           /\ \A u \in Transfer : u # t => transfers'[u] = transfers[u]
           /\ counts' = counts
<1>1. transfers[t] \in TransferRow
  BY DEF TypeOK
<1> QED BY <1>1 DEF SetTransfer, TypeOK, TransferRow

LEMMA SetCountType ==
    ASSUME TypeOK, NEW d \in Count, NEW s \in CountStatus,
           NEW k \in [Coord -> Nat \cup {NotCounted}], SetCount(d, s, k)
    PROVE  /\ counts' \in [Count -> CountRow]
           /\ counts'[d].status = s
           /\ counts'[d].counted = k
           /\ counts'[d].sheet = counts[d].sheet
           /\ counts'[d].expected = counts[d].expected
           /\ \A e \in Count : e # d => counts'[e] = counts[e]
           /\ transfers' = transfers
<1>1. counts[d] \in CountRow
  BY DEF TypeOK
<1> QED BY <1>1 DEF SetCount, TypeOK, CountRow

(* The count that RecordCount writes: what was there, overwritten by what  *)
(* the request brought.                                                    *)
LEMMA RecordedType ==
    ASSUME TypeOK, NEW d \in Count, NEW given \in SUBSET counts[d].sheet,
           NEW found \in [given -> Found]
    PROVE  [c \in Coord |-> IF c \in given THEN found[c] ELSE counts[d].counted[c]]
             \in [Coord -> Nat \cup {NotCounted}]
<1>1. counts[d].counted \in [Coord -> Nat \cup {NotCounted}]
  BY DEF TypeOK, CountRow
<1>2. \A c \in given : found[c] \in Nat
  BY FoundAssumption
<1> QED BY <1>1, <1>2

LEMMA WorkType ==
    ASSUME TypeOK, NEW h \in Handler
    PROVE  /\ work[h].op \in Op \cup {"idle"}
           /\ work[h].doc \in Doc \cup {Adjustment}
           /\ work[h].counted \in [Coord -> Nat \cup {NotCounted}]
           /\ work[h] \in [op : Op \cup {"idle"}, doc : Doc \cup {Adjustment},
                           counted : [Coord -> Nat \cup {NotCounted}]]
BY DEF TypeOK

-----------------------------------------------------------------------------
(* Initially nothing has happened.                                         *)
LEMMA InitInv == Init => Inv
<1> SUFFICES ASSUME Init PROVE Inv
  OBVIOUS
<1>1. TypeOK
  <2>1. stock \in [Coord -> Nat] /\ rows \in SUBSET Coord /\ raced \in SUBSET Doc
    BY OpeningAssumption DEF Init
  <2>2. (CHOOSE w \in Warehouse : TRUE) \in Warehouse
    BY WarehouseAssumption
  <2>3. transfers \in [Transfer -> TransferRow]
    BY <2>2 DEF Init, TransferRow, TransferStatus
  <2>4. Nothing \in [Coord -> Nat] /\ Blank \in [Coord -> Nat \cup {NotCounted}]
    BY DEF Nothing, Blank
  <2>5. counts \in [Count -> CountRow]
    BY <2>4 DEF Init, CountRow, CountStatus
  <2>6. moved \in [Doc \cup {Adjustment} -> [Coord -> Int]]
    BY <2>4 DEF Init
  <2>7. Idle \in [op : Op \cup {"idle"}, doc : Doc \cup {Adjustment},
                  counted : [Coord -> Nat \cup {NotCounted}]]
    BY <2>4 DEF Idle
  <2>8. work \in [Handler -> [op : Op \cup {"idle"}, doc : Doc \cup {Adjustment},
                              counted : [Coord -> Nat \cup {NotCounted}]]]
    BY <2>7 DEF Init
  <2> QED BY <2>1, <2>3, <2>5, <2>6, <2>8 DEF TypeOK
<1>2. \A h \in Handler : work[h].op = "idle"
  BY DEF Init, Idle
<1> QED BY <1>1, <1>2 DEF Inv, Kinds, Turns

(* Nothing that follows looks into the transaction that posts.             *)
LEMMA TypeStep == Inv /\ [Next]_vars => TypeOK'
<1> SUFFICES ASSUME Inv, [Next]_vars PROVE TypeOK'
  OBVIOUS
<1> USE DEF Inv
<1>1. CASE UNCHANGED vars
  BY <1>1 DEF vars, TypeOK
<1>2. ASSUME NEW t \in Transfer, CreateTransfer(t) PROVE TypeOK'
  <2>1. PICK from \in Warehouse, to \in Warehouse, lines \in [Item -> Wanted] :
          transfers' = [transfers EXCEPT ![t] =
            [status |-> "draft", from |-> from, to |-> to, lines |-> lines]]
    BY <1>2 DEF CreateTransfer
  <2>2. lines \in [Item -> Nat]
    BY WantedAssumption
  <2>3. [status |-> "draft", from |-> from, to |-> to, lines |-> lines] \in TransferRow
    BY <2>2 DEF TransferRow, TransferStatus
  <2> QED BY <1>2, <2>1, <2>3 DEF CreateTransfer, TypeOK
<1>3. ASSUME NEW d \in Count, CreateCycleCount(d) PROVE TypeOK'
  <2>1. PICK s \in Scopes, items \in SUBSET Item :
          LET sheet == {c \in rows : c[1] \in items /\ c[2] = s.wh /\ c[3] \in s.bins} IN
          counts' = [counts EXCEPT ![d] =
            [status |-> "counting", sheet |-> sheet,
             expected |-> [c \in Coord |-> IF c \in sheet THEN stock[c] ELSE 0],
             counted |-> Blank]]
    BY <1>3 DEF CreateCycleCount
  <2> DEFINE sheet == {c \in rows : c[1] \in items /\ c[2] = s.wh /\ c[3] \in s.bins}
             row == [status |-> "counting", sheet |-> sheet,
                     expected |-> [c \in Coord |-> IF c \in sheet THEN stock[c] ELSE 0],
                     counted |-> Blank]
  <2>2. sheet \in SUBSET Coord
    BY DEF TypeOK
  <2>3. [c \in Coord |-> IF c \in sheet THEN stock[c] ELSE 0] \in [Coord -> Nat]
    BY DEF TypeOK
  <2>4. row \in CountRow
    BY <2>2, <2>3 DEF CountRow, CountStatus, Blank
  <2>5. counts' = [counts EXCEPT ![d] = row]
    BY <2>1
  <2>6. counts' \in [Count -> CountRow]
    BY <2>4, <2>5 DEF TypeOK
  <2> QED BY <1>3, <2>6 DEF CreateCycleCount, TypeOK
<1>4. ASSUME NEW h \in Handler, NEW op \in Op, NEW d \in Doc, Load(h, op, d) PROVE TypeOK'
  <2>1. [op |-> op, doc |-> d, counted |-> Blank]
          \in [op : Op \cup {"idle"}, doc : Doc \cup {Adjustment},
               counted : [Coord -> Nat \cup {NotCounted}]]
    BY DEF Blank
  <2>2. work' \in [Handler -> [op : Op \cup {"idle"}, doc : Doc \cup {Adjustment},
                               counted : [Coord -> Nat \cup {NotCounted}]]]
    BY <1>4, <2>1 DEF Load, TypeOK
  <2>3. raced' \in SUBSET Doc
    BY <1>4 DEF Load, TypeOK
  <2> QED BY <1>4, <2>2, <2>3 DEF Load, TypeOK
<1>5. ASSUME NEW h \in Handler, ReadLines(h) PROVE TypeOK'
  <2>1. work[h].doc \in Count
    BY <1>5 DEF ReadLines, Kinds
  <2>2. counts[work[h].doc].counted \in [Coord -> Nat \cup {NotCounted}]
    BY <2>1 DEF TypeOK, CountRow
  <2>3. [op |-> "complete", doc |-> work[h].doc, counted |-> counts[work[h].doc].counted]
          \in [op : Op \cup {"idle"}, doc : Doc \cup {Adjustment},
               counted : [Coord -> Nat \cup {NotCounted}]]
    BY <2>1, <2>2 DEF Doc, Op
  <2>4. work' \in [Handler -> [op : Op \cup {"idle"}, doc : Doc \cup {Adjustment},
                               counted : [Coord -> Nat \cup {NotCounted}]]]
    BY <1>5, <2>3 DEF ReadLines, TypeOK
  <2> QED BY <1>5, <2>4 DEF ReadLines, TypeOK
<1>6. ASSUME NEW h \in Handler, DispatchTransfer(h) PROVE TypeOK'
  <2>1. work[h].doc \in Transfer /\ work[h].doc \in Doc \cup {Adjustment}
    BY <1>6 DEF DispatchTransfer, Kinds, Doc
  <2>2. Outgoing(work[h].doc) \in [Coord -> Int]
    BY <2>1, ChangeTypes
  <2>3. Post(work[h].doc, Outgoing(work[h].doc)) /\ SetTransfer(work[h].doc, "in_transit")
        /\ Done(h) /\ raced' = raced
    BY <1>6 DEF DispatchTransfer
  <2>4. "in_transit" \in TransferStatus
    BY DEF TransferStatus
  <2> QED BY <2>1, <2>2, <2>3, <2>4, PostType, SetTransferType, IdleType DEF TypeOK
<1>7. ASSUME NEW h \in Handler, ReceiveTransfer(h) PROVE TypeOK'
  <2>1. work[h].doc \in Transfer /\ work[h].doc \in Doc \cup {Adjustment}
    BY <1>7 DEF ReceiveTransfer, Kinds, Doc
  <2>2. Incoming(work[h].doc) \in [Coord -> Int]
    BY <2>1, ChangeTypes
  <2>3. Post(work[h].doc, Incoming(work[h].doc)) /\ SetTransfer(work[h].doc, "received")
        /\ Done(h) /\ raced' = raced
    BY <1>7 DEF ReceiveTransfer
  <2>4. "received" \in TransferStatus
    BY DEF TransferStatus
  <2> QED BY <2>1, <2>2, <2>3, <2>4, PostType, SetTransferType, IdleType DEF TypeOK
<1>8. ASSUME NEW h \in Handler, CancelTransfer(h) PROVE TypeOK'
  <2>1. work[h].doc \in Transfer
    BY <1>8 DEF CancelTransfer, Kinds
  <2>2. SetTransfer(work[h].doc, "cancelled") /\ Done(h)
        /\ UNCHANGED <<stock, rows, moved, raced>>
    BY <1>8 DEF CancelTransfer
  <2>3. "cancelled" \in TransferStatus
    BY DEF TransferStatus
  <2> QED BY <2>1, <2>2, <2>3, SetTransferType, IdleType DEF TypeOK
<1>9. ASSUME NEW h \in Handler, RecordCount(h) PROVE TypeOK'
  <2> DEFINE d == work[h].doc
  <2>1. d \in Count
    BY <1>9 DEF RecordCount, Kinds
  <2>2. PICK given \in SUBSET counts[d].sheet : \E found \in [given -> Found] :
          SetCount(d, "review",
            [c \in Coord |-> IF c \in given THEN found[c] ELSE counts[d].counted[c]])
    BY <1>9 DEF RecordCount
  <2>3. PICK found \in [given -> Found] :
          SetCount(d, "review",
            [c \in Coord |-> IF c \in given THEN found[c] ELSE counts[d].counted[c]])
    BY <2>2
  <2>4. "review" \in CountStatus
    BY DEF CountStatus
  <2>5. counts' \in [Count -> CountRow] /\ transfers' = transfers
    BY <2>1, <2>3, <2>4, RecordedType, SetCountType
  <2>6. Done(h) /\ UNCHANGED <<stock, rows, moved, raced>>
    BY <1>9 DEF RecordCount
  <2> QED BY <2>5, <2>6, IdleType DEF TypeOK
<1>10. ASSUME NEW h \in Handler, CompleteCycleCount(h) PROVE TypeOK'
  <2> DEFINE d == work[h].doc
  <2>1. d \in Count /\ d \in Doc \cup {Adjustment}
    BY <1>10 DEF CompleteCycleCount, Kinds, Doc
  <2>2. work[h].counted \in [Coord -> Nat \cup {NotCounted}]
    BY WorkType
  <2>3. Variance(d, work[h].counted) \in [Coord -> Int]
    BY <2>1, <2>2, ChangeTypes
  <2>4. Post(d, Variance(d, work[h].counted)) /\ SetCount(d, "completed", counts[d].counted)
        /\ Done(h) /\ raced' = raced
    BY <1>10 DEF CompleteCycleCount
  <2>5. "completed" \in CountStatus
    BY DEF CountStatus
  <2>6. counts[d].counted \in [Coord -> Nat \cup {NotCounted}]
    BY <2>1 DEF TypeOK, CountRow
  <2>7. stock' \in [Coord -> Nat] /\ rows' \in SUBSET Coord
        /\ moved' \in [Doc \cup {Adjustment} -> [Coord -> Int]]
    BY <2>1, <2>3, <2>4, PostType
  <2>8. counts' \in [Count -> CountRow] /\ transfers' = transfers
    BY <2>1, <2>4, <2>5, <2>6, SetCountType
  <2> QED BY <2>4, <2>7, <2>8, IdleType DEF TypeOK
<1>11. ASSUME NEW h \in Handler, GiveUp(h) PROVE TypeOK'
  <2>1. Done(h) /\ UNCHANGED <<stock, rows, transfers, counts, moved, raced>>
    BY <1>11 DEF GiveUp
  <2> QED BY <2>1, IdleType DEF TypeOK
<1>12. ASSUME NEW m \in Others, Adjust(m) PROVE TypeOK'
  <2> DEFINE change == [c \in Coord |-> IF c = m.coord THEN m.delta ELSE 0]
  <2>1. change \in [Coord -> Int]
    BY BoundAssumption
  <2>2. Post(Adjustment, change) /\ UNCHANGED <<transfers, counts, work, raced>>
    BY <1>12 DEF Adjust
  <2>3. stock' \in [Coord -> Nat] /\ rows' \in SUBSET Coord
        /\ moved' \in [Doc \cup {Adjustment} -> [Coord -> Int]]
    BY <2>1, <2>2, PostType
  <2> QED BY <2>2, <2>3 DEF TypeOK
<1> QED BY <1>1, <1>2, <1>3, <1>4, <1>5, <1>6, <1>7, <1>8, <1>9, <1>10, <1>11, <1>12 DEF Next

-----------------------------------------------------------------------------
(* A handler that finishes disturbs no other handler that may rely on what *)
(* it has read: those work on other documents.                             *)
LEMMA FinishKeepsTurns ==
    ASSUME Inv, NEW h \in Handler, work[h].op # "idle", Done(h), raced' = raced,
           \A t \in Transfer : t # work[h].doc => transfers'[t] = transfers[t],
           \A d \in Count : d # work[h].doc => counts'[d] = counts[d]
    PROVE  (Kinds /\ Turns)'
<1> USE DEF Inv
<1>1. work'[h].op = "idle" /\ \A g \in Handler : g # h => work'[g] = work[g]
  BY IdleType
<1>2. Kinds'
  BY <1>1 DEF Kinds
<1>3. ASSUME NEW g \in Handler, work'[g].op # "idle", work'[g].doc \notin raced'
      PROVE  Alone(g)' /\ StillTrue(g)'
  <2>1. g # h /\ work'[g] = work[g]
    BY <1>1, <1>3
  <2>2. Alone(g) /\ StillTrue(g)
    BY <1>3, <2>1 DEF Turns
  <2>3. work[h].doc # work[g].doc
    BY <2>1, <2>2 DEF Alone
  <2>4. Alone(g)'
    BY <1>1, <2>1, <2>2 DEF Alone
  <2>5. work[g].op \in {"dispatch", "receive", "cancel"} =>
          transfers'[work[g].doc] = transfers[work[g].doc]
    BY <2>3 DEF Kinds
  <2>6. work[g].op \in {"record", "read", "complete"} =>
          counts'[work[g].doc] = counts[work[g].doc]
    BY <2>3 DEF Kinds
  <2> QED BY <2>1, <2>2, <2>4, <2>5, <2>6 DEF StillTrue
<1> QED BY <1>2, <1>3 DEF Turns

(* A document is created before any handler works on it.                   *)
LEMMA NobodyWorksOnAbsent ==
    ASSUME Inv, NEW h \in Handler, work[h].op # "idle", work[h].doc \notin raced
    PROVE  /\ work[h].doc \in Transfer => transfers[work[h].doc].status # "absent"
           /\ work[h].doc \in Count => counts[work[h].doc].status # "absent"
<1> USE DEF Inv
<1>1. StillTrue(h)
  BY DEF Turns
<1>2. work[h].op \in Op
  BY WorkType
<1>3. work[h].doc \in Transfer => work[h].doc \notin Count
  BY DocAssumption
<1> QED BY <1>1, <1>2, <1>3 DEF StillTrue, Kinds, Op

LEMMA TurnsStep == Inv /\ [Next]_vars => (Kinds /\ Turns)'
<1> SUFFICES ASSUME Inv, [Next]_vars PROVE (Kinds /\ Turns)'
  OBVIOUS
<1> USE DEF Inv
<1>1. CASE UNCHANGED vars
  BY <1>1 DEF vars, Kinds, Turns, Alone, StillTrue
<1>2. ASSUME NEW t \in Transfer, CreateTransfer(t) PROVE (Kinds /\ Turns)'
  <2>1. transfers[t].status = "absent" /\ UNCHANGED <<counts, work, raced>>
        /\ \A u \in Transfer : u # t => transfers'[u] = transfers[u]
    BY <1>2 DEF CreateTransfer, TypeOK
  <2>2. Kinds'
    BY <2>1 DEF Kinds
  <2>3. ASSUME NEW g \in Handler, work'[g].op # "idle", work'[g].doc \notin raced'
        PROVE  Alone(g)' /\ StillTrue(g)'
    <3>1. Alone(g) /\ StillTrue(g) /\ work[g].op # "idle" /\ work[g].doc \notin raced
      BY <2>1, <2>3 DEF Turns
    <3>2. work[g].doc \in Transfer => transfers'[work[g].doc] = transfers[work[g].doc]
      BY <2>1, <3>1, NobodyWorksOnAbsent
    <3> QED BY <2>1, <3>1, <3>2 DEF Alone, StillTrue, Kinds
  <2> QED BY <2>2, <2>3 DEF Turns
<1>3. ASSUME NEW d \in Count, CreateCycleCount(d) PROVE (Kinds /\ Turns)'
  <2>1. counts[d].status = "absent" /\ UNCHANGED <<transfers, work, raced>>
        /\ \A e \in Count : e # d => counts'[e] = counts[e]
    BY <1>3 DEF CreateCycleCount, TypeOK
  <2>2. Kinds'
    BY <2>1 DEF Kinds
  <2>3. ASSUME NEW g \in Handler, work'[g].op # "idle", work'[g].doc \notin raced'
        PROVE  Alone(g)' /\ StillTrue(g)'
    <3>1. Alone(g) /\ StillTrue(g) /\ work[g].op # "idle" /\ work[g].doc \notin raced
      BY <2>1, <2>3 DEF Turns
    <3>2. work[g].doc \in Count => counts'[work[g].doc] = counts[work[g].doc]
      BY <2>1, <3>1, NobodyWorksOnAbsent
    <3> QED BY <2>1, <3>1, <3>2 DEF Alone, StillTrue, Kinds
  <2> QED BY <2>2, <2>3 DEF Turns
<1>4. ASSUME NEW h \in Handler, NEW op \in Op, NEW d \in Doc, Load(h, op, d)
      PROVE  (Kinds /\ Turns)'
  <2>1. /\ work[h].op = "idle" /\ Permitted(op, d)
        /\ work'[h] = [op |-> op, doc |-> d, counted |-> Blank]
        /\ \A g \in Handler : g # h => work'[g] = work[g]
        /\ raced' = raced \cup (IF Busy(d) THEN {d} ELSE {})
        /\ UNCHANGED <<transfers, counts>>
    BY <1>4 DEF Load, TypeOK
  <2>2. Kinds'
    BY <2>1, DocAssumption DEF Kinds, Permitted, Op
  <2>3. ASSUME NEW g \in Handler, work'[g].op # "idle", work'[g].doc \notin raced'
        PROVE  Alone(g)' /\ StillTrue(g)'
    <3>1. CASE g = h
      <4>1. ~Busy(d)
        BY <2>1, <2>3, <3>1
      <4>2. Alone(g)'
        BY <2>1, <3>1, <4>1 DEF Alone, Busy
      <4>3. StillTrue(g)'
        BY <2>1, <3>1, DocAssumption DEF StillTrue, Permitted, Op
      <4> QED BY <4>2, <4>3
    <3>2. CASE g # h
      <4>1. work'[g] = work[g] /\ work[g].doc \notin raced
        BY <2>1, <2>3, <3>2
      <4>2. Alone(g) /\ StillTrue(g)
        BY <2>3, <4>1 DEF Turns
      <4>3. work[g].doc # d
        BY <2>1, <2>3, <4>1 DEF Busy
      <4>4. Alone(g)'
        BY <2>1, <3>2, <4>1, <4>2, <4>3 DEF Alone
      <4> QED BY <2>1, <4>1, <4>2, <4>4 DEF StillTrue
    <3> QED BY <3>1, <3>2
  <2> QED BY <2>2, <2>3 DEF Turns
<1>5. ASSUME NEW h \in Handler, ReadLines(h) PROVE (Kinds /\ Turns)'
  <2>1. /\ work[h].op = "read"
        /\ work'[h] = [op |-> "complete", doc |-> work[h].doc,
                       counted |-> counts[work[h].doc].counted]
        /\ \A g \in Handler : g # h => work'[g] = work[g]
        /\ UNCHANGED <<transfers, counts, raced>>
    BY <1>5 DEF ReadLines, TypeOK
  <2>2. Kinds'
    BY <2>1 DEF Kinds
  <2>3. ASSUME NEW g \in Handler, work'[g].op # "idle", work'[g].doc \notin raced'
        PROVE  Alone(g)' /\ StillTrue(g)'
    <3>1. work'[g].doc = work[g].doc /\ work[g].op # "idle" /\ work[g].doc \notin raced
      BY <2>1, <2>3
    <3>2. Alone(g) /\ StillTrue(g)
      BY <3>1 DEF Turns
    <3>3. Alone(g)'
      BY <2>1, <3>1, <3>2 DEF Alone
    <3>4. StillTrue(g)'
      BY <2>1, <3>2 DEF StillTrue
    <3> QED BY <3>3, <3>4
  <2> QED BY <2>2, <2>3 DEF Turns
<1>6. ASSUME NEW h \in Handler, DispatchTransfer(h) \/ ReceiveTransfer(h) \/ CancelTransfer(h)
      PROVE  (Kinds /\ Turns)'
  <2>1. PICK s \in {"in_transit", "received", "cancelled"} :
          SetTransfer(work[h].doc, s) /\ Done(h) /\ raced' = raced
    BY <1>6 DEF DispatchTransfer, ReceiveTransfer, CancelTransfer
  <2>2. work[h].doc \in Transfer /\ work[h].op # "idle"
    BY <1>6 DEF DispatchTransfer, ReceiveTransfer, CancelTransfer, Kinds
  <2>3. s \in TransferStatus
    BY DEF TransferStatus
  <2>4. /\ \A t \in Transfer : t # work[h].doc => transfers'[t] = transfers[t]
        /\ counts' = counts
    BY <2>1, <2>2, <2>3, SetTransferType
  <2> QED BY <2>1, <2>2, <2>4, FinishKeepsTurns
<1>7. ASSUME NEW h \in Handler, RecordCount(h) \/ CompleteCycleCount(h)
      PROVE  (Kinds /\ Turns)'
  <2>1. work[h].doc \in Count /\ work[h].op # "idle" /\ Done(h) /\ raced' = raced
    BY <1>7 DEF RecordCount, CompleteCycleCount, Kinds
  <2>2. \E s \in CountStatus : \E k : SetCount(work[h].doc, s, k)
    BY <1>7 DEF RecordCount, CompleteCycleCount, CountStatus
  <2>3. /\ \A d \in Count : d # work[h].doc => counts'[d] = counts[d]
        /\ transfers' = transfers
    BY <2>1, <2>2 DEF SetCount, TypeOK
  <2> QED BY <2>1, <2>3, FinishKeepsTurns
<1>8. ASSUME NEW h \in Handler, GiveUp(h) PROVE (Kinds /\ Turns)'
  <2>1. work[h].op # "idle" /\ Done(h) /\ UNCHANGED <<transfers, counts, raced>>
    BY <1>8 DEF GiveUp
  <2> QED BY <2>1, FinishKeepsTurns
<1>9. ASSUME NEW m \in Others, Adjust(m) PROVE (Kinds /\ Turns)'
  <2>1. UNCHANGED <<transfers, counts, work, raced>>
    BY <1>9 DEF Adjust
  <2> QED BY <2>1 DEF Kinds, Turns, Alone, StillTrue
<1> QED BY <1>1, <1>2, <1>3, <1>4, <1>5, <1>6, <1>7, <1>8, <1>9 DEF Next

(* Type correctness: StockDocuments!TypeOK holds in every reachable state, *)
(* so no balance goes below zero; and a handler whose document nobody else *)
(* touches can rely on the status it read without a lock.                  *)
LEMMA Invariance == Spec => []Inv
<1>1. Inv /\ [Next]_vars => Inv'
  BY TypeStep, TurnsStep DEF Inv
<1> QED BY InitInv, <1>1, PTL DEF Spec

(* Every variable has its type, whatever handlers do (stock balances never *)
(* negative, migrations/000003:78).                                        *)
THEOREM TypeCorrect == Spec => []TypeOK
BY Invariance, PTL DEF Inv

-----------------------------------------------------------------------------
(* What a transfer takes and brings depends on its lines and its           *)
(* warehouses, which no step changes once it is drafted.                   *)
LEMMA SameLines ==
    ASSUME NEW t \in Transfer,
           transfers'[t].from = transfers[t].from, transfers'[t].to = transfers[t].to,
           transfers'[t].lines = transfers[t].lines
    PROVE  Outgoing(t)' = Outgoing(t) /\ Incoming(t)' = Incoming(t)
BY DEF Outgoing, Incoming, Lines

Booked(t) ==
    \A c \in Coord :
        moved[t][c] =
          CASE transfers[t].status \in {"absent", "draft", "cancelled"} -> 0
            [] transfers[t].status = "in_transit" -> Outgoing(t)[c]
            [] transfers[t].status = "received" -> Outgoing(t)[c] + Incoming(t)[c]

LEMMA BookedFrame ==
    ASSUME NEW t \in Transfer, Booked(t), transfers'[t] = transfers[t], moved'[t] = moved[t]
    PROVE  Booked(t)'
<1>1. Outgoing(t)' = Outgoing(t) /\ Incoming(t)' = Incoming(t)
  BY SameLines
<1> QED BY <1>1 DEF Booked

LEMMA TransferStep == Inv /\ TransferBooked /\ [Next]_vars => TransferBooked'
<1> SUFFICES ASSUME Inv, TransferBooked, [Next]_vars, NEW t \in Transfer, t \notin raced'
             PROVE  Booked(t)'
  BY DEF TransferBooked, Booked
<1> USE DEF Inv
<1>1. raced \subseteq raced'
  BY DEF Next, vars, CreateTransfer, CreateCycleCount, Load, ReadLines, DispatchTransfer,
         ReceiveTransfer, CancelTransfer, RecordCount, CompleteCycleCount, GiveUp, Adjust
<1>2. t \notin raced /\ Booked(t)
  BY <1>1 DEF TransferBooked, Booked
<1>3. t \in Doc \cup {Adjustment} /\ t # Adjustment
  BY DocAssumption DEF Doc
<1>4. CASE UNCHANGED <<transfers, moved>>
  BY <1>2, <1>4, BookedFrame
<1>5. ASSUME NEW u \in Transfer, CreateTransfer(u) PROVE Booked(t)'
  <2>1. moved' = moved /\ transfers[u].status = "absent"
        /\ (t # u => transfers'[t] = transfers[t])
    BY <1>5 DEF CreateTransfer, TypeOK
  <2>2. CASE t # u
    BY <1>2, <2>1, <2>2, BookedFrame
  <2>3. CASE t = u
    <3>1. transfers'[t].status = "draft"
      BY <1>5, <2>3 DEF CreateTransfer, TypeOK
    <3>2. \A c \in Coord : moved[t][c] = 0
      BY <1>2, <2>1, <2>3 DEF Booked
    <3> QED BY <2>1, <3>1, <3>2 DEF Booked
  <2> QED BY <2>2, <2>3
<1>6. ASSUME NEW h \in Handler, DispatchTransfer(h) PROVE Booked(t)'
  <2> DEFINE u == work[h].doc
  <2>1. u \in Transfer /\ u \in Doc \cup {Adjustment} /\ work[h].op = "dispatch"
    BY <1>6 DEF DispatchTransfer, Kinds, Doc
  <2>2. Outgoing(u) \in [Coord -> Int] /\ "in_transit" \in TransferStatus
    BY <2>1, ChangeTypes DEF TransferStatus
  <2>3. Post(u, Outgoing(u)) /\ SetTransfer(u, "in_transit")
    BY <1>6 DEF DispatchTransfer
  <2>4. CASE t # u
    <3>1. moved'[t] = moved[t]
      BY <1>3, <2>1, <2>2, <2>3, <2>4, PostType
    <3>2. transfers'[t] = transfers[t]
      BY <2>1, <2>2, <2>3, <2>4, SetTransferType
    <3> QED BY <1>2, <3>1, <3>2, BookedFrame
  <2>5. CASE t = u
    <3>1. transfers[t].status = "draft"
      BY <1>2, <2>1, <2>5 DEF Turns, StillTrue
    <3>2. \A c \in Coord : moved[t][c] = 0
      BY <1>2, <3>1 DEF Booked
    <3>3. transfers'[t].status = "in_transit" /\ Outgoing(t)' = Outgoing(t)
      BY <2>1, <2>2, <2>3, <2>5, SetTransferType, SameLines
    <3>4. \A c \in Coord : moved'[t][c] = moved[t][c] + Outgoing(t)[c]
      BY <2>1, <2>2, <2>3, <2>5, PostType
    <3>5. \A c \in Coord : Outgoing(t)[c] \in Int
      BY <2>2, <2>5
    <3>6. \A c \in Coord : moved'[t][c] = Outgoing(t)'[c]
      BY <3>2, <3>3, <3>4, <3>5
    <3> QED BY <3>3, <3>6 DEF Booked
  <2> QED BY <2>4, <2>5
<1>7. ASSUME NEW h \in Handler, ReceiveTransfer(h) PROVE Booked(t)'
  <2> DEFINE u == work[h].doc
  <2>1. u \in Transfer /\ u \in Doc \cup {Adjustment} /\ work[h].op = "receive"
    BY <1>7 DEF ReceiveTransfer, Kinds, Doc
  <2>2. Incoming(u) \in [Coord -> Int] /\ "received" \in TransferStatus
    BY <2>1, ChangeTypes DEF TransferStatus
  <2>3. Post(u, Incoming(u)) /\ SetTransfer(u, "received")
    BY <1>7 DEF ReceiveTransfer
  <2>4. CASE t # u
    <3>1. moved'[t] = moved[t]
      BY <1>3, <2>1, <2>2, <2>3, <2>4, PostType
    <3>2. transfers'[t] = transfers[t]
      BY <2>1, <2>2, <2>3, <2>4, SetTransferType
    <3> QED BY <1>2, <3>1, <3>2, BookedFrame
  <2>5. CASE t = u
    <3>1. transfers[t].status = "in_transit"
      BY <1>2, <2>1, <2>5 DEF Turns, StillTrue
    <3>2. \A c \in Coord : moved[t][c] = Outgoing(t)[c]
      BY <1>2, <3>1 DEF Booked
    <3>3. transfers'[t].status = "received"
          /\ Outgoing(t)' = Outgoing(t) /\ Incoming(t)' = Incoming(t)
      BY <2>1, <2>2, <2>3, <2>5, SetTransferType, SameLines
    <3>4. \A c \in Coord : moved'[t][c] = moved[t][c] + Incoming(t)[c]
      BY <2>1, <2>2, <2>3, <2>5, PostType
    <3>5. \A c \in Coord : moved'[t][c] = Outgoing(t)'[c] + Incoming(t)'[c]
      BY <3>2, <3>3, <3>4
    <3> QED BY <3>3, <3>5 DEF Booked
  <2> QED BY <2>4, <2>5
<1>8. ASSUME NEW h \in Handler, CancelTransfer(h) PROVE Booked(t)'
  <2> DEFINE u == work[h].doc
  <2>1. u \in Transfer /\ work[h].op = "cancel" /\ "cancelled" \in TransferStatus
    BY <1>8 DEF CancelTransfer, Kinds, TransferStatus
  <2>2. SetTransfer(u, "cancelled") /\ moved' = moved
    BY <1>8 DEF CancelTransfer
  <2>3. CASE t # u
    <3>1. transfers'[t] = transfers[t]
      BY <2>1, <2>2, <2>3, SetTransferType
    <3> QED BY <1>2, <2>2, <3>1, BookedFrame
  <2>4. CASE t = u
    <3>1. transfers[t].status = "draft"
      BY <1>2, <2>1, <2>4 DEF Turns, StillTrue
    <3>2. \A c \in Coord : moved[t][c] = 0
      BY <1>2, <3>1 DEF Booked
    <3>3. transfers'[t].status = "cancelled"
      BY <2>1, <2>2, <2>4, SetTransferType
    <3> QED BY <2>2, <3>2, <3>3 DEF Booked
  <2> QED BY <2>3, <2>4
<1>9. ASSUME NEW h \in Handler, CompleteCycleCount(h) PROVE Booked(t)'
  <2>1. work[h].doc \in Count /\ work[h].doc \in Doc \cup {Adjustment} /\ work[h].doc # t
    BY <1>9, DocAssumption DEF CompleteCycleCount, Kinds, Doc
  <2>2. Variance(work[h].doc, work[h].counted) \in [Coord -> Int]
    BY <2>1, WorkType, ChangeTypes
  <2>3. Post(work[h].doc, Variance(work[h].doc, work[h].counted)) /\ transfers' = transfers
    BY <1>9 DEF CompleteCycleCount, SetCount
  <2>4. moved'[t] = moved[t]
    BY <1>3, <2>1, <2>2, <2>3, PostType
  <2> QED BY <1>2, <2>3, <2>4, BookedFrame
<1>10. ASSUME NEW m \in Others, Adjust(m) PROVE Booked(t)'
  <2> DEFINE change == [c \in Coord |-> IF c = m.coord THEN m.delta ELSE 0]
  <2>1. change \in [Coord -> Int] /\ Adjustment \in Doc \cup {Adjustment}
    BY BoundAssumption
  <2>2. Post(Adjustment, change) /\ transfers' = transfers
    BY <1>10 DEF Adjust
  <2>3. moved'[t] = moved[t]
    BY <1>3, <2>1, <2>2, PostType
  <2> QED BY <1>2, <2>2, <2>3, BookedFrame
<1>11. ASSUME NEW h \in Handler, RecordCount(h) PROVE Booked(t)'
  BY <1>4, <1>11 DEF RecordCount, SetCount
<1>12. ASSUME NEW h \in Handler, ReadLines(h) \/ GiveUp(h) PROVE Booked(t)'
  BY <1>4, <1>12 DEF ReadLines, GiveUp
<1>13. ASSUME NEW d \in Count, CreateCycleCount(d) PROVE Booked(t)'
  BY <1>4, <1>13 DEF CreateCycleCount
<1>14. ASSUME NEW h \in Handler, NEW op \in Op, NEW d \in Doc, Load(h, op, d) PROVE Booked(t)'
  BY <1>4, <1>14 DEF Load
<1>15. CASE UNCHANGED vars
  BY <1>4, <1>15 DEF vars
<1> QED BY <1>5, <1>6, <1>7, <1>8, <1>9, <1>10, <1>11, <1>12, <1>13, <1>14, <1>15 DEF Next

(* A transfer that handlers take in turn has moved exactly what its status *)
(* says (service.go:459-462), for any number of transfers, lines,          *)
(* warehouses and handlers.                                                *)
THEOREM TransfersBooked == Spec => []TransferBooked
<1>1. Init => TransferBooked
  BY DEF Init, TransferBooked, Nothing, Doc
<1> QED BY <1>1, Invariance, TransferStep, PTL DEF Spec

-----------------------------------------------------------------------------
Counted(d) ==
    IF counts[d].status = "completed"
    THEN /\ \A c \in counts[d].sheet : counts[d].counted[c] # NotCounted
         /\ \A c \in Coord :
              moved[d][c] = IF c \in counts[d].sheet
                            THEN counts[d].counted[c] - counts[d].expected[c] ELSE 0
    ELSE \A c \in Coord : moved[d][c] = 0

LEMMA CountedFrame ==
    ASSUME NEW d \in Count, Counted(d), counts'[d] = counts[d], moved'[d] = moved[d]
    PROVE  Counted(d)'
BY DEF Counted

LEMMA CountStep == Inv /\ CountBooked /\ [Next]_vars => CountBooked'
<1> SUFFICES ASSUME Inv, CountBooked, [Next]_vars, NEW d \in Count, d \notin raced'
             PROVE  Counted(d)'
  BY DEF CountBooked, Counted
<1> USE DEF Inv
<1>1. raced \subseteq raced'
  BY DEF Next, vars, CreateTransfer, CreateCycleCount, Load, ReadLines, DispatchTransfer,
         ReceiveTransfer, CancelTransfer, RecordCount, CompleteCycleCount, GiveUp, Adjust
<1>2. d \notin raced /\ Counted(d)
  BY <1>1 DEF CountBooked, Counted
<1>3. d \in Doc \cup {Adjustment} /\ d # Adjustment
  BY DocAssumption DEF Doc
<1>4. CASE UNCHANGED <<counts, moved>>
  BY <1>2, <1>4, CountedFrame
<1>5. ASSUME NEW e \in Count, CreateCycleCount(e) PROVE Counted(d)'
  <2>1. moved' = moved /\ counts[e].status = "absent"
        /\ (d # e => counts'[d] = counts[d])
    BY <1>5 DEF CreateCycleCount, TypeOK
  <2>2. CASE d # e
    BY <1>2, <2>1, <2>2, CountedFrame
  <2>3. CASE d = e
    <3>1. counts'[d].status = "counting"
      BY <1>5, <2>3 DEF CreateCycleCount, TypeOK
    <3>2. \A c \in Coord : moved[d][c] = 0
      BY <1>2, <2>1, <2>3 DEF Counted
    <3> QED BY <2>1, <3>1, <3>2 DEF Counted
  <2> QED BY <2>2, <2>3
<1>6. ASSUME NEW h \in Handler, RecordCount(h) PROVE Counted(d)'
  <2> DEFINE e == work[h].doc
  <2>1. e \in Count /\ work[h].op = "record" /\ moved' = moved
    BY <1>6 DEF RecordCount, Kinds
  <2>2. PICK k : SetCount(e, "review", k)
    BY <1>6 DEF RecordCount
  <2>3. CASE d # e
    <3>1. counts'[d] = counts[d]
      BY <2>2, <2>3 DEF SetCount, TypeOK
    <3> QED BY <1>2, <2>1, <3>1, CountedFrame
  <2>4. CASE d = e
    <3>1. counts[d].status # "completed"
      BY <1>2, <2>1, <2>4 DEF Turns, StillTrue
    <3>2. counts'[d].status = "review"
      BY <2>1, <2>2, <2>4 DEF SetCount, TypeOK
    <3> QED BY <1>2, <2>1, <3>1, <3>2 DEF Counted
  <2> QED BY <2>3, <2>4
<1>7. ASSUME NEW h \in Handler, CompleteCycleCount(h) PROVE Counted(d)'
  <2> DEFINE e == work[h].doc
             change == Variance(e, work[h].counted)
  <2>1. e \in Count /\ e \in Doc \cup {Adjustment} /\ work[h].op = "complete"
    BY <1>7 DEF CompleteCycleCount, Kinds, Doc
  <2>2. change \in [Coord -> Int] /\ "completed" \in CountStatus
        /\ counts[e].counted \in [Coord -> Nat \cup {NotCounted}]
    BY <2>1, WorkType, ChangeTypes DEF CountStatus, TypeOK, CountRow
  <2>3. Post(e, change) /\ SetCount(e, "completed", counts[e].counted)
    BY <1>7 DEF CompleteCycleCount
  <2>4. CASE d # e
    <3>1. moved'[d] = moved[d]
      BY <1>3, <2>1, <2>2, <2>3, <2>4, PostType
    <3>2. counts'[d] = counts[d]
      BY <2>1, <2>2, <2>3, <2>4, SetCountType
    <3> QED BY <1>2, <3>1, <3>2, CountedFrame
  <2>5. CASE d = e
    <3>1. counts[d].status # "completed" /\ work[h].counted = counts[d].counted
      BY <1>2, <2>1, <2>5 DEF Turns, StillTrue
    <3>2. \A c \in Coord : moved[d][c] = 0
      BY <1>2, <3>1 DEF Counted
    <3>3. \A c \in Coord : moved'[d][c] = moved[d][c] + change[c]
      BY <2>1, <2>2, <2>3, <2>5, PostType
    <3>4. \A c \in Coord : moved'[d][c] = change[c]
      BY <2>2, <3>2, <3>3
    <3>5. \A c \in counts[d].sheet : counts[d].counted[c] # NotCounted
      BY <1>7, <2>5, <3>1 DEF CompleteCycleCount
    <3>6. \A c \in Coord : change[c] = IF c \in counts[d].sheet
                                       THEN counts[d].counted[c] - counts[d].expected[c] ELSE 0
      BY <2>5, <3>1, <3>5 DEF Variance
    <3>7. counts'[d].status = "completed" /\ counts'[d].counted = counts[d].counted
          /\ counts'[d].sheet = counts[d].sheet /\ counts'[d].expected = counts[d].expected
      BY <2>1, <2>2, <2>3, <2>5, SetCountType
    <3> QED BY <3>4, <3>5, <3>6, <3>7 DEF Counted
  <2> QED BY <2>4, <2>5
<1>8. ASSUME NEW h \in Handler, DispatchTransfer(h) \/ ReceiveTransfer(h) PROVE Counted(d)'
  <2> DEFINE t == work[h].doc
  <2>1. t \in Transfer /\ t \in Doc \cup {Adjustment} /\ d # t
    BY <1>8, DocAssumption DEF DispatchTransfer, ReceiveTransfer, Kinds, Doc
  <2>2. Outgoing(t) \in [Coord -> Int] /\ Incoming(t) \in [Coord -> Int]
    BY <2>1, ChangeTypes
  <2>3. (Post(t, Outgoing(t)) \/ Post(t, Incoming(t))) /\ counts' = counts
    BY <1>8 DEF DispatchTransfer, ReceiveTransfer, SetTransfer
  <2>4. moved'[d] = moved[d]
    BY <1>3, <2>1, <2>2, <2>3, PostType
  <2> QED BY <1>2, <2>3, <2>4, CountedFrame
<1>9. ASSUME NEW m \in Others, Adjust(m) PROVE Counted(d)'
  <2> DEFINE change == [c \in Coord |-> IF c = m.coord THEN m.delta ELSE 0]
  <2>1. change \in [Coord -> Int] /\ Adjustment \in Doc \cup {Adjustment}
    BY BoundAssumption
  <2>2. Post(Adjustment, change) /\ counts' = counts
    BY <1>9 DEF Adjust
  <2>3. moved'[d] = moved[d]
    BY <1>3, <2>1, <2>2, PostType
  <2> QED BY <1>2, <2>2, <2>3, CountedFrame
<1>10. ASSUME NEW h \in Handler, CancelTransfer(h) \/ ReadLines(h) \/ GiveUp(h)
       PROVE  Counted(d)'
  BY <1>4, <1>10 DEF CancelTransfer, SetTransfer, ReadLines, GiveUp
<1>11. ASSUME NEW t \in Transfer, CreateTransfer(t) PROVE Counted(d)'
  BY <1>4, <1>11 DEF CreateTransfer
<1>12. ASSUME NEW h \in Handler, NEW op \in Op, NEW e \in Doc, Load(h, op, e) PROVE Counted(d)'
  BY <1>4, <1>12 DEF Load
<1>13. CASE UNCHANGED vars
  BY <1>4, <1>13 DEF vars
<1> QED BY <1>5, <1>6, <1>7, <1>8, <1>9, <1>10, <1>11, <1>12, <1>13 DEF Next

(* A count that handlers take in turn posts the variance of every line of  *)
(* its sheet, against the frozen quantity, once and only when it is        *)
(* completed (service.go:756-815).                                         *)
THEOREM CountsBooked == Spec => []CountBooked
<1>1. Init => CountBooked
  BY DEF Init, CountBooked, Nothing, Doc
<1> QED BY <1>1, Invariance, CountStep, PTL DEF Spec

-----------------------------------------------------------------------------
LEMMA StatusStep ==
    Inv /\ [Next]_vars =>
      /\ \A t \in Transfer \ raced :
            transfers'[t].status # transfers[t].status =>
              Legal(transfers[t].status, transfers'[t].status)
      /\ \A d \in Count \ raced :
            counts'[d].status # counts[d].status =>
              Legal(counts[d].status, counts'[d].status)
<1> DEFINE Good ==
      /\ \A t \in Transfer \ raced :
            transfers'[t].status # transfers[t].status =>
              Legal(transfers[t].status, transfers'[t].status)
      /\ \A d \in Count \ raced :
            counts'[d].status # counts[d].status =>
              Legal(counts[d].status, counts'[d].status)
<1> SUFFICES ASSUME Inv, [Next]_vars PROVE Good
  OBVIOUS
<1> USE DEF Inv
<1>1. CASE UNCHANGED <<transfers, counts>>
  BY <1>1
<1>2. ASSUME NEW t \in Transfer, CreateTransfer(t) PROVE Good
  BY <1>2 DEF CreateTransfer, TypeOK, Legal
<1>3. ASSUME NEW d \in Count, CreateCycleCount(d) PROVE Good
  BY <1>3 DEF CreateCycleCount, TypeOK, Legal
<1>4. ASSUME NEW h \in Handler, DispatchTransfer(h) \/ ReceiveTransfer(h) \/ CancelTransfer(h)
      PROVE  Good
  <2> DEFINE u == work[h].doc
  <2>1. u \in Transfer
    BY <1>4 DEF DispatchTransfer, ReceiveTransfer, CancelTransfer, Kinds
  <2>2. PICK s \in TransferStatus :
          /\ SetTransfer(u, s)
          /\ \/ work[h].op \in {"dispatch", "cancel"} /\ s \in {"in_transit", "cancelled"}
             \/ work[h].op = "receive" /\ s = "received"
    BY <1>4 DEF DispatchTransfer, ReceiveTransfer, CancelTransfer, TransferStatus
  <2>3. /\ transfers'[u].status = s /\ counts' = counts
        /\ \A t \in Transfer : t # u => transfers'[t] = transfers[t]
    BY <2>1, <2>2, SetTransferType
  <2>4. u \notin raced => Legal(transfers[u].status, s)
    BY <2>2 DEF Turns, StillTrue, Legal
  <2> QED BY <2>3, <2>4
<1>5. ASSUME NEW h \in Handler, RecordCount(h) \/ CompleteCycleCount(h) PROVE Good
  <2> DEFINE e == work[h].doc
  <2>1. e \in Count /\ work[h].op \in {"record", "complete"}
    BY <1>5 DEF RecordCount, CompleteCycleCount, Kinds
  <2>2. \E s \in {"review", "completed"} : \E k : SetCount(e, s, k)
    BY <1>5 DEF RecordCount, CompleteCycleCount
  <2>3. PICK s \in {"review", "completed"} :
          /\ counts'[e].status = s /\ transfers' = transfers
          /\ \A d \in Count : d # e => counts'[d] = counts[d]
    BY <2>1, <2>2 DEF SetCount, TypeOK
  <2>4. (e \notin raced /\ s # counts[e].status) => Legal(counts[e].status, s)
    BY <2>1 DEF Turns, StillTrue, Legal
  <2> QED BY <2>3, <2>4
<1>6. ASSUME NEW h \in Handler, ReadLines(h) \/ GiveUp(h) PROVE Good
  BY <1>1, <1>6 DEF ReadLines, GiveUp
<1>7. ASSUME NEW m \in Others, Adjust(m) PROVE Good
  BY <1>1, <1>7 DEF Adjust
<1>8. ASSUME NEW h \in Handler, NEW op \in Op, NEW d \in Doc, Load(h, op, d) PROVE Good
  BY <1>1, <1>8 DEF Load
<1>9. CASE UNCHANGED vars
  BY <1>1, <1>9 DEF vars
<1> QED BY <1>2, <1>3, <1>4, <1>5, <1>6, <1>7, <1>8, <1>9 DEF Next

(* A document that handlers take in turn never goes back: no transfer in   *)
(* transit is cancelled, and no completed count is opened again.           *)
THEOREM DocumentsMoveLegally == Spec => StatusSteps
<1>1. Inv /\ [Next]_vars =>
        [/\ \A t \in Transfer \ raced :
              transfers'[t].status # transfers[t].status =>
                Legal(transfers[t].status, transfers'[t].status)
         /\ \A d \in Count \ raced :
              counts'[d].status # counts[d].status =>
                Legal(counts[d].status, counts'[d].status)]_vars
  BY StatusStep
<1> QED BY <1>1, Invariance, PTL DEF Spec, StatusSteps

-----------------------------------------------------------------------------
(* Goods that arrive have left, also when handlers of a transfer overlap.  *)

(* Every line of the transfer has gone out of the source.                  *)
Shipped(t) ==
    \A i \in Item : transfers[t].lines[i] > 0 =>
                      moved[t][<<i, transfers[t].from, NoBin>>] < 0

(* What has moved for a transfer, however often it was posted.             *)
Journey(t) ==
    /\ transfers[t].status # "absent" => transfers[t].from # transfers[t].to
    /\ transfers[t].status \in {"absent", "draft"} => \A c \in Coord : moved[t][c] = 0
    /\ transfers[t].status \in {"in_transit", "received"} => Shipped(t)
    /\ \A c \in Coord :
         /\ c[2] = transfers[t].from => moved[t][c] <= 0
         /\ c[2] = transfers[t].to /\ moved[t][c] > 0 =>
              transfers[t].lines[c[1]] > 0 /\ Shipped(t)

(* What a handler may rely on although others work on its transfer: it was *)
(* drafted, and shipped if the handler is receiving it.                    *)
Followed(t) ==
    \A h \in Handler : work[h].doc = t =>
        /\ work[h].op \in {"dispatch", "cancel"} => transfers[t].status # "absent"
        /\ work[h].op = "receive" =>
             transfers[t].status \notin {"absent", "draft"} /\ Shipped(t)

Journeys == \A t \in Transfer : Journey(t) /\ Followed(t)

(* No step takes a transfer back to where it had not been shipped.         *)
Advances(t) ==
    /\ transfers[t].status # "absent" => transfers'[t].status # "absent"
    /\ transfers[t].status \notin {"absent", "draft"} =>
         transfers'[t].status \notin {"absent", "draft"}
    /\ transfers[t].status # "absent" /\ Shipped(t) => Shipped(t)'

LEMMA JourneyFrame ==
    ASSUME NEW t \in Transfer, Journey(t), transfers'[t] = transfers[t], moved'[t] = moved[t]
    PROVE  Journey(t)' /\ Advances(t)
BY DEF Journey, Advances, Shipped

LEMMA DispatchTravels ==
    ASSUME Inv, Journeys, NEW h \in Handler, DispatchTransfer(h),
           NEW t \in Transfer, t = work[h].doc
    PROVE  Journey(t)' /\ Advances(t)
<1>1. /\ Outgoing(t) \in [Coord -> Int] /\ "in_transit" \in TransferStatus
      /\ Post(t, Outgoing(t)) /\ SetTransfer(t, "in_transit") /\ t \in Doc \cup {Adjustment}
  BY ChangeTypes DEF DispatchTransfer, TransferStatus, Inv, Doc
<1>2. /\ transfers'[t].status = "in_transit" /\ transfers'[t].from = transfers[t].from
      /\ transfers'[t].to = transfers[t].to /\ transfers'[t].lines = transfers[t].lines
  BY <1>1, SetTransferType DEF Inv
<1>3. \A c \in Coord : moved'[t][c] = moved[t][c] + Outgoing(t)[c]
  BY <1>1, PostType DEF Inv
<1>4. Journey(t) /\ transfers[t].from # transfers[t].to
  BY DEF Journeys, Journey, Followed, DispatchTransfer
<1>5. /\ transfers[t].from \in Warehouse /\ transfers[t].lines \in [Item -> Nat]
      /\ moved[t] \in [Coord -> Int]
  BY DEF Inv, TypeOK, TransferRow, Doc
<1>6. ASSUME NEW c \in Coord
      PROVE  /\ c[1] \in Item /\ moved[t][c] \in Int /\ transfers[t].lines[c[1]] \in Nat
             /\ moved'[t][c] =
                  (IF c[2] = transfers[t].from /\ c[3] = NoBin
                   THEN moved[t][c] - transfers[t].lines[c[1]] ELSE moved[t][c])
  <2>1. c[1] \in Item
    BY DEF Coord
  <2>2. Outgoing(t)[c] = -(IF c[2] = transfers[t].from /\ c[3] = NoBin
                           THEN transfers[t].lines[c[1]] ELSE 0)
    BY DEF Outgoing, Lines
  <2> QED BY <1>3, <1>5, <2>1, <2>2
<1>7. Shipped(t)'
  <2> SUFFICES ASSUME NEW i \in Item, transfers'[t].lines[i] > 0
               PROVE  moved'[t][<<i, transfers'[t].from, NoBin>>] < 0
    BY Zenon DEF Shipped
  <2> DEFINE e == <<i, transfers[t].from, NoBin>>
  <2>1. e \in Coord /\ e[1] = i /\ e[2] = transfers[t].from /\ e[3] = NoBin
    BY <1>5 DEF Coord
  <2>2. moved[t][e] <= 0
    BY <1>4, <2>1 DEF Journey
  <2> HIDE DEF e
  <2>3. moved'[t][e] < 0
    <3>1. /\ moved[t][e] \in Int /\ transfers[t].lines[i] \in Nat
          /\ moved'[t][e] = moved[t][e] - transfers[t].lines[i]
      BY <1>6, <2>1
    <3>2. transfers[t].lines[i] > 0
      BY <1>2
    <3> QED BY <2>2, <3>1, <3>2
  <2> QED BY <1>2, <2>3 DEF e
<1>8. ASSUME NEW c \in Coord
      PROVE  /\ c[2] = transfers'[t].from => moved'[t][c] <= 0
             /\ c[2] = transfers'[t].to /\ moved'[t][c] > 0 => transfers'[t].lines[c[1]] > 0
  <2>1. /\ c[2] = transfers[t].from => moved[t][c] <= 0
        /\ c[2] = transfers[t].to /\ moved[t][c] > 0 => transfers[t].lines[c[1]] > 0
    <3>1. \A d \in Coord :
            /\ d[2] = transfers[t].from => moved[t][d] <= 0
            /\ d[2] = transfers[t].to /\ moved[t][d] > 0 => transfers[t].lines[d[1]] > 0
      BY <1>4, Zenon DEF Journey
    <3> QED BY <3>1
  <2>2. PICK a \in Int, n \in Nat, b \in Int :
          /\ a = moved[t][c] /\ n = transfers[t].lines[c[1]] /\ b = moved'[t][c]
          /\ b = (IF c[2] = transfers[t].from /\ c[3] = NoBin THEN a - n ELSE a)
    BY <1>6
  <2>3. CASE c[2] = transfers[t].from
    BY <1>2, <1>4, <2>1, <2>2, <2>3
  <2>4. CASE c[2] # transfers[t].from
    <3>1. b = a
      BY <2>2, <2>4
    <3> QED BY <1>2, <2>1, <2>2, <2>4, <3>1
  <2> QED BY <2>3, <2>4
<1>9. Journey(t)'
  BY <1>2, <1>4, <1>7, <1>8 DEF Journey
<1> QED BY <1>2, <1>7, <1>9 DEF Advances

LEMMA ReceiveTravels ==
    ASSUME Inv, Journeys, NEW h \in Handler, ReceiveTransfer(h),
           NEW t \in Transfer, t = work[h].doc
    PROVE  Journey(t)' /\ Advances(t)
<1>1. /\ Incoming(t) \in [Coord -> Int] /\ "received" \in TransferStatus
      /\ Post(t, Incoming(t)) /\ SetTransfer(t, "received") /\ t \in Doc \cup {Adjustment}
  BY ChangeTypes DEF ReceiveTransfer, TransferStatus, Inv, Doc
<1>2. /\ transfers'[t].status = "received" /\ transfers'[t].from = transfers[t].from
      /\ transfers'[t].to = transfers[t].to /\ transfers'[t].lines = transfers[t].lines
  BY <1>1, SetTransferType DEF Inv
<1>3. \A c \in Coord : moved'[t][c] = moved[t][c] + Incoming(t)[c]
  BY <1>1, PostType DEF Inv
<1>4. Journey(t) /\ transfers[t].from # transfers[t].to /\ Shipped(t)
  BY DEF Journeys, Journey, Followed, ReceiveTransfer
<1>5. /\ transfers[t].from \in Warehouse /\ transfers[t].lines \in [Item -> Nat]
      /\ moved[t] \in [Coord -> Int]
  BY DEF Inv, TypeOK, TransferRow, Doc
<1>6. ASSUME NEW c \in Coord
      PROVE  /\ c[1] \in Item /\ moved[t][c] \in Int /\ transfers[t].lines[c[1]] \in Nat
             /\ moved'[t][c] =
                  (IF c[2] = transfers[t].to /\ c[3] = NoBin
                   THEN moved[t][c] + transfers[t].lines[c[1]] ELSE moved[t][c])
  <2>1. c[1] \in Item
    BY DEF Coord
  <2>2. Incoming(t)[c] = (IF c[2] = transfers[t].to /\ c[3] = NoBin
                          THEN transfers[t].lines[c[1]] ELSE 0)
    BY DEF Incoming, Lines
  <2> QED BY <1>3, <1>5, <2>1, <2>2
<1>7. Shipped(t)'
  <2> SUFFICES ASSUME NEW i \in Item, transfers'[t].lines[i] > 0
               PROVE  moved'[t][<<i, transfers'[t].from, NoBin>>] < 0
    BY Zenon DEF Shipped
  <2> DEFINE e == <<i, transfers[t].from, NoBin>>
  <2>1. e \in Coord /\ e[2] = transfers[t].from
    BY <1>5 DEF Coord
  <2>2. moved[t][e] < 0
    BY <1>2, <1>4 DEF Shipped
  <2> HIDE DEF e
  <2>3. moved'[t][e] < 0
    BY <1>4, <1>6, <2>1, <2>2
  <2> QED BY <1>2, <2>3 DEF e
<1>8. ASSUME NEW c \in Coord
      PROVE  /\ c[2] = transfers'[t].from => moved'[t][c] <= 0
             /\ c[2] = transfers'[t].to /\ moved'[t][c] > 0 => transfers'[t].lines[c[1]] > 0
  <2>1. /\ c[2] = transfers[t].from => moved[t][c] <= 0
        /\ c[2] = transfers[t].to /\ moved[t][c] > 0 => transfers[t].lines[c[1]] > 0
    <3>1. \A d \in Coord :
            /\ d[2] = transfers[t].from => moved[t][d] <= 0
            /\ d[2] = transfers[t].to /\ moved[t][d] > 0 => transfers[t].lines[d[1]] > 0
      BY <1>4, Zenon DEF Journey
    <3> QED BY <3>1
  <2>2. PICK a \in Int, n \in Nat, b \in Int :
          /\ a = moved[t][c] /\ n = transfers[t].lines[c[1]] /\ b = moved'[t][c]
          /\ b = (IF c[2] = transfers[t].to /\ c[3] = NoBin THEN a + n ELSE a)
    BY <1>6
  <2>3. CASE c[2] = transfers[t].to
    <3>1. c[2] # transfers[t].from
      BY <1>4, <2>3
    <3>2. b > 0 => a > 0 \/ n > 0
      BY <2>2
    <3>3. a > 0 => n > 0
      BY <2>1, <2>2, <2>3
    <3> QED BY <1>2, <2>2, <3>1, <3>2, <3>3
  <2>4. CASE c[2] # transfers[t].to
    <3>1. b = a
      BY <2>2, <2>4
    <3> QED BY <1>2, <2>1, <2>2, <2>4, <3>1
  <2> QED BY <2>3, <2>4
<1>9. Journey(t)'
  BY <1>2, <1>4, <1>7, <1>8 DEF Journey
<1> QED BY <1>2, <1>7, <1>9 DEF Advances

LEMMA TravelStep ==
    ASSUME Inv, Journeys, [Next]_vars, NEW t \in Transfer
    PROVE  Journey(t)' /\ Advances(t)
<1> USE DEF Inv
<1>1. Journey(t)
  BY DEF Journeys
<1>2. t \in Doc \cup {Adjustment} /\ t # Adjustment /\ t \notin Count
  BY DocAssumption DEF Doc
<1>3. CASE UNCHANGED <<transfers, moved>>
  BY <1>1, <1>3, JourneyFrame
<1>4. ASSUME NEW u \in Transfer, CreateTransfer(u) PROVE Journey(t)' /\ Advances(t)
  <2>1. moved' = moved /\ transfers[u].status = "absent"
        /\ (t # u => transfers'[t] = transfers[t])
    BY <1>4 DEF CreateTransfer, TypeOK
  <2>2. CASE t # u
    BY <1>1, <2>1, <2>2, JourneyFrame
  <2>3. CASE t = u
    <3>1. transfers'[t].status = "draft" /\ transfers'[t].from # transfers'[t].to
      BY <1>4, <2>3 DEF CreateTransfer, TypeOK
    <3>2. \A c \in Coord : moved'[t][c] = 0
      BY <1>1, <2>1, <2>3 DEF Journey
    <3> QED BY <2>1, <2>3, <3>1, <3>2 DEF Journey, Advances
  <2> QED BY <2>2, <2>3
<1>5. ASSUME NEW h \in Handler, DispatchTransfer(h) PROVE Journey(t)' /\ Advances(t)
  <2>1. PICK u \in Transfer : u = work[h].doc
    BY <1>5 DEF DispatchTransfer, Kinds
  <2>2. CASE t = u
    BY <1>5, <2>1, <2>2, DispatchTravels
  <2>3. CASE t # u
    <3>1. /\ Outgoing(u) \in [Coord -> Int] /\ u \in Doc \cup {Adjustment}
          /\ "in_transit" \in TransferStatus
          /\ Post(u, Outgoing(u)) /\ SetTransfer(u, "in_transit")
      BY <1>5, <2>1, ChangeTypes DEF DispatchTransfer, TransferStatus, Doc
    <3>2. moved'[t] = moved[t]
      BY <1>2, <2>3, <3>1, PostType
    <3>3. transfers'[t] = transfers[t]
      BY <2>3, <3>1, SetTransferType
    <3> QED BY <1>1, <3>2, <3>3, JourneyFrame
  <2> QED BY <2>2, <2>3
<1>6. ASSUME NEW h \in Handler, ReceiveTransfer(h) PROVE Journey(t)' /\ Advances(t)
  <2>1. PICK u \in Transfer : u = work[h].doc
    BY <1>6 DEF ReceiveTransfer, Kinds
  <2>2. CASE t = u
    BY <1>6, <2>1, <2>2, ReceiveTravels
  <2>3. CASE t # u
    <3>1. /\ Incoming(u) \in [Coord -> Int] /\ u \in Doc \cup {Adjustment}
          /\ "received" \in TransferStatus
          /\ Post(u, Incoming(u)) /\ SetTransfer(u, "received")
      BY <1>6, <2>1, ChangeTypes DEF ReceiveTransfer, TransferStatus, Doc
    <3>2. moved'[t] = moved[t]
      BY <1>2, <2>3, <3>1, PostType
    <3>3. transfers'[t] = transfers[t]
      BY <2>3, <3>1, SetTransferType
    <3> QED BY <1>1, <3>2, <3>3, JourneyFrame
  <2> QED BY <2>2, <2>3
<1>7. ASSUME NEW h \in Handler, CancelTransfer(h) PROVE Journey(t)' /\ Advances(t)
  <2>1. PICK u \in Transfer : u = work[h].doc
    BY <1>7 DEF CancelTransfer, Kinds
  <2>2. SetTransfer(u, "cancelled") /\ moved' = moved /\ "cancelled" \in TransferStatus
    BY <1>7, <2>1 DEF CancelTransfer, TransferStatus
  <2>3. CASE t # u
    BY <1>1, <2>2, <2>3, SetTransferType, JourneyFrame
  <2>4. CASE t = u
    <3>1. /\ transfers'[t].status = "cancelled" /\ transfers'[t].from = transfers[t].from
          /\ transfers'[t].to = transfers[t].to /\ transfers'[t].lines = transfers[t].lines
      BY <2>2, <2>4, SetTransferType
    <3>2. transfers[t].status # "absent"
      BY <1>7, <2>1, <2>4 DEF Journeys, Followed, CancelTransfer
    <3>3. Shipped(t)' <=> Shipped(t)
      BY <2>2, <3>1 DEF Shipped
    <3> QED BY <1>1, <2>2, <3>1, <3>2, <3>3 DEF Journey, Advances
  <2> QED BY <2>3, <2>4
<1>8. ASSUME NEW h \in Handler, CompleteCycleCount(h) PROVE Journey(t)' /\ Advances(t)
  <2>1. work[h].doc \in Count /\ work[h].doc \in Doc \cup {Adjustment} /\ work[h].doc # t
    BY <1>2, <1>8 DEF CompleteCycleCount, Kinds, Doc
  <2>2. Variance(work[h].doc, work[h].counted) \in [Coord -> Int]
    BY <2>1, WorkType, ChangeTypes
  <2>3. Post(work[h].doc, Variance(work[h].doc, work[h].counted)) /\ transfers' = transfers
    BY <1>8 DEF CompleteCycleCount, SetCount
  <2>4. moved'[t] = moved[t]
    BY <1>2, <2>1, <2>2, <2>3, PostType
  <2> QED BY <1>1, <2>3, <2>4, JourneyFrame
<1>9. ASSUME NEW m \in Others, Adjust(m) PROVE Journey(t)' /\ Advances(t)
  <2> DEFINE change == [c \in Coord |-> IF c = m.coord THEN m.delta ELSE 0]
  <2>1. change \in [Coord -> Int] /\ Adjustment \in Doc \cup {Adjustment}
    BY BoundAssumption
  <2>2. Post(Adjustment, change) /\ transfers' = transfers
    BY <1>9 DEF Adjust
  <2>3. moved'[t] = moved[t]
    BY <1>2, <2>1, <2>2, PostType
  <2> QED BY <1>1, <2>2, <2>3, JourneyFrame
<1>10. ASSUME NEW h \in Handler, RecordCount(h) \/ ReadLines(h) \/ GiveUp(h)
       PROVE  Journey(t)' /\ Advances(t)
  BY <1>3, <1>10 DEF RecordCount, SetCount, ReadLines, GiveUp
<1>11. ASSUME NEW d \in Count, CreateCycleCount(d) PROVE Journey(t)' /\ Advances(t)
  BY <1>3, <1>11 DEF CreateCycleCount
<1>12. ASSUME NEW h \in Handler, NEW op \in Op, NEW d \in Doc, Load(h, op, d)
       PROVE  Journey(t)' /\ Advances(t)
  BY <1>3, <1>12 DEF Load
<1>13. CASE UNCHANGED vars
  BY <1>3, <1>13 DEF vars
<1> QED BY <1>4, <1>5, <1>6, <1>7, <1>8, <1>9, <1>10, <1>11, <1>12, <1>13 DEF Next

(* A handler that has just read its transfer relies on what it found.      *)
LEMMA FollowedStep ==
    ASSUME Inv, Journeys, [Next]_vars, NEW t \in Transfer
    PROVE  Followed(t)'
<1> USE DEF Inv
<1>1. Advances(t)
  BY TravelStep
<1>2. t \in Transfer /\ t \notin Count
  BY DocAssumption
<1> DEFINE Good(h) ==
      work'[h].doc = t =>
        /\ work'[h].op \in {"dispatch", "cancel"} => transfers'[t].status # "absent"
        /\ work'[h].op = "receive" =>
             transfers'[t].status \notin {"absent", "draft"} /\ Shipped(t)'
<1> SUFFICES ASSUME NEW h \in Handler PROVE Good(h)
  BY Zenon DEF Followed
<1>3. ASSUME work'[h] = work[h] PROVE Good(h)
  BY <1>1, <1>3 DEF Advances, Journeys, Followed
<1>4. ASSUME NEW g \in Handler, Done(g) PROVE Good(h)
  <2>1. work'[g].op = "idle" /\ (h # g => work'[h] = work[h])
    BY <1>4, IdleType
  <2> QED BY <1>3, <2>1
<1>5. ASSUME NEW g \in Handler, ReadLines(g) PROVE Good(h)
  <2>1. work'[g].op = "complete" /\ (h # g => work'[h] = work[h])
    BY <1>5 DEF ReadLines, TypeOK
  <2> QED BY <1>3, <2>1
<1>6. ASSUME NEW g \in Handler, NEW op \in Op, NEW d \in Doc, Load(g, op, d) PROVE Good(h)
  <2>1. /\ work'[g].op = op /\ work'[g].doc = d /\ (h # g => work'[h] = work[h])
        /\ UNCHANGED <<transfers, moved>> /\ Permitted(op, d)
    BY <1>6 DEF Load, TypeOK
  <2>2. CASE h = g /\ d = t
    <3>1. Shipped(t)' = Shipped(t)
      BY <2>1 DEF Shipped
    <3>2. Journey(t)
      BY DEF Journeys
    <3> QED BY <1>2, <2>1, <2>2, <3>1, <3>2 DEF Permitted, Journey
  <2>3. CASE h # g
    BY <1>3, <2>1, <2>3
  <2>4. CASE d # t /\ h = g
    BY <2>1, <2>4
  <2> QED BY <2>2, <2>3, <2>4
<1>7. CASE UNCHANGED work
  BY <1>3, <1>7
<1> QED BY <1>4, <1>5, <1>6, <1>7
       DEF Next, vars, CreateTransfer, CreateCycleCount, DispatchTransfer, ReceiveTransfer,
           CancelTransfer, RecordCount, CompleteCycleCount, GiveUp, Adjust

LEMMA JourneysHold == Spec => []Journeys
<1>1. Init => Journeys
  <2> SUFFICES ASSUME Init, NEW t \in Transfer PROVE Journey(t) /\ Followed(t)
    BY DEF Journeys
  <2>1. /\ transfers[t].status = "absent" /\ \A c \in Coord : moved[t][c] = 0
        /\ \A h \in Handler : work[h].op = "idle"
    BY DEF Init, Nothing, Idle, Doc
  <2> QED BY <2>1 DEF Journey, Followed
<1>2. Inv /\ Journeys /\ [Next]_vars => Journeys'
  BY TravelStep, FollowedStep DEF Journeys
<1> QED BY <1>1, <1>2, Invariance, PTL DEF Spec

(* However handlers of a transfer overlap, a draft has moved nothing, and  *)
(* goods reach the destination only of lines that have left the source     *)
(* (service.go:459-462, 493-568): they are dispatched before any handler   *)
(* can find the transfer in transit.                                       *)
THEOREM GoodsArriveOnlyIfTheyLeft == Spec => []ArrivedOnlyIfLeft
<1>1. Inv /\ Journeys => ArrivedOnlyIfLeft
  <2> SUFFICES ASSUME Inv, Journeys, NEW t \in Transfer, NEW c \in Coord
               PROVE  /\ transfers[t].status \in {"absent", "draft"} => moved[t][c] = 0
                      /\ (c[2] = transfers[t].to /\ moved[t][c] > 0) =>
                           \E e \in Coord : /\ e[1] = c[1] /\ e[2] = transfers[t].from
                                            /\ moved[t][e] < 0
    BY Zenon DEF ArrivedOnlyIfLeft
  <2>1. Journey(t)
    BY DEF Journeys
  <2>2. ASSUME c[2] = transfers[t].to, moved[t][c] > 0
        PROVE  \E e \in Coord : e[1] = c[1] /\ e[2] = transfers[t].from /\ moved[t][e] < 0
    <3>1. transfers[t].lines[c[1]] > 0 /\ Shipped(t) /\ c[1] \in Item
      BY <2>1, <2>2 DEF Journey, Coord
    <3>2. transfers[t].from \in Warehouse
      BY DEF Inv, TypeOK, TransferRow
    <3>3. <<c[1], transfers[t].from, NoBin>> \in Coord
      BY <3>1, <3>2 DEF Coord
    <3>4. moved[t][<<c[1], transfers[t].from, NoBin>>] < 0
      BY <3>1 DEF Shipped
    <3> QED BY <3>3, <3>4
  <2> QED BY <2>1, <2>2 DEF Journey
<1> QED BY <1>1, Invariance, JourneysHold, PTL

-----------------------------------------------------------------------------
(* An issue from many rows.                                                *)

-----------------------------------------------------------------------------
(* The inductive invariant.                                                *)

Resting == {"idle", "done"}
Nought(f) == \A x \in DOMAIN f : f[x] = 0

(* Where a request can be.                                                 *)
PlaceOK(p) ==
    /\ pc[p] \in Resting => tx[p] = Fresh
    /\ pc[p] # "idle" => job[p].qty > 0
    /\ pc[p] \in {"select", "lock"} => job[p].kind = "issue"
    /\ pc[p] = "row" => job[p].kind # "issue"
    /\ pc[p] \in {"layers", "hold"} => job[p].kind # "receive"
    /\ pc[p] \in {"select", "lock", "row"} => tx[p].key = "due"
    /\ pc[p] \in {"layers", "hold", "commit"} => tx[p].key # "due"
    /\ pc[p] = "done" <=> outcome[p] # "none"

(* How much of its quantity it has moved and has still to move.  A         *)
(* duplicate has moved less.                                               *)
QtyOK(p) ==
    /\ tx[p].key = "due" => Nought(tx[p].delta)
    /\ pc[p] \notin Resting /\ tx[p].key # "dup" =>
         Total(Sizes(tx[p].delta)) + tx[p].owed = job[p].qty
    /\ pc[p] \notin Resting /\ tx[p].key = "dup" =>
         Total(Sizes(tx[p].delta)) + tx[p].owed < job[p].qty
    /\ pc[p] \in {"lookup", "row", "write"} => tx[p].owed > 0
    /\ pc[p] = "commit" => tx[p].owed = 0
    /\ job[p].kind = "issue" /\ pc[p] \in {"lookup", "write", "layers", "hold"} =>
         SumFunctionOnSet(Available, tx[p].lines) >= tx[p].owed
    /\ job[p].kind # "issue" /\ pc[p] \in {"lookup", "row", "write"} =>
         tx[p].lines = {job[p].row} /\ tx[p].key = "due"
    /\ job[p].kind # "issue" /\ pc[p] \in {"layers", "hold"} => tx[p].owed = 0
    /\ job[p].kind # "issue" /\ tx[p].key = "dup" => Nought(tx[p].delta)

(* The rows it will draw from or has written are locked, and as it read    *)
(* them.                                                                   *)
RowsOK(p) ==
    /\ job[p].kind = "issue" => \A r \in tx[p].lines : rowLock[r] = p /\ Issuable(r)
    /\ job[p].kind # "issue" /\ pc[p] = "write" => rowLock[job[p].row] = p
    /\ \A r \in Row :
         tx[p].delta[r] # 0 =>
           /\ rowLock[r] = p /\ r \notin tx[p].lines
           /\ tx[p].after[r] = quantity[r] + tx[p].delta[r]
           /\ tx[p].after[r] >= ReservedOf[r]
    /\ \A r \in Row : IF job[p].kind = "receive" THEN tx[p].delta[r] >= 0 ELSE tx[p].delta[r] <= 0

(* What has become of its client_request_id.                               *)
KeyOK(p) ==
    /\ tx[p].key = "none" => job[p].key = NoKey
    /\ tx[p].key = "book" => job[p].key \in Key /\ job[p].key \notin used
    /\ tx[p].key = "dup" => job[p].key \in used

OneBooks ==
    \A p, q \in Proc : p # q /\ tx[p].key = "book" /\ tx[q].key = "book" => job[p].key # job[q].key

(* The layers it has drawn from are locked, and as it read them; every     *)
(* unit it has moved was taken from one, has none, or awaits its cost.     *)
TakenCost(p) == Total([l \in Layer |-> tx[p].taken[l] * layers[l].cost])

LayersOK(p) ==
    /\ \A l \in tx[p].held : layerLock[l] = p
    /\ \A l \in Layer :
         tx[p].taken[l] > 0 =>
           layerLock[l] = p /\ tx[p].left[l] = layers[l].left - tx[p].taken[l]
    /\ job[p].kind = "receive" => Nought(tx[p].taken) /\ tx[p].short = 0
    /\ job[p].kind # "receive" =>
         Total(tx[p].taken) + tx[p].short + tx[p].need = Total(Sizes(tx[p].delta))
    /\ job[p].kind # "receive" /\ pc[p] \notin {"layers", "hold"} => tx[p].need = 0
    /\ tx[p].cogs = TakenCost(p) + StdCost * tx[p].short

(* What a request has left on the books.                                   *)
BooksOK(p) ==
    /\ outcome[p] \notin {"applied", "duplicate"} =>
         Nought(posted[p]) /\ cogs[p] = 0 /\ short[p] = 0
    /\ ~(outcome[p] = "applied" /\ job[p].kind = "receive") => layers[p] = NoLayer
    /\ outcome[p] = "applied" => Moved(p) = job[p].qty /\ job[p].key \in used \cup {NoKey}
    /\ outcome[p] = "duplicate" => Moved(p) < job[p].qty /\ job[p].key \in used

UsedOnce ==
    /\ \A k \in used : \E q \in Proc : job[q].key = k /\ outcome[q] = "applied"
    /\ \A p, q \in Proc :
         p # q /\ outcome[p] = "applied" /\ outcome[q] = "applied"
         => job[p].key # job[q].key \/ job[p].key = NoKey

(* The order of the locks.                                                 *)
LocksOK(p) ==
    /\ pc[p] \in Resting \cup {"select", "row"} => \A r \in Row : rowLock[r] # p
    /\ pc[p] = "lock" => \A r \in Row, s \in tx[p].cand : rowLock[r] = p => Rank[p][r] < Rank[p][s]
    /\ job[p].kind # "issue" /\ pc[p] = "lookup" => \A r \in Row : rowLock[r] # p
    /\ tx[p].key = "due" => \A l \in Layer : layerLock[l] # p
-----------------------------------------------------------------------------
(* Totals.                                                                 *)

LEMMA TotalInt ==
    ASSUME NEW S, IsFiniteSet(S), NEW f \in [S -> Int] PROVE Total(f) \in Int
BY SumType DEF Total

LEMMA TotalNat ==
    ASSUME NEW S, IsFiniteSet(S), NEW f \in [S -> Nat] PROVE Total(f) \in Nat
BY SumOfNaturals DEF Total

LEMMA TotalAdds ==
    ASSUME NEW S, IsFiniteSet(S), NEW f \in [S -> Int], NEW g \in [S -> Int], NEW h \in [S -> Int],
           \A x \in S : h[x] = f[x] + g[x]
    PROVE  Total(h) = Total(f) + Total(g)
<1>1. DOMAIN f = S /\ DOMAIN g = S /\ DOMAIN h = S
  OBVIOUS
<1>2. \A x \in S : f[x] \in Int /\ g[x] \in Int /\ h[x] = f[x] + g[x]
  OBVIOUS
<1>3. SumFunctionOnSet(h, S) = SumFunctionOnSet(f, S) + SumFunctionOnSet(g, S)
  BY <1>2, SumOfSums
<1> QED BY <1>1, <1>3 DEF Total

LEMMA TotalNought ==
    ASSUME NEW S, IsFiniteSet(S), NEW f \in [S -> Int], Nought(f) PROVE Total(f) = 0
BY SumOfZeros DEF Total, Nought

LEMMA TotalChanged ==
    ASSUME NEW S, IsFiniteSet(S), NEW f \in [S -> Int], NEW g \in [S -> Int]
    PROVE  \A x \in S : (\A y \in S \ {x} : g[y] = f[y]) => Total(g) = Total(f) - f[x] + g[x]
<1>1. DOMAIN f = S /\ DOMAIN g = S /\ \A x \in S : f[x] \in Int /\ g[x] \in Int
  OBVIOUS
<1>2. \A x \in S : (\A y \in S \ {x} : g[y] = f[y]) =>
        SumFunctionOnSet(g, S) = SumFunctionOnSet(f, S) - f[x] + g[x]
  BY <1>1, SumChanged
<1> QED BY <1>1, <1>2 DEF Total

LEMMA SizesType ==
    ASSUME NEW f \in [Row -> Int] PROVE Sizes(f) \in [Row -> Nat] /\ Total(Sizes(f)) \in Nat
<1>1. Sizes(f) \in [Row -> Nat]
  BY DEF Sizes
<1> QED BY <1>1, TotalNat, RowAssumption

LEMMA FiniteLayers == IsFiniteSet(Layer)
BY ProcAssumption, FS_Union DEF Layer

-----------------------------------------------------------------------------
(* The first of some rows.                                                 *)

LEMMA RankFacts ==
    ASSUME NEW p \in Proc, NEW r \in Row, NEW s \in Row
    PROVE  /\ Rank[p][r] \in Nat /\ Rank[p][s] \in Nat
           /\ Rank[p][r] = Rank[p][s] => r = s
           /\ Place[r] < Place[s] => Rank[p][r] < Rank[p][s]
<1>1. Rank[p] \in [Row -> Nat]
  BY RankAssumption
<1> QED BY <1>1, RankAssumption

LEMMA FirstExists ==
    ASSUME NEW p \in Proc, NEW S \in SUBSET Row, S # {} PROVE \E r \in S : First(p, S, r)
<1> DEFINE Good == {T \in SUBSET S : T # {} => \E r \in T : First(p, T, r)}
<1>1. ASSUME NEW T \in SUBSET S, \A x \in T : T \ {x} \in Good PROVE T \in Good
  <2> SUFFICES ASSUME T # {} PROVE \E r \in T : First(p, T, r)
    OBVIOUS
  <2>1. PICK x \in T : TRUE
    OBVIOUS
  <2>2. CASE T \ {x} = {}
    BY <2>1, <2>2, RankAssumption DEF First
  <2>3. CASE T \ {x} # {}
    <3>1. PICK r \in T \ {x} : First(p, T \ {x}, r)
      BY <1>1, <2>3
    <3>2. Rank[p][r] \in Nat /\ Rank[p][x] \in Nat /\ \A s \in T : Rank[p][s] \in Nat
      BY RankFacts
    <3>3. CASE Rank[p][r] <= Rank[p][x]
      BY <3>1, <3>3 DEF First
    <3>4. CASE ~(Rank[p][r] <= Rank[p][x])
      <4>1. First(p, T, x)
        BY <3>1, <3>2, <3>4 DEF First
      <4> QED BY <4>1
    <3> QED BY <3>3, <3>4
  <2> QED BY <2>2, <2>3
<1>2. IsFiniteSet(S) /\ Good \in SUBSET (SUBSET S)
  BY RowAssumption, FS_Subset
<1>3. S \in Good
  <2> HIDE DEF Good
  <2> QED BY <1>1, <1>2, FiniteInduction
<1> QED BY <1>3

LEMMA SourceIn ==
    ASSUME NEW p \in Proc, tx[p].lines \in SUBSET Row, tx[p].lines # {}
    PROVE  Source(p) \in tx[p].lines /\ Source(p) \in Row
<1>1. \E r \in tx[p].lines : First(p, tx[p].lines, r)
  BY FirstExists
<1> QED BY <1>1 DEF Source
-----------------------------------------------------------------------------
(* What one request does leaves alone what is another one's.               *)

Own(p) ==
    /\ PlaceOK(p) /\ QtyOK(p) /\ RowsOK(p) /\ KeyOK(p)
    /\ LayersOK(p) /\ BooksOK(p) /\ LocksOK(p)

IssueInv ==
    /\ IssueTypeOK
    /\ \A p \in Proc : Own(p)
    /\ OneBooks /\ UsedOnce
    /\ CostConserved

(* Nothing of q changes: not what it is at and has read, not its locks.    *)
Untouched(q) ==
    /\ pc'[q] = pc[q] /\ tx'[q] = tx[q] /\ job'[q] = job[q] /\ outcome'[q] = outcome[q]
    /\ \A r \in Row : rowLock'[r] = q <=> rowLock[r] = q
    /\ \A l \in Layer : layerLock'[l] = q <=> layerLock[l] = q

LEMMA TxTyped ==
    ASSUME IssueTypeOK, NEW p \in Proc
    PROVE  /\ tx[p] \in TxRow /\ job[p] \in Job
           /\ tx[p].cand \in SUBSET Row /\ tx[p].lines \in SUBSET Row
           /\ tx[p].found \in SUBSET Layer /\ tx[p].held \in SUBSET Layer
           /\ tx[p].owed \in Nat /\ tx[p].need \in Nat
           /\ tx[p].cogs \in Nat /\ tx[p].short \in Nat
           /\ tx[p].after \in [Row -> Int] /\ tx[p].delta \in [Row -> Int]
           /\ tx[p].taken \in [Layer -> Nat] /\ tx[p].left \in [Layer -> Nat]
           /\ tx[p].key \in {"due", "none", "book", "dup"}
           /\ job[p].kind \in {"issue", "draw", "receive"} /\ job[p].qty \in Nat
           /\ job[p].row \in Row /\ job[p].key \in Key \cup {NoKey}
           /\ job[p].cost \in Nat
<1>1. tx[p] \in TxRow
  BY DEF IssueTypeOK
<1>2. job[p] \in Job
  BY DEF IssueTypeOK
<1> QED BY <1>1, <1>2 DEF TxRow, Job

LEMMA LayerTyped ==
    ASSUME IssueTypeOK, NEW l \in Layer
    PROVE  /\ layers[l] \in LayerRow
           /\ layers[l].left \in Nat /\ layers[l].cost \in Nat /\ layers[l].total \in Nat
<1>1. layers[l] \in LayerRow
  BY DEF IssueTypeOK
<1> QED BY <1>1 DEF LayerRow

LEMMA PlaceKept ==
    ASSUME NEW q \in Proc, Untouched(q), PlaceOK(q) PROVE PlaceOK(q)'
BY DEF Untouched, PlaceOK

LEMMA LocksKept ==
    ASSUME NEW q \in Proc, Untouched(q), LocksOK(q) PROVE LocksOK(q)'
BY DEF Untouched, LocksOK

LEMMA KeyKept ==
    ASSUME NEW q \in Proc, Untouched(q), KeyOK(q),
           used \subseteq used', tx[q].key = "book" => job[q].key \notin used'
    PROVE  KeyOK(q)'
BY DEF Untouched, KeyOK

(* Rows that are not its own may change.                                   *)
LEMMA RowsKept ==
    ASSUME IssueTypeOK, NEW q \in Proc, Untouched(q), RowsOK(q),
           \A r \in Row : rowLock[r] = q => quantity'[r] = quantity[r]
    PROVE  RowsOK(q)'
<1>1. tx'[q] = tx[q] /\ job'[q] = job[q] /\ pc'[q] = pc[q]
  BY DEF Untouched
<1>2. \A r \in Row : rowLock[r] = q => rowLock'[r] = q /\ quantity'[r] = quantity[r]
  BY DEF Untouched
<1>3. job[q].row \in Row /\ tx[q].lines \subseteq Row
  BY TxTyped
<1>4. (job[q].kind = "issue" => \A r \in tx[q].lines : rowLock[r] = q /\ Issuable(r))'
  BY <1>1, <1>2, <1>3 DEF RowsOK, Issuable
<1>5. (job[q].kind # "issue" /\ pc[q] = "write" => rowLock[job[q].row] = q)'
  BY <1>1, <1>2, <1>3 DEF RowsOK
<1>6. (\A r \in Row :
         tx[q].delta[r] # 0 =>
           /\ rowLock[r] = q /\ r \notin tx[q].lines
           /\ tx[q].after[r] = quantity[r] + tx[q].delta[r]
           /\ tx[q].after[r] >= ReservedOf[r])'
  BY <1>1, <1>2 DEF RowsOK
<1>7. (\A r \in Row : IF job[q].kind = "receive" THEN tx[q].delta[r] >= 0
                                                   ELSE tx[q].delta[r] <= 0)'
  BY <1>1 DEF RowsOK
<1> QED BY <1>4, <1>5, <1>6, <1>7 DEF RowsOK

LEMMA AvailableType ==
    ASSUME IssueTypeOK PROVE \A r \in Row : Available[r] \in Int
BY RowAssumption DEF IssueTypeOK, Available

LEMMA QtyKept ==
    ASSUME IssueTypeOK, IssueTypeOK', NEW q \in Proc, Untouched(q), QtyOK(q), RowsOK(q),
           \A r \in Row : rowLock[r] = q => quantity'[r] = quantity[r]
    PROVE  QtyOK(q)'
<1>1. job[q].kind = "issue" =>
        SumFunctionOnSet(Available', tx[q].lines) = SumFunctionOnSet(Available, tx[q].lines)
  <2> SUFFICES ASSUME job[q].kind = "issue"
               PROVE  SumFunctionOnSet(Available', tx[q].lines)
                        = SumFunctionOnSet(Available, tx[q].lines)
    OBVIOUS
  <2>1. tx[q].lines \in SUBSET Row /\ IsFiniteSet(tx[q].lines)
    BY TxTyped, RowAssumption, FS_Subset
  <2>2. \A r \in tx[q].lines : Available'[r] = Available[r] /\ Available[r] \in Int
    BY <2>1, AvailableType DEF RowsOK, Available
  <2> QED BY <2>1, <2>2, SameSum
<1> QED BY <1>1 DEF Untouched, QtyOK

LEMMA LayersKept ==
    ASSUME IssueTypeOK, IssueTypeOK', NEW q \in Proc, Untouched(q), LayersOK(q),
           \A l \in Layer : tx[q].taken[l] > 0 =>
             layers'[l].left = layers[l].left /\ layers'[l].cost = layers[l].cost
    PROVE  LayersOK(q)'
<1>1. TakenCost(q)' = TakenCost(q)
  <2> DEFINE f == [l \in Layer |-> tx[q].taken[l] * layers[l].cost]
             g == [l \in Layer |-> tx'[q].taken[l] * layers'[l].cost]
  <2>1. ASSUME NEW l \in Layer PROVE f[l] = g[l]
    <3>1. tx'[q] = tx[q] /\ tx[q].taken[l] \in Nat
      BY TxTyped DEF Untouched
    <3>2. layers[l].cost \in Nat /\ layers'[l].cost \in Nat
      BY LayerTyped DEF IssueTypeOK, LayerRow
    <3>3. CASE tx[q].taken[l] > 0
      BY <3>1, <3>3
    <3>4. CASE tx[q].taken[l] = 0
      BY <3>1, <3>2, <3>4
    <3> QED BY <3>1, <3>3, <3>4
  <2>2. f = g
    BY <2>1
  <2> QED BY <2>2 DEF TakenCost
<1>2. tx'[q] = tx[q] /\ job'[q] = job[q] /\ pc'[q] = pc[q]
  BY DEF Untouched
<1>3. \A l \in Layer : layerLock[l] = q => layerLock'[l] = q
  BY DEF Untouched
<1>4. tx[q].held \subseteq Layer
  BY TxTyped
<1>5. (\A l \in tx[q].held : layerLock[l] = q)'
  BY <1>2, <1>3, <1>4 DEF LayersOK
<1>6. (\A l \in Layer :
         tx[q].taken[l] > 0 =>
           layerLock[l] = q /\ tx[q].left[l] = layers[l].left - tx[q].taken[l])'
  BY <1>2, <1>3 DEF LayersOK
<1>7. (tx[q].cogs = TakenCost(q) + StdCost * tx[q].short)'
  BY <1>1, <1>2 DEF LayersOK
<1> QED BY <1>2, <1>5, <1>6, <1>7 DEF LayersOK

LEMMA BooksKept ==
    ASSUME NEW q \in Proc, Untouched(q), BooksOK(q), used \subseteq used',
           posted'[q] = posted[q], cogs'[q] = cogs[q], short'[q] = short[q],
           ~(outcome[q] = "applied" /\ job[q].kind = "receive") => layers'[q] = layers[q]
    PROVE  BooksOK(q)'
<1>1. Moved(q)' = Moved(q) /\ (Nought(posted[q]))' = Nought(posted[q])
  BY DEF Moved, Total, Sizes, Nought
<1> QED BY <1>1 DEF Untouched, BooksOK
-----------------------------------------------------------------------------
(* A step that is not a COMMIT.                                            *)

BooksAlone(p) ==
    \/ tx'[p].key # "book"
    \/ tx'[p].key = tx[p].key /\ job'[p] = job[p]
    \/ \A q \in Proc \ {p} : tx[q].key = "book" => job[q].key # job'[p].key

LEMMA OthersKept ==
    ASSUME IssueInv, IssueTypeOK', NEW q \in Proc, Untouched(q), UNCHANGED stored
    PROVE  Own(q)'
<1>1. UNCHANGED <<quantity, layers, used, posted, cogs, short>>
  BY DEF stored
<1>2. Own(q) /\ IssueTypeOK
  BY DEF IssueInv
<1>3. PlaceOK(q)' /\ LocksOK(q)'
  BY <1>2, PlaceKept, LocksKept DEF Own
<1>4. KeyOK(q)'
  BY <1>1, <1>2, KeyKept DEF Own, KeyOK
<1>5. RowsOK(q)' /\ QtyOK(q)'
  BY <1>1, <1>2, RowsKept, QtyKept DEF Own
<1>6. LayersOK(q)'
  BY <1>1, <1>2, LayersKept DEF Own
<1>7. BooksOK(q)'
  BY <1>1, <1>2, BooksKept DEF Own
<1> QED BY <1>3, <1>4, <1>5, <1>6, <1>7 DEF Own

LEMMA OneBooksKept ==
    ASSUME OneBooks, NEW p \in Proc, \A q \in Proc \ {p} : Untouched(q), BooksAlone(p)
    PROVE  OneBooks'
<1> SUFFICES ASSUME NEW q \in Proc, NEW s \in Proc, q # s,
                    tx'[q].key = "book", tx'[s].key = "book"
             PROVE  job'[q].key # job'[s].key
  BY DEF OneBooks
<1>1. CASE q # p /\ s # p
  BY <1>1 DEF Untouched, OneBooks
<1>2. CASE q = p
  BY <1>2 DEF Untouched, OneBooks, BooksAlone
<1>3. CASE s = p
  BY <1>3 DEF Untouched, OneBooks, BooksAlone
<1> QED BY <1>1, <1>2, <1>3

LEMMA UsedOnceKept ==
    ASSUME UsedOnce, NEW p \in Proc, \A q \in Proc \ {p} : Untouched(q), UNCHANGED used,
           outcome[p] = "none", outcome'[p] # "applied"
    PROVE  UsedOnce'
<1>1. ASSUME NEW k \in used PROVE \E q \in Proc : job'[q].key = k /\ outcome'[q] = "applied"
  <2>1. PICK q \in Proc : job[q].key = k /\ outcome[q] = "applied"
    BY DEF UsedOnce
  <2>2. q # p
    BY <2>1
  <2> QED BY <2>1, <2>2 DEF Untouched
<1>2. ASSUME NEW q \in Proc, NEW s \in Proc, q # s,
             outcome'[q] = "applied", outcome'[s] = "applied"
      PROVE  job'[q].key # job'[s].key \/ job'[q].key = NoKey
  <2>1. q # p /\ s # p
    BY <1>2
  <2>2. outcome[q] = "applied" /\ outcome[s] = "applied" /\ job'[q] = job[q] /\ job'[s] = job[s]
    BY <1>2, <2>1 DEF Untouched
  <2> QED BY <1>2, <2>2 DEF UsedOnce
<1> QED BY <1>1, <1>2 DEF UsedOnce

LEMMA ConservedKept ==
    ASSUME CostConserved, UNCHANGED stored PROVE CostConserved'
<1>1. UNCHANGED <<quantity, layers, posted, cogs, short>>
  BY DEF stored
<1> QED BY <1>1 DEF CostConserved, RowsAddUp, Received, Total, Value, Units

LEMMA StepSafe ==
    ASSUME IssueInv, IssueTypeOK', NEW p \in Proc, UNCHANGED stored,
           \A q \in Proc \ {p} : Untouched(q),
           pc[p] # "done", outcome'[p] # "applied", BooksAlone(p), Own(p)'
    PROVE  IssueInv'
<1>1. outcome[p] = "none"
  BY DEF IssueInv, Own, PlaceOK
<1>2. UNCHANGED used
  BY DEF stored
<1>3. OneBooks' /\ UsedOnce' /\ CostConserved'
  BY <1>1, <1>2, OneBooksKept, UsedOnceKept, ConservedKept DEF IssueInv
<1>4. \A q \in Proc : Own(q)'
  BY OthersKept
<1> QED BY <1>3, <1>4 DEF IssueInv

(* A statement that may take locks.                                        *)
Takes(p) ==
    /\ rowLock' \in [Row -> Proc \cup {NoProc}]
    /\ layerLock' \in [Layer -> Proc \cup {NoProc}]
    /\ \A r \in Row : rowLock'[r] = rowLock[r] \/ (rowLock[r] \in {NoProc, p} /\ rowLock'[r] = p)
    /\ \A l \in Layer :
         layerLock'[l] = layerLock[l] \/ (layerLock[l] \in {NoProc, p} /\ layerLock'[l] = p)

LEMMA GotoFrame ==
    ASSUME IssueInv, NEW p \in Proc, NEW s \in Statement, NEW t \in TxRow, Goto(p, s, t),
           UNCHANGED stored, Takes(p)
    PROVE  /\ IssueTypeOK' /\ \A q \in Proc \ {p} : Untouched(q)
           /\ pc'[p] = s /\ tx'[p] = t /\ job'[p] = job[p] /\ outcome'[p] = outcome[p]
           /\ UNCHANGED <<quantity, layers, used, posted, cogs, short>>
<1>1. UNCHANGED <<quantity, layers, used, posted, cogs, short>> /\ UNCHANGED <<job, outcome>>
  BY DEF stored, Goto
<1>2. IssueTypeOK /\ pc' = [pc EXCEPT ![p] = s] /\ tx' = [tx EXCEPT ![p] = t]
  BY DEF Goto, IssueInv
<1>3. pc' \in [Proc -> Statement \cup {"idle", "done"}] /\ tx' \in [Proc -> TxRow]
  BY <1>2 DEF IssueTypeOK
<1>4. IssueTypeOK'
  BY <1>1, <1>2, <1>3 DEF IssueTypeOK, Takes
<1>5. pc'[p] = s /\ tx'[p] = t
  BY <1>2 DEF IssueTypeOK
<1>6. ASSUME NEW q \in Proc \ {p} PROVE Untouched(q)
  <2>1. pc'[q] = pc[q] /\ tx'[q] = tx[q]
    BY <1>2 DEF IssueTypeOK
  <2>2. \A r \in Row : rowLock'[r] = q <=> rowLock[r] = q
    BY ProcAssumption DEF Takes
  <2>3. \A l \in Layer : layerLock'[l] = q <=> layerLock[l] = q
    BY ProcAssumption DEF Takes
  <2> QED BY <1>1, <2>1, <2>2, <2>3 DEF Untouched
<1> QED BY <1>1, <1>4, <1>5, <1>6

(* What has happened to its books, when a statement changes only what the  *)
(* request holds and has read.                                             *)
LEMMA OwnBooksKept ==
    ASSUME NEW p \in Proc, BooksOK(p), UNCHANGED stored, job'[p] = job[p], outcome'[p] = outcome[p]
    PROVE  BooksOK(p)'
<1>1. UNCHANGED <<layers, used, posted, cogs, short>>
  BY DEF stored
<1>2. Moved(p)' = Moved(p) /\ (Nought(posted[p]))' = Nought(posted[p])
  BY <1>1 DEF Moved, Total, Sizes, Nought
<1> QED BY <1>1, <1>2 DEF BooksOK

LEMMA NoLocksTaken == ASSUME IssueTypeOK, NEW p, UNCHANGED locks PROVE Takes(p)
BY DEF locks, IssueTypeOK, Takes

LEMMA GotoSafe ==
    ASSUME IssueInv, NEW p \in Proc, NEW s \in Statement, NEW t \in TxRow, Goto(p, s, t),
           UNCHANGED stored, Takes(p), pc[p] # "done", BooksAlone(p),
           PlaceOK(p)', QtyOK(p)', RowsOK(p)', KeyOK(p)', LayersOK(p)', LocksOK(p)'
    PROVE  IssueInv'
<1>1. /\ IssueTypeOK' /\ \A q \in Proc \ {p} : Untouched(q)
      /\ job'[p] = job[p] /\ outcome'[p] = outcome[p]
  BY GotoFrame
<1>2. Own(p)
  BY DEF IssueInv
<1>3. BooksOK(p)'
  BY <1>1, <1>2, OwnBooksKept DEF Own
<1>4. outcome'[p] # "applied"
  BY <1>1, <1>2 DEF Own, PlaceOK
<1> QED BY <1>1, <1>3, <1>4, StepSafe DEF Own

-----------------------------------------------------------------------------
(* Issue chooses and locks its rows.                                       *)

LEMMA CandidatesSafe ==
    ASSUME IssueInv, NEW p \in Proc, Candidates(p) PROVE IssueInv'
<1> DEFINE S == {r \in Row : Issuable(r)}
           t == [tx[p] EXCEPT !.cand = S]
<1>1. pc[p] = "select" /\ Goto(p, "lock", t) /\ UNCHANGED stored /\ UNCHANGED locks
  BY DEF Candidates
<1>2. /\ t \in TxRow /\ t.lines = tx[p].lines /\ t.owed = tx[p].owed /\ t.key = tx[p].key
      /\ t.after = tx[p].after /\ t.delta = tx[p].delta /\ t.need = tx[p].need
      /\ t.held = tx[p].held /\ t.taken = tx[p].taken /\ t.left = tx[p].left
      /\ t.cogs = tx[p].cogs /\ t.short = tx[p].short
  <2>1. tx[p] \in TxRow /\ S \in SUBSET Row
    BY TxTyped DEF IssueInv
  <2> QED BY <2>1 DEF TxRow
<1> HIDE DEF t
<1>3. Takes(p)
  BY <1>1, NoLocksTaken DEF IssueInv
<1>4. /\ IssueTypeOK' /\ \A q \in Proc \ {p} : Untouched(q)
      /\ pc'[p] = "lock" /\ tx'[p] = t /\ job'[p] = job[p] /\ outcome'[p] = outcome[p]
      /\ UNCHANGED <<quantity, layers, used, posted, cogs, short>>
  BY <1>1, <1>2, <1>3, GotoFrame DEF Statement
<1>5. Own(p) /\ UNCHANGED <<rowLock, layerLock>>
  BY <1>1 DEF IssueInv, locks
<1>6. PlaceOK(p)'
  BY <1>1, <1>2, <1>4, <1>5 DEF Own, PlaceOK, Resting
<1>7. QtyOK(p)'
  BY <1>1, <1>2, <1>4, <1>5 DEF Own, QtyOK, Resting
<1>8. RowsOK(p)'
  BY <1>1, <1>2, <1>4, <1>5 DEF Own, RowsOK, Issuable
<1>9. KeyOK(p)'
  BY <1>1, <1>2, <1>4, <1>5 DEF Own, KeyOK
<1>10. LayersOK(p)'
  BY <1>1, <1>2, <1>4, <1>5 DEF Own, LayersOK, TakenCost
<1>11. LocksOK(p)'
  BY <1>1, <1>2, <1>4, <1>5 DEF Own, LocksOK
<1>12. BooksAlone(p)
  BY <1>2, <1>4 DEF BooksAlone
<1> QED BY <1>1, <1>2, <1>3, <1>6, <1>7, <1>8, <1>9, <1>10, <1>11, <1>12, GotoSafe DEF Statement

LEMMA LockRowSafe ==
    ASSUME IssueInv, NEW p \in Proc, NEW r \in Row, First(p, tx[p].cand, r), Lock(p, r)
    PROVE  IssueInv'
<1> DEFINE t == [tx[p] EXCEPT !.cand = @ \ {r},
                              !.lines = IF Issuable(r) THEN @ \cup {r} ELSE @]
<1>1. /\ pc[p] = "lock" /\ r \in tx[p].cand /\ rowLock[r] = NoProc
      /\ rowLock' = [rowLock EXCEPT ![r] = p]
      /\ Goto(p, "lock", t) /\ UNCHANGED stored /\ UNCHANGED layerLock
  BY DEF Lock
<1>2. /\ t \in TxRow /\ t.owed = tx[p].owed /\ t.key = tx[p].key
      /\ t.after = tx[p].after /\ t.delta = tx[p].delta /\ t.need = tx[p].need
      /\ t.held = tx[p].held /\ t.taken = tx[p].taken /\ t.left = tx[p].left
      /\ t.cogs = tx[p].cogs /\ t.short = tx[p].short
      /\ t.cand = tx[p].cand \ {r}
      /\ t.lines = IF Issuable(r) THEN tx[p].lines \cup {r} ELSE tx[p].lines
  <2>1. tx[p] \in TxRow
    BY TxTyped DEF IssueInv
  <2> QED BY <2>1 DEF TxRow
<1> HIDE DEF t
<1>3. Takes(p)
  BY <1>1 DEF IssueInv, IssueTypeOK, Takes
<1>4. /\ IssueTypeOK' /\ \A q \in Proc \ {p} : Untouched(q)
      /\ pc'[p] = "lock" /\ tx'[p] = t /\ job'[p] = job[p] /\ outcome'[p] = outcome[p]
      /\ UNCHANGED <<quantity, layers, used, posted, cogs, short>>
  BY <1>1, <1>2, <1>3, GotoFrame DEF Statement
<1>5. Own(p) /\ IssueTypeOK
  BY DEF IssueInv
<1>6. \A s \in Row : rowLock'[s] = IF s = r THEN p ELSE rowLock[s]
  BY <1>1, <1>5 DEF IssueTypeOK
<1>7. PlaceOK(p)'
  BY <1>1, <1>2, <1>4, <1>5 DEF Own, PlaceOK, Resting
<1>8. QtyOK(p)'
  BY <1>1, <1>2, <1>4, <1>5 DEF Own, QtyOK, Resting
<1>9. RowsOK(p)'
  <2>1. /\ job[p].kind = "issue"
        /\ \A s \in Row : tx[p].delta[s] = 0
        /\ \A s \in tx[p].lines : rowLock[s] = p /\ Issuable(s) /\ s \in Row
    BY <1>1, <1>5, TxTyped DEF Own, PlaceOK, QtyOK, RowsOK, Nought
  <2>2. \A s \in t.lines : rowLock'[s] = p /\ Issuable(s)'
    BY <2>1, <1>2, <1>4, <1>6 DEF Issuable
  <2> QED BY <2>1, <2>2, <1>2, <1>4 DEF RowsOK
<1>10. KeyOK(p)'
  BY <1>1, <1>2, <1>4, <1>5 DEF Own, KeyOK
<1>11. LayersOK(p)'
  BY <1>1, <1>2, <1>4, <1>5 DEF Own, LayersOK, TakenCost
<1>12. LocksOK(p)'
  <2>1. /\ \A s \in tx[p].cand : s \in Row /\ Rank[p][s] \in Nat /\ Rank[p][r] <= Rank[p][s]
        /\ Rank[p][r] \in Nat
    BY <1>5, TxTyped, RankFacts DEF First
  <2>2. ASSUME NEW q \in Row, NEW s \in t.cand, rowLock'[q] = p PROVE Rank[p][q] < Rank[p][s]
    <3>1. s \in tx[p].cand /\ s # r
      BY <1>2
    <3>2. CASE q = r
      BY <3>1, <3>2, <2>1, RankFacts
    <3>3. CASE q # r
      BY <3>1, <3>3, <2>2, <1>1, <1>5, <1>6 DEF Own, LocksOK
    <3> QED BY <3>2, <3>3
  <2>3. tx[p].key = "due" => \A l \in Layer : layerLock'[l] # p
    BY <1>1, <1>5 DEF Own, LocksOK
  <2> QED BY <2>2, <2>3, <1>2, <1>4 DEF LocksOK, Resting
<1>13. BooksAlone(p)
  BY <1>2, <1>4 DEF BooksAlone
<1> QED BY <1>1, <1>2, <1>3, <1>7, <1>8, <1>9, <1>10, <1>11, <1>12, <1>13, GotoSafe DEF Statement

LEMMA CheckSafe ==
    ASSUME IssueInv, NEW p \in Proc, Check(p) PROVE IssueInv'
<1> DEFINE t == tx[p]
<1>1. /\ pc[p] = "lock" /\ Enough(p) /\ Goto(p, "lookup", t) /\ UNCHANGED stored
      /\ UNCHANGED locks /\ UNCHANGED <<rowLock, layerLock>>
  BY DEF Check, locks
<1>2. t \in TxRow /\ Takes(p)
  BY <1>1, TxTyped, NoLocksTaken DEF IssueInv
<1>3. /\ IssueTypeOK' /\ \A q \in Proc \ {p} : Untouched(q)
      /\ pc'[p] = "lookup" /\ tx'[p] = tx[p] /\ job'[p] = job[p] /\ outcome'[p] = outcome[p]
      /\ UNCHANGED <<quantity, layers, used, posted, cogs, short>>
  BY <1>1, <1>2, GotoFrame DEF Statement
<1>4. Own(p) /\ IssueTypeOK
  BY DEF IssueInv
<1>5. PlaceOK(p)'
  BY <1>1, <1>3, <1>4 DEF Own, PlaceOK, Resting
<1>6. QtyOK(p)'
  <2>1. job[p].kind = "issue" /\ tx[p].key = "due" /\ job[p].qty > 0 /\ job[p].qty \in Nat
    BY <1>1, <1>4, TxTyped DEF Own, PlaceOK
  <2>2. Total(Sizes(tx[p].delta)) = 0
    <3>1. tx[p].delta \in [Row -> Int] /\ Nought(tx[p].delta)
      BY <2>1, <1>4, TxTyped DEF Own, QtyOK
    <3>2. Sizes(tx[p].delta) \in [Row -> Int] /\ Nought(Sizes(tx[p].delta))
      BY <3>1 DEF Sizes, Nought
    <3> QED BY <3>2, TotalNought, RowAssumption
  <2>3. tx[p].owed > 0 /\ Total(Sizes(tx[p].delta)) + tx[p].owed = job[p].qty
    BY <2>1, <2>2, <1>1, <1>4, TxTyped DEF Own, QtyOK, Resting
  <2>4. Available' = Available
    BY <1>3 DEF Available
  <2>5. SumFunctionOnSet(Available, tx[p].lines) >= tx[p].owed
    BY <1>1 DEF Enough
  <2>6. Nought(tx[p].delta)
    BY <2>1, <1>4 DEF Own, QtyOK
  <2> QED BY <2>1, <2>3, <2>4, <2>5, <2>6, <1>3 DEF QtyOK
<1>7. RowsOK(p)'
  <2>1. job[p].kind = "issue"
    BY <1>1, <1>4 DEF Own, PlaceOK
  <2> QED BY <2>1, <1>1, <1>3, <1>4 DEF Own, RowsOK, Issuable
<1>8. KeyOK(p)'
  BY <1>1, <1>3, <1>4 DEF Own, KeyOK
<1>9. LayersOK(p)'
  BY <1>1, <1>3, <1>4 DEF Own, LayersOK, TakenCost
<1>10. LocksOK(p)'
  <2>1. job[p].kind = "issue"
    BY <1>1, <1>4 DEF Own, PlaceOK
  <2> QED BY <2>1, <1>1, <1>3, <1>4 DEF Own, LocksOK, Resting
<1>11. BooksAlone(p)
  BY <1>3 DEF BooksAlone
<1> HIDE DEF t
<1> QED BY <1>1, <1>2, <1>5, <1>6, <1>7, <1>8, <1>9, <1>10, <1>11, GotoSafe DEF Statement
-----------------------------------------------------------------------------
(* Apply finds the key, locks its row and writes.                          *)

(* The row to draw from is there, and so is what is to be taken from it.   *)
LEMMA TakeFacts ==
    ASSUME IssueInv, NEW p \in Proc, pc[p] \in {"lookup", "row", "write"}
    PROVE  /\ Source(p) \in Row /\ Source(p) \in tx[p].lines
           /\ Take(p) \in Nat /\ Take(p) > 0 /\ Take(p) <= tx[p].owed
           /\ tx[p].delta[Source(p)] = 0
           /\ job[p].kind # "issue" => Source(p) = job[p].row /\ Take(p) = tx[p].owed
           /\ job[p].kind = "issue" =>
                /\ Take(p) <= quantity[Source(p)] - ReservedOf[Source(p)]
                /\ rowLock[Source(p)] = p
                /\ SumFunctionOnSet(Available, tx[p].lines \ {Source(p)}) >= tx[p].owed - Take(p)
<1>1. /\ IssueTypeOK /\ Own(p)
      /\ tx[p].owed \in Nat /\ tx[p].lines \in SUBSET Row /\ tx[p].owed > 0
      /\ tx[p].delta \in [Row -> Int]
  BY TxTyped DEF IssueInv, Own, QtyOK
<1>2. ASSUME NEW r \in Row PROVE quantity[r] \in Nat /\ ReservedOf[r] \in Nat
  BY <1>1, RowAssumption DEF IssueTypeOK
<1>3. CASE job[p].kind = "issue"
  <2>1. SumFunctionOnSet(Available, tx[p].lines) >= tx[p].owed
    BY <1>1, <1>3 DEF Own, PlaceOK, QtyOK
  <2>2. tx[p].lines # {}
    <3>1. SumFunctionOnSet(Available, {}) = 0
      BY SumOfNone
    <3> QED BY <2>1, <3>1, <1>1
  <2>3. PICK r \in Row : r = Source(p) /\ r \in tx[p].lines
    BY <1>1, <2>2, SourceIn
  <2>4. rowLock[r] = p /\ quantity[r] > ReservedOf[r] /\ tx[p].delta[r] = 0
    BY <1>1, <1>3, <2>3 DEF Own, RowsOK, Issuable
  <2> DEFINE a == quantity[r] - ReservedOf[r]
             rest == SumFunctionOnSet(Available, tx[p].lines \ {r})
  <2>5. a \in Int /\ a > 0 /\ Available[r] = a
    BY <1>2, <2>4 DEF Available
  <2>6. Take(p) = IF a < tx[p].owed THEN a ELSE tx[p].owed
    BY <1>3, <2>3, <2>5 DEF Take, Smaller
  <2>7. SumFunctionOnSet(Available, tx[p].lines) = a + rest /\ rest \in Int
    <3>1. IsFiniteSet(tx[p].lines) /\ \A s \in tx[p].lines : Available[s] \in Int
      BY <1>1, AvailableType, RowAssumption, FS_Subset
    <3>2. IsFiniteSet(tx[p].lines \ {r}) /\ \A s \in tx[p].lines \ {r} : Available[s] \in Int
      BY <3>1, FS_Subset
    <3>3. SumFunctionOnSet(Available, tx[p].lines) = Available[r] + rest
      BY <3>1, <2>3, SumRemove
    <3> QED BY <3>2, <3>3, <2>5, SumType
  <2>8. rest >= 0
    <3>1. IsFiniteSet(tx[p].lines \ {r})
      BY <1>1, RowAssumption, FS_Subset
    <3>2. ASSUME NEW s \in tx[p].lines \ {r} PROVE Available[s] \in Nat
      <4>1. s \in Row /\ quantity[s] > ReservedOf[s]
        BY <1>1, <1>3, <3>2 DEF Own, RowsOK, Issuable
      <4> QED BY <4>1, <1>2 DEF Available
    <3> QED BY <3>1, <3>2, SumOfNaturals
  <2> HIDE DEF a, rest
  <2>9. Take(p) \in Nat /\ Take(p) > 0 /\ Take(p) <= tx[p].owed /\ Take(p) <= a
        /\ rest >= tx[p].owed - Take(p)
    BY <2>1, <2>5, <2>6, <2>7, <2>8, <1>1
  <2> QED BY <2>3, <2>4, <2>9, <1>3 DEF a, rest
<1>4. CASE job[p].kind # "issue"
  <2>1. tx[p].lines = {job[p].row} /\ tx[p].key = "due" /\ job[p].row \in Row
    BY <1>1, <1>4, TxTyped DEF Own, QtyOK
  <2>2. Source(p) = job[p].row
    <3>1. tx[p].lines \in SUBSET Row /\ tx[p].lines # {}
      BY <2>1, <1>1
    <3>2. Source(p) \in tx[p].lines
      BY <3>1, SourceIn
    <3> QED BY <3>2, <2>1
  <2>3. tx[p].delta[job[p].row] = 0
    BY <1>1, <2>1 DEF Own, QtyOK, Nought
  <2> QED BY <2>1, <2>2, <2>3, <1>1, <1>4 DEF Take
<1> QED BY <1>3, <1>4

LEMMA SkipSafe ==
    ASSUME IssueInv, NEW p \in Proc, Lookup(p), KeyOf(p) \in used PROVE IssueInv'
<1> DEFINE t == Skip(p)
           s == After(t)
<1>1. /\ pc[p] = "lookup" /\ Goto(p, s, t) /\ UNCHANGED stored
      /\ UNCHANGED locks /\ UNCHANGED <<rowLock, layerLock>>
  BY DEF Lookup, locks
<1>2. Own(p) /\ IssueTypeOK
  BY DEF IssueInv
<1>3. /\ Source(p) \in Row /\ Source(p) \in tx[p].lines
      /\ Take(p) \in Nat /\ Take(p) > 0 /\ Take(p) <= tx[p].owed
      /\ job[p].kind # "issue" => Source(p) = job[p].row /\ Take(p) = tx[p].owed
      /\ job[p].kind = "issue" =>
           SumFunctionOnSet(Available, tx[p].lines \ {Source(p)}) >= tx[p].owed - Take(p)
  BY <1>1, TakeFacts
<1>4. /\ tx[p].owed \in Nat /\ job[p].qty \in Nat /\ tx[p].delta \in [Row -> Int]
      /\ tx[p] \in TxRow /\ job[p].key \in Key \cup {NoKey}
  BY <1>2, TxTyped
<1>5. /\ t \in TxRow /\ t.owed = tx[p].owed - Take(p) /\ t.key = "dup"
      /\ t.after = tx[p].after /\ t.delta = tx[p].delta /\ t.need = tx[p].need
      /\ t.held = tx[p].held /\ t.taken = tx[p].taken /\ t.left = tx[p].left
      /\ t.cogs = tx[p].cogs /\ t.short = tx[p].short
      /\ t.cand = tx[p].cand /\ t.lines = tx[p].lines \ {Source(p)}
  <2>1. tx[p].owed - Take(p) \in Nat
    BY <1>3, <1>4
  <2> QED BY <2>1, <1>4 DEF Skip, TxRow
<1>6. /\ s \in {"commit", "lookup"}
      /\ (s = "commit") <=> (t.owed = 0)
  BY DEF After
<1>7. tx[p].key = "due" /\ job[p].key \in used /\ KeyOf(p) = job[p].key
  <2>1. NoKey \notin used
    BY <1>2, KeyAssumption DEF IssueTypeOK
  <2> QED BY <2>1 DEF KeyOf
<1> HIDE DEF t, s
<1>8. Takes(p)
  BY <1>1, <1>2, NoLocksTaken
<1>9. /\ IssueTypeOK' /\ \A q \in Proc \ {p} : Untouched(q)
      /\ pc'[p] = s /\ tx'[p] = t /\ job'[p] = job[p] /\ outcome'[p] = outcome[p]
      /\ UNCHANGED <<quantity, layers, used, posted, cogs, short>>
  BY <1>1, <1>5, <1>6, <1>8, GotoFrame DEF Statement
<1>10. /\ Nought(tx[p].delta) /\ Total(Sizes(tx[p].delta)) = 0
       /\ tx[p].owed = job[p].qty
  <2>1. Nought(tx[p].delta)
    BY <1>2, <1>7 DEF Own, QtyOK
  <2>2. Sizes(tx[p].delta) \in [Row -> Int] /\ Nought(Sizes(tx[p].delta))
    BY <2>1, <1>4 DEF Sizes, Nought
  <2>3. Total(Sizes(tx[p].delta)) = 0
    BY <2>2, TotalNought, RowAssumption
  <2>4. Total(Sizes(tx[p].delta)) + tx[p].owed = job[p].qty
    BY <1>1, <1>2, <1>7 DEF Own, QtyOK, Resting
  <2> QED BY <2>1, <2>3, <2>4, <1>4
<1>11. PlaceOK(p)'
  BY <1>1, <1>2, <1>5, <1>6, <1>9 DEF Own, PlaceOK, Resting
<1>12. QtyOK(p)'
  <2>1. Available' = Available
    BY <1>9 DEF Available
  <2>2. t.owed \in Nat /\ Total(Sizes(t.delta)) + t.owed < job[p].qty
    BY <1>3, <1>4, <1>5, <1>10
  <2>3. s = "lookup" => t.owed > 0
    BY <1>6, <2>2
  <2>4. job[p].kind # "issue" => s = "commit"
    BY <1>3, <1>4, <1>5, <1>6
  <2>5. job[p].kind = "issue" => SumFunctionOnSet(Available, t.lines) >= t.owed
    BY <1>3, <1>5
  <2> QED BY <2>1, <2>2, <2>3, <2>4, <2>5, <1>5, <1>6, <1>9, <1>10 DEF QtyOK, Resting
<1>13. RowsOK(p)'
  <2>1. \A r \in Row : tx[p].delta[r] = 0
    BY <1>4, <1>10 DEF Nought
  <2>2. job[p].kind = "issue" => \A r \in t.lines : rowLock[r] = p /\ Issuable(r)
    BY <1>2, <1>5 DEF Own, RowsOK
  <2> QED BY <2>1, <2>2, <1>1, <1>5, <1>6, <1>9 DEF RowsOK, Issuable
<1>14. KeyOK(p)'
  BY <1>5, <1>7, <1>9 DEF KeyOK
<1>15. LayersOK(p)'
  BY <1>1, <1>2, <1>5, <1>6, <1>9 DEF Own, LayersOK, TakenCost
<1>16. LocksOK(p)'
  BY <1>1, <1>2, <1>5, <1>6, <1>9 DEF Own, LocksOK, Resting
<1>17. BooksAlone(p)
  BY <1>5, <1>9 DEF BooksAlone
<1> QED BY <1>1, <1>5, <1>6, <1>8, <1>11, <1>12, <1>13, <1>14, <1>15, <1>16, <1>17, GotoSafe
        DEF Statement

LEMMA LookupSafe ==
    ASSUME IssueInv, NEW p \in Proc, Lookup(p), KeyOf(p) \notin used PROVE IssueInv'
<1> DEFINE s == IF job[p].kind = "issue" THEN "write" ELSE "row"
<1>1. /\ pc[p] = "lookup" /\ Goto(p, s, tx[p]) /\ UNCHANGED stored
      /\ UNCHANGED locks /\ UNCHANGED <<rowLock, layerLock>>
  BY DEF Lookup, locks
<1>2. Own(p) /\ IssueTypeOK /\ tx[p] \in TxRow
  BY TxTyped DEF IssueInv
<1>3. s \in Statement /\ Takes(p)
  BY <1>1, <1>2, NoLocksTaken DEF Statement
<1>4. /\ IssueTypeOK' /\ \A q \in Proc \ {p} : Untouched(q)
      /\ pc'[p] = s /\ tx'[p] = tx[p] /\ job'[p] = job[p] /\ outcome'[p] = outcome[p]
      /\ UNCHANGED <<quantity, layers, used, posted, cogs, short>>
  BY <1>1, <1>2, <1>3, GotoFrame
<1>5. PlaceOK(p)'
  BY <1>1, <1>2, <1>4 DEF Own, PlaceOK, QtyOK, Resting
<1>6. QtyOK(p)'
  <2>1. Available' = Available
    BY <1>4 DEF Available
  <2> QED BY <2>1, <1>1, <1>2, <1>4 DEF Own, QtyOK, Resting
<1>7. RowsOK(p)'
  BY <1>1, <1>2, <1>4 DEF Own, RowsOK, Issuable
<1>8. KeyOK(p)'
  BY <1>2, <1>4 DEF Own, KeyOK
<1>9. LayersOK(p)'
  BY <1>1, <1>2, <1>4 DEF Own, LayersOK, TakenCost
<1>10. LocksOK(p)'
  BY <1>1, <1>2, <1>4 DEF Own, LocksOK, Resting
<1>11. BooksAlone(p)
  BY <1>4 DEF BooksAlone
<1> QED BY <1>1, <1>2, <1>3, <1>5, <1>6, <1>7, <1>8, <1>9, <1>10, <1>11, GotoSafe

LEMMA LockItemSafe ==
    ASSUME IssueInv, NEW p \in Proc, LockItem(p) PROVE IssueInv'
<1>1. /\ pc[p] = "row" /\ rowLock[Source(p)] = NoProc
      /\ rowLock' = [rowLock EXCEPT ![Source(p)] = p]
      /\ Goto(p, "write", tx[p]) /\ UNCHANGED stored /\ UNCHANGED layerLock
  BY DEF LockItem
<1>2. Own(p) /\ IssueTypeOK /\ tx[p] \in TxRow
  BY TxTyped DEF IssueInv
<1>3. job[p].kind # "issue" /\ Source(p) = job[p].row /\ job[p].row \in Row
  BY <1>1, <1>2, TakeFacts, TxTyped DEF Own, PlaceOK
<1>4. \A r \in Row : rowLock'[r] = IF r = job[p].row THEN p ELSE rowLock[r]
  BY <1>1, <1>2, <1>3 DEF IssueTypeOK
<1>5. Takes(p)
  BY <1>1, <1>2, <1>3 DEF IssueTypeOK, Takes
<1>6. /\ IssueTypeOK' /\ \A q \in Proc \ {p} : Untouched(q)
      /\ pc'[p] = "write" /\ tx'[p] = tx[p] /\ job'[p] = job[p] /\ outcome'[p] = outcome[p]
      /\ UNCHANGED <<quantity, layers, used, posted, cogs, short>>
  BY <1>1, <1>2, <1>5, GotoFrame DEF Statement
<1>7. PlaceOK(p)'
  BY <1>1, <1>2, <1>6 DEF Own, PlaceOK, Resting
<1>8. QtyOK(p)'
  BY <1>1, <1>2, <1>3, <1>6 DEF Own, QtyOK, Resting
<1>9. RowsOK(p)'
  <2>1. \A r \in Row : tx[p].delta[r] = 0
    BY <1>1, <1>2, TxTyped DEF Own, PlaceOK, QtyOK, Nought
  <2> QED BY <2>1, <1>3, <1>4, <1>6 DEF RowsOK
<1>10. KeyOK(p)'
  BY <1>2, <1>6 DEF Own, KeyOK
<1>11. LayersOK(p)'
  BY <1>1, <1>2, <1>6 DEF Own, LayersOK, TakenCost
<1>12. LocksOK(p)'
  BY <1>1, <1>2, <1>6 DEF Own, LocksOK, Resting
<1>13. BooksAlone(p)
  BY <1>6 DEF BooksAlone
<1> QED BY <1>1, <1>2, <1>5, <1>7, <1>8, <1>9, <1>10, <1>11, <1>12, <1>13, GotoSafe DEF Statement
(* What the sizes of its movements come to with one more.                  *)
LEMMA MovedMore ==
    ASSUME NEW f \in [Row -> Int], NEW r \in Row, f[r] = 0, NEW d \in Int
    PROVE  /\ Total(Sizes([f EXCEPT ![r] = d])) \in Nat /\ Total(Sizes(f)) \in Nat
           /\ Total(Sizes([f EXCEPT ![r] = d])) = Total(Sizes(f)) + (IF d < 0 THEN -d ELSE d)
<1> DEFINE g == [f EXCEPT ![r] = d]
<1>1. g \in [Row -> Int] /\ g[r] = d /\ \A s \in Row \ {r} : g[s] = f[s]
  OBVIOUS
<1> HIDE DEF g
<1>2. Sizes(f) \in [Row -> Nat] /\ Sizes(g) \in [Row -> Nat]
      /\ Total(Sizes(f)) \in Nat /\ Total(Sizes(g)) \in Nat
  BY <1>1, SizesType
<1>3. Sizes(f)[r] = 0 /\ Sizes(g)[r] = (IF d < 0 THEN -d ELSE d)
      /\ \A s \in Row \ {r} : Sizes(g)[s] = Sizes(f)[s]
  BY <1>1 DEF Sizes
<1> DEFINE a == Sizes(f)
           b == Sizes(g)
<1>4. a \in [Row -> Int] /\ b \in [Row -> Int]
  BY <1>2
<1>5. \A x \in Row : (\A y \in Row \ {x} : b[y] = a[y]) => Total(b) = Total(a) - a[x] + b[x]
  <2> HIDE DEF a, b
  <2> QED BY <1>4, TotalChanged, RowAssumption
<1>6. Total(b) = Total(a) - a[r] + b[r]
  BY <1>3, <1>5
<1>7. Total(Sizes(g)) = Total(Sizes(f)) + (IF d < 0 THEN -d ELSE d)
  BY <1>2, <1>3, <1>6
<1> QED BY <1>2, <1>7 DEF g

LEMMA WriteSafe ==
    ASSUME IssueInv, NEW p \in Proc, Write(p) PROVE IssueInv'
<1> DEFINE r == Source(p)
           t == [tx[p] EXCEPT !.after[r] = quantity[r] + Gain(p), !.delta[r] = Gain(p),
                              !.key = IF @ # "due" THEN @
                                      ELSE IF KeyOf(p) = NoKey THEN "none" ELSE "book",
                              !.batch = BatchOf[r], !.need = Take(p),
                              !.owed = @ - Take(p), !.lines = @ \ {r}]
           s == IF job[p].kind = "receive" THEN "commit" ELSE "layers"
<1>1. /\ pc[p] = "write" /\ Drawable(p) /\ KeyOf(p) \notin used
      /\ \A q \in Proc : ~KeyPending(p, q)
      /\ Goto(p, s, t) /\ UNCHANGED stored
      /\ UNCHANGED locks /\ UNCHANGED <<rowLock, layerLock>>
  BY DEF Write, locks
<1>2. Own(p) /\ IssueTypeOK /\ RowsAddUp
  BY DEF IssueInv, CostConserved
<1>3. /\ r \in Row /\ r \in tx[p].lines
      /\ Take(p) \in Nat /\ Take(p) > 0 /\ Take(p) <= tx[p].owed
      /\ tx[p].delta[r] = 0
      /\ job[p].kind # "issue" => r = job[p].row /\ Take(p) = tx[p].owed
      /\ job[p].kind = "issue" =>
           /\ rowLock[r] = p
           /\ SumFunctionOnSet(Available, tx[p].lines \ {r}) >= tx[p].owed - Take(p)
  BY <1>1, TakeFacts
<1>4. /\ tx[p] \in TxRow /\ job[p].kind \in {"issue", "draw", "receive"} /\ job[p].qty \in Nat
      /\ tx[p].owed \in Nat /\ tx[p].delta \in [Row -> Int] /\ tx[p].after \in [Row -> Int]
      /\ tx[p].lines \in SUBSET Row /\ job[p].key \in Key \cup {NoKey} /\ tx[p].short \in Nat
      /\ tx[p].key \in {"due", "none", "book", "dup"} /\ tx[p].taken \in [Layer -> Nat]
      /\ tx[p].need \in Nat
  BY <1>2, TxTyped
<1>5. /\ Gain(p) \in Int /\ Take(p) = (IF Gain(p) < 0 THEN -Gain(p) ELSE Gain(p))
      /\ IF job[p].kind = "receive" THEN Gain(p) >= 0 ELSE Gain(p) < 0
  BY <1>3 DEF Gain
<1>6. /\ quantity[r] \in Nat /\ ReservedOf[r] \in Nat /\ quantity[r] >= ReservedOf[r]
      /\ BatchOf[r] \in Batch \cup {NoBatch}
  BY <1>2, <1>3, RowAssumption DEF IssueTypeOK, RowsAddUp
<1>7. /\ t.owed = tx[p].owed - Take(p)
      /\ t.after = [tx[p].after EXCEPT ![r] = quantity[r] + Gain(p)]
      /\ t.delta = [tx[p].delta EXCEPT ![r] = Gain(p)] /\ t.need = Take(p)
      /\ t.held = tx[p].held /\ t.taken = tx[p].taken /\ t.left = tx[p].left
      /\ t.cogs = tx[p].cogs /\ t.short = tx[p].short /\ t.lines = tx[p].lines \ {r}
      /\ t.key = IF tx[p].key # "due" THEN tx[p].key
                 ELSE IF KeyOf(p) = NoKey THEN "none" ELSE "book"
      /\ t \in TxRow
  <2>1. /\ tx[p].owed - Take(p) \in Nat /\ quantity[r] + Gain(p) \in Int
    BY <1>3, <1>4, <1>5, <1>6
  <2>2. [tx[p].after EXCEPT ![r] = quantity[r] + Gain(p)] \in [Row -> Int]
        /\ [tx[p].delta EXCEPT ![r] = Gain(p)] \in [Row -> Int]
    BY <2>1, <1>3, <1>4, <1>5
  <2> QED BY <2>1, <2>2, <1>3, <1>4, <1>6 DEF TxRow
<1>8. s \in Statement /\ (s = "commit") = (job[p].kind = "receive")
      /\ s \in {"commit", "layers"}
  BY DEF Statement
<1> HIDE DEF t, s, r
<1>9. Takes(p)
  BY <1>1, <1>2, NoLocksTaken
<1>10. /\ IssueTypeOK' /\ \A q \in Proc \ {p} : Untouched(q)
       /\ pc'[p] = s /\ tx'[p] = t /\ job'[p] = job[p] /\ outcome'[p] = outcome[p]
       /\ UNCHANGED <<quantity, layers, used, posted, cogs, short>>
  BY <1>1, <1>7, <1>8, <1>9, GotoFrame
<1>11. t.key # "due" /\ (t.key = "dup") = (tx[p].key = "dup")
  BY <1>4, <1>7
<1>12. /\ Total(Sizes(t.delta)) \in Nat /\ Total(Sizes(tx[p].delta)) \in Nat
       /\ Total(Sizes(t.delta)) = Total(Sizes(tx[p].delta)) + Take(p)
  <2> DEFINE f == tx[p].delta
             d == Gain(p)
  <2>1. f \in [Row -> Int] /\ f[r] = 0 /\ d \in Int /\ r \in Row
    BY <1>3, <1>4, <1>5
  <2>2. t.delta = [f EXCEPT ![r] = d] /\ Take(p) = (IF d < 0 THEN -d ELSE d)
    BY <1>5, <1>7
  <2> HIDE DEF f, d
  <2>3. /\ Total(Sizes([f EXCEPT ![r] = d])) \in Nat /\ Total(Sizes(f)) \in Nat
        /\ Total(Sizes([f EXCEPT ![r] = d])) = Total(Sizes(f)) + (IF d < 0 THEN -d ELSE d)
    BY <2>1, MovedMore
  <2>4. Total(Sizes(t.delta)) = Total(Sizes(f)) + Take(p) /\ Total(Sizes(t.delta)) \in Nat
    BY <2>2, <2>3
  <2> QED BY <2>3, <2>4 DEF f
<1>13. PlaceOK(p)'
  BY <1>1, <1>2, <1>8, <1>10, <1>11 DEF Own, PlaceOK, Resting
<1>14. QtyOK(p)'
  <2>1. Available' = Available
    BY <1>10 DEF Available
  <2>2. t.key # "dup" => Total(Sizes(t.delta)) + t.owed = job[p].qty
    BY <1>1, <1>2, <1>3, <1>4, <1>7, <1>11, <1>12 DEF Own, QtyOK, Resting
  <2>3. t.key = "dup" => Total(Sizes(t.delta)) + t.owed < job[p].qty
    BY <1>1, <1>2, <1>3, <1>4, <1>7, <1>11, <1>12 DEF Own, QtyOK, Resting
  <2>4. job[p].kind # "issue" => t.owed = 0
    BY <1>3, <1>4, <1>7
  <2>5. job[p].kind = "issue" => SumFunctionOnSet(Available, t.lines) >= t.owed
    BY <1>3, <1>7
  <2>6. job[p].kind # "issue" => t.key # "dup"
    BY <1>1, <1>2, <1>11 DEF Own, QtyOK
  <2> QED BY <2>1, <2>2, <2>3, <2>4, <2>5, <2>6, <1>8, <1>10, <1>11 DEF QtyOK, Resting
<1>15. RowsOK(p)'
  <2>1. job[p].kind = "issue" => \A q \in t.lines : rowLock'[q] = p /\ Issuable(q)'
    BY <1>1, <1>2, <1>7, <1>10 DEF Own, RowsOK, Issuable
  <2>2. rowLock[r] = p
    BY <1>1, <1>2, <1>3 DEF Own, RowsOK
  <2>3. ASSUME NEW q \in Row, t.delta[q] # 0
        PROVE  /\ rowLock'[q] = p /\ q \notin t.lines
               /\ t.after[q] = quantity'[q] + t.delta[q]
               /\ t.after[q] >= ReservedOf[q]
    <3>1. CASE q = r
      <4>1. t.after[q] = quantity[q] + Gain(p) /\ t.delta[q] = Gain(p) /\ q \notin t.lines
        BY <3>1, <1>3, <1>4, <1>7
      <4>2. quantity[r] + Gain(p) >= ReservedOf[r]
        BY <1>1, <1>5, <1>6 DEF Drawable, r
      <4> QED BY <4>1, <4>2, <3>1, <2>2, <1>1, <1>10
    <3>2. CASE q # r
      <4>1. t.after[q] = tx[p].after[q] /\ t.delta[q] = tx[p].delta[q]
        BY <3>2, <1>4, <1>7
      <4> QED BY <4>1, <2>3, <1>1, <1>2, <1>7, <1>10 DEF Own, RowsOK
    <3> QED BY <3>1, <3>2
  <2>4. ASSUME NEW q \in Row
        PROVE  IF job[p].kind = "receive" THEN t.delta[q] >= 0 ELSE t.delta[q] <= 0
    <3>1. t.delta[q] = IF q = r THEN Gain(p) ELSE tx[p].delta[q]
      BY <1>4, <1>7
    <3>2. IF job[p].kind = "receive" THEN tx[p].delta[q] >= 0 ELSE tx[p].delta[q] <= 0
      BY <1>2 DEF Own, RowsOK
    <3> QED BY <3>1, <3>2, <1>5
  <2> QED BY <2>1, <2>3, <2>4, <1>8, <1>10 DEF RowsOK
<1>16. KeyOK(p)'
  BY <1>1, <1>2, <1>4, <1>7, <1>10, KeyAssumption DEF Own, KeyOK, KeyOf
<1>17. LayersOK(p)'
  <2>1. TakenCost(p)' = TakenCost(p)
    BY <1>7, <1>10 DEF TakenCost
  <2>2. Total(tx[p].taken) \in Nat
    BY <1>4, TotalNat, FiniteLayers
  <2>3. job[p].kind # "receive" =>
          Total(t.taken) + t.short + t.need = Total(Sizes(t.delta))
    BY <2>2, <1>1, <1>2, <1>3, <1>4, <1>7, <1>12 DEF Own, LayersOK
  <2>4. job[p].kind # "receive" => s = "layers"
    BY <1>8
  <2> QED BY <2>1, <2>3, <2>4, <1>1, <1>2, <1>7, <1>10 DEF Own, LayersOK
<1>18. LocksOK(p)'
  BY <1>8, <1>10, <1>11 DEF LocksOK, Resting
<1>19. BooksAlone(p)
  <2>1. CASE tx[p].key # "due"
    BY <2>1, <1>7, <1>10 DEF BooksAlone
  <2>2. CASE tx[p].key = "due" /\ KeyOf(p) = NoKey
    BY <2>2, <1>7, <1>10 DEF BooksAlone
  <2>3. CASE tx[p].key = "due" /\ KeyOf(p) # NoKey
    BY <2>3, <1>1, <1>10 DEF BooksAlone, KeyPending, KeyOf
  <2> QED BY <2>1, <2>2, <2>3
<1> QED BY <1>1, <1>7, <1>8, <1>9, <1>13, <1>14, <1>15, <1>16, <1>17, <1>18, <1>19, GotoSafe

-----------------------------------------------------------------------------
(* consumeCostLayers.                                                      *)

LEMMA TotalOverPart ==
    ASSUME NEW S, IsFiniteSet(S), NEW T \in SUBSET S, NEW f \in [T -> Int], NEW g \in [S -> Int],
           \A x \in T : g[x] = f[x], \A x \in S \ T : g[x] = 0
    PROVE  Total(g) = Total(f) /\ Total(f) \in Int
<1>1. DOMAIN f = T /\ DOMAIN g = S /\ IsFiniteSet(T)
  BY FS_Subset
<1>2. SumFunctionOnSet(g, S) = SumFunctionOnSet(g, T)
  BY SumOverPart
<1>3. SumFunctionOnSet(g, T) = SumFunctionOnSet(f, T)
  BY <1>1, SameSum
<1>4. Total(f) \in Int
  BY <1>1, TotalInt
<1> QED BY <1>1, <1>2, <1>3, <1>4 DEF Total

LEMMA ChooseLayersSafe ==
    ASSUME IssueInv, NEW p \in Proc, ChooseLayers(p) PROVE IssueInv'
<1> DEFINE S == {l \in Layer : Serves(p, l)}
           t == [tx[p] EXCEPT !.found = S]
<1>1. /\ pc[p] = "layers" /\ Goto(p, "hold", t) /\ UNCHANGED stored /\ UNCHANGED locks
      /\ UNCHANGED <<rowLock, layerLock>>
  BY DEF ChooseLayers, locks
<1>2. /\ t \in TxRow /\ t.lines = tx[p].lines /\ t.owed = tx[p].owed /\ t.key = tx[p].key
      /\ t.after = tx[p].after /\ t.delta = tx[p].delta /\ t.need = tx[p].need
      /\ t.held = tx[p].held /\ t.taken = tx[p].taken /\ t.left = tx[p].left
      /\ t.cogs = tx[p].cogs /\ t.short = tx[p].short
  <2>1. tx[p] \in TxRow /\ S \in SUBSET Layer
    BY TxTyped DEF IssueInv
  <2> QED BY <2>1 DEF TxRow
<1> HIDE DEF t
<1>3. Takes(p)
  BY <1>1, NoLocksTaken DEF IssueInv
<1>4. /\ IssueTypeOK' /\ \A q \in Proc \ {p} : Untouched(q)
      /\ pc'[p] = "hold" /\ tx'[p] = t /\ job'[p] = job[p] /\ outcome'[p] = outcome[p]
      /\ UNCHANGED <<quantity, layers, used, posted, cogs, short>>
  BY <1>1, <1>2, <1>3, GotoFrame DEF Statement
<1>5. Own(p)
  BY DEF IssueInv
<1>6. PlaceOK(p)'
  BY <1>1, <1>2, <1>4, <1>5 DEF Own, PlaceOK, Resting
<1>7. QtyOK(p)'
  <2>1. Available' = Available
    BY <1>4 DEF Available
  <2> QED BY <2>1, <1>1, <1>2, <1>4, <1>5 DEF Own, QtyOK, Resting
<1>8. RowsOK(p)'
  BY <1>1, <1>2, <1>4, <1>5 DEF Own, RowsOK, Issuable
<1>9. KeyOK(p)'
  BY <1>1, <1>2, <1>4, <1>5 DEF Own, KeyOK
<1>10. LayersOK(p)'
  BY <1>1, <1>2, <1>4, <1>5 DEF Own, LayersOK, TakenCost
<1>11. LocksOK(p)'
  BY <1>1, <1>2, <1>4, <1>5 DEF Own, LocksOK, PlaceOK, Resting
<1>12. BooksAlone(p)
  BY <1>2, <1>4 DEF BooksAlone
<1> QED BY <1>1, <1>2, <1>3, <1>6, <1>7, <1>8, <1>9, <1>10, <1>11, <1>12, GotoSafe DEF Statement

LEMMA LockLayerSafe ==
    ASSUME IssueInv, NEW p \in Proc, LockLayer(p) PROVE IssueInv'
<1>0. /\ pc[p] = "hold" /\ UNCHANGED stored /\ UNCHANGED rowLock
      /\ \E l \in Layer :
           /\ layerLock[l] \in {NoProc, p}
           /\ layerLock' = [layerLock EXCEPT ![l] = p]
           /\ Goto(p, "hold", [tx[p] EXCEPT !.found = @ \ {l},
                                 !.held = IF Serves(p, l) THEN @ \cup {l} ELSE @])
  BY DEF LockLayer
<1>1. PICK l \in Layer :
        /\ layerLock[l] \in {NoProc, p}
        /\ layerLock' = [layerLock EXCEPT ![l] = p]
        /\ Goto(p, "hold", [tx[p] EXCEPT !.found = @ \ {l},
                              !.held = IF Serves(p, l) THEN @ \cup {l} ELSE @])
  BY <1>0
<1> DEFINE t == [tx[p] EXCEPT !.found = @ \ {l},
                              !.held = IF Serves(p, l) THEN @ \cup {l} ELSE @]
<1>2. /\ t \in TxRow /\ t.lines = tx[p].lines /\ t.owed = tx[p].owed /\ t.key = tx[p].key
      /\ t.after = tx[p].after /\ t.delta = tx[p].delta /\ t.need = tx[p].need
      /\ t.taken = tx[p].taken /\ t.left = tx[p].left
      /\ t.cogs = tx[p].cogs /\ t.short = tx[p].short
      /\ t.held \subseteq tx[p].held \cup {l}
  <2>1. tx[p] \in TxRow
    BY TxTyped DEF IssueInv
  <2> QED BY <2>1 DEF TxRow
<1>3. Goto(p, "hold", t)
  BY <1>1
<1> HIDE DEF t
<1>4. Takes(p)
  BY <1>0, <1>1 DEF IssueInv, IssueTypeOK, Takes
<1>5. /\ IssueTypeOK' /\ \A q \in Proc \ {p} : Untouched(q)
      /\ pc'[p] = "hold" /\ tx'[p] = t /\ job'[p] = job[p] /\ outcome'[p] = outcome[p]
      /\ UNCHANGED <<quantity, layers, used, posted, cogs, short>>
  BY <1>0, <1>2, <1>3, <1>4, GotoFrame DEF Statement
<1>6. Own(p) /\ IssueTypeOK /\ tx[p].held \in SUBSET Layer
  BY TxTyped DEF IssueInv
<1>7. layerLock'[l] = p /\ \A m \in Layer : layerLock[m] = p => layerLock'[m] = p
  BY <1>1, <1>6 DEF IssueTypeOK
<1>8. PlaceOK(p)'
  BY <1>0, <1>2, <1>5, <1>6 DEF Own, PlaceOK, Resting
<1>9. QtyOK(p)'
  <2>1. Available' = Available
    BY <1>5 DEF Available
  <2> QED BY <2>1, <1>0, <1>2, <1>5, <1>6 DEF Own, QtyOK, Resting
<1>10. RowsOK(p)'
  BY <1>0, <1>2, <1>5, <1>6 DEF Own, RowsOK, Issuable
<1>11. KeyOK(p)'
  BY <1>2, <1>5, <1>6 DEF Own, KeyOK
<1>12. LayersOK(p)'
  <2>1. \A m \in t.held : layerLock'[m] = p
    BY <1>2, <1>6, <1>7 DEF Own, LayersOK
  <2>2. \A m \in Layer : tx[p].taken[m] > 0 =>
          layerLock'[m] = p /\ tx[p].left[m] = layers[m].left - tx[p].taken[m]
    BY <1>6, <1>7 DEF Own, LayersOK
  <2>3. TakenCost(p)' = TakenCost(p)
    BY <1>2, <1>5 DEF TakenCost
  <2> QED BY <2>1, <2>2, <2>3, <1>0, <1>2, <1>5, <1>6 DEF Own, LayersOK
<1>13. LocksOK(p)'
  BY <1>0, <1>2, <1>5, <1>6 DEF Own, PlaceOK, LocksOK, Resting
<1>14. BooksAlone(p)
  BY <1>2, <1>5 DEF BooksAlone
<1> QED BY <1>0, <1>2, <1>3, <1>4, <1>8, <1>9, <1>10, <1>11, <1>12, <1>13, <1>14, GotoSafe
        DEF Statement

LEMMA LeftFacts ==
    ASSUME IssueInv, NEW p \in Proc, NEW l \in Layer
    PROVE  /\ Left(p, l) \in Nat /\ tx[p].taken[l] \in Nat /\ layers[l].left \in Nat
           /\ Left(p, l) = layers[l].left - tx[p].taken[l]
<1>1. IssueTypeOK /\ LayersOK(p)
  BY DEF IssueInv, Own
<1>2. tx[p].taken \in [Layer -> Nat] /\ tx[p].left \in [Layer -> Nat]
  BY <1>1, TxTyped
<1>3. layers[l].left \in Nat
  BY <1>1, LayerTyped
<1> QED BY <1>1, <1>2, <1>3 DEF LayersOK, Left

LEMMA Distributes == ASSUME NEW a \in Int, NEW b \in Int, NEW c \in Int
                     PROVE  c * (a + b) = c * a + c * b /\ a * c = c * a /\ a * c \in Int
OBVIOUS

(* The layers a line draws from, and what that does to the accounts.       *)
LEMMA ConsumeSafe ==
    ASSUME IssueInv, NEW p \in Proc, Consume(p) PROVE IssueInv'
<1> DEFINE held == tx[p].held
           need == tx[p].need
<1>1. /\ pc[p] = "hold" /\ UNCHANGED stored /\ UNCHANGED locks /\ UNCHANGED <<rowLock, layerLock>>
      /\ \E take \in [held -> 0..need] :
           /\ OldestFirst(p, take)
           /\ Goto(p, After(tx[p]),
                [tx[p] EXCEPT
                   !.taken = [l \in Layer |-> IF l \in held THEN @[l] + take[l] ELSE @[l]],
                   !.left = [l \in Layer |-> IF l \in held /\ take[l] > 0
                                             THEN Left(p, l) - take[l] ELSE @[l]],
                   !.cogs = @ + Total([l \in held |-> take[l] * layers[l].cost])
                              + (need - Total(take)) * StdCost,
                   !.short = @ + (need - Total(take)), !.need = 0, !.held = {}])
  BY DEF Consume, locks
<1>2. PICK take \in [held -> 0..need] :
           /\ OldestFirst(p, take)
           /\ Goto(p, After(tx[p]),
                [tx[p] EXCEPT
                   !.taken = [l \in Layer |-> IF l \in held THEN @[l] + take[l] ELSE @[l]],
                   !.left = [l \in Layer |-> IF l \in held /\ take[l] > 0
                                             THEN Left(p, l) - take[l] ELSE @[l]],
                   !.cogs = @ + Total([l \in held |-> take[l] * layers[l].cost])
                              + (need - Total(take)) * StdCost,
                   !.short = @ + (need - Total(take)), !.need = 0, !.held = {}])
  BY <1>1
<1> DEFINE more == Total(take)
           missing == need - more
           cost == Total([l \in held |-> take[l] * layers[l].cost])
           taken == [l \in Layer |-> IF l \in held THEN tx[p].taken[l] + take[l]
                                    ELSE tx[p].taken[l]]
           left == [l \in Layer |-> IF l \in held /\ take[l] > 0
                                    THEN Left(p, l) - take[l] ELSE tx[p].left[l]]
           t == [tx[p] EXCEPT !.taken = taken, !.left = left,
                   !.cogs = @ + cost + missing * StdCost,
                   !.short = @ + missing, !.need = 0, !.held = {}]
           s == After(tx[p])
<1>3. Goto(p, s, t)
  BY <1>2
<1>4. Own(p) /\ IssueTypeOK
  BY DEF IssueInv
<1>5. /\ tx[p] \in TxRow /\ held \in SUBSET Layer /\ need \in Nat /\ tx[p].cogs \in Nat
      /\ tx[p].short \in Nat /\ tx[p].taken \in [Layer -> Nat] /\ tx[p].left \in [Layer -> Nat]
      /\ tx[p].owed \in Nat /\ tx[p].delta \in [Row -> Int] /\ job[p].kind # "receive"
  BY <1>1, <1>4, TxTyped DEF Own, PlaceOK
<1>6. \A l \in held : take[l] \in Nat /\ take[l] <= Left(p, l)
  BY <1>2, <1>5 DEF OldestFirst
<1>7. \A l \in Layer : /\ Left(p, l) \in Nat /\ layers[l].left \in Nat /\ layers[l].cost \in Nat
                       /\ Left(p, l) = layers[l].left - tx[p].taken[l]
                       /\ tx[p].taken[l] \in Nat
  BY <1>4, LeftFacts, LayerTyped
<1>8. IsFiniteSet(Layer) /\ IsFiniteSet(held)
  BY <1>5, FiniteLayers, FS_Subset
<1>9. more \in Nat /\ missing \in Nat
  <2>1. take \in [held -> Nat]
    BY <1>5
  <2>2. more \in Nat
    <3> HIDE DEF held
    <3> QED BY <2>1, <1>8, TotalNat
  <2>3. more <= need
    BY <1>2, <1>5, <2>2 DEF OldestFirst
  <2> HIDE DEF more, need
  <2> QED BY <2>2, <2>3, <1>5
<1>10. cost \in Nat
  <2> DEFINE c == [l \in held |-> take[l] * layers[l].cost]
  <2>1. ASSUME NEW l \in held PROVE take[l] * layers[l].cost \in Nat
    <3>1. take[l] \in Nat /\ layers[l].cost \in Nat
      BY <1>5, <1>6, <1>7
    <3> QED BY <3>1
  <2>2. c \in [held -> Nat]
    BY <2>1
  <2>3. Total(c) \in Nat
    <3> HIDE DEF c, held
    <3> QED BY <2>2, <1>8, TotalNat
  <2> QED BY <2>3
<1>11. taken \in [Layer -> Nat] /\ left \in [Layer -> Nat]
  <2>1. taken \in [Layer -> Nat]
    BY <1>5, <1>6, <1>7
  <2>2. ASSUME NEW l \in Layer PROVE left[l] \in Nat
    BY <1>5, <1>6, <1>7
  <2> QED BY <2>1, <2>2
<1>12. missing * StdCost \in Nat /\ StdCost \in Nat
  <2> HIDE DEF missing
  <2> QED BY <1>9, LayerAssumption
<1> HIDE DEF missing, cost, taken, left
<1>13. /\ t \in TxRow /\ t.lines = tx[p].lines /\ t.owed = tx[p].owed /\ t.key = tx[p].key
       /\ t.after = tx[p].after /\ t.delta = tx[p].delta /\ t.need = 0 /\ t.held = {}
       /\ t.taken = taken /\ t.left = left
       /\ t.cogs = tx[p].cogs + cost + missing * StdCost /\ t.short = tx[p].short + missing
  <2>1. /\ tx[p].cogs + cost + missing * StdCost \in Nat /\ tx[p].short + missing \in Nat
    BY <1>5, <1>9, <1>10, <1>12
  <2> QED BY <2>1, <1>5, <1>11 DEF TxRow
<1>14. s \in Statement /\ s \in {"commit", "lookup"}
       /\ ((s = "commit") = (tx[p].owed = 0))
  BY DEF After, Statement
<1> HIDE DEF t, s
<1>15. Takes(p)
  BY <1>1, <1>4, NoLocksTaken
<1>16. /\ IssueTypeOK' /\ \A q \in Proc \ {p} : Untouched(q)
       /\ pc'[p] = s /\ tx'[p] = t /\ job'[p] = job[p] /\ outcome'[p] = outcome[p]
       /\ UNCHANGED <<quantity, layers, used, posted, cogs, short>>
  BY <1>1, <1>3, <1>13, <1>14, <1>15, GotoFrame
<1>17. PlaceOK(p)'
  BY <1>1, <1>4, <1>13, <1>14, <1>16 DEF Own, PlaceOK, Resting
<1>18. QtyOK(p)'
  <2>1. Available' = Available
    BY <1>16 DEF Available
  <2>2. s = "lookup" => tx[p].owed > 0 /\ job[p].kind = "issue"
    BY <1>1, <1>4, <1>5, <1>14 DEF Own, QtyOK
  <2> QED BY <2>1, <2>2, <1>1, <1>4, <1>13, <1>14, <1>16 DEF Own, QtyOK, Resting
<1>19. RowsOK(p)'
  BY <1>1, <1>4, <1>13, <1>14, <1>16 DEF Own, RowsOK, Issuable
<1>20. KeyOK(p)'
  BY <1>1, <1>4, <1>13, <1>16 DEF Own, KeyOK
<1>21. LocksOK(p)'
  <2>1. s = "lookup" => job[p].kind = "issue"
    BY <1>1, <1>4, <1>5, <1>14 DEF Own, QtyOK
  <2>2. tx[p].key # "due"
    BY <1>1, <1>4 DEF Own, PlaceOK
  <2> QED BY <2>1, <2>2, <1>13, <1>14, <1>16 DEF LocksOK, Resting
<1>22. LayersOK(p)'
  <2>1. ASSUME NEW l \in Layer, taken[l] > 0
        PROVE  layerLock'[l] = p /\ left[l] = layers'[l].left - taken[l]
    <3>1. layerLock'[l] = layerLock[l] /\ layers'[l] = layers[l]
      BY <1>1, <1>16
    <3>2. tx[p].taken[l] > 0 =>
            layerLock[l] = p /\ tx[p].left[l] = layers[l].left - tx[p].taken[l]
      BY <1>4 DEF Own, LayersOK
    <3>3. l \in held => layerLock[l] = p /\ take[l] \in Nat
      BY <1>4, <1>6 DEF Own, LayersOK
    <3>4. CASE l \in held /\ take[l] > 0
      BY <3>1, <3>3, <3>4, <1>7 DEF taken, left
    <3>5. CASE ~(l \in held /\ take[l] > 0)
      <4>1. taken[l] = tx[p].taken[l] /\ left[l] = tx[p].left[l]
        BY <3>3, <3>5, <1>7 DEF taken, left
      <4> QED BY <4>1, <3>1, <3>2, <2>1
    <3> QED BY <3>4, <3>5
  <2> DEFINE e == [l \in Layer |-> IF l \in held THEN take[l] ELSE 0]
             old == tx[p].taken
  <2>2. Total(taken) = Total(old) + more /\ Total(old) \in Nat
    <3>1. e \in [Layer -> Int] /\ take \in [held -> Int] /\ old \in [Layer -> Int]
          /\ taken \in [Layer -> Int] /\ held \in SUBSET Layer
      BY <1>5, <1>6, <1>11
    <3>2. \A l \in Layer : taken[l] = old[l] + e[l]
      BY <1>5, <1>6, <1>7 DEF taken
    <3>3. (\A l \in held : e[l] = take[l]) /\ \A l \in Layer \ held : e[l] = 0
      BY <3>1
    <3>4. Total(old) \in Nat
      BY <1>5, <1>8, TotalNat
    <3> HIDE DEF e, old, held
    <3>5. Total(e) = Total(take)
      BY <3>1, <3>3, <1>8, TotalOverPart
    <3>6. Total(taken) = Total(old) + Total(e)
      BY <3>1, <3>2, <1>8, TotalAdds
    <3> QED BY <3>4, <3>5, <3>6
  <2>3. Total(t.taken) + t.short + t.need = Total(Sizes(t.delta))
    <3>1. Total(old) + tx[p].short + need = Total(Sizes(tx[p].delta))
      BY <1>4, <1>5 DEF Own, LayersOK
    <3>2. /\ Total(taken) = Total(old) + more /\ t.short = tx[p].short + (need - more)
          /\ t.need = 0 /\ t.taken = taken /\ t.delta = tx[p].delta
      BY <2>2, <1>13 DEF missing
    <3>3. Total(old) + more + (tx[p].short + (need - more)) + 0 = Total(old) + tx[p].short + need
      <4> DEFINE o == Total(old)
                 h == tx[p].short
      <4>1. o \in Nat /\ more \in Nat /\ need \in Nat /\ h \in Nat
        BY <2>2, <1>5, <1>9
      <4> HIDE DEF o, h, more, need
      <4>2. o + more + (h + (need - more)) + 0 = o + h + need
        BY <4>1
      <4> QED BY <4>2 DEF o, h
    <3> QED BY <3>1, <3>2, <3>3
  <2> DEFINE was == [l \in Layer |-> tx[p].taken[l] * layers[l].cost]
             now == [l \in Layer |-> taken[l] * layers[l].cost]
             inc == [l \in Layer |-> IF l \in held THEN take[l] * layers[l].cost ELSE 0]
             part == [l \in held |-> take[l] * layers[l].cost]
  <2>4. Total(now) = Total(was) + cost /\ Total(was) \in Int
    <3>1. ASSUME NEW l \in Layer
          PROVE  /\ was[l] \in Int /\ inc[l] \in Int /\ now[l] \in Int
                 /\ now[l] = was[l] + inc[l]
      <4>1. layers[l].cost \in Int /\ tx[p].taken[l] \in Int /\ (l \in held => take[l] \in Int)
        BY <1>6, <1>7
      <4>2. CASE l \in held
        <5> DEFINE a == tx[p].taken[l]
                   b == take[l]
                   c == layers[l].cost
        <5>1. a \in Int /\ b \in Int /\ c \in Int /\ was[l] = a * c /\ inc[l] = b * c
              /\ now[l] = (a + b) * c
          BY <4>1, <4>2 DEF taken
        <5> HIDE DEF a, b, c, was, inc, now
        <5>2. (a + b) * c = a * c + b * c /\ a * c \in Int /\ b * c \in Int
          BY <5>1
        <5> QED BY <5>1, <5>2
      <4>3. CASE l \notin held
        <5>1. was[l] = tx[p].taken[l] * layers[l].cost /\ inc[l] = 0
              /\ now[l] = tx[p].taken[l] * layers[l].cost
          BY <4>3 DEF taken
        <5>2. tx[p].taken[l] * layers[l].cost \in Int
          BY <4>1
        <5> QED BY <5>1, <5>2
      <4> QED BY <4>2, <4>3
    <3>2. ASSUME NEW l \in held PROVE part[l] \in Int /\ inc[l] = part[l] /\ l \in Layer
      BY <3>1, <3>2, <1>5
    <3>3. was \in [Layer -> Int] /\ inc \in [Layer -> Int] /\ now \in [Layer -> Int]
          /\ part \in [held -> Int] /\ \A l \in Layer : now[l] = was[l] + inc[l]
      BY <3>1, <3>2
    <3>4. (\A l \in held : inc[l] = part[l]) /\ (\A l \in Layer \ held : inc[l] = 0)
          /\ held \in SUBSET Layer
      BY <3>2, <1>5
    <3>5. cost = Total(part)
      BY DEF cost
    <3> HIDE DEF was, now, inc, part, held
    <3>6. Total(inc) = Total(part)
      BY <3>3, <3>4, <1>8, TotalOverPart
    <3>7. Total(now) = Total(was) + Total(inc)
      BY <3>3, <1>8, TotalAdds
    <3>8. Total(was) \in Int
      BY <3>3, <1>8, TotalInt
    <3> QED BY <3>5, <3>6, <3>7, <3>8
  <2>5. TakenCost(p)' = Total(now) /\ TakenCost(p) = Total(was)
    BY <1>13, <1>16 DEF TakenCost
  <2>6. t.cogs = Total(now) + StdCost * t.short
    <3> DEFINE w == Total(was)
               h == tx[p].short
    <3>1. tx[p].cogs = w + StdCost * h
      BY <2>5, <1>4 DEF Own, LayersOK
    <3>2. t.cogs = (w + StdCost * h) + cost + missing * StdCost
          /\ Total(now) = w + cost /\ t.short = h + missing
      BY <3>1, <2>4, <1>13
    <3>3. w \in Int /\ h \in Int /\ cost \in Int /\ missing \in Int /\ StdCost \in Int
      BY <2>4, <1>5, <1>9, <1>10, <1>12
    <3> HIDE DEF w, h, was, now
    <3>4. StdCost * (h + missing) = StdCost * h + StdCost * missing
          /\ missing * StdCost = StdCost * missing
          /\ StdCost * h \in Int /\ StdCost * missing \in Int
      BY <3>3, Distributes
    <3>5. (w + StdCost * h) + cost + missing * StdCost = (w + cost) + StdCost * (h + missing)
      <4> DEFINE a == StdCost * h
                 b == StdCost * missing
      <4>1. a \in Int /\ b \in Int /\ StdCost * (h + missing) = a + b /\ missing * StdCost = b
        BY <3>4
      <4> HIDE DEF a, b
      <4>2. (w + a) + cost + b = (w + cost) + (a + b)
        BY <4>1, <3>3
      <4> QED BY <4>1, <4>2 DEF a
    <3> QED BY <3>2, <3>5
  <2>7. (\A l \in tx[p].held : layerLock[l] = p)'
    BY <1>13, <1>16
  <2>8. (\A l \in Layer : tx[p].taken[l] > 0 =>
           layerLock[l] = p /\ tx[p].left[l] = layers[l].left - tx[p].taken[l])'
    BY <2>1, <1>13, <1>16
  <2>9. (tx[p].cogs = TakenCost(p) + StdCost * tx[p].short)'
    BY <2>5, <2>6, <1>16
  <2> QED BY <2>3, <2>7, <2>8, <2>9, <1>5, <1>13, <1>16 DEF LayersOK
<1>23. BooksAlone(p)
  BY <1>13, <1>16 DEF BooksAlone
<1> QED BY <1>1, <1>3, <1>13, <1>14, <1>15, <1>17, <1>18, <1>19, <1>20, <1>21, <1>22, <1>23,
           GotoSafe

-----------------------------------------------------------------------------
(* A request begins, and ends without a trace.                             *)

LEMMA FreshFacts ==
    /\ Fresh \in TxRow /\ Fresh.cand = {} /\ Fresh.lines = {} /\ Fresh.held = {}
    /\ Fresh.key = "due" /\ Fresh.need = 0 /\ Fresh.short = 0 /\ Fresh.cogs = 0
    /\ Fresh.delta = [r \in Row |-> 0] /\ Fresh.taken = [l \in Layer |-> 0]
BY DEF Fresh, TxRow

(* Nothing has been moved or drawn yet.                                    *)
LEMMA NothingDone ==
    /\ Nought(Fresh.delta) /\ Total(Sizes(Fresh.delta)) = 0
    /\ Nought(Fresh.taken) /\ Total(Fresh.taken) = 0
<1>1. Fresh.delta \in [Row -> Int] /\ Fresh.taken \in [Layer -> Int]
      /\ Nought(Fresh.delta) /\ Nought(Fresh.taken)
  BY FreshFacts DEF Nought
<1>2. Sizes(Fresh.delta) \in [Row -> Int] /\ Nought(Sizes(Fresh.delta))
  BY <1>1 DEF Sizes, Nought
<1>3. IsFiniteSet(Row) /\ IsFiniteSet(Layer)
  BY RowAssumption, FiniteLayers
<1>4. Total(Sizes(Fresh.delta)) = 0
  BY <1>2, <1>3, TotalNought
<1>5. Total(Fresh.taken) = 0
  BY <1>1, <1>3, TotalNought
<1> QED BY <1>1, <1>4, <1>5

LEMMA NoCostYet ==
    ASSUME IssueTypeOK', NEW p \in Proc, tx'[p].taken = Fresh.taken, tx'[p].held = {},
           tx'[p].cogs = 0, tx'[p].short = 0, tx'[p].need = 0, tx'[p].delta = Fresh.delta
    PROVE  LayersOK(p)'
<1> DEFINE cost == [l \in Layer |-> tx'[p].taken[l] * layers'[l].cost]
<1>1. \A l \in Layer : tx'[p].taken[l] = 0
  BY FreshFacts
<1>2. cost \in [Layer -> Int] /\ Nought(cost)
  <2>1. \A l \in Layer : layers'[l].cost \in Nat
    BY DEF IssueTypeOK, LayerRow
  <2>2. \A l \in Layer : cost[l] = 0
    BY <1>1, <2>1
  <2> QED BY <2>2 DEF Nought
<1>3. Total(cost) = 0
  <2> HIDE DEF cost
  <2> QED BY <1>2, FiniteLayers, TotalNought
<1>4. TakenCost(p)' = 0
  BY <1>3 DEF TakenCost
<1>5. StdCost * 0 = 0
  BY LayerAssumption
<1>6. (tx[p].cogs = TakenCost(p) + StdCost * tx[p].short)'
  BY <1>4, <1>5
<1> QED BY <1>1, <1>6, NothingDone DEF LayersOK

LEMMA BeginSafe ==
    ASSUME IssueInv, NEW p \in Proc, Begin(p) PROVE IssueInv'
<1>1. PICK j \in Jobs :
         /\ job' = [job EXCEPT ![p] = j]
         /\ pc' = [pc EXCEPT ![p] = IF j.kind = "issue" THEN "select" ELSE "lookup"]
         /\ tx' = [tx EXCEPT ![p] = [Fresh EXCEPT !.owed = j.qty,
                                       !.lines = IF j.kind = "issue" THEN {} ELSE {j.row}]]
  BY DEF Begin
<1> DEFINE s == IF j.kind = "issue" THEN "select" ELSE "lookup"
           t == [Fresh EXCEPT !.owed = j.qty, !.lines = IF j.kind = "issue" THEN {} ELSE {j.row}]
<1>2. /\ pc[p] = "idle" /\ UNCHANGED stored /\ UNCHANGED outcome
      /\ UNCHANGED <<rowLock, layerLock>>
      /\ UNCHANGED <<quantity, layers, used, posted, cogs, short>>
  BY DEF Begin, locks, stored
<1>3. Own(p) /\ IssueTypeOK
  BY DEF IssueInv
<1>4. /\ j \in Job /\ j.qty \in Nat /\ j.qty > 0 /\ j.row \in Row
      /\ j.kind \in {"issue", "draw", "receive"} /\ j.key \in Key \cup {NoKey}
  <2>1. j \in Job /\ j.qty > 0
    BY JobsAssumption
  <2> QED BY <2>1 DEF Job
<1>5. /\ t \in TxRow /\ t.owed = j.qty /\ t.key = "due" /\ t.cand = {}
      /\ t.lines = (IF j.kind = "issue" THEN {} ELSE {j.row})
      /\ t.delta = Fresh.delta /\ t.taken = Fresh.taken /\ t.held = {} /\ t.need = 0
      /\ t.short = 0 /\ t.cogs = 0
  BY <1>4, FreshFacts DEF TxRow
<1>6. s \in Statement /\ s \in {"select", "lookup"} /\ ((s = "select") = (j.kind = "issue"))
  BY DEF Statement
<1> HIDE DEF s, t
<1>7. /\ pc'[p] = s /\ tx'[p] = t /\ job'[p] = j /\ outcome'[p] = outcome[p]
      /\ \A q \in Proc \ {p} : pc'[q] = pc[q] /\ tx'[q] = tx[q] /\ job'[q] = job[q]
  BY <1>1, <1>2, <1>3 DEF IssueTypeOK, s, t
<1>8. \A q \in Proc \ {p} : Untouched(q)
  BY <1>2, <1>7 DEF Untouched
<1>9. IssueTypeOK'
  <2>1. pc' = [pc EXCEPT ![p] = s] /\ tx' = [tx EXCEPT ![p] = t] /\ job' = [job EXCEPT ![p] = j]
    BY <1>1 DEF s, t
  <2> QED BY <2>1, <1>2, <1>3, <1>4, <1>5, <1>6 DEF IssueTypeOK
<1>10. outcome[p] = "none"
  BY <1>2, <1>3 DEF Own, PlaceOK
<1>11. PlaceOK(p)'
  BY <1>4, <1>5, <1>6, <1>7, <1>10 DEF PlaceOK, Resting
<1>12. QtyOK(p)'
  BY <1>4, <1>5, <1>6, <1>7, NothingDone DEF QtyOK, Resting
<1>13. RowsOK(p)'
  BY <1>5, <1>6, <1>7, FreshFacts DEF RowsOK
<1>14. KeyOK(p)'
  BY <1>5, <1>7 DEF KeyOK
<1>15. LayersOK(p)'
  BY <1>5, <1>7, <1>9, NoCostYet
<1>16. BooksOK(p)'
  <2>1. Nought(posted[p])' = Nought(posted[p])
    BY <1>2 DEF Nought
  <2> QED BY <2>1, <1>2, <1>3, <1>7, <1>10 DEF Own, BooksOK
<1>17. LocksOK(p)'
  BY <1>2, <1>3, <1>5, <1>6, <1>7, FreshFacts DEF Own, PlaceOK, LocksOK, Resting
<1>18. BooksAlone(p) /\ outcome'[p] # "applied"
  BY <1>5, <1>7, <1>10 DEF BooksAlone
<1> QED BY <1>2, <1>8, <1>9, <1>11, <1>12, <1>13, <1>14, <1>15, <1>16, <1>17, <1>18, StepSafe
        DEF Own

(* A request that is over, and has left nothing.                           *)
LEMMA OverOwn ==
    ASSUME IssueTypeOK, IssueTypeOK', NEW p \in Proc, BooksOK(p), outcome[p] = "none",
           UNCHANGED stored, pc'[p] = "done", tx'[p] = Fresh, job'[p].qty > 0,
           outcome'[p] \in {"rejected", "failed"},
           \A r \in Row : rowLock'[r] # p, \A l \in Layer : layerLock'[l] # p
    PROVE  Own(p)' /\ BooksAlone(p) /\ outcome'[p] # "applied"
<1>1. UNCHANGED <<quantity, layers, used, posted, cogs, short>>
  BY DEF stored
<1>2. PlaceOK(p)'
  BY FreshFacts DEF PlaceOK, Resting
<1>3. QtyOK(p)'
  BY FreshFacts, NothingDone DEF QtyOK, Resting
<1>4. RowsOK(p)'
  BY FreshFacts DEF RowsOK
<1>5. KeyOK(p)'
  BY FreshFacts DEF KeyOK
<1>6. LayersOK(p)'
  BY FreshFacts, NoCostYet
<1>7. BooksOK(p)'
  <2>1. Nought(posted[p])' = Nought(posted[p])
    BY <1>1 DEF Nought
  <2> QED BY <2>1, <1>1 DEF BooksOK
<1>8. LocksOK(p)'
  BY FreshFacts DEF LocksOK, Resting
<1>9. BooksAlone(p)
  BY FreshFacts DEF BooksAlone
<1> QED BY <1>2, <1>3, <1>4, <1>5, <1>6, <1>7, <1>8, <1>9 DEF Own

LEMMA RefuseKeylessSafe ==
    ASSUME IssueInv, NEW p \in Proc, RefuseKeyless(p) PROVE IssueInv'
<1>1. PICK j \in Jobs : job' = [job EXCEPT ![p] = j]
  BY DEF RefuseKeyless
<1>2. /\ pc[p] = "idle" /\ UNCHANGED stored /\ UNCHANGED tx /\ UNCHANGED <<rowLock, layerLock>>
      /\ pc' = [pc EXCEPT ![p] = "done"] /\ outcome' = [outcome EXCEPT ![p] = "rejected"]
      /\ UNCHANGED <<quantity, layers, used, posted, cogs, short>>
  BY DEF RefuseKeyless, stored, locks
<1>3. Own(p) /\ IssueTypeOK /\ j \in Job /\ j.qty > 0
  BY JobsAssumption DEF IssueInv
<1>4. /\ pc'[p] = "done" /\ job'[p] = j /\ outcome'[p] = "rejected" /\ tx'[p] = Fresh
      /\ \A q \in Proc \ {p} : /\ pc'[q] = pc[q] /\ tx'[q] = tx[q] /\ job'[q] = job[q]
                               /\ outcome'[q] = outcome[q]
  BY <1>1, <1>2, <1>3 DEF IssueTypeOK, Own, PlaceOK, Resting
<1>5. \A q \in Proc \ {p} : Untouched(q)
  BY <1>2, <1>4 DEF Untouched
<1>6. IssueTypeOK'
  BY <1>1, <1>2, <1>3 DEF IssueTypeOK
<1>7. (\A r \in Row : rowLock'[r] # p) /\ (\A l \in Layer : layerLock'[l] # p)
  BY <1>2, <1>3, FreshFacts DEF Own, PlaceOK, LocksOK, Resting
<1>8. outcome[p] = "none" /\ BooksOK(p)
  BY <1>2, <1>3 DEF Own, PlaceOK
<1>9. Own(p)' /\ BooksAlone(p) /\ outcome'[p] # "applied"
  BY <1>2, <1>3, <1>4, <1>6, <1>7, <1>8, OverOwn
<1> QED BY <1>2, <1>5, <1>6, <1>9, StepSafe

(* The end of a transaction touches no other one.                          *)
LEMMA EndFrame ==
    ASSUME IssueTypeOK, NEW p \in Proc, NEW o \in {"applied", "duplicate", "rejected", "failed"},
           End(p, o)
    PROVE  /\ pc'[p] = "done" /\ tx'[p] = Fresh /\ job'[p] = job[p] /\ outcome'[p] = o
           /\ \A q \in Proc \ {p} : Untouched(q)
           /\ \A r \in Row : rowLock'[r] # p
           /\ \A l \in Layer : layerLock'[l] # p
           /\ rowLock' \in [Row -> Proc \cup {NoProc}]
           /\ layerLock' \in [Layer -> Proc \cup {NoProc}]
           /\ pc' \in [Proc -> Statement \cup {"idle", "done"}]
           /\ job' \in [Proc -> Job] /\ tx' \in [Proc -> TxRow]
           /\ outcome' \in [Proc -> {"none", "applied", "duplicate", "rejected", "failed"}]
<1>1. /\ rowLock' = [r \in Row |-> IF rowLock[r] = p THEN NoProc ELSE rowLock[r]]
      /\ layerLock' = [l \in Layer |-> IF layerLock[l] = p THEN NoProc ELSE layerLock[l]]
      /\ pc' = [pc EXCEPT ![p] = "done"] /\ tx' = [tx EXCEPT ![p] = Fresh]
      /\ outcome' = [outcome EXCEPT ![p] = o] /\ job' = job
  BY DEF End
<1>2. /\ pc'[p] = "done" /\ tx'[p] = Fresh /\ job'[p] = job[p] /\ outcome'[p] = o
      /\ \A q \in Proc \ {p} : pc'[q] = pc[q] /\ tx'[q] = tx[q] /\ outcome'[q] = outcome[q]
  BY <1>1 DEF IssueTypeOK
<1>3. \A r \in Row : rowLock'[r] = IF rowLock[r] = p THEN NoProc ELSE rowLock[r]
  BY <1>1
<1>4. \A l \in Layer : layerLock'[l] = IF layerLock[l] = p THEN NoProc ELSE layerLock[l]
  BY <1>1
<1>5. ASSUME NEW q \in Proc \ {p} PROVE Untouched(q)
  <2>1. (\A r \in Row : rowLock'[r] = q <=> rowLock[r] = q)
        /\ (\A l \in Layer : layerLock'[l] = q <=> layerLock[l] = q)
    BY <1>3, <1>4, ProcAssumption
  <2> QED BY <2>1, <1>1, <1>2 DEF Untouched
<1>6. (\A r \in Row : rowLock'[r] # p) /\ (\A l \in Layer : layerLock'[l] # p)
  BY <1>3, <1>4, ProcAssumption
<1>7. rowLock' \in [Row -> Proc \cup {NoProc}] /\ layerLock' \in [Layer -> Proc \cup {NoProc}]
  BY <1>1 DEF IssueTypeOK
<1>8. /\ pc' \in [Proc -> Statement \cup {"idle", "done"}]
      /\ job' \in [Proc -> Job] /\ tx' \in [Proc -> TxRow]
      /\ outcome' \in [Proc -> {"none", "applied", "duplicate", "rejected", "failed"}]
  BY <1>1, FreshFacts DEF IssueTypeOK
<1> QED BY <1>2, <1>5, <1>6, <1>7, <1>8

LEMMA FailSafe ==
    ASSUME IssueInv, NEW p \in Proc, NEW o \in {"rejected", "failed"}, pc[p] \notin Resting,
           Fail(p, o)
    PROVE  IssueInv'
<1>1. End(p, o) /\ UNCHANGED stored /\ UNCHANGED <<quantity, layers, used, posted, cogs, short>>
  BY DEF Fail, stored
<1>2. Own(p) /\ IssueTypeOK
  BY DEF IssueInv
<1>3. /\ pc'[p] = "done" /\ tx'[p] = Fresh /\ job'[p] = job[p] /\ outcome'[p] = o
      /\ \A q \in Proc \ {p} : Untouched(q)
      /\ \A r \in Row : rowLock'[r] # p
      /\ \A l \in Layer : layerLock'[l] # p
      /\ IssueTypeOK'
  BY <1>1, <1>2, EndFrame DEF IssueTypeOK
<1>4. outcome[p] = "none" /\ BooksOK(p) /\ job[p].qty > 0 /\ pc[p] # "done"
  BY <1>2 DEF Own, PlaceOK, Resting
<1>5. Own(p)' /\ BooksAlone(p) /\ outcome'[p] # "applied"
  BY <1>1, <1>2, <1>3, <1>4, OverOwn
<1> QED BY <1>1, <1>3, <1>4, <1>5, StepSafe

LEMMA RefuseSafe ==
    ASSUME IssueInv, NEW p \in Proc, Refuse(p) PROVE IssueInv'
BY FailSafe DEF Refuse, Refused, Resting

LEMMA RollbackSafe ==
    ASSUME IssueInv, NEW p \in Proc, Rollback(p) PROVE IssueInv'
BY FailSafe DEF Rollback, Resting

-----------------------------------------------------------------------------
(* COMMIT.                                                                 *)

(* A receipt that is not a duplicate creates a layer.                      *)
New(p) == job[p].kind = "receive" /\ tx[p].key # "dup"

(* What a COMMIT does, in terms of what was moved and taken.               *)
LEMMA CommitFacts ==
    ASSUME IssueInv, NEW p \in Proc, Commit(p)
    PROVE  /\ pc[p] = "commit" /\ outcome[p] = "none"
           /\ tx[p].key \in {"none", "book", "dup"} /\ tx[p].owed = 0
           /\ tx[p].delta \in [Row -> Int] /\ tx[p].taken \in [Layer -> Nat]
           /\ quantity' = [r \in Row |-> quantity[r] + tx[p].delta[r]]
           /\ \A r \in Row : quantity'[r] >= ReservedOf[r]
           /\ \A r \in Row : rowLock[r] # p => tx[p].delta[r] = 0
           /\ DOMAIN layers' = Layer /\ DOMAIN layers = Layer
           /\ \A l \in Layer : l # p \/ ~New(p) =>
                layers'[l] = [layers[l] EXCEPT !.left = layers[l].left - tx[p].taken[l]]
           /\ \A l \in Layer : layers[l].left - tx[p].taken[l] \in Nat
           /\ layers[p] = NoLayer
           /\ New(p) => layers'[p] = Created(p)
           /\ New(p) => Nought(tx[p].taken)
           /\ posted' = [posted EXCEPT ![p] = tx[p].delta]
           /\ used' = (IF tx[p].key = "book" THEN used \cup {job[p].key} ELSE used)
           /\ cogs' = [cogs EXCEPT ![p] = tx[p].cogs]
           /\ short' = [short EXCEPT ![p] = tx[p].short]
           /\ End(p, IF tx[p].key = "dup" THEN "duplicate" ELSE "applied")
<1> DEFINE t == tx[p]
<1>1. /\ pc[p] = "commit"
      /\ quantity' = [r \in Row |-> IF t.delta[r] # 0 THEN t.after[r] ELSE quantity[r]]
      /\ posted' = [posted EXCEPT ![p] = t.delta]
      /\ used' = IF t.key = "book" THEN used \cup {job[p].key} ELSE used
      /\ layers' = [l \in Layer |-> IF l = p /\ job[p].kind = "receive" /\ t.key # "dup"
                                    THEN Created(p) ELSE [layers[l] EXCEPT !.left = Left(p, l)]]
      /\ cogs' = [cogs EXCEPT ![p] = t.cogs]
      /\ short' = [short EXCEPT ![p] = t.short]
      /\ End(p, IF t.key = "dup" THEN "duplicate" ELSE "applied")
  BY DEF Commit
<1>2. Own(p) /\ IssueTypeOK /\ RowsAddUp
  BY DEF IssueInv, CostConserved
<1>3. /\ t.delta \in [Row -> Int] /\ t.taken \in [Layer -> Nat]
      /\ t.key \in {"due", "none", "book", "dup"}
  BY <1>2, TxTyped
<1>4. outcome[p] = "none" /\ t.key \in {"none", "book", "dup"} /\ t.owed = 0
  BY <1>1, <1>2, <1>3 DEF Own, PlaceOK, QtyOK
<1>5. ASSUME NEW r \in Row
      PROVE  /\ quantity'[r] = quantity[r] + t.delta[r] /\ quantity'[r] >= ReservedOf[r]
             /\ rowLock[r] # p => t.delta[r] = 0
  <2>1. quantity[r] \in Nat /\ quantity[r] >= ReservedOf[r] /\ ReservedOf[r] \in Nat
    BY <1>2, RowAssumption DEF IssueTypeOK, RowsAddUp
  <2>2. t.delta[r] # 0 =>
          /\ rowLock[r] = p /\ t.after[r] = quantity[r] + t.delta[r] /\ t.after[r] >= ReservedOf[r]
    BY <1>2 DEF Own, RowsOK
  <2> QED BY <2>1, <2>2, <1>1, <1>3
<1>6. quantity' = [r \in Row |-> quantity[r] + t.delta[r]]
  BY <1>1, <1>5
<1>7. ASSUME NEW l \in Layer
      PROVE  Left(p, l) = layers[l].left - t.taken[l] /\ Left(p, l) \in Nat
  BY LeftFacts
<1>8. \A l \in Layer : l # p \/ ~New(p) =>
        layers'[l] = [layers[l] EXCEPT !.left = layers[l].left - t.taken[l]]
  BY <1>1, <1>7 DEF New
<1>9. p \in Layer /\ DOMAIN layers' = Layer /\ DOMAIN layers = Layer
  BY <1>1, <1>2 DEF Layer, IssueTypeOK
<1>10. New(p) => layers'[p] = Created(p)
  BY <1>1, <1>9 DEF New
<1>11. layers[p] = NoLayer
  BY <1>2, <1>4 DEF Own, BooksOK
<1>12. New(p) => Nought(t.taken)
  BY <1>2 DEF Own, LayersOK, New
<1> QED BY <1>1, <1>3, <1>4, <1>5, <1>6, <1>7, <1>8, <1>9, <1>10, <1>11, <1>12

LEMMA CommitTyped ==
    ASSUME IssueInv, NEW p \in Proc, Commit(p) PROVE IssueTypeOK'
<1>1. /\ quantity' = [r \in Row |-> quantity[r] + tx[p].delta[r]]
      /\ \A r \in Row : quantity'[r] >= ReservedOf[r]
      /\ DOMAIN layers' = Layer /\ tx[p].delta \in [Row -> Int] /\ tx[p].taken \in [Layer -> Nat]
      /\ \A l \in Layer : l # p \/ ~New(p) =>
           layers'[l] = [layers[l] EXCEPT !.left = layers[l].left - tx[p].taken[l]]
      /\ \A l \in Layer : layers[l].left - tx[p].taken[l] \in Nat
      /\ New(p) => layers'[p] = Created(p)
      /\ posted' = [posted EXCEPT ![p] = tx[p].delta]
      /\ used' = (IF tx[p].key = "book" THEN used \cup {job[p].key} ELSE used)
      /\ cogs' = [cogs EXCEPT ![p] = tx[p].cogs]
      /\ short' = [short EXCEPT ![p] = tx[p].short]
      /\ End(p, IF tx[p].key = "dup" THEN "duplicate" ELSE "applied")
  BY CommitFacts
<1>2. Own(p) /\ IssueTypeOK
  BY DEF IssueInv
<1>3. tx[p].cogs \in Nat /\ tx[p].short \in Nat /\ job[p] \in Job
  BY <1>2, TxTyped
<1>4. quantity' \in [Row -> Nat]
  <2>1. ASSUME NEW r \in Row PROVE quantity[r] + tx[p].delta[r] \in Nat
    BY <1>1, <1>2, RowAssumption DEF IssueTypeOK
  <2> QED BY <2>1, <1>1
<1>5. layers' \in [Layer -> LayerRow]
  <2>1. ASSUME NEW l \in Layer PROVE layers'[l] \in LayerRow
    <3>1. layers[l] \in LayerRow /\ layers[l].left - tx[p].taken[l] \in Nat
      BY <1>1, <1>2, LayerTyped
    <3>2. CASE l # p \/ ~New(p)
      BY <3>1, <3>2, <1>1 DEF LayerRow
    <3>3. CASE l = p /\ New(p)
      <4>1. BatchOf[job[p].row] \in Batch \cup {NoBatch}
        BY <1>3, RowAssumption DEF Job
      <4> QED BY <3>3, <4>1, <1>1, <1>3 DEF Created, LayerRow, Job
    <3> QED BY <3>2, <3>3
  <2>2. layers' = [l \in Layer |-> layers'[l]]
    BY DEF Commit
  <2> QED BY <2>1, <2>2
<1>6. used' \subseteq Key
  <2>1. tx[p].key = "book" => job[p].key \in Key
    BY <1>2 DEF Own, KeyOK
  <2> QED BY <2>1, <1>1, <1>2 DEF IssueTypeOK
<1>7. posted' \in [Proc -> [Row -> Int]] /\ cogs' \in [Proc -> Nat] /\ short' \in [Proc -> Nat]
  BY <1>1, <1>2, <1>3 DEF IssueTypeOK
<1>8. /\ rowLock' \in [Row -> Proc \cup {NoProc}]
      /\ layerLock' \in [Layer -> Proc \cup {NoProc}]
      /\ pc' \in [Proc -> Statement \cup {"idle", "done"}]
      /\ job' \in [Proc -> Job] /\ tx' \in [Proc -> TxRow]
      /\ outcome' \in [Proc -> {"none", "applied", "duplicate", "rejected", "failed"}]
  BY <1>1, <1>2, EndFrame
<1> QED BY <1>4, <1>5, <1>6, <1>7, <1>8 DEF IssueTypeOK

LEMMA NothingTaken ==
    ASSUME NEW x \in LayerRow PROVE [x EXCEPT !.left = x.left - 0] = x
BY DEF LayerRow

LEMMA CommitOthers ==
    ASSUME IssueInv, NEW p \in Proc, Commit(p), NEW q \in Proc \ {p} PROVE Own(q)'
<1>1. /\ outcome[p] = "none" /\ tx[p].taken \in [Layer -> Nat]
      /\ quantity' = [r \in Row |-> quantity[r] + tx[p].delta[r]]
      /\ \A r \in Row : rowLock[r] # p => tx[p].delta[r] = 0
      /\ \A l \in Layer : l # p \/ ~New(p) =>
           layers'[l] = [layers[l] EXCEPT !.left = layers[l].left - tx[p].taken[l]]
      /\ \A l \in Layer : layers[l].left - tx[p].taken[l] \in Nat
      /\ layers[p] = NoLayer
      /\ New(p) => Nought(tx[p].taken)
      /\ posted' = [posted EXCEPT ![p] = tx[p].delta]
      /\ used' = (IF tx[p].key = "book" THEN used \cup {job[p].key} ELSE used)
      /\ cogs' = [cogs EXCEPT ![p] = tx[p].cogs]
      /\ short' = [short EXCEPT ![p] = tx[p].short]
      /\ End(p, IF tx[p].key = "dup" THEN "duplicate" ELSE "applied")
  BY CommitFacts
<1>2. Own(p) /\ Own(q) /\ IssueTypeOK /\ IssueTypeOK' /\ OneBooks
  BY CommitTyped DEF IssueInv
<1>3. Untouched(q)
  BY <1>1, <1>2, EndFrame
<1>4. PlaceOK(q)' /\ LocksOK(q)'
  BY <1>2, <1>3, PlaceKept, LocksKept DEF Own
<1>5. KeyOK(q)'
  <2>1. tx[q].key = "book" => job[q].key \notin used'
    BY <1>1, <1>2 DEF Own, KeyOK, OneBooks
  <2> QED BY <2>1, <1>1, <1>2, <1>3, KeyKept DEF Own
<1>6. \A r \in Row : rowLock[r] = q => quantity'[r] = quantity[r]
  BY <1>1, <1>2 DEF IssueTypeOK
<1>7. RowsOK(q)' /\ QtyOK(q)'
  BY <1>2, <1>3, <1>6, RowsKept, QtyKept DEF Own
<1>8. ASSUME NEW l \in Layer, tx[p].taken[l] = 0, l # p \/ ~New(p) PROVE layers'[l] = layers[l]
  <2>1. PICK x \in LayerRow : x = layers[l]
    BY <1>2, LayerTyped
  <2>2. layers'[l] = [x EXCEPT !.left = x.left - 0]
    BY <2>1, <1>1, <1>8
  <2>3. [x EXCEPT !.left = x.left - 0] = x
    BY NothingTaken
  <2> QED BY <2>1, <2>2, <2>3
<1>9. LayersOK(q)'
  <2>1. ASSUME NEW l \in Layer, tx[q].taken[l] > 0
        PROVE  layers'[l].left = layers[l].left /\ layers'[l].cost = layers[l].cost
    <3>1. layerLock[l] = q /\ tx[q].left[l] = layers[l].left - tx[q].taken[l]
      BY <2>1, <1>2 DEF Own, LayersOK
    <3>2. tx[p].taken[l] = 0
      BY <3>1, <1>1, <1>2 DEF Own, LayersOK
    <3>3. l # p \/ ~New(p)
      <4>1. tx[q].left[l] \in Nat /\ tx[q].taken[l] \in Nat
        BY <1>2, TxTyped
      <4>2. l = p => layers[l].left = 0
        BY <1>1 DEF NoLayer
      <4> QED BY <4>1, <4>2, <3>1, <2>1
    <3> QED BY <3>2, <3>3, <1>8
  <2> QED BY <2>1, <1>2, <1>3, LayersKept DEF Own
<1>10. BooksOK(q)'
  <2>1. /\ posted'[q] = posted[q] /\ cogs'[q] = cogs[q] /\ short'[q] = short[q]
        /\ used \subseteq used'
    BY <1>1, <1>2 DEF IssueTypeOK
  <2>2. ~(outcome[q] = "applied" /\ job[q].kind = "receive") => layers'[q] = layers[q]
    <3> SUFFICES ASSUME ~(outcome[q] = "applied" /\ job[q].kind = "receive")
                 PROVE  layers'[q] = layers[q]
      OBVIOUS
    <3>1. layers[q] = NoLayer
      BY <1>2 DEF Own, BooksOK
    <3>2. q \in Layer /\ tx[p].taken[q] \in Nat
      BY <1>1 DEF Layer
    <3>3. tx[p].taken[q] = 0
      BY <3>1, <3>2, <1>1 DEF NoLayer
    <3> QED BY <3>2, <3>3, <1>8
  <2> QED BY <2>1, <2>2, <1>2, <1>3, BooksKept DEF Own
<1> QED BY <1>4, <1>5, <1>7, <1>9, <1>10 DEF Own

LEMMA CommitOwn ==
    ASSUME IssueInv, NEW p \in Proc, Commit(p) PROVE Own(p)' /\ UsedOnce' /\ OneBooks'
<1> DEFINE o == IF tx[p].key = "dup" THEN "duplicate" ELSE "applied"
<1>1. /\ pc[p] = "commit" /\ outcome[p] = "none"
      /\ tx[p].key \in {"none", "book", "dup"} /\ tx[p].owed = 0
      /\ tx[p].taken \in [Layer -> Nat]
      /\ \A l \in Layer : l # p \/ ~New(p) =>
           layers'[l] = [layers[l] EXCEPT !.left = layers[l].left - tx[p].taken[l]]
      /\ \A l \in Layer : layers[l].left - tx[p].taken[l] \in Nat
      /\ layers[p] = NoLayer
      /\ posted' = [posted EXCEPT ![p] = tx[p].delta]
      /\ used' = (IF tx[p].key = "book" THEN used \cup {job[p].key} ELSE used)
      /\ End(p, o)
  BY CommitFacts
<1>2. Own(p) /\ IssueTypeOK /\ IssueTypeOK' /\ OneBooks /\ UsedOnce
  BY CommitTyped DEF IssueInv
<1>3. o \in {"applied", "duplicate"} /\ ((o = "duplicate") = (tx[p].key = "dup"))
  OBVIOUS
<1> HIDE DEF o
<1>4. /\ pc'[p] = "done" /\ tx'[p] = Fresh /\ job'[p] = job[p] /\ outcome'[p] = o
      /\ \A q \in Proc \ {p} : Untouched(q)
      /\ \A r \in Row : rowLock'[r] # p
      /\ \A l \in Layer : layerLock'[l] # p
  BY <1>1, <1>2, <1>3, EndFrame
<1>5. PlaceOK(p)'
  BY <1>1, <1>2, <1>3, <1>4, FreshFacts DEF Own, PlaceOK, Resting
<1>6. QtyOK(p)'
  BY <1>4, FreshFacts, NothingDone DEF QtyOK, Resting
<1>7. RowsOK(p)'
  BY <1>4, FreshFacts DEF RowsOK
<1>8. KeyOK(p)'
  BY <1>4, FreshFacts DEF KeyOK
<1>9. LayersOK(p)'
  BY <1>2, <1>4, FreshFacts, NoCostYet
<1>10. LocksOK(p)'
  BY <1>4, FreshFacts DEF LocksOK, Resting
<1>11. BooksOK(p)'
  <2>1. ~(o = "applied" /\ job[p].kind = "receive") => layers'[p] = NoLayer
    <3> SUFFICES ASSUME ~(o = "applied" /\ job[p].kind = "receive") PROVE layers'[p] = NoLayer
      OBVIOUS
    <3>1. ~New(p) /\ p \in Layer
      BY <1>1, <1>3 DEF New, Layer
    <3>2. layers'[p] = [NoLayer EXCEPT !.left = NoLayer.left - tx[p].taken[p]]
          /\ NoLayer.left - tx[p].taken[p] \in Nat
      BY <3>1, <1>1
    <3>3. tx[p].taken[p] = 0
      BY <3>1, <3>2, <1>1 DEF NoLayer
    <3> QED BY <3>2, <3>3 DEF NoLayer
  <2>2. posted'[p] = tx[p].delta
    BY <1>1, <1>2 DEF IssueTypeOK
  <2>3. Moved(p)' = Total(Sizes(tx[p].delta))
    <3>1. Moved(p)' = Total(Sizes(posted'[p]))
      BY DEF Moved, Total, Sizes
    <3> QED BY <3>1, <2>2
  <2>4. /\ tx[p].key # "dup" => Total(Sizes(tx[p].delta)) = job[p].qty
        /\ tx[p].key = "dup" => Total(Sizes(tx[p].delta)) < job[p].qty
    <3>1. tx[p].delta \in [Row -> Int] /\ job[p].qty \in Nat
      BY <1>2, TxTyped
    <3>2. Total(Sizes(tx[p].delta)) \in Nat
      <4> DEFINE f == tx[p].delta
      <4>1. f \in [Row -> Int]
        BY <3>1
      <4> HIDE DEF f
      <4>2. Total(Sizes(f)) \in Nat
        BY <4>1, SizesType
      <4> QED BY <4>2 DEF f
    <3> QED BY <3>1, <3>2, <1>1, <1>2 DEF Own, QtyOK, Resting
  <2>5. /\ o = "applied" => job[p].key \in used' \cup {NoKey}
        /\ o = "duplicate" => job[p].key \in used'
    BY <1>1, <1>2, <1>3 DEF Own, KeyOK
  <2> QED BY <2>1, <2>3, <2>4, <2>5, <1>3, <1>4 DEF BooksOK
<1>12. OneBooks'
  BY <1>2, <1>4, OneBooksKept, FreshFacts DEF BooksAlone
<1>13. ASSUME NEW q \in Proc \ {p} PROVE outcome'[q] = outcome[q] /\ job'[q] = job[q]
  BY <1>4 DEF Untouched
<1>14. ASSUME NEW q \in Proc \ {p}, outcome[q] = "applied", o = "applied"
       PROVE  job[p].key # job[q].key \/ job[p].key = NoKey
  <2>1. job[q].key \in used \cup {NoKey}
    BY <1>14 DEF IssueInv, Own, BooksOK
  <2>2. job[p].key = NoKey \/ job[p].key \notin used
    BY <1>1, <1>2, <1>3, <1>14 DEF Own, KeyOK
  <2> QED BY <2>1, <2>2
<1>15. UsedOnce'
  <2>1. ASSUME NEW k \in used' PROVE \E q \in Proc : job'[q].key = k /\ outcome'[q] = "applied"
    <3>1. CASE k \in used
      <4>1. PICK q \in Proc : job[q].key = k /\ outcome[q] = "applied"
        BY <3>1, <1>2 DEF UsedOnce
      <4>2. q # p
        BY <4>1, <1>1
      <4> QED BY <4>1, <4>2, <1>13
    <3>2. CASE k \notin used
      BY <3>2, <2>1, <1>1, <1>3, <1>4
    <3> QED BY <3>1, <3>2
  <2>2. ASSUME NEW q \in Proc, NEW s \in Proc, q # s,
               outcome'[q] = "applied", outcome'[s] = "applied"
        PROVE  job'[q].key # job'[s].key \/ job'[q].key = NoKey
    <3>1. CASE q # p /\ s # p
      BY <3>1, <2>2, <1>2, <1>13 DEF UsedOnce
    <3>2. CASE q = p
      BY <3>2, <2>2, <1>4, <1>13, <1>14
    <3>3. CASE s = p
      BY <3>3, <2>2, <1>4, <1>13, <1>14
    <3> QED BY <3>1, <3>2, <3>3
  <2> QED BY <2>1, <2>2 DEF UsedOnce
<1> QED BY <1>5, <1>6, <1>7, <1>8, <1>9, <1>10, <1>11, <1>12, <1>15 DEF Own

(* The rows still add up.                                                  *)
LEMMA CommitRows ==
    ASSUME IssueInv, NEW p \in Proc, Commit(p) PROVE RowsAddUp'
<1>1. /\ outcome[p] = "none" /\ tx[p].delta \in [Row -> Int]
      /\ quantity' = [r \in Row |-> quantity[r] + tx[p].delta[r]]
      /\ \A r \in Row : quantity'[r] >= ReservedOf[r]
      /\ posted' = [posted EXCEPT ![p] = tx[p].delta]
  BY CommitFacts
<1>2. RowsAddUp /\ IssueTypeOK /\ IssueTypeOK' /\ Nought(posted[p])
  BY <1>1, CommitTyped DEF IssueInv, CostConserved, Own, BooksOK
<1>3. ASSUME NEW r \in Row
      PROVE  quantity'[r] = OpeningRows[r] + Total([q \in Proc |-> posted'[q][r]])
  <2> DEFINE f == [q \in Proc |-> posted[q][r]]
             g == [q \in Proc |-> posted'[q][r]]
             d == tx[p].delta[r]
  <2>1. f \in [Proc -> Int] /\ g \in [Proc -> Int] /\ d \in Int /\ f[p] = 0 /\ g[p] = d
        /\ \A q \in Proc \ {p} : g[q] = f[q]
    BY <1>1, <1>2 DEF IssueTypeOK, Nought
  <2>2. quantity[r] = OpeningRows[r] + Total(f) /\ quantity'[r] = quantity[r] + d
        /\ OpeningRows[r] \in Int
    BY <1>1, <1>2, RowAssumption DEF RowsAddUp
  <2> HIDE DEF f, g, d
  <2>3. \A x \in Proc : (\A y \in Proc \ {x} : g[y] = f[y]) => Total(g) = Total(f) - f[x] + g[x]
    BY <2>1, TotalChanged, ProcAssumption
  <2>4. Total(g) = Total(f) - f[p] + g[p]
    BY <2>1, <2>3
  <2>5. Total(f) \in Int
    BY <2>1, TotalInt, ProcAssumption
  <2>6. quantity'[r] = OpeningRows[r] + Total(g)
    BY <2>1, <2>2, <2>4, <2>5
  <2> QED BY <2>6 DEF g
<1> QED BY <1>1, <1>3 DEF RowsAddUp

(* What is posted for a request is added to its total.                     *)
LEMMA TotalPosted ==
    ASSUME NEW f \in [Proc -> Nat], NEW p \in Proc, f[p] = 0, NEW n \in Nat
    PROVE  Total([f EXCEPT ![p] = n]) = Total(f) + n /\ Total(f) \in Nat
<1> DEFINE g == [f EXCEPT ![p] = n]
<1>1. f \in [Proc -> Int] /\ g \in [Proc -> Int] /\ g[p] = n /\ \A q \in Proc \ {p} : g[q] = f[q]
  OBVIOUS
<1> HIDE DEF g
<1>2. \A x \in Proc : (\A y \in Proc \ {x} : g[y] = f[y]) => Total(g) = Total(f) - f[x] + g[x]
  BY <1>1, TotalChanged, ProcAssumption
<1>3. Total(g) = Total(f) - f[p] + g[p]
  BY <1>1, <1>2
<1>4. Total(f) \in Nat
  BY TotalNat, ProcAssumption
<1> QED BY <1>1, <1>3, <1>4 DEF g

(* What leaves the rows was taken from layers, or is short; what comes in  *)
(* is the layer that is created.                                           *)
LEMMA CommitMoves ==
    ASSUME IssueInv, NEW p \in Proc, Commit(p)
    PROVE  /\ Total(tx[p].delta) \in Int /\ Total(tx[p].taken) \in Nat /\ tx[p].short \in Nat
           /\ ~New(p) => Total(tx[p].delta) + Total(tx[p].taken) + tx[p].short = 0
           /\ New(p) => Total(tx[p].delta) = job[p].qty /\ tx[p].short = 0
<1>1. /\ pc[p] = "commit" /\ tx[p].key \in {"none", "book", "dup"} /\ tx[p].owed = 0
  BY CommitFacts
<1>2. Own(p) /\ IssueTypeOK
  BY DEF IssueInv
<1>3. /\ tx[p].delta \in [Row -> Int] /\ tx[p].taken \in [Layer -> Nat]
      /\ tx[p].short \in Nat /\ job[p].qty \in Nat
  BY <1>2, TxTyped
<1> DEFINE d == tx[p].delta
           u == tx[p].taken
           e == Sizes(d)
<1>4. d \in [Row -> Int] /\ e \in [Row -> Nat] /\ e \in [Row -> Int] /\ u \in [Layer -> Nat]
      /\ u \in [Layer -> Int]
  BY <1>3 DEF Sizes
<1>5. Total(d) \in Int /\ Total(e) \in Nat /\ Total(u) \in Nat
  <2> HIDE DEF d, u, e
  <2>1. Total(d) \in Int
    BY <1>4, TotalInt, RowAssumption
  <2>2. Total(e) \in Nat
    BY <1>4, TotalNat, RowAssumption
  <2>3. Total(u) \in Nat
    BY <1>4, TotalNat, FiniteLayers
  <2> QED BY <2>1, <2>2, <2>3
<1>6. CASE job[p].kind # "receive"
  <2>1. Total(u) + tx[p].short + 0 = Total(e)
    BY <1>1, <1>2, <1>6 DEF Own, LayersOK
  <2>2. \A r \in Row : d[r] <= 0
    BY <1>2, <1>6 DEF Own, RowsOK
  <2> DEFINE z == [r \in Row |-> 0]
  <2>3. z \in [Row -> Int] /\ Nought(z) /\ \A r \in Row : z[r] = d[r] + e[r]
    <3>1. ASSUME NEW r \in Row PROVE 0 = d[r] + e[r]
      BY <1>4, <2>2 DEF Sizes
    <3> QED BY <3>1 DEF Nought
  <2>4. Total(z) = Total(d) + Total(e)
    <3> HIDE DEF d, e, z
    <3> QED BY <1>4, <2>3, TotalAdds, RowAssumption
  <2>5. Total(z) = 0
    <3> HIDE DEF z
    <3> QED BY <2>3, TotalNought, RowAssumption
  <2> DEFINE a == Total(d)
             b == Total(e)
             c == Total(u)
             h == tx[p].short
  <2>6. a \in Int /\ b \in Int /\ c \in Int /\ h \in Int /\ c + h + 0 = b /\ 0 = a + b
    BY <2>1, <2>4, <2>5, <1>3, <1>5
  <2>7. a + c + h = 0
    <3> HIDE DEF a, b, c, h
    <3> QED BY <2>6
  <2>8. Total(tx[p].delta) + Total(tx[p].taken) + tx[p].short = 0
    BY <2>7
  <2> HIDE DEF a, b, c, h, z, d, e, u
  <2>9. ~New(p)
    BY <1>6 DEF New
  <2>10. Total(tx[p].delta) \in Int /\ Total(tx[p].taken) \in Nat
    BY <1>5 DEF d, u
  <2> QED BY <2>8, <2>9, <2>10, <1>3
<1>7. CASE New(p)
  <2>1. Total(e) + 0 = job[p].qty /\ tx[p].short = 0 /\ \A r \in Row : d[r] >= 0
    BY <1>1, <1>2, <1>7 DEF Own, QtyOK, LayersOK, RowsOK, New, Resting
  <2>2. d = e
    <3>1. ASSUME NEW r \in Row PROVE d[r] = e[r]
      BY <1>4, <2>1 DEF Sizes
    <3> HIDE DEF d, e
    <3> QED BY <3>1, <1>4
  <2>3. Total(d) = job[p].qty
    BY <2>1, <2>2, <1>5
  <2> QED BY <2>1, <2>3, <1>3, <1>5, <1>7
<1>8. CASE job[p].kind = "receive" /\ tx[p].key = "dup"
  <2>1. Nought(d) /\ Nought(u) /\ tx[p].short = 0
    BY <1>2, <1>8 DEF Own, QtyOK, LayersOK
  <2>2. Total(d) = 0
    <3> HIDE DEF d
    <3> QED BY <1>4, <2>1, TotalNought, RowAssumption
  <2>3. Total(u) = 0
    <3> HIDE DEF u
    <3> QED BY <1>4, <2>1, TotalNought, FiniteLayers
  <2>4. Total(tx[p].delta) + Total(tx[p].taken) + tx[p].short = 0
    <3>1. 0 + 0 + 0 = 0
      OBVIOUS
    <3> QED BY <3>1, <2>1, <2>2, <2>3
  <2>5. ~New(p)
    BY <1>8 DEF New
  <2>6. Total(tx[p].delta) \in Int /\ Total(tx[p].taken) \in Nat
    BY <1>5
  <2> HIDE DEF d, e, u
  <2> QED BY <2>4, <2>5, <2>6, <1>3
<1> QED BY <1>6, <1>7, <1>8 DEF New

LEMMA AccountsTyped ==
    ASSUME IssueTypeOK
    PROVE  /\ Units(layers) \in [Layer -> Nat] /\ Value(layers) \in [Layer -> Nat]
           /\ Received \in [Proc -> Nat]
<1>1. DOMAIN layers = Layer /\ Proc \subseteq Layer
  BY DEF IssueTypeOK, Layer
<1>2. ASSUME NEW l \in Layer
      PROVE  /\ layers[l].left \in Nat /\ layers[l].left * layers[l].cost \in Nat
             /\ layers[l].total * layers[l].cost \in Nat
  <2>1. layers[l].left \in Nat /\ layers[l].cost \in Nat /\ layers[l].total \in Nat
    BY LayerTyped
  <2> QED BY <2>1
<1> QED BY <1>1, <1>2 DEF Units, Value, Received

(* A COMMIT without a new layer takes units and their cost out of layers.  *)
LEMMA CommitTakes ==
    ASSUME IssueInv, NEW p \in Proc, Commit(p), ~New(p)
    PROVE  /\ Total(Units(layers)) = Total(Units(layers)') + Total(tx[p].taken)
           /\ Total(Value(layers)) = Total(Value(layers)') + TakenCost(p)
           /\ Received' = Received /\ TakenCost(p) \in Int
<1>1. /\ tx[p].taken \in [Layer -> Nat]
      /\ \A l \in Layer : l # p \/ ~New(p) =>
           layers'[l] = [layers[l] EXCEPT !.left = layers[l].left - tx[p].taken[l]]
      /\ \A l \in Layer : layers[l].left - tx[p].taken[l] \in Nat
      /\ DOMAIN layers' = Layer /\ DOMAIN layers = Layer
  BY CommitFacts
<1>2. IssueTypeOK /\ IssueTypeOK'
  BY CommitTyped DEF IssueInv
<1>3. ASSUME NEW l \in Layer
      PROVE  /\ layers'[l].left = layers[l].left - tx[p].taken[l]
             /\ layers'[l].cost = layers[l].cost /\ layers'[l].total = layers[l].total
             /\ layers[l].left \in Nat /\ layers[l].cost \in Nat /\ layers[l].total \in Nat
             /\ tx[p].taken[l] \in Nat /\ layers'[l].left \in Nat
  <2>1. layers[l] \in LayerRow /\ tx[p].taken[l] \in Nat
    BY <1>1, <1>2, LayerTyped
  <2>2. layers'[l] = [layers[l] EXCEPT !.left = layers[l].left - tx[p].taken[l]]
        /\ layers[l].left - tx[p].taken[l] \in Nat
    BY <1>1
  <2> QED BY <2>1, <2>2 DEF LayerRow
<1> DEFINE u == Units(layers)
           v == Value(layers)
           nu == Units(layers)'
           nv == Value(layers)'
           k == tx[p].taken
           c == [l \in Layer |-> tx[p].taken[l] * layers[l].cost]
<1>4. u \in [Layer -> Int] /\ v \in [Layer -> Int] /\ k \in [Layer -> Int]
  BY <1>1, <1>2, AccountsTyped
<1>5. \A l \in Layer : u[l] = nu[l] + k[l] /\ nu[l] \in Int
  BY <1>1, <1>3 DEF Units
<1>6. ASSUME NEW l \in Layer PROVE v[l] = nv[l] + c[l] /\ nv[l] \in Int /\ c[l] \in Int
  <2> DEFINE a == layers[l].left
             b == tx[p].taken[l]
             e == layers[l].cost
  <2>1. a \in Int /\ b \in Int /\ e \in Int /\ v[l] = a * e /\ nv[l] = (a - b) * e /\ c[l] = b * e
    BY <1>1, <1>3 DEF Value
  <2> HIDE DEF a, b, e, v, nv, c
  <2>2. a * e = (a - b) * e + b * e /\ (a - b) * e \in Int /\ b * e \in Int
    BY <2>1
  <2> QED BY <2>1, <2>2
<1>7. nu \in [Layer -> Int] /\ nv \in [Layer -> Int] /\ c \in [Layer -> Int]
  BY <1>1, <1>5, <1>6 DEF Units, Value
<1>8. Total(u) = Total(nu) + Total(k)
  <2> HIDE DEF u, nu, k
  <2> QED BY <1>4, <1>5, <1>7, TotalAdds, FiniteLayers
<1>9. Total(v) = Total(nv) + Total(c) /\ Total(c) \in Int
  <2> HIDE DEF v, nv, c
  <2>1. Total(v) = Total(nv) + Total(c)
    BY <1>4, <1>6, <1>7, TotalAdds, FiniteLayers
  <2>2. Total(c) \in Int
    BY <1>7, TotalInt, FiniteLayers
  <2> QED BY <2>1, <2>2
<1>10. Received' = Received
  <2>1. \A q \in Proc : layers'[q].total * layers'[q].cost = layers[q].total * layers[q].cost
    BY <1>3 DEF Layer
  <2> QED BY <2>1 DEF Received
<1> QED BY <1>8, <1>9, <1>10 DEF TakenCost

(* A COMMIT with a new layer puts the units and the cost of it in.         *)
LEMMA CommitCreates ==
    ASSUME IssueInv, NEW p \in Proc, Commit(p), New(p)
    PROVE  /\ Total(Units(layers)') = Total(Units(layers)) + job[p].qty
           /\ Total(Value(layers)') - Total(Value(layers)) = Total(Received') - Total(Received)
           /\ TakenCost(p) = 0
<1>1. /\ tx[p].taken \in [Layer -> Nat]
      /\ \A l \in Layer : l # p \/ ~New(p) =>
           layers'[l] = [layers[l] EXCEPT !.left = layers[l].left - tx[p].taken[l]]
      /\ layers[p] = NoLayer
      /\ New(p) => layers'[p] = Created(p)
      /\ New(p) => Nought(tx[p].taken)
      /\ DOMAIN layers' = Layer /\ DOMAIN layers = Layer
  BY CommitFacts
<1>2. IssueTypeOK /\ IssueTypeOK'
  BY CommitTyped DEF IssueInv
<1>3. job[p].qty \in Nat /\ job[p].cost \in Nat /\ p \in Layer
  BY <1>2, TxTyped DEF Layer
<1>4. ASSUME NEW l \in Layer \ {p} PROVE layers'[l] = layers[l]
  <2>1. tx[p].taken[l] = 0
    BY <1>1 DEF Nought
  <2>2. PICK x \in LayerRow : x = layers[l]
    BY <1>2, LayerTyped
  <2>3. layers'[l] = [x EXCEPT !.left = x.left - 0]
    BY <2>1, <2>2, <1>1
  <2>4. [x EXCEPT !.left = x.left - 0] = x
    BY NothingTaken
  <2> QED BY <2>2, <2>3, <2>4
<1> DEFINE worth == job[p].qty * job[p].cost
<1>5. /\ layers[p].left = 0 /\ layers[p].total = 0 /\ layers[p].cost = 0
      /\ layers'[p].left = job[p].qty /\ layers'[p].total = job[p].qty
      /\ layers'[p].cost = job[p].cost
  BY <1>1 DEF NoLayer, Created
<1>6. worth \in Nat
  <2> DEFINE a == job[p].qty
             b == job[p].cost
  <2>1. a \in Nat /\ b \in Nat
    BY <1>3
  <2> HIDE DEF a, b
  <2>2. a * b \in Nat
    BY <2>1
  <2> QED BY <2>2 DEF a, b
<1> HIDE DEF worth
<1> DEFINE u == Units(layers)
           v == Value(layers)
           r == Received
           nu == Units(layers)'
           nv == Value(layers)'
           nr == Received'
<1>7. /\ u \in [Layer -> Int] /\ v \in [Layer -> Int] /\ r \in [Proc -> Int]
      /\ nu \in [Layer -> Int] /\ nv \in [Layer -> Int] /\ nr \in [Proc -> Int]
  <2>1. /\ Units(layers) \in [Layer -> Nat] /\ Value(layers) \in [Layer -> Nat]
        /\ Received \in [Proc -> Nat]
    BY <1>2, AccountsTyped
  <2>2. IssueTypeOK' => (/\ Units(layers) \in [Layer -> Nat] /\ Value(layers) \in [Layer -> Nat]
                         /\ Received \in [Proc -> Nat])'
    <3>1. IssueTypeOK => (/\ Units(layers) \in [Layer -> Nat] /\ Value(layers) \in [Layer -> Nat]
                          /\ Received \in [Proc -> Nat])
      BY AccountsTyped
    <3>2. ASSUME IssueTypeOK', NEW l \in Layer
          PROVE  /\ layers'[l].left \in Nat /\ layers'[l].left * layers'[l].cost \in Nat
                 /\ layers'[l].total * layers'[l].cost \in Nat
      <4>1. layers'[l] \in LayerRow
        BY <3>2 DEF IssueTypeOK
      <4>2. layers'[l].left \in Nat /\ layers'[l].cost \in Nat /\ layers'[l].total \in Nat
        BY <4>1 DEF LayerRow
      <4> QED BY <4>2
    <3> QED BY <3>2, <1>1 DEF Units, Value, Received, Layer
  <2> QED BY <2>1, <2>2, <1>2
<1>8. /\ u[p] = 0 /\ nu[p] = job[p].qty /\ v[p] = 0 /\ nv[p] = worth /\ r[p] = 0 /\ nr[p] = worth
      /\ \A l \in Layer \ {p} : nu[l] = u[l] /\ nv[l] = v[l]
      /\ \A q \in Proc \ {p} : nr[q] = r[q]
  <2>1. u[p] = 0 /\ nu[p] = job[p].qty
    BY <1>1, <1>3, <1>5 DEF Units
  <2>2. v[p] = 0 /\ nv[p] = worth
    BY <1>1, <1>3, <1>5 DEF Value, worth
  <2>3. r[p] = 0 /\ nr[p] = worth
    BY <1>3, <1>5 DEF Received, worth
  <2>4. \A l \in Layer \ {p} : nu[l] = u[l] /\ nv[l] = v[l]
    BY <1>1, <1>4 DEF Units, Value
  <2>5. \A q \in Proc \ {p} : nr[q] = r[q]
    BY <1>4 DEF Received, Layer
  <2> QED BY <2>1, <2>2, <2>3, <2>4, <2>5
<1> HIDE DEF u, v, r, nu, nv, nr
<1>9. Total(nu) = Total(u) - u[p] + nu[p] /\ Total(u) \in Int
  <2>1. \A x \in Layer : (\A y \in Layer \ {x} : nu[y] = u[y]) =>
          Total(nu) = Total(u) - u[x] + nu[x]
    BY <1>7, TotalChanged, FiniteLayers
  <2>2. Total(u) \in Int
    BY <1>7, TotalInt, FiniteLayers
  <2> QED BY <2>1, <2>2, <1>3, <1>8
<1>10. Total(nv) = Total(v) - v[p] + nv[p] /\ Total(v) \in Int
  <2>1. \A x \in Layer : (\A y \in Layer \ {x} : nv[y] = v[y]) =>
          Total(nv) = Total(v) - v[x] + nv[x]
    BY <1>7, TotalChanged, FiniteLayers
  <2>2. Total(v) \in Int
    BY <1>7, TotalInt, FiniteLayers
  <2> QED BY <2>1, <2>2, <1>3, <1>8
<1>11. Total(nr) = Total(r) - r[p] + nr[p] /\ Total(r) \in Int
  <2>1. \A x \in Proc : (\A y \in Proc \ {x} : nr[y] = r[y]) =>
          Total(nr) = Total(r) - r[x] + nr[x]
    BY <1>7, TotalChanged, ProcAssumption
  <2>2. Total(r) \in Int
    BY <1>7, TotalInt, ProcAssumption
  <2> QED BY <2>1, <2>2, <1>8
<1>12. Total(nu) = Total(u) + job[p].qty
  BY <1>3, <1>8, <1>9
<1>13. Total(nv) - Total(v) = Total(nr) - Total(r)
  BY <1>6, <1>8, <1>10, <1>11
<1>14. TakenCost(p) = 0
  <2> DEFINE c == [l \in Layer |-> tx[p].taken[l] * layers[l].cost]
  <2>1. ASSUME NEW l \in Layer PROVE c[l] = 0
    <3>1. tx[p].taken[l] = 0 /\ layers[l].cost \in Nat
      BY <1>1, <1>2, LayerTyped DEF Nought
    <3> QED BY <3>1
  <2>2. c \in [Layer -> Int] /\ Nought(c)
    BY <2>1 DEF Nought
  <2>3. Total(c) = 0
    <3> HIDE DEF c
    <3> QED BY <2>2, TotalNought, FiniteLayers
  <2> QED BY <2>3 DEF TakenCost
<1> QED BY <1>12, <1>13, <1>14 DEF u, v, r, nu, nv, nr

LEMMA CommitConserved ==
    ASSUME IssueInv, NEW p \in Proc, Commit(p) PROVE CostConserved'
<1>1. /\ outcome[p] = "none" /\ tx[p].delta \in [Row -> Int]
      /\ quantity' = [r \in Row |-> quantity[r] + tx[p].delta[r]]
      /\ cogs' = [cogs EXCEPT ![p] = tx[p].cogs]
      /\ short' = [short EXCEPT ![p] = tx[p].short]
  BY CommitFacts
<1>2. Own(p) /\ IssueTypeOK /\ IssueTypeOK' /\ CostConserved
  BY CommitTyped DEF IssueInv
<1>3. tx[p].cogs \in Nat /\ tx[p].short \in Nat /\ job[p].qty \in Nat
  BY <1>2, TxTyped
<1> DEFINE Q == Total(quantity)
           U == Total(Units(layers))
           V == Total(Value(layers))
           R == Total(Received)
           C == Total(cogs)
           H == Total(short)
           OQ == Total(OpeningRows)
           OU == Total(Units(OpeningLayers))
           OV == Total(Value(OpeningLayers))
           d == Total(tx[p].delta)
           k == Total(tx[p].taken)
           h == tx[p].short
           c == tx[p].cogs
           w == TakenCost(p)
           n == job[p].qty
<1>4. Total(quantity') = Q + d /\ Q \in Int /\ d \in Int
  <2> DEFINE f == quantity
             g == tx[p].delta
             f1 == quantity'
  <2>1. f \in [Row -> Int] /\ g \in [Row -> Int] /\ f1 \in [Row -> Int]
        /\ \A r \in Row : f1[r] = f[r] + g[r]
    BY <1>1, <1>2 DEF IssueTypeOK
  <2>0. IsFiniteSet(Row)
    BY RowAssumption
  <2> HIDE DEF f, g, f1
  <2>2. Total(f1) = Total(f) + Total(g)
    BY <2>0, <2>1, TotalAdds
  <2>3. Total(f) \in Int
    BY <2>0, <2>1, TotalInt
  <2>4. Total(g) \in Int
    BY <2>0, <2>1, TotalInt
  <2> QED BY <2>2, <2>3, <2>4 DEF f, g, f1
<1>5. Total(cogs') = C + c /\ C \in Nat
  <2> DEFINE f == cogs
  <2>1. f \in [Proc -> Nat] /\ f[p] = 0 /\ cogs' = [f EXCEPT ![p] = c] /\ c \in Nat
    BY <1>1, <1>2, <1>3 DEF IssueTypeOK, Own, BooksOK
  <2> HIDE DEF f, c
  <2>2. Total([f EXCEPT ![p] = c]) = Total(f) + c /\ Total(f) \in Nat
    BY <2>1, TotalPosted
  <2> QED BY <2>1, <2>2 DEF f
<1>6. Total(short') = H + h /\ H \in Nat
  <2> DEFINE f == short
  <2>1. f \in [Proc -> Nat] /\ f[p] = 0 /\ short' = [f EXCEPT ![p] = h] /\ h \in Nat
    BY <1>1, <1>2, <1>3 DEF IssueTypeOK, Own, BooksOK
  <2> HIDE DEF f, h
  <2>2. Total([f EXCEPT ![p] = h]) = Total(f) + h /\ Total(f) \in Nat
    BY <2>1, TotalPosted
  <2> QED BY <2>1, <2>2 DEF f
<1>7. U \in Int /\ V \in Int /\ R \in Int
  <2> DEFINE u == Units(layers)
             v == Value(layers)
             r == Received
  <2>1. u \in [Layer -> Int] /\ v \in [Layer -> Int] /\ r \in [Proc -> Int]
    BY <1>2, AccountsTyped
  <2> HIDE DEF u, v, r
  <2>2. Total(u) \in Int
    BY <2>1, TotalInt, FiniteLayers
  <2>3. Total(v) \in Int
    BY <2>1, TotalInt, FiniteLayers
  <2>4. Total(r) \in Int
    BY <2>1, TotalInt, ProcAssumption
  <2> QED BY <2>2, <2>3, <2>4 DEF u, v, r
<1>8. OQ \in Int /\ OU \in Int /\ OV \in Int
  <2>1. /\ OpeningRows \in [Row -> Int] /\ Units(OpeningLayers) \in [OldLayer -> Int]
        /\ Value(OpeningLayers) \in [OldLayer -> Int]
    <3>1. ASSUME NEW l \in OldLayer
          PROVE  /\ OpeningLayers[l].left \in Int
                 /\ OpeningLayers[l].left * OpeningLayers[l].cost \in Int
      <4>1. OpeningLayers[l].left \in Int /\ OpeningLayers[l].cost \in Int
        <5>1. OpeningLayers[l] \in LayerRow
          BY LayerAssumption
        <5> QED BY <5>1 DEF LayerRow
      <4> QED BY <4>1
    <3> QED BY <3>1, RowAssumption, LayerAssumption DEF Units, Value
  <2> DEFINE u == Units(OpeningLayers)
             v == Value(OpeningLayers)
  <2>2. u \in [OldLayer -> Int] /\ v \in [OldLayer -> Int]
    BY <2>1
  <2> HIDE DEF u, v
  <2>3. Total(OpeningRows) \in Int
    BY <2>1, TotalInt, RowAssumption
  <2>4. Total(u) \in Int
    BY <2>2, TotalInt, ProcAssumption
  <2>5. Total(v) \in Int
    BY <2>2, TotalInt, ProcAssumption
  <2> QED BY <2>3, <2>4, <2>5 DEF u, v
<1>9. U - Q = OU - OQ + H /\ C + V = OV + R + StdCost * H
  BY <1>2 DEF CostConserved
<1>10. k \in Nat /\ h \in Nat /\ StdCost \in Nat /\ StdCost * H \in Int
       /\ (~New(p) => d + k + h = 0) /\ (New(p) => d = n /\ h = 0)
  <2>1. k \in Nat /\ h \in Nat /\ StdCost \in Nat
        /\ (~New(p) => d + k + h = 0) /\ (New(p) => d = n /\ h = 0)
    BY CommitMoves, LayerAssumption
  <2> HIDE DEF H
  <2>2. StdCost * H \in Int
    BY <2>1, <1>6
  <2> QED BY <2>1, <2>2
<1>11. c = w + StdCost * h
  BY <1>2 DEF Own, LayersOK
<1> DEFINE NU == Total(Units(layers)')
           NV == Total(Value(layers)')
           NR == Total(Received')
           x == StdCost * H
           y == StdCost * h
<1>12. StdCost * (H + h) = x + y /\ x \in Int /\ y \in Int
  <2>1. StdCost \in Int /\ H \in Int /\ h \in Int
    BY <1>6, <1>10
  <2> HIDE DEF H, h
  <2>2. StdCost * (H + h) = StdCost * H + StdCost * h
        /\ StdCost * H \in Int /\ StdCost * h \in Int
    BY <2>1
  <2> QED BY <2>2
<1>13. CASE ~New(p)
  <2>1. U = NU + k /\ V = NV + w /\ NR = R /\ w \in Int
    BY <1>13, CommitTakes
  <2>2. NU \in Int /\ NV \in Int
    <3>1. NU \in Int
      <4>1. Units(layers)' \in [Layer -> Int]
        BY <1>2 DEF IssueTypeOK, LayerRow, Units
      <4> DEFINE f == Units(layers)'
      <4>2. f \in [Layer -> Int]
        BY <4>1
      <4> HIDE DEF f
      <4>3. Total(f) \in Int
        BY <4>2, TotalInt, FiniteLayers
      <4> QED BY <4>3 DEF f
    <3>2. NV \in Int
      <4>1. ASSUME NEW l \in Layer PROVE layers'[l].left * layers'[l].cost \in Int
        <5>1. layers'[l].left \in Int /\ layers'[l].cost \in Int
          BY <1>2 DEF IssueTypeOK, LayerRow
        <5> QED BY <5>1
      <4> DEFINE f == Value(layers)'
      <4>2. f \in [Layer -> Int]
        BY <4>1, <1>2 DEF IssueTypeOK, Value
      <4> HIDE DEF f
      <4>3. Total(f) \in Int
        BY <4>2, TotalInt, FiniteLayers
      <4> QED BY <4>3 DEF f
    <3> QED BY <3>1, <3>2
  <2>3. NU - (Q + d) = OU - OQ + (H + h) /\ (C + c) + NV = OV + NR + (x + y)
    <3>1. d + k + h = 0 /\ c = w + y /\ U - Q = OU - OQ + H /\ C + V = OV + R + x
      BY <1>9, <1>10, <1>11, <1>13
    <3> HIDE DEF Q, U, V, R, C, H, OQ, OU, OV, d, k, h, c, w, n, NU, NV, NR, x, y
    <3> QED BY <3>1, <2>1, <2>2, <1>4, <1>5, <1>6, <1>7, <1>8, <1>10, <1>12
  <2> QED BY <2>3, <1>4, <1>5, <1>6, <1>12, CommitRows DEF CostConserved
<1>14. CASE New(p)
  <2>1. NU = U + n /\ NV - V = NR - R /\ w = 0
    BY <1>14, CommitCreates
  <2>2. NU \in Int /\ NV \in Int /\ NR \in Int
    <3>1. NU \in Int
      BY <2>1, <1>3, <1>7
    <3> DEFINE f == Value(layers)'
               g == Received'
    <3>2. ASSUME NEW l \in Layer
          PROVE  /\ layers'[l].left * layers'[l].cost \in Int
                 /\ layers'[l].total * layers'[l].cost \in Int
      <4>1. layers'[l].left \in Int /\ layers'[l].cost \in Int /\ layers'[l].total \in Int
        BY <1>2 DEF IssueTypeOK, LayerRow
      <4> QED BY <4>1
    <3>3. f \in [Layer -> Int] /\ g \in [Proc -> Int]
      BY <3>2, <1>2 DEF IssueTypeOK, Value, Received, Layer
    <3> HIDE DEF f, g
    <3>4. Total(f) \in Int
      BY <3>3, TotalInt, FiniteLayers
    <3>5. Total(g) \in Int
      BY <3>3, TotalInt, ProcAssumption
    <3> QED BY <3>1, <3>4, <3>5 DEF f, g
  <2>3. NU - (Q + d) = OU - OQ + (H + h) /\ (C + c) + NV = OV + NR + (x + y)
    <3>1. d = n /\ h = 0 /\ c = w + y /\ U - Q = OU - OQ + H /\ C + V = OV + R + x /\ n \in Int
      BY <1>3, <1>9, <1>10, <1>11, <1>14
    <3> HIDE DEF Q, U, V, R, C, H, OQ, OU, OV, d, k, h, c, w, n, NU, NV, NR, x, y
    <3> QED BY <3>1, <2>1, <2>2, <1>4, <1>5, <1>6, <1>7, <1>8, <1>10, <1>12
  <2> QED BY <2>3, <1>4, <1>5, <1>6, <1>12, CommitRows DEF CostConserved
<1> QED BY <1>13, <1>14

LEMMA CommitSafe ==
    ASSUME IssueInv, NEW p \in Proc, Commit(p) PROVE IssueInv'
<1>1. \A q \in Proc : Own(q)'
  BY CommitOwn, CommitOthers
<1> QED BY <1>1, CommitTyped, CommitOwn, CommitConserved DEF IssueInv

-----------------------------------------------------------------------------
(* The invariant holds at the start and is kept by every step.             *)

LEMMA NothingTotals ==
    ASSUME NEW S, IsFiniteSet(S) PROVE Total([x \in S |-> 0]) = 0
<1> DEFINE z == [x \in S |-> 0]
<1>1. z \in [S -> Int] /\ Nought(z)
  BY DEF Nought
<1> HIDE DEF z
<1>2. Total(z) = 0
  BY <1>1, TotalNought
<1> QED BY <1>2 DEF z

LEMMA InitTyped == IssueInit => IssueTypeOK
<1> SUFFICES ASSUME IssueInit PROVE IssueTypeOK
  OBVIOUS
<1>1. NoJob \in Job
  <2>1. (CHOOSE r \in Row : TRUE) \in Row
    BY RowAssumption
  <2> QED BY <2>1 DEF NoJob, Job
<1>2. layers \in [Layer -> LayerRow]
  <2>1. NoLayer \in LayerRow
    BY DEF NoLayer, LayerRow
  <2> QED BY <2>1, LayerAssumption DEF IssueInit
<1>3. /\ quantity \in [Row -> Nat] /\ used \subseteq Key
      /\ posted \in [Proc -> [Row -> Int]] /\ cogs \in [Proc -> Nat] /\ short \in [Proc -> Nat]
      /\ rowLock \in [Row -> Proc \cup {NoProc}] /\ layerLock \in [Layer -> Proc \cup {NoProc}]
      /\ pc \in [Proc -> Statement \cup {"idle", "done"}]
      /\ outcome \in [Proc -> {"none", "applied", "duplicate", "rejected", "failed"}]
  BY RowAssumption DEF IssueInit
<1>4. job \in [Proc -> Job] /\ tx \in [Proc -> TxRow]
  BY <1>1, FreshFacts DEF IssueInit
<1> QED BY <1>2, <1>3, <1>4 DEF IssueTypeOK

LEMMA InitConserved == IssueInit => CostConserved
<1> SUFFICES ASSUME IssueInit PROVE CostConserved
  OBVIOUS
<1>1. IssueTypeOK
  BY InitTyped
<1>2. /\ quantity = OpeningRows /\ cogs = [p \in Proc |-> 0] /\ short = [p \in Proc |-> 0]
      /\ layers = [l \in Layer |-> IF l \in OldLayer THEN OpeningLayers[l] ELSE NoLayer]
      /\ \A p \in Proc, r \in Row : posted[p][r] = 0
  BY DEF IssueInit
<1>3. RowsAddUp
  <2>1. ASSUME NEW r \in Row
        PROVE  /\ quantity[r] = OpeningRows[r] + Total([p \in Proc |-> posted[p][r]])
               /\ quantity[r] >= ReservedOf[r]
    <3>1. [p \in Proc |-> posted[p][r]] = [p \in Proc |-> 0]
      BY <1>2
    <3>2. Total([p \in Proc |-> posted[p][r]]) = 0
      BY <3>1, NothingTotals, ProcAssumption
    <3> QED BY <3>2, <1>2, RowAssumption
  <2> QED BY <2>1 DEF RowsAddUp
<1>4. Total(cogs) = 0 /\ Total(short) = 0
  BY <1>2, NothingTotals, ProcAssumption
<1>5. Total(Received) = 0
  <2>1. ASSUME NEW p \in Proc PROVE layers[p].total * layers[p].cost = 0
    <3>1. p \in Layer /\ p \notin OldLayer
      BY ProcAssumption DEF Layer
    <3>2. layers[p] = NoLayer
      BY <3>1, <1>2
    <3>3. layers[p].total = 0 /\ layers[p].cost = 0
      BY <3>2 DEF NoLayer
    <3> QED BY <3>3
  <2>2. Received = [p \in Proc |-> 0]
    BY <2>1 DEF Received
  <2> QED BY <2>2, NothingTotals, ProcAssumption
<1> DEFINE u == Units(layers)
           v == Value(layers)
           ou == Units(OpeningLayers)
           ov == Value(OpeningLayers)
<1>6. /\ OldLayer \in SUBSET Layer
      /\ \A l \in OldLayer : layers[l] = OpeningLayers[l]
      /\ \A l \in Layer \ OldLayer : layers[l] = NoLayer
      /\ DOMAIN layers = Layer /\ DOMAIN OpeningLayers = OldLayer
  BY <1>2, LayerAssumption DEF Layer
<1>7. u \in [Layer -> Int] /\ v \in [Layer -> Int]
  BY <1>1, AccountsTyped
<1>8. /\ \A l \in OldLayer : u[l] = ou[l] /\ v[l] = ov[l]
      /\ \A l \in Layer \ OldLayer : u[l] = 0 /\ v[l] = 0
  <2>1. ASSUME NEW l \in OldLayer PROVE u[l] = ou[l] /\ v[l] = ov[l]
    BY <1>6 DEF Units, Value
  <2>2. ASSUME NEW l \in Layer \ OldLayer PROVE u[l] = 0 /\ v[l] = 0
    <3>1. layers[l].left = 0 /\ layers[l].cost = 0
      BY <1>6 DEF NoLayer
    <3> QED BY <3>1, <1>6 DEF Units, Value
  <2> QED BY <2>1, <2>2
<1>9. ou \in [OldLayer -> Int] /\ ov \in [OldLayer -> Int]
  <2>1. ASSUME NEW l \in OldLayer
        PROVE  /\ OpeningLayers[l].left \in Int
               /\ OpeningLayers[l].left * OpeningLayers[l].cost \in Int
    <3>1. u[l] = OpeningLayers[l].left
      BY <1>6 DEF Units
    <3>2. v[l] = OpeningLayers[l].left * OpeningLayers[l].cost
      BY <1>6 DEF Value
    <3> QED BY <3>1, <3>2, <1>6, <1>7
  <2> QED BY <2>1, <1>6 DEF Units, Value
<1> HIDE DEF u, v, ou, ov
<1>10. Total(u) = Total(ou) /\ Total(ou) \in Int
  BY <1>6, <1>7, <1>8, <1>9, FiniteLayers, TotalOverPart
<1>11. Total(v) = Total(ov) /\ Total(ov) \in Int
  BY <1>6, <1>7, <1>8, <1>9, FiniteLayers, TotalOverPart
<1>12. Total(OpeningRows) \in Int
  <2>1. OpeningRows \in [Row -> Int] /\ IsFiniteSet(Row)
    BY RowAssumption
  <2> QED BY <2>1, TotalInt
<1>13. Total(u) - Total(quantity) = Total(ou) - Total(OpeningRows) + Total(short)
  BY <1>2, <1>4, <1>10, <1>12
<1>14. Total(cogs) + Total(v) = Total(ov) + Total(Received) + StdCost * Total(short)
  <2>1. StdCost * Total(short) = 0
    BY <1>4, LayerAssumption
  <2> QED BY <2>1, <1>4, <1>5, <1>11
<1> QED BY <1>3, <1>13, <1>14 DEF CostConserved, u, v, ou, ov

LEMMA InitSafe == IssueInit => IssueInv
<1> SUFFICES ASSUME IssueInit PROVE IssueInv
  OBVIOUS
<1>1. IssueTypeOK /\ CostConserved
  BY InitTyped, InitConserved
<1>2. ASSUME NEW p \in Proc PROVE Own(p)
  <2>1. /\ pc[p] = "idle" /\ tx[p] = Fresh /\ outcome[p] = "none" /\ cogs[p] = 0 /\ short[p] = 0
        /\ \A r \in Row : posted[p][r] = 0 /\ rowLock[r] # p
        /\ \A l \in Layer : layerLock[l] # p
        /\ DOMAIN posted[p] = Row /\ layers[p] = NoLayer
    BY ProcAssumption DEF IssueInit, Layer
  <2>2. PlaceOK(p)
    BY <2>1 DEF PlaceOK, Resting
  <2>3. QtyOK(p)
    BY <2>1, FreshFacts, NothingDone DEF QtyOK, Resting
  <2>4. RowsOK(p)
    BY <2>1, FreshFacts DEF RowsOK
  <2>5. KeyOK(p)
    BY <2>1, FreshFacts DEF KeyOK
  <2>6. LayersOK(p)
    <3> DEFINE cost == [l \in Layer |-> tx[p].taken[l] * layers[l].cost]
    <3>1. cost = [l \in Layer |-> 0]
      <4>1. ASSUME NEW l \in Layer PROVE cost[l] = 0
        <5>1. tx[p].taken[l] = 0 /\ layers[l].cost \in Nat
          BY <1>1, <2>1, FreshFacts, LayerTyped
        <5> QED BY <5>1
      <4> QED BY <4>1
    <3>2. TakenCost(p) = 0
      BY <3>1, NothingTotals, FiniteLayers DEF TakenCost
    <3>3. StdCost * 0 = 0
      BY LayerAssumption
    <3> QED BY <2>1, <3>2, <3>3, FreshFacts, NothingDone DEF LayersOK
  <2>7. BooksOK(p)
    BY <2>1 DEF BooksOK, Nought
  <2>8. LocksOK(p)
    BY <2>1, FreshFacts DEF LocksOK, Resting
  <2> QED BY <2>2, <2>3, <2>4, <2>5, <2>6, <2>7, <2>8 DEF Own
<1>3. OneBooks
  BY FreshFacts DEF IssueInit, OneBooks
<1>4. UsedOnce
  BY DEF IssueInit, UsedOnce
<1> QED BY <1>1, <1>2, <1>3, <1>4 DEF IssueInv

LEMMA StutterSafe == ASSUME IssueInv, UNCHANGED issues PROVE IssueInv'
<1>1. UNCHANGED stored /\ UNCHANGED <<quantity, layers, used, posted, cogs, short>>
      /\ UNCHANGED <<rowLock, layerLock, pc, job, tx, outcome>>
  BY DEF issues, stored, locks
<1>2. IssueTypeOK'
  BY <1>1 DEF IssueInv, IssueTypeOK
<1>3. \A q \in Proc : Untouched(q)
  BY <1>1 DEF Untouched
<1>4. \A q \in Proc : Own(q)'
  BY <1>1, <1>2, <1>3, OthersKept
<1>5. OneBooks' /\ UsedOnce'
  BY <1>1 DEF IssueInv, OneBooks, UsedOnce
<1>6. CostConserved'
  BY <1>1, ConservedKept DEF IssueInv
<1> QED BY <1>2, <1>4, <1>5, <1>6 DEF IssueInv

LEMMA IssueInvKept == IssueInv /\ [IssueNext]_issues => IssueInv'
<1> SUFFICES ASSUME IssueInv, [IssueNext]_issues PROVE IssueInv'
  OBVIOUS
<1>1. CASE UNCHANGED issues
  BY <1>1, StutterSafe
<1>2. CASE IssueNext
  <2>1. PICK p \in Proc : Begin(p) \/ RefuseKeyless(p) \/ Step(p) \/ Rollback(p)
    BY <1>2 DEF IssueNext
  <2>2. CASE Begin(p)
    BY <2>2, BeginSafe
  <2>3. CASE RefuseKeyless(p)
    BY <2>3, RefuseKeylessSafe
  <2>4. CASE Candidates(p)
    BY <2>4, CandidatesSafe
  <2>5. CASE LockRow(p)
    BY <2>5, LockRowSafe DEF LockRow
  <2>6. CASE Check(p)
    BY <2>6, CheckSafe
  <2>7. CASE Lookup(p)
    BY <2>7, SkipSafe, LookupSafe
  <2>8. CASE LockItem(p)
    BY <2>8, LockItemSafe
  <2>9. CASE Write(p)
    BY <2>9, WriteSafe
  <2>10. CASE Refuse(p)
    BY <2>10, RefuseSafe
  <2>11. CASE ChooseLayers(p)
    BY <2>11, ChooseLayersSafe
  <2>12. CASE LockLayer(p)
    BY <2>12, LockLayerSafe
  <2>13. CASE Consume(p)
    BY <2>13, ConsumeSafe
  <2>14. CASE Commit(p)
    BY <2>14, CommitSafe
  <2>15. CASE Rollback(p)
    BY <2>15, RollbackSafe
  <2> QED BY <2>1, <2>2, <2>3, <2>4, <2>5, <2>6, <2>7, <2>8, <2>9, <2>10, <2>11, <2>12, <2>13,
             <2>14, <2>15 DEF Step
<1> QED BY <1>1, <1>2

LEMMA IssueInvHolds == IssueSpec => []IssueInv
<1>1. IssueInit => IssueInv
  BY InitSafe
<1>2. IssueInv /\ [IssueNext]_issues => IssueInv'
  BY IssueInvKept
<1> QED BY <1>1, <1>2, PTL DEF IssueSpec
-----------------------------------------------------------------------------
(* ledger.go:455-457: the requests of a circle are not all waiting for     *)
(* rows and keys, unless two of the rows are tied.                         *)

LEMMA LastExists ==
    ASSUME NEW S \in SUBSET Row, S # {} PROVE \E r \in S : \A s \in S : Place[s] <= Place[r]
<1> DEFINE Good == {T \in SUBSET S : T # {} => \E r \in T : \A s \in T : Place[s] <= Place[r]}
<1>1. ASSUME NEW T \in SUBSET S, \A x \in T : T \ {x} \in Good PROVE T \in Good
  <2> SUFFICES ASSUME T # {} PROVE \E r \in T : \A s \in T : Place[s] <= Place[r]
    OBVIOUS
  <2>1. PICK x \in T : TRUE
    OBVIOUS
  <2>0. Place[x] \in Nat /\ \A s \in T : Place[s] \in Nat
    BY RowAssumption
  <2>2. CASE T \ {x} = {}
    <3>1. \A s \in T : s = x
      BY <2>2
    <3> QED BY <2>0, <3>1
  <2>3. CASE T \ {x} # {}
    <3>1. PICK r \in T \ {x} : \A s \in T \ {x} : Place[s] <= Place[r]
      BY <1>1, <2>3
    <3>2. CASE Place[x] <= Place[r]
      <4>1. \A s \in T : Place[s] <= Place[r]
        BY <3>1, <3>2
      <4> QED BY <4>1
    <3>3. CASE ~(Place[x] <= Place[r])
      <4>1. \A s \in T : Place[s] <= Place[x]
        BY <2>0, <3>1, <3>3
      <4> QED BY <4>1
    <3> QED BY <3>2, <3>3
  <2> QED BY <2>2, <2>3
<1>2. Good \in SUBSET (SUBSET S) /\ IsFiniteSet(S)
  BY RowAssumption, FS_Subset
<1>3. S \in Good
  <2> HIDE DEF Good
  <2> QED BY <1>1, <1>2, FiniteInduction
<1> QED BY <1>3

(* A request that waits anywhere but for a layer has not used its key, so  *)
(* it holds no layer and no other request waits for its key.               *)
LEMMA WaiterHolds ==
    ASSUME IssueInv, NEW p \in Proc, NEW q \in Proc, WaitsFor(p, q), pc[p] # "hold"
    PROVE  /\ tx[p].key = "due" /\ \A l \in Layer : layerLock[l] # p
           /\ pc[p] \in {"lock", "row", "write"}
           /\ pc[p] = "row" => \A r \in Row : rowLock[r] # p
           /\ pc[p] = "write" => tx[q].key = "book"
<1>1. Own(p)
  BY DEF IssueInv
<1>2. pc[p] \in {"lock", "row", "write"}
  BY DEF WaitsFor
<1>3. tx[p].key = "due"
  BY <1>1, <1>2 DEF WaitsFor, KeyPending, KeyOf, Own, PlaceOK
<1> QED BY <1>1, <1>2, <1>3 DEF WaitsFor, KeyPending, Own, LocksOK, Resting

LEMMA CirclesHaveTies == IssueInv => OnlyTiesOrLayersDeadlock
<1> SUFFICES ASSUME IssueInv, NEW S \in SUBSET Proc, Deadlocked(S),
                    ~ \E p, q \in S : WaitsFor(p, q) /\ pc[p] = "hold" /\ pc[q] = "hold"
             PROVE  \E p \in S : WaitsForTied(p, S)
  BY DEF OnlyTiesOrLayersDeadlock
<1>1. /\ S # {}
      /\ \A p \in S : \E q \in S : WaitsFor(p, q)
      /\ \A p \in S : \E q \in S : WaitsFor(q, p)
  BY DEF Deadlocked
<1>2. ASSUME NEW p \in S, tx[p].key # "due" PROVE pc[p] = "hold"
  BY <1>1, <1>2, WaiterHolds
<1>3. ASSUME NEW p \in S PROVE pc[p] # "hold"
  <2> SUFFICES ASSUME pc[p] = "hold" PROVE FALSE
    OBVIOUS
  <2>1. PICK q \in S : WaitsFor(p, q)
    BY <1>1
  <2>2. PICK l \in Layer : layerLock[l] = q
    BY <2>1 DEF WaitsFor
  <2>3. tx[q].key # "due"
    BY <2>2 DEF IssueInv, Own, LocksOK
  <2> QED BY <1>2, <2>1, <2>3
<1>4. ASSUME NEW p \in S PROVE pc[p] = "lock"
  <2>1. PICK q \in S : WaitsFor(p, q)
    BY <1>1
  <2>2. PICK s \in S : WaitsFor(s, p)
    BY <1>1
  <2>3. pc[p] \in {"lock", "row", "write"} /\ tx[p].key = "due"
    BY <2>1, <1>3, WaiterHolds
  <2>4. pc[p] # "write"
    BY <2>1, <1>2, <1>3, WaiterHolds
  <2>5. pc[p] # "row"
    <3> SUFFICES ASSUME pc[p] = "row" PROVE FALSE
      OBVIOUS
    <3>1. \A r \in Row : rowLock[r] # p
      BY <2>1, <1>3, WaiterHolds
    <3>2. pc[s] = "row" => Source(s) \in Row
      BY TakeFacts
    <3>3. CASE pc[s] = "lock"
      BY <2>2, <3>1, <3>3 DEF WaitsFor
    <3>4. CASE pc[s] = "row"
      BY <2>2, <3>1, <3>2, <3>4 DEF WaitsFor
    <3>5. CASE pc[s] = "write"
      BY <2>2, <2>3, <3>5 DEF WaitsFor, KeyPending
    <3> QED BY <2>2, <1>3, <3>3, <3>4, <3>5 DEF WaitsFor
  <2> QED BY <2>3, <2>4, <2>5
<1> DEFINE H == {r \in Row : \E p \in S : First(p, tx[p].cand, r)}
<1>5. ASSUME NEW p \in S
      PROVE  \E r \in H, q \in S : First(p, tx[p].cand, r) /\ rowLock[r] = q
  <2>1. PICK q \in S : WaitsFor(p, q)
    BY <1>1
  <2>2. PICK r \in Row : First(p, tx[p].cand, r) /\ rowLock[r] = q
    BY <2>1, <1>4 DEF WaitsFor
  <2> QED BY <2>2
<1>6. H \in SUBSET Row /\ H # {}
  BY <1>1, <1>5
<1>7. PICK r \in H : \A s \in H : Place[s] <= Place[r]
  <2> HIDE DEF H
  <2> QED BY <1>6, LastExists
<1>8. PICK p \in S : First(p, tx[p].cand, r)
  OBVIOUS
<1>9. PICK h \in H : \E q \in S : First(p, tx[p].cand, h) /\ rowLock[h] = q
  BY <1>5
<1>10. PICK q \in S : First(p, tx[p].cand, h) /\ rowLock[h] = q
  BY <1>9
<1>11. PICK s \in H : \E x \in S : First(q, tx[q].cand, s) /\ rowLock[s] = x
  BY <1>5
<1>12. q \in S /\ q \in Proc /\ s \in tx[q].cand /\ First(q, tx[q].cand, s) /\ rowLock[s] \in S
       /\ s \in Row /\ h \in Row
  BY <1>10, <1>11 DEF First
<1>13. Rank[q][h] < Rank[q][s]
  BY <1>4, <1>10, <1>12 DEF IssueInv, Own, LocksOK
<1>14. h = r
  <2>1. r \in tx[p].cand /\ h \in tx[p].cand /\ Rank[p][r] <= Rank[p][h] /\ Rank[p][h] <= Rank[p][r]
    BY <1>8, <1>10 DEF First
  <2> QED BY <2>1, <1>12, RankFacts
<1>15. Place[s] <= Place[h] /\ Place[h] \in Nat /\ Place[s] \in Nat
  BY <1>7, <1>12, <1>14, RowAssumption
<1>16. ~(Place[s] < Place[h])
  BY <1>12, <1>13, RankFacts
<1>17. Place[h] = Place[s] /\ h # s
  BY <1>12, <1>13, <1>15, <1>16, RankFacts
<1> HIDE DEF H
<1>18. WaitsForTied(q, S)
  BY <1>4, <1>10, <1>12, <1>17 DEF WaitsForTied
<1> QED BY <1>12, <1>18
-----------------------------------------------------------------------------
(* Every variable keeps its type; no balance or layer goes below zero.     *)
THEOREM IssueTypeCorrect == IssueSpec => []IssueTypeOK
<1>1. IssueInv => IssueTypeOK
  BY DEF IssueInv
<1> QED BY <1>1, IssueInvHolds, PTL

LEMMA WholeFromInv == IssueInv => IssueWhole
<1> SUFFICES ASSUME IssueInv PROVE IssueWhole
  OBVIOUS
<1>1. UsedOnce /\ IssueTypeOK
  BY DEF IssueInv
<1>2. ASSUME NEW p \in Proc
      PROVE  CASE outcome[p] = "applied" -> Moved(p) = job[p].qty
               [] outcome[p] = "duplicate" ->
                    /\ Moved(p) < job[p].qty
                    /\ \E q \in Proc : q # p /\ job[q].key = job[p].key /\ outcome[q] = "applied"
               [] OTHER -> Moved(p) = 0
  <2>1. BooksOK(p)
    BY DEF IssueInv, Own
  <2>2. CASE outcome[p] = "applied"
    BY <2>1, <2>2 DEF BooksOK
  <2>3. CASE outcome[p] = "duplicate"
    <3>1. Moved(p) < job[p].qty /\ job[p].key \in used
      BY <2>1, <2>3 DEF BooksOK
    <3>2. PICK q \in Proc : job[q].key = job[p].key /\ outcome[q] = "applied"
      BY <3>1, <1>1 DEF UsedOnce
    <3>3. q # p
      BY <2>3, <3>2
    <3> QED BY <2>3, <3>1, <3>2, <3>3
  <2>4. CASE outcome[p] \notin {"applied", "duplicate"}
    <3>1. Nought(posted[p]) /\ posted[p] \in [Row -> Int]
      BY <1>1, <2>1, <2>4 DEF BooksOK, IssueTypeOK
    <3> DEFINE f == posted[p]
    <3>2. Sizes(f) \in [Row -> Int] /\ Nought(Sizes(f))
      BY <3>1 DEF Sizes, Nought
    <3>3. Total(Sizes(f)) = 0
      <4> DEFINE g == Sizes(f)
      <4>1. g \in [Row -> Int] /\ Nought(g)
        BY <3>2
      <4> HIDE DEF g
      <4>2. Total(g) = 0
        BY <4>1, TotalNought, RowAssumption
      <4> QED BY <4>2 DEF g
    <3> QED BY <2>4, <3>3 DEF Moved
  <2> QED BY <2>2, <2>3, <2>4
<1> QED BY <1>1, <1>2 DEF UsedOnce, IssueWhole

(* ledger.go:458-459: an issue moves all it was asked for or nothing, from *)
(* however many rows, and a key is applied once.                           *)
THEOREM IssuesAreWhole == IssueSpec => []IssueWhole
<1>1. IssueInv => IssueWhole
  BY WholeFromInv
<1> QED BY <1>1, IssueInvHolds, PTL

(* ledger.go:380-386, 419-433: no unit is lost, costed twice or never.     *)
THEOREM CostsAreConserved == IssueSpec => []CostConserved
<1>1. IssueInv => CostConserved
  BY DEF IssueInv
<1> QED BY <1>1, IssueInvHolds, PTL

(* ledger.go:455-457: because issues lock their rows by expiry and age,    *)
(* the requests of a circle are not all waiting for rows and keys, unless  *)
(* one of them waits for a row that is tied with one it holds.             *)
THEOREM RowLocksAreOrdered == IssueSpec => []OnlyTiesOrLayersDeadlock
<1>1. IssueInv => OnlyTiesOrLayersDeadlock
  BY CirclesHaveTies
<1> QED BY <1>1, IssueInvHolds, PTL

-----------------------------------------------------------------------------
(* A request is answered in one step.                                      *)

(* The totals of IssueBook are those of StockIssue.                        *)
LEMMA BookTotal == \A f : Book!Total(f) = Total(f)
BY DEF Book!Total, Total, Book!SumFunctionOnSet, SumFunctionOnSet, Book!FoldFunctionOnSet,
       FoldFunctionOnSet, Book!MapThenFoldSet, MapThenFoldSet

(* What a COMMIT moves, in the words of IssueBook.                         *)
LEMMA CommitMovesRows ==
    ASSUME IssueInv, NEW p \in Proc, Commit(p)
    PROVE  /\ Book!MoveRows(p)
           /\ Book!Units(posted'[p]) = Total(Sizes(tx[p].delta))
           /\ posted'[p] = tx[p].delta
<1>1. /\ tx[p].delta \in [Row -> Int]
      /\ quantity' = [r \in Row |-> quantity[r] + tx[p].delta[r]]
      /\ \A r \in Row : quantity'[r] >= ReservedOf[r]
      /\ posted' = [posted EXCEPT ![p] = tx[p].delta]
  BY CommitFacts
<1>2. Own(p) /\ posted \in [Proc -> [Row -> Int]]
  BY DEF IssueInv, IssueTypeOK
<1>3. posted'[p] = tx[p].delta
  BY <1>1, <1>2
<1>4. \A r \in Row : IF job[p].kind = "receive" THEN tx[p].delta[r] >= 0 ELSE tx[p].delta[r] <= 0
  BY <1>2 DEF Own, RowsOK
<1>5. Book!OnlyAt(p, posted, posted')
  BY <1>1, <1>3 DEF Book!OnlyAt
<1>6. Book!Units(tx[p].delta) = Total(Sizes(tx[p].delta))
  BY BookTotal DEF Book!Units, Sizes
<1> QED BY <1>1, <1>3, <1>4, <1>5, <1>6 DEF Book!MoveRows

(* A COMMIT without a new layer draws on layers.                           *)
LEMMA CommitDrawsLayers ==
    ASSUME IssueInv, NEW p \in Proc, Commit(p), ~New(p)
    PROVE  Book!DrawLayers(p)
<1>1. /\ pc[p] = "commit" /\ tx[p].key \in {"none", "book", "dup"} /\ tx[p].owed = 0
      /\ tx[p].delta \in [Row -> Int] /\ tx[p].taken \in [Layer -> Nat]
      /\ \A l \in Layer : l # p \/ ~New(p) =>
           layers'[l] = [layers[l] EXCEPT !.left = layers[l].left - tx[p].taken[l]]
      /\ \A l \in Layer : layers[l].left - tx[p].taken[l] \in Nat
      /\ DOMAIN layers' = Layer
      /\ cogs' = [cogs EXCEPT ![p] = tx[p].cogs]
      /\ short' = [short EXCEPT ![p] = tx[p].short]
  BY CommitFacts
<1>2. Own(p) /\ IssueTypeOK
  BY DEF IssueInv
<1>3. /\ cogs'[p] = tx[p].cogs /\ short'[p] = tx[p].short
      /\ tx[p].short \in Nat
  BY <1>1, <1>2, TxTyped DEF IssueTypeOK
<1>4. ASSUME NEW l \in Layer
      PROVE  /\ layers'[l].left = layers[l].left - tx[p].taken[l]
             /\ layers[l].left \in Nat /\ layers'[l].left \in Nat /\ tx[p].taken[l] \in Nat
             /\ layers[l].left - layers'[l].left = tx[p].taken[l]
             /\ layers'[l] = [layers[l] EXCEPT !.left = layers'[l].left]
  <2>1. layers[l] \in LayerRow /\ layers[l].left \in Nat /\ tx[p].taken[l] \in Nat
    BY <1>1, <1>2, LayerTyped
  <2>2. layers'[l] = [layers[l] EXCEPT !.left = layers[l].left - tx[p].taken[l]]
        /\ layers[l].left - tx[p].taken[l] \in Nat
    BY <1>1
  <2>3. layers'[l].left = layers[l].left - tx[p].taken[l]
    BY <2>1, <2>2 DEF LayerRow
  <2>4. layers[l].left - layers'[l].left = tx[p].taken[l]
    BY <2>1, <2>3
  <2> QED BY <2>1, <2>2, <2>3, <2>4
<1> DEFINE taken == [l \in Layer |-> layers[l].left - layers'[l].left]
<1>5. taken = tx[p].taken
  BY <1>1, <1>4
<1>6. layers' = [l \in Layer |-> [layers[l] EXCEPT !.left = layers'[l].left]]
  <2>1. layers' = [l \in Layer |-> layers'[l]]
    BY DEF Commit
  <2> QED BY <2>1, <1>4
<1>7. Total(tx[p].taken) + tx[p].short = Total(Sizes(tx[p].delta))
  <2> DEFINE u == tx[p].taken
             e == Sizes(tx[p].delta)
  <2>1. u \in [Layer -> Nat] /\ e \in [Row -> Nat] /\ e \in [Row -> Int] /\ u \in [Layer -> Int]
    BY <1>1 DEF Sizes
  <2>2. Total(u) \in Nat
    <3> HIDE DEF u
    <3> QED BY <2>1, TotalNat, FiniteLayers
  <2>3. CASE job[p].kind # "receive"
    <3>1. Total(u) + tx[p].short + 0 = Total(e)
      BY <1>1, <1>2, <2>3 DEF Own, LayersOK
    <3> HIDE DEF u, e
    <3>2. Total(u) + tx[p].short = Total(e)
      BY <1>3, <2>2, <3>1
    <3> QED BY <3>2 DEF u, e
  <2>4. CASE job[p].kind = "receive"
    <3>1. Nought(u) /\ tx[p].short = 0 /\ Nought(tx[p].delta)
      BY <1>2, <2>4 DEF Own, LayersOK, QtyOK, New
    <3>2. Nought(e)
      BY <1>1, <3>1 DEF Sizes, Nought
    <3>3. Total(u) = 0
      <4> HIDE DEF u
      <4> QED BY <2>1, <3>1, TotalNought, FiniteLayers
    <3>4. Total(e) = 0
      <4> HIDE DEF e
      <4> QED BY <2>1, <3>2, TotalNought, RowAssumption
    <3> QED BY <3>1, <3>3, <3>4
  <2> QED BY <2>3, <2>4
<1>8. Total(taken) + short'[p] = Book!Units(posted'[p])
  <2>1. Book!Units(posted'[p]) = Total(Sizes(tx[p].delta))
    BY CommitMovesRows
  <2> HIDE DEF taken
  <2> QED BY <2>1, <1>3, <1>5, <1>7
<1>9. cogs'[p] = Total([l \in Layer |-> taken[l] * layers[l].cost]) + StdCost * short'[p]
  <2>1. tx[p].cogs = TakenCost(p) + StdCost * tx[p].short
    BY <1>2 DEF Own, LayersOK
  <2>2. TakenCost(p) = Total([l \in Layer |-> taken[l] * layers[l].cost])
    <3> HIDE DEF taken
    <3> QED BY <1>5 DEF TakenCost
  <2> HIDE DEF taken
  <2> QED BY <2>1, <2>2, <1>3
<1>10. /\ Total(taken) = Book!Total(taken)
       /\ Total([l \in Layer |-> taken[l] * layers[l].cost])
            = Book!Total([l \in Layer |-> taken[l] * layers[l].cost])
  BY BookTotal
<1>11. Book!OnlyAt(p, short, short') /\ Book!OnlyAt(p, cogs, cogs')
  BY <1>1, <1>3 DEF Book!OnlyAt
<1>12. \A l \in Layer : 0 <= layers'[l].left /\ layers'[l].left <= layers[l].left
  <2>1. ASSUME NEW l \in Layer PROVE 0 <= layers'[l].left /\ layers'[l].left <= layers[l].left
    <3> DEFINE a == layers[l].left
               b == layers'[l].left
               c == tx[p].taken[l]
    <3>1. b = a - c /\ a \in Nat /\ b \in Nat /\ c \in Nat
      BY <1>4
    <3> HIDE DEF a, b, c
    <3>2. 0 <= b /\ b <= a
      BY <3>1
    <3> QED BY <3>2 DEF a, b
  <2> QED BY <2>1
<1>13. /\ Book!Total(taken) + short'[p] = Book!Units(posted'[p])
       /\ cogs'[p] = Book!Total([l \in Layer |-> taken[l] * layers[l].cost]) + StdCost * short'[p]
  BY <1>8, <1>9, <1>10
<1>14. short'[p] >= 0
  BY <1>3
<1> QED BY <1>6, <1>11, <1>12, <1>13, <1>14 DEF Book!DrawLayers

(* A COMMIT with a new layer puts in what was received.                    *)
LEMMA CommitAddsLayer ==
    ASSUME IssueInv, NEW p \in Proc, Commit(p), New(p)
    PROVE  Book!NewLayer(p)
<1>1. /\ layers[p] = NoLayer /\ layers'[p] = Created(p)
      /\ DOMAIN layers' = Layer /\ DOMAIN layers = Layer
      /\ \A l \in Layer : l # p \/ ~New(p) =>
           layers'[l] = [layers[l] EXCEPT !.left = layers[l].left - tx[p].taken[l]]
      /\ tx[p].taken \in [Layer -> Nat] /\ Nought(tx[p].taken)
      /\ cogs' = [cogs EXCEPT ![p] = tx[p].cogs]
      /\ short' = [short EXCEPT ![p] = tx[p].short]
      /\ outcome[p] = "none"
  BY CommitFacts
<1>2. Own(p) /\ IssueTypeOK
  BY DEF IssueInv
<1>3. ASSUME NEW l \in Layer, l # p PROVE layers'[l] = layers[l]
  <2>1. PICK x \in LayerRow : x = layers[l]
    BY <1>2, LayerTyped
  <2>2. tx[p].taken[l] = 0
    BY <1>1 DEF Nought
  <2>3. layers'[l] = [x EXCEPT !.left = x.left - 0]
    BY <1>1, <1>3, <2>1, <2>2
  <2>4. [x EXCEPT !.left = x.left - 0] = x
    BY NothingTaken
  <2> QED BY <2>1, <2>3, <2>4
<1>4. layers' = [layers EXCEPT ![p] = layers'[p]]
  <2>1. layers' = [l \in Layer |-> layers'[l]] /\ layers = [l \in Layer |-> layers[l]]
    BY <1>2 DEF Commit, IssueTypeOK
  <2> QED BY <2>1, <1>3
<1>5. cogs' = cogs /\ short' = short
  <2>1. tx[p].short = 0 /\ Nought(tx[p].taken) /\ tx[p].cogs = TakenCost(p) + StdCost * tx[p].short
    BY <1>1, <1>2 DEF Own, LayersOK, New
  <2>2. TakenCost(p) = 0
    BY CommitCreates
  <2>3. tx[p].cogs = 0
    BY <2>1, <2>2, LayerAssumption
  <2>4. cogs[p] = 0 /\ short[p] = 0
    BY <1>1, <1>2 DEF Own, BooksOK
  <2> QED BY <1>1, <1>2, <2>1, <2>3, <2>4 DEF IssueTypeOK
<1> QED BY <1>1, <1>4, <1>5 DEF Book!NewLayer, Book!OnlyAt, NoLayer, Created

(* A COMMIT answers the request, with all that the answer says.            *)
LEMMA CommitAnswers ==
    ASSUME IssueInv, NEW p \in Proc, Commit(p)
    PROVE  Book!Apply(p) \/ Book!Repeat(p)
<1> DEFINE asked == {q \in Proc : pc[q] # "idle"}
<1>1. /\ pc[p] = "commit" /\ outcome[p] = "none"
      /\ tx[p].key \in {"none", "book", "dup"} /\ tx[p].owed = 0
      /\ used' = (IF tx[p].key = "book" THEN used \cup {job[p].key} ELSE used)
      /\ End(p, IF tx[p].key = "dup" THEN "duplicate" ELSE "applied")
  BY CommitFacts
<1>2. Own(p) /\ IssueTypeOK
  BY DEF IssueInv
<1>3. p \in asked /\ job' = job /\ pc' = [pc EXCEPT ![p] = "done"]
  BY <1>1 DEF End
<1>4. asked' = asked
  BY <1>1, <1>2, <1>3 DEF IssueTypeOK
<1>5. /\ Book!MoveRows(p)
      /\ Book!Units(posted'[p]) = Total(Sizes(tx[p].delta))
      /\ posted'[p] = tx[p].delta
  BY CommitMovesRows
<1>6. Total(Sizes(tx[p].delta)) \in Nat /\ job[p].qty \in Nat /\ tx[p].delta \in [Row -> Int]
  <2> DEFINE f == tx[p].delta
  <2>1. f \in [Row -> Int] /\ job[p].qty \in Nat
    BY <1>2, TxTyped
  <2> HIDE DEF f
  <2>2. Total(Sizes(f)) \in Nat
    BY <2>1, SizesType
  <2> QED BY <2>1, <2>2 DEF f
<1>7. CASE tx[p].key = "dup"
  <2>1. Total(Sizes(tx[p].delta)) + 0 < job[p].qty
    BY <1>1, <1>2, <1>7 DEF Own, QtyOK, Resting
  <2>2. Book!Units(posted'[p]) < job[p].qty
    BY <1>5, <1>6, <2>1
  <2>3. job[p].kind # "issue" => \A r \in Row : posted'[p][r] = 0
    BY <1>2, <1>5, <1>6, <1>7 DEF Own, QtyOK, Nought
  <2>4. Book!DrawLayers(p)
    BY <1>7, CommitDrawsLayers DEF New
  <2>5. job[p].key \in used /\ used' = used
    BY <1>1, <1>2, <1>7 DEF Own, KeyOK
  <2>6. outcome' = [outcome EXCEPT ![p] = "duplicate"]
    BY <1>1, <1>7 DEF End
  <2>7. Book!Repeat(p)
    BY <1>1, <1>3, <1>4, <1>5, <2>2, <2>3, <2>4, <2>5, <2>6 DEF Book!Repeat
  <2> QED BY <2>7
<1>8. CASE tx[p].key # "dup"
  <2>1. Total(Sizes(tx[p].delta)) + 0 = job[p].qty
    BY <1>1, <1>2, <1>8 DEF Own, QtyOK, Resting
  <2>2. Book!Units(posted'[p]) = job[p].qty
    BY <1>5, <1>6, <2>1
  <2>3. IF job[p].kind = "receive" THEN Book!NewLayer(p) ELSE Book!DrawLayers(p)
    BY <1>8, CommitAddsLayer, CommitDrawsLayers DEF New
  <2>4. job[p].key \notin used /\ used' = used \cup ({job[p].key} \ {NoKey})
    <3>1. CASE tx[p].key = "none"
      <4>1. job[p].key = NoKey /\ used' = used /\ used \subseteq Key
        BY <1>1, <1>2, <3>1 DEF Own, KeyOK, IssueTypeOK
      <4> QED BY <4>1, KeyAssumption
    <3>2. CASE tx[p].key = "book"
      <4>1. job[p].key \in Key /\ job[p].key \notin used /\ used' = used \cup {job[p].key}
        BY <1>1, <1>2, <3>2 DEF Own, KeyOK
      <4> QED BY <4>1, KeyAssumption
    <3> QED BY <1>1, <1>8, <3>1, <3>2
  <2>5. outcome' = [outcome EXCEPT ![p] = "applied"]
    BY <1>1, <1>8 DEF End
  <2>6. Book!Apply(p)
    BY <1>1, <1>3, <1>4, <1>5, <2>2, <2>3, <2>4, <2>5 DEF Book!Apply
  <2> QED BY <2>6
<1> QED BY <1>7, <1>8

(* A transaction that ends without a COMMIT.                               *)
LEMMA FailDeclines ==
    ASSUME IssueInv, NEW p \in Proc, NEW o \in {"rejected", "failed"}, pc[p] \notin Resting,
           Fail(p, o)
    PROVE  Book!Decline(p, o)
<1>1. UNCHANGED <<quantity, layers, used, posted, cogs, short, job>>
      /\ pc' = [pc EXCEPT ![p] = "done"] /\ outcome' = [outcome EXCEPT ![p] = o]
  BY DEF Fail, End, stored
<1>2. pc[p] # "idle" /\ outcome[p] = "none" /\ pc \in [Proc -> Statement \cup {"idle", "done"}]
  BY DEF IssueInv, Own, PlaceOK, Resting, IssueTypeOK
<1>3. {q \in Proc : pc'[q] # "idle"} = {q \in Proc : pc[q] # "idle"}
  BY <1>1, <1>2
<1> QED BY <1>1, <1>2, <1>3 DEF Book!Decline, Book!books

(* A request that is sent.                                                 *)
LEMMA BeginAsks ==
    ASSUME IssueTypeOK, NEW p \in Proc, Begin(p) \/ RefuseKeyless(p)
    PROVE  Book!Ask(p)
<1>1. /\ pc[p] = "idle" /\ UNCHANGED <<quantity, layers, used, posted, cogs, short>>
      /\ \E j \in Jobs : job' = [job EXCEPT ![p] = j]
      /\ \E s \in {"select", "lookup", "done"} : pc' = [pc EXCEPT ![p] = s]
      /\ outcome' \in {outcome, [outcome EXCEPT ![p] = "rejected"]}
  <2>1. CASE Begin(p)
    BY <2>1 DEF Begin, stored
  <2>2. CASE RefuseKeyless(p)
    BY <2>2 DEF RefuseKeyless, stored
  <2> QED BY <2>1, <2>2
<1>2. pc \in [Proc -> Statement \cup {"idle", "done"}] /\ job \in [Proc -> Job]
  BY DEF IssueTypeOK
<1>3. {q \in Proc : pc'[q] # "idle"} = {q \in Proc : pc[q] # "idle"} \cup {p}
  BY <1>1, <1>2
<1>4. job' = [job EXCEPT ![p] = job'[p]]
  BY <1>1, <1>2
<1> QED BY <1>1, <1>3, <1>4 DEF Book!Ask, Book!OnlyAt, Book!books

(* A statement inside a transaction is seen by nobody.                     *)
LEMMA StatementHidden ==
    ASSUME IssueTypeOK, NEW p \in Proc,
           \/ Candidates(p) \/ LockRow(p) \/ Check(p) \/ Lookup(p) \/ LockItem(p) \/ Write(p)
           \/ ChooseLayers(p) \/ LockLayer(p) \/ Consume(p)
    PROVE  UNCHANGED Book!vars
<1>1. /\ UNCHANGED <<quantity, layers, used, posted, cogs, short, job, outcome>>
      /\ pc[p] # "idle"
      /\ \E s \in Statement : pc' = [pc EXCEPT ![p] = s]
  <2>1. CASE Candidates(p)
    BY <2>1 DEF Candidates, Goto, stored, Statement
  <2>2. CASE LockRow(p)
    BY <2>2 DEF LockRow, Lock, Goto, stored, Statement
  <2>3. CASE Check(p)
    BY <2>3 DEF Check, Goto, stored, Statement
  <2>4. CASE Lookup(p)
    BY <2>4 DEF Lookup, After, Goto, stored, Statement
  <2>5. CASE LockItem(p)
    BY <2>5 DEF LockItem, Goto, stored, Statement
  <2>6. CASE Write(p)
    BY <2>6 DEF Write, Goto, stored, Statement
  <2>7. CASE ChooseLayers(p)
    BY <2>7 DEF ChooseLayers, Goto, stored, Statement
  <2>8. CASE LockLayer(p)
    BY <2>8 DEF LockLayer, Goto, stored, Statement
  <2>9. CASE Consume(p)
    BY <2>9 DEF Consume, After, Goto, stored, Statement
  <2> QED BY <2>1, <2>2, <2>3, <2>4, <2>5, <2>6, <2>7, <2>8, <2>9
<1>2. pc \in [Proc -> Statement \cup {"idle", "done"}]
  BY DEF IssueTypeOK
<1>3. {q \in Proc : pc'[q] # "idle"} = {q \in Proc : pc[q] # "idle"}
  BY <1>1, <1>2 DEF Statement
<1> QED BY <1>1, <1>3 DEF Book!vars, Book!books

LEMMA BookInit == IssueInit => Book!Init
<1> SUFFICES ASSUME IssueInit PROVE Book!Init
  OBVIOUS
<1>1. IssueTypeOK /\ CostConserved
  BY InitTyped, InitConserved
<1>2. \A r \in Row : quantity[r] >= ReservedOf[r]
  BY <1>1 DEF CostConserved, RowsAddUp
<1>3. \A l \in Layer : layers[l].left >= 0
  <2>1. ASSUME NEW l \in Layer PROVE layers[l].left >= 0
    BY <1>1, LayerTyped
  <2> QED BY <2>1
<1> QED BY <1>2, <1>3 DEF IssueInit, Book!Init

LEMMA BookStep == IssueInv /\ [IssueNext]_issues => [Book!Next]_(Book!vars)
<1> SUFFICES ASSUME IssueInv, [IssueNext]_issues PROVE Book!Next \/ UNCHANGED Book!vars
  OBVIOUS
<1>1. IssueTypeOK
  BY DEF IssueInv
<1>2. CASE UNCHANGED issues
  BY <1>2 DEF issues, stored, Book!vars, Book!books
<1>3. CASE IssueNext
  <2>1. PICK p \in Proc : Begin(p) \/ RefuseKeyless(p) \/ Step(p) \/ Rollback(p)
    BY <1>3 DEF IssueNext
  <2>2. CASE Begin(p) \/ RefuseKeyless(p)
    <3>1. Book!Ask(p)
      BY <1>1, <2>2, BeginAsks
    <3> QED BY <3>1 DEF Book!Next
  <2>3. CASE Refuse(p)
    <3>1. Book!Decline(p, "rejected")
      BY <2>3, FailDeclines DEF Refuse, Refused, Resting
    <3> QED BY <3>1 DEF Book!Next
  <2>4. CASE Rollback(p)
    <3>1. Book!Decline(p, "failed")
      BY <2>4, FailDeclines DEF Rollback, Resting
    <3> QED BY <3>1 DEF Book!Next
  <2>5. CASE Commit(p)
    <3>1. Book!Apply(p) \/ Book!Repeat(p)
      BY <2>5, CommitAnswers
    <3> QED BY <3>1 DEF Book!Next
  <2>6. CASE \/ Candidates(p) \/ LockRow(p) \/ Check(p) \/ Lookup(p) \/ LockItem(p) \/ Write(p)
             \/ ChooseLayers(p) \/ LockLayer(p) \/ Consume(p)
    BY <1>1, <2>6, StatementHidden
  <2> QED BY <2>1, <2>2, <2>3, <2>4, <2>5, <2>6 DEF Step
<1> QED BY <1>2, <1>3

(* ledger.go:64-66: however the statements of requests overlap, fail or    *)
(* die, what is visible of a request happens in one step that is its own:  *)
(* rows, movements, key, layers and cost change together, as its answer    *)
(* says, or not at all.                                                    *)
THEOREM IssuesAreAtomic == IssueSpec => ImplementsIssueBook
<1>1. IssueInit => Book!Init
  BY BookInit
<1>2. IssueInv /\ [IssueNext]_issues => [Book!Next]_(Book!vars)
  BY BookStep
<1> QED BY <1>1, <1>2, IssueInvHolds, PTL DEF IssueSpec, ImplementsIssueBook, Book!Spec
=============================================================================
