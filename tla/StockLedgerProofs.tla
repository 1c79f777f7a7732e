------------------------- MODULE StockLedgerProofs -------------------------
(***************************************************************************)
(* Proofs about StockLedger, for any set of requests, coordinates, pools   *)
(* and keys, any jobs and any opening stock: the types, the agreement of   *)
(* rows and movements, the single use of idempotency keys, the bound on    *)
(* layer draws, and that the ledger implements StockBook.                  *)
(***************************************************************************)
EXTENDS StockLedger, SequenceTheorems, TLAPS

-----------------------------------------------------------------------------
(* Lemmas on books.                                                        *)

(* A book stays sound when one entry that follows on is added.             *)
LEMMA ChainAppend ==
    ASSUME NEW b \in Seq(Entry), NEW x, NEW y, NEW e \in Entry, Book!Chain(b, x, y),
           e.before = y, e.after = e.before + e.delta, e.after >= 0
    PROVE  Book!Chain(Append(b, e), x, e.after)
<1>1. Len(Append(b, e)) = Len(b) + 1 /\ Len(b) \in Nat
  OBVIOUS
<1>2. \A i \in 1..Len(b) : Append(b, e)[i] = b[i]
  OBVIOUS
<1>3. Append(b, e)[Len(b) + 1] = e
  OBVIOUS
<1> QED
  BY <1>1, <1>2, <1>3 DEF Book!Chain

(* The entries of two books joined are those of the first, then those of   *)
(* the second.                                                             *)
LEMMA ConcatEntries ==
    ASSUME NEW b \in Seq(Entry), NEW d \in Seq(Entry)
    PROVE  /\ Len(b \o d) = Len(b) + Len(d) /\ Len(b) \in Nat /\ Len(d) \in Nat
           /\ Len(b) <= Len(b \o d)
           /\ \A i \in 1..Len(b) : (b \o d)[i] = b[i]
           /\ \A i \in 1..Len(b \o d) :
                i > Len(b) => i - Len(b) \in 1..Len(d) /\ (b \o d)[i] = d[i - Len(b)]
<1>1. Len(b \o d) = Len(b) + Len(d) /\ Len(b) \in Nat /\ Len(d) \in Nat
  OBVIOUS
<1>2. \A i \in 1..Len(b) : (b \o d)[i] = b[i]
  OBVIOUS
<1>3. \A i \in 1..Len(d) : (b \o d)[Len(b) + i] = d[i]
  OBVIOUS
<1>4. ASSUME NEW i \in 1..Len(b \o d), i > Len(b)
      PROVE  i - Len(b) \in 1..Len(d) /\ (b \o d)[i] = d[i - Len(b)]
  <2>1. i - Len(b) \in 1..Len(d) /\ i = Len(b) + (i - Len(b))
    BY <1>1, <1>4
  <2> QED
    BY <1>3, <2>1
<1>5. Len(b) <= Len(b \o d)
  BY <1>1
<1> QED
  BY <1>1, <1>2, <1>4, <1>5

(* Two books joined at the quantity where one ends and the other begins.   *)
LEMMA ChainConcat ==
    ASSUME NEW b \in Seq(Entry), NEW d \in Seq(Entry), NEW x, NEW y, NEW z,
           Book!Chain(b, x, y), Book!Chain(d, y, z)
    PROVE  Book!Chain(b \o d, x, z)
<1> DEFINE j == b \o d
           m == Len(b)
           n == Len(d)
<1>1. /\ Len(j) = m + n /\ m \in Nat /\ n \in Nat
      /\ \A i \in 1..m : j[i] = b[i]
      /\ \A i \in 1..Len(j) : i > m => i - m \in 1..n /\ j[i] = d[i - m]
  BY ConcatEntries
<1>2. /\ \A i \in 1..m : /\ b[i].before = (IF i = 1 THEN x ELSE b[i-1].after)
                         /\ b[i].after = b[i].before + b[i].delta /\ b[i].after >= 0
      /\ y = (IF m = 0 THEN x ELSE b[m].after)
  BY DEF Book!Chain
<1>3. /\ \A i \in 1..n : /\ d[i].before = (IF i = 1 THEN y ELSE d[i-1].after)
                         /\ d[i].after = d[i].before + d[i].delta /\ d[i].after >= 0
      /\ z = (IF n = 0 THEN y ELSE d[n].after)
  BY DEF Book!Chain
<1> HIDE DEF j, m, n
<1>4. ASSUME NEW i \in 1..Len(j)
      PROVE  /\ j[i].before = (IF i = 1 THEN x ELSE j[i-1].after)
             /\ j[i].after = j[i].before + j[i].delta /\ j[i].after >= 0
  <2>1. CASE i \in 1..m
    <3>1. j[i] = b[i] /\ (i # 1 => i - 1 \in 1..m /\ j[i-1] = b[i-1])
      BY <1>1, <2>1
    <3> QED
      BY <1>2, <2>1, <3>1
  <2>2. CASE i \notin 1..m
    <3>1. i > m /\ i - m \in 1..n /\ j[i] = d[i - m]
      BY <1>1, <2>2
    <3>2. CASE i - m = 1
      <4>1. i # 1 => m # 0 /\ i - 1 = m /\ j[i-1] = b[m]
        BY <1>1, <3>1, <3>2
      <4>2. i = 1 => m = 0
        BY <1>1, <3>2
      <4>3. j[i].before = y
        BY <1>3, <3>1, <3>2
      <4> QED
        BY <1>2, <1>3, <3>1, <4>1, <4>2, <4>3
    <3>3. CASE i - m # 1
      <4>1. i # 1 /\ i - 1 \in 1..Len(j) /\ i - 1 > m /\ (i - 1) - m = (i - m) - 1
        BY <1>1, <3>1, <3>3
      <4>2. j[i-1] = d[(i - m) - 1]
        BY <1>1, <4>1
      <4> QED
        BY <1>3, <3>1, <3>3, <4>1, <4>2
    <3> QED
      BY <3>2, <3>3
  <2> QED
    BY <2>1, <2>2
<1>5. z = (IF Len(j) = 0 THEN x ELSE j[Len(j)].after)
  <2>1. CASE n = 0
    <3>1. Len(j) = m /\ (m # 0 => j[m] = b[m])
      BY <1>1, <2>1
    <3> QED
      BY <1>2, <1>3, <2>1, <3>1
  <2>2. CASE n # 0
    <3>1. Len(j) \in 1..Len(j) /\ Len(j) > m /\ Len(j) - m = n /\ Len(j) # 0
      BY <1>1, <2>2
    <3>2. j[Len(j)] = d[n]
      BY <1>1, <3>1
    <3> QED
      BY <1>3, <2>2, <3>1, <3>2
  <2> QED
    BY <2>1, <2>2
<1> QED
  BY <1>4, <1>5 DEF j, Book!Chain

-----------------------------------------------------------------------------
(* Type correctness.                                                       *)

Busy == Statement \ {"commit"}

(* A request between BEGIN and COMMIT has a line to work on.               *)
HasLine == \A p \in Proc : pc[p] \in Busy => todo[p] # <<>>

TypeInv == TypeOK /\ HasLine

LEMMA CurType ==
    ASSUME TypeInv, NEW p \in Proc, pc[p] \in Busy
    PROVE  /\ Cur(p) \in Line
           /\ Tail(todo[p]) \in Seq(Line)
  BY DEF TypeInv, TypeOK, HasLine, Cur

USE DEF TypeInv

LEMMA InitType == Init => TypeInv
<1> SUFFICES ASSUME Init PROVE TypeInv
  OBVIOUS
<1>1. items \in [Coord -> Row]
  BY OpeningAssumption DEF Init, Row, NoRow
<1>2. book \in [Coord -> Seq(Entry)]
  <2>1. \A c \in Coord :
          [delta |-> Opening[c], before |-> 0, after |-> Opening[c],
           key |-> NoKey, by |-> NoProc] \in Entry
    BY OpeningAssumption DEF Entry
  <2> QED
    BY <2>1 DEF Init
<1>3. NoRow \in Row
  BY DEF Row, NoRow
<1>4. layerDelta \in [Proc -> [Pool -> Int]] /\ layers \in [Pool -> Int]
  BY LayersAssumption DEF Init
<1>5. /\ dirty \in [Coord -> Row] /\ seen \in [Proc -> Row]
      /\ rowLock \in [Coord -> Proc \cup {NoProc}]
      /\ keyOwner \in [Key -> Proc \cup {NoProc}]
      /\ poolLock \in [Pool -> Proc \cup {NoProc}]
      /\ keyUsed \in SUBSET Key
  BY <1>3 DEF Init
<1>6. /\ pend \in [Coord -> Seq(Entry)]
      /\ job \in [Proc -> Seq(Line)]
      /\ todo \in [Proc -> Seq(Line)]
  BY DEF Init
<1>7. /\ pc \in [Proc -> Statement \cup {"idle", "done"}]
      /\ outcome \in [Proc -> Outcome]
      /\ HasLine
  BY DEF Init, HasLine, Statement, Busy, Outcome
<1> QED
  BY <1>1, <1>2, <1>4, <1>5, <1>6, <1>7 DEF TypeOK

(* What the end of a transaction and the moves to the next statement do to *)
(* the types.                                                              *)
LEMMA FailType ==
    ASSUME TypeInv, NEW p \in Proc, NEW o \in Outcome, Fail(p, o)
    PROVE  TypeInv'
<1>1. NoRow \in Row
  BY DEF Row, NoRow
<1>2. /\ dirty' \in [Coord -> Row] /\ rowLock' \in [Coord -> Proc \cup {NoProc}]
      /\ pend' \in [Coord -> Seq(Entry)] /\ keyOwner' \in [Key -> Proc \cup {NoProc}]
  BY <1>1 DEF TypeOK, Fail, Release
<1>3. /\ layerDelta' \in [Proc -> [Pool -> Int]]
      /\ poolLock' \in [Pool -> Proc \cup {NoProc}]
  BY DEF TypeOK, Fail, Release
<1>4. /\ pc' \in [Proc -> Statement \cup {"idle", "done"}] /\ job' \in [Proc -> Seq(Line)]
      /\ todo' \in [Proc -> Seq(Line)] /\ seen' \in [Proc -> Row]
      /\ outcome' \in [Proc -> Outcome]
  BY <1>1 DEF TypeOK, Fail, Answer
<1>5. HasLine'
  <2>1. pc'[p] = "done" /\ \A q \in Proc : q # p => pc'[q] = pc[q] /\ todo'[q] = todo[q]
    BY DEF TypeOK, Fail, Answer
  <2> QED
    BY <2>1 DEF HasLine, Busy, Statement
<1> QED
  BY <1>2, <1>3, <1>4, <1>5 DEF TypeOK, Fail

LEMMA NextLineType ==
    ASSUME TypeInv, NEW p \in Proc, pc[p] \in Busy, NextLine(p)
    PROVE  /\ HasLine'
           /\ pc' \in [Proc -> Statement \cup {"idle", "done"}]
           /\ job' \in [Proc -> Seq(Line)]
           /\ todo' \in [Proc -> Seq(Line)]
           /\ seen' \in [Proc -> Row]
           /\ outcome' \in [Proc -> Outcome]
<1>1. Tail(todo[p]) \in Seq(Line) /\ NoRow \in Row
  BY CurType DEF Row, NoRow
<1>2. /\ todo' \in [Proc -> Seq(Line)] /\ seen' \in [Proc -> Row]
      /\ job' = job /\ outcome' = outcome
      /\ todo'[p] = Tail(todo[p]) /\ \A q \in Proc : q # p => todo'[q] = todo[q]
  BY <1>1 DEF TypeOK, NextLine
<1>3. /\ pc' \in [Proc -> Statement \cup {"idle", "done"}]
      /\ pc'[p] = (IF Tail(todo[p]) = <<>> THEN "commit" ELSE "lookup")
      /\ \A q \in Proc : q # p => pc'[q] = pc[q]
  BY DEF TypeOK, NextLine, Statement
<1>4. HasLine'
  BY <1>2, <1>3 DEF HasLine, Busy
<1> QED
  BY <1>2, <1>3, <1>4 DEF TypeOK

LEMMA GotoType ==
    ASSUME TypeInv, NEW p \in Proc, pc[p] \in Busy, NEW s \in Busy, Goto(p, s)
    PROVE  /\ HasLine'
           /\ pc' \in [Proc -> Statement \cup {"idle", "done"}]
           /\ job' \in [Proc -> Seq(Line)]
           /\ todo' \in [Proc -> Seq(Line)]
           /\ outcome' \in [Proc -> Outcome]
  BY DEF TypeOK, HasLine, Goto, Statement, Busy

LEMMA HoldType ==
    ASSUME TypeInv, NEW p \in Proc, NEW c \in Coord, NEW row \in Row, Hold(p, c, row)
    PROVE  /\ rowLock' \in [Coord -> Proc \cup {NoProc}]
           /\ dirty' \in [Coord -> Row]
           /\ seen' \in [Proc -> Row]
  BY DEF Hold, TypeOK

LEMMA StepType ==
    ASSUME TypeInv, [Next]_vars
    PROVE  TypeInv'
<1> USE DEF rowVars, bookVars, keyVars, layerVars
<1>1. ASSUME NEW p \in Proc, Begin(p) PROVE TypeInv'
  BY <1>1, JobsAssumption DEF Begin, TypeOK, HasLine, Statement, Busy
<1>2. ASSUME NEW p \in Proc, Lookup(p) PROVE TypeInv'
  <2>1. pc[p] \in Busy
    BY <1>2 DEF Lookup, Busy, Statement
  <2>2. CASE NextLine(p)
    BY <1>2, <2>1, <2>2, NextLineType DEF Lookup, TypeOK
  <2>3. CASE Goto(p, "select") /\ UNCHANGED seen
    BY <1>2, <2>1, <2>3, GotoType DEF Lookup, TypeOK, Busy, Statement
  <2> QED
    BY <1>2, <2>2, <2>3 DEF Lookup
<1>3. ASSUME NEW p \in Proc, Select(p) PROVE TypeInv'
  <2>1. pc[p] \in Busy /\ Cur(p).coord \in Coord
    BY <1>3, CurType DEF Select, Busy, Statement, Line
  <2>2. \E s \in Busy : Goto(p, s)
    BY <1>3 DEF Select, Busy, Statement
  <2>3. dirty' \in [Coord -> Row] /\ rowLock' \in [Coord -> Proc \cup {NoProc}]
        /\ seen' \in [Proc -> Row]
    <3>1. CASE \E row \in Row : Hold(p, Cur(p).coord, row)
      BY <2>1, <3>1, HoldType
    <3>2. CASE UNCHANGED <<dirty, rowLock, seen>>
      BY <3>2 DEF TypeOK
    <3>3. dirty[Cur(p).coord] \in Row /\ items[Cur(p).coord] \in Row
      BY <2>1 DEF TypeOK
    <3> QED
      BY <1>3, <3>1, <3>2, <3>3 DEF Select
  <2> QED
    BY <1>3, <2>1, <2>2, <2>3, GotoType DEF Select, TypeOK
<1>4. ASSUME NEW p \in Proc, Insert(p) PROVE TypeInv'
  <2>1. pc[p] \in Busy /\ Cur(p).coord \in Coord
    BY <1>4, CurType DEF Insert, Busy, Statement, Line
  <2>2. \E s \in Busy : Goto(p, s)
    BY <1>4 DEF Insert, Busy, Statement
  <2>3. dirty' \in [Coord -> Row] /\ rowLock' \in [Coord -> Proc \cup {NoProc}]
        /\ seen' \in [Proc -> Row]
    <3>1. ZeroRow \in Row
      BY DEF ZeroRow, Row
    <3> QED
      BY <1>4, <2>1, <3>1, HoldType DEF Insert
  <2> QED
    BY <1>4, <2>1, <2>2, <2>3, GotoType DEF Insert, TypeOK
<1>5. ASSUME NEW p \in Proc, Update(p) PROVE TypeInv'
  <2>1. pc[p] \in Busy /\ Cur(p) \in Line
    BY <1>5, CurType DEF Update, Busy, Statement
  <2>2. \E s \in Busy : Goto(p, s)
    BY <1>5 DEF Update, Busy, Statement
  <2>3. dirty' \in [Coord -> Row]
    <3> DEFINE row == [dirty[Cur(p).coord] EXCEPT
                         !.quantity = seen[p].quantity + Cur(p).delta]
    <3>1. row \in Row
      <4>1. dirty[Cur(p).coord] \in Row /\ seen[p] \in Row /\ Cur(p).delta \in Int
        BY <2>1 DEF TypeOK, Line
      <4> QED
        BY <4>1 DEF Row
    <3>2. dirty' = [dirty EXCEPT ![Cur(p).coord] = row]
      BY <1>5 DEF Update
    <3> HIDE DEF row
    <3> QED
      BY <3>1, <3>2 DEF TypeOK
  <2> QED
    BY <1>5, <2>1, <2>2, <2>3, GotoType DEF Update, TypeOK
<1>6. ASSUME NEW p \in Proc, Record(p) PROVE TypeInv'
  <2>1. pc[p] \in Busy /\ Cur(p) \in Line
    BY <1>6, CurType DEF Record, Busy, Statement
  <2>2. \E s \in Busy : Goto(p, s)
    BY <1>6 DEF Record, Busy, Statement
  <2>3. [delta |-> Cur(p).delta, before |-> seen[p].quantity,
         after |-> seen[p].quantity + Cur(p).delta, key |-> Cur(p).key, by |-> p] \in Entry
    BY <2>1 DEF TypeOK, Row, Line, Entry
  <2>4. pend' \in [Coord -> Seq(Entry)]
    <3> DEFINE e == [delta |-> Cur(p).delta, before |-> seen[p].quantity,
                     after |-> seen[p].quantity + Cur(p).delta, key |-> Cur(p).key, by |-> p]
    <3>1. Append(pend[Cur(p).coord], e) \in Seq(Entry)
      BY <2>1, <2>3 DEF TypeOK, Line
    <3>2. pend' = [pend EXCEPT ![Cur(p).coord] = Append(pend[Cur(p).coord], e)]
      BY <1>6, <2>1 DEF Record, TypeOK, Line
    <3> HIDE DEF e
    <3> QED
      BY <3>1, <3>2 DEF TypeOK
  <2>5. keyOwner' \in [Key -> Proc \cup {NoProc}]
    BY <1>6 DEF Record, TypeOK
  <2> QED
    BY <1>6, <2>1, <2>2, <2>4, <2>5, GotoType DEF Record, TypeOK
<1>7. ASSUME NEW p \in Proc, CreateLayer(p) PROVE TypeInv'
  <2>1. pc[p] \in Busy /\ Cur(p) \in Line
    BY <1>7, CurType DEF CreateLayer, Busy, Statement
  <2>2. layerDelta' \in [Proc -> [Pool -> Int]]
    BY <1>7, <2>1, PoolAssumption DEF CreateLayer, TypeOK, Line
  <2> QED
    BY <1>7, <2>1, <2>2, NextLineType DEF CreateLayer, TypeOK
<1>8. ASSUME NEW p \in Proc, ConsumeLayers(p) PROVE TypeInv'
  <2>1. pc[p] \in Busy /\ Cur(p) \in Line
    BY <1>8, CurType DEF ConsumeLayers, Busy, Statement
  <2>2. layerDelta' \in [Proc -> [Pool -> Int]] /\ poolLock' \in [Pool -> Proc \cup {NoProc}]
    BY <1>8, <2>1, PoolAssumption DEF ConsumeLayers, Drawn, OpenLayers, TypeOK, Line
  <2> QED
    BY <1>8, <2>1, <2>2, NextLineType DEF ConsumeLayers, TypeOK
<1>9. ASSUME NEW p \in Proc, Commit(p) PROVE TypeInv'
  <2>1. items' \in [Coord -> Row] /\ book' \in [Coord -> Seq(Entry)]
        /\ keyUsed' \in SUBSET Key /\ layers' \in [Pool -> Int]
    BY <1>9 DEF Commit, OpenLayers, TypeOK
  <2> QED
    BY <1>9, <2>1
       DEF Commit, Release, Answer, TypeOK, HasLine, Row, NoRow, Busy, Statement, Outcome
<1>10. ASSUME NEW p \in Proc, NEW o \in Outcome, Fail(p, o) PROVE TypeInv'
  BY <1>10, FailType
<1>11. CASE UNCHANGED vars
  BY <1>11 DEF vars, TypeOK, HasLine
<1> QED
  BY <1>1, <1>2, <1>3, <1>4, <1>5, <1>6, <1>7, <1>8, <1>9, <1>10, <1>11
     DEF Next, Step, RejectZero, RejectBatch, InsertConflict, RejectBalance,
         RecordConflict, Rollback, Outcome

(* Every reachable state is well typed.                                    *)
THEOREM TypeCorrect == Spec => []TypeOK
<1>1. Init => TypeInv
  BY InitType
<1>2. TypeInv /\ [Next]_vars => TypeInv'
  BY StepType
<1>3. TypeInv => TypeOK
  OBVIOUS
<1> QED
  BY <1>1, <1>2, <1>3, PTL DEF Spec

-----------------------------------------------------------------------------
(* Locks, rows and movements.                                              *)

LEMMA InitRows == Init => LockInv /\ ChainInv
<1> SUFFICES ASSUME Init PROVE LockInv /\ ChainInv
  OBVIOUS
<1>1. LockInv
  BY DEF Init, LockInv
<1>2. ASSUME NEW c \in Coord PROVE Book!Chain(book[c], 0, items[c].quantity)
  BY OpeningAssumption DEF Init, NoRow, Book!Chain
<1>3. ChainInv
  BY <1>2 DEF Init, ChainInv, BookAgrees, NoRow
<1> QED
  BY <1>1, <1>3

(* A rollback drops the uncommitted movements with the locks.              *)
LEMMA FailRows ==
    ASSUME TypeInv, LockInv, ChainInv, NEW p \in Proc, NEW o, Fail(p, o)
    PROVE  LockInv' /\ ChainInv'
<1> USE ProcAssumption DEF Fail, Release, Answer
<1>1. \A q \in Proc : q # p => /\ pc'[q] = pc[q] /\ seen'[q] = seen[q]
                               /\ todo'[q] = todo[q] /\ Cur(q)' = Cur(q)
  BY DEF TypeOK, Cur
<1>2. pc'[p] = "done"
  BY DEF TypeOK
<1>3. LockInv'
  <2>1. ASSUME NEW c \in Coord
        PROVE  IF rowLock'[c] = NoProc THEN pend'[c] = <<>>
               ELSE pc'[rowLock'[c]] \in Statement /\ dirty'[c].exists
    BY <1>1 DEF LockInv, TypeOK
  <2>2. ASSUME NEW q \in Proc, pc'[q] \in {"update", "record", "layers"}
        PROVE  /\ q # p
               /\ rowLock'[Cur(q)'.coord] = q
               /\ dirty'[Cur(q)'.coord] = dirty[Cur(q).coord]
    <3>1. q # p /\ pc[q] \in Busy
      BY <1>1, <1>2, <2>2 DEF Busy, Statement
    <3>2. Cur(q).coord \in Coord
      BY <3>1, CurType DEF Line
    <3> QED
      BY <1>1, <2>2, <3>1, <3>2 DEF LockInv, TypeOK
  <2> QED
    BY <1>1, <2>1, <2>2 DEF LockInv
<1>4. ChainInv'
  <2>1. ASSUME NEW c \in Coord, rowLock'[c] # NoProc
        PROVE  /\ rowLock'[c] = rowLock[c] /\ rowLock[c] \in Proc /\ rowLock[c] # p
               /\ pend'[c] = pend[c] /\ Recorded(c)' = Recorded(c)
    BY <1>1, <2>1 DEF TypeOK, Recorded
  <2> QED
    BY <2>1 DEF ChainInv, BookAgrees
<1> QED
  BY <1>3, <1>4

(* A commit appends the uncommitted movements of the rows it publishes.    *)
LEMMA CommitRows ==
    ASSUME TypeInv, LockInv, ChainInv, NEW p \in Proc, Commit(p)
    PROVE  LockInv' /\ ChainInv'
<1> USE ProcAssumption DEF Commit, Release, Answer
<1>1. \A q \in Proc : q # p => /\ pc'[q] = pc[q] /\ seen'[q] = seen[q]
                               /\ todo'[q] = todo[q] /\ Cur(q)' = Cur(q)
  BY DEF TypeOK, Cur
<1>2. pc'[p] = "done"
  BY DEF TypeOK
<1>3. LockInv'
  <2>1. ASSUME NEW c \in Coord
        PROVE  IF rowLock'[c] = NoProc THEN pend'[c] = <<>>
               ELSE pc'[rowLock'[c]] \in Statement /\ dirty'[c].exists
    BY <1>1 DEF LockInv, TypeOK
  <2>2. ASSUME NEW q \in Proc, pc'[q] \in {"update", "record", "layers"}
        PROVE  /\ q # p
               /\ rowLock'[Cur(q)'.coord] = q
               /\ dirty'[Cur(q)'.coord] = dirty[Cur(q).coord]
    <3>1. q # p /\ pc[q] \in Busy
      BY <1>1, <1>2, <2>2 DEF Busy, Statement
    <3>2. Cur(q).coord \in Coord
      BY <3>1, CurType DEF Line
    <3> QED
      BY <1>1, <2>2, <3>1, <3>2 DEF LockInv, TypeOK
  <2> QED
    BY <1>1, <2>1, <2>2 DEF LockInv
<1>4. ASSUME NEW c \in Coord
      PROVE  /\ Book!Chain(book'[c], 0, items'[c].quantity)
             /\ ~items'[c].exists => items'[c].quantity = 0
  <2>1. CASE rowLock[c] = p
    <3>1. Recorded(c) = dirty[c].quantity
      BY <2>1 DEF Recorded
    <3>2. /\ Book!Chain(book[c], 0, items[c].quantity)
          /\ Book!Chain(pend[c], items[c].quantity, dirty[c].quantity)
      BY <2>1, <3>1 DEF ChainInv, BookAgrees
    <3>5. dirty[c].exists
      BY <2>1 DEF LockInv
    <3>3. Book!Chain(book[c] \o pend[c], 0, dirty[c].quantity)
      BY <3>2, ChainConcat DEF TypeOK
    <3>4. book'[c] = book[c] \o pend[c] /\ items'[c] = dirty[c]
      BY <2>1
    <3> QED
      BY <3>3, <3>4, <3>5
  <2>2. CASE rowLock[c] # p
    BY <2>2 DEF ChainInv, BookAgrees
  <2> QED
    BY <2>1, <2>2
<1>5. ASSUME NEW c \in Coord, rowLock'[c] # NoProc
      PROVE  Book!Chain(pend'[c], items'[c].quantity, Recorded(c)')
  <2>1. /\ rowLock'[c] = rowLock[c] /\ rowLock[c] \in Proc /\ rowLock[c] # p
        /\ pend'[c] = pend[c] /\ Recorded(c)' = Recorded(c) /\ items'[c] = items[c]
    BY <1>1, <1>5 DEF TypeOK, Recorded
  <2> QED
    BY <2>1 DEF ChainInv
<1> QED
  BY <1>3, <1>4, <1>5 DEF ChainInv, BookAgrees

(* Moving on without touching rows or movements: the request leaves no     *)
(* statement that relies on what it read.                                  *)
LEMMA MoveRows ==
    ASSUME TypeInv, LockInv, ChainInv, NEW p \in Proc,
           pc[p] \notin {"update", "record"}, pc'[p] \in Statement \ {"update", "record", "layers"},
           pc' = [pc EXCEPT ![p] = pc'[p]],
           \A q \in Proc : q # p => seen'[q] = seen[q] /\ todo'[q] = todo[q],
           UNCHANGED <<rowVars, bookVars>>
    PROVE  LockInv' /\ ChainInv'
<1> USE ProcAssumption DEF rowVars, bookVars
<1>1. \A q \in Proc : q # p => /\ pc'[q] = pc[q] /\ Cur(q)' = Cur(q)
  BY DEF TypeOK, Cur
<1>2. LockInv'
  <2>1. ASSUME NEW c \in Coord
        PROVE  IF rowLock'[c] = NoProc THEN pend'[c] = <<>>
               ELSE pc'[rowLock'[c]] \in Statement /\ dirty'[c].exists
    <3>1. rowLock'[c] = rowLock[c] /\ dirty'[c] = dirty[c] /\ pend'[c] = pend[c]
      OBVIOUS
    <3>2. rowLock[c] \in Proc \cup {NoProc}
      BY DEF TypeOK
    <3>3. CASE rowLock[c] = NoProc
      BY <3>1, <3>3 DEF LockInv
    <3>4. CASE rowLock[c] # NoProc
      <4>1. PICK q \in Proc : q = rowLock[c]
        BY <3>2, <3>4
      <4>2. pc[q] \in Statement /\ dirty[c].exists
        BY <3>4, <4>1 DEF LockInv
      <4>3. pc'[q] \in Statement
        BY <1>1, <4>2
      <4> QED
        BY <3>1, <3>4, <4>1, <4>2, <4>3
    <3> QED
      BY <3>3, <3>4
  <2>2. ASSUME NEW q \in Proc, pc'[q] \in {"update", "record", "layers"}
        PROVE  q # p /\ pc'[q] = pc[q] /\ Cur(q)' = Cur(q) /\ seen'[q] = seen[q]
    BY <1>1, <2>2
  <2>3. rowLock' = rowLock /\ dirty' = dirty
    OBVIOUS
  <2> QED
    BY <2>1, <2>2, <2>3 DEF LockInv
<1>3. ASSUME NEW c \in Coord, rowLock[c] # NoProc
      PROVE  Recorded(c)' = Recorded(c)
  <2>1. PICK q \in Proc : q = rowLock[c]
    BY <1>3 DEF TypeOK
  <2>2. rowLock'[c] = q /\ dirty'[c] = dirty[c]
    BY <2>1
  <2>3. CASE q = p
    BY <2>1, <2>2, <2>3 DEF Recorded
  <2>4. CASE q # p
    <3>1. pc'[q] = pc[q] /\ Cur(q)' = Cur(q) /\ seen'[q] = seen[q]
      BY <1>1, <2>4
    <3>2. Cur(q)'.coord = Cur(q).coord
      BY <3>1
    <3> QED
      BY <2>1, <2>2, <3>1, <3>2 DEF Recorded
  <2> QED
    BY <2>3, <2>4
<1> QED
  BY <1>2, <1>3 DEF ChainInv, BookAgrees

(* Locking a row, or inserting it at zero.                                 *)
LEMMA HoldRows ==
    ASSUME TypeInv, LockInv, ChainInv, NEW p \in Proc, pc[p] \in {"select", "insert"},
           NEW row \in Row, Hold(p, Cur(p).coord, row), Goto(p, "update"),
           UNCHANGED <<items, bookVars>>,
           row.exists,
           \/ rowLock[Cur(p).coord] = p /\ row = dirty[Cur(p).coord]
           \/ rowLock[Cur(p).coord] = NoProc /\ row.quantity = items[Cur(p).coord].quantity
    PROVE  LockInv' /\ ChainInv'
<1> DEFINE k == Cur(p).coord
<1> USE ProcAssumption DEF bookVars, Hold, Goto
<1>1. /\ k \in Coord
      /\ \A q \in Proc : Cur(q)' = Cur(q)
      /\ \A q \in Proc : q # p => pc'[q] = pc[q] /\ seen'[q] = seen[q]
      /\ pc'[p] = "update" /\ seen'[p] = row
  BY CurType DEF TypeOK, Cur, Line, Busy, Statement
<1>2. /\ rowLock'[k] = p /\ dirty'[k] = row
      /\ \A c \in Coord : c # k => rowLock'[c] = rowLock[c] /\ dirty'[c] = dirty[c]
  BY <1>1 DEF TypeOK
<1>3. \A q \in Proc : q # p /\ pc[q] \in {"update", "record", "layers"} =>
        Cur(q).coord \in Coord /\ Cur(q).coord # k
  BY <1>1, CurType DEF LockInv, Line, Busy, Statement
<1> HIDE DEF k
<1>4. LockInv'
  BY <1>1, <1>2, <1>3 DEF LockInv, TypeOK, Statement, k
<1>5. ASSUME NEW c \in Coord, rowLock'[c] # NoProc
      PROVE  Book!Chain(pend'[c], items'[c].quantity, Recorded(c)')
  <2>1. CASE c # k
    <3>1. Recorded(c)' = Recorded(c)
      BY <1>1, <1>2, <1>5, <2>1 DEF Recorded, TypeOK
    <3> QED
      BY <1>2, <1>5, <2>1, <3>1 DEF ChainInv
  <2>2. CASE c = k
    <3>1. Recorded(c)' = row.quantity
      BY <1>1, <1>2, <2>2 DEF Recorded
    <3>2. CASE rowLock[k] = p /\ row = dirty[k]
      <4>1. Recorded(c) = row.quantity
        BY <2>2, <3>2 DEF Recorded
      <4> QED
        BY <2>2, <3>1, <3>2, <4>1 DEF ChainInv
    <3>3. CASE rowLock[k] = NoProc /\ row.quantity = items[k].quantity
      BY <2>2, <3>1, <3>3 DEF LockInv, Book!Chain
    <3> QED
      BY <3>2, <3>3 DEF k
  <2> QED
    BY <2>1, <2>2
<1> QED
  BY <1>4, <1>5 DEF ChainInv, BookAgrees

LEMMA UpdateRows ==
    ASSUME TypeInv, LockInv, ChainInv, NEW p \in Proc, Update(p)
    PROVE  LockInv' /\ ChainInv'
<1> DEFINE k == Cur(p).coord
<1> USE ProcAssumption DEF bookVars, Update, Goto
<1>1. /\ k \in Coord /\ Cur(p).delta \in Int /\ seen[p] \in Row
      /\ \A q \in Proc : Cur(q)' = Cur(q) /\ seen'[q] = seen[q]
      /\ \A q \in Proc : q # p => pc'[q] = pc[q]
      /\ pc[p] = "update" /\ pc'[p] = "record"
  BY CurType DEF TypeOK, Cur, Line, Busy, Statement
<1>2. /\ rowLock[k] = p /\ seen[p] = dirty[k]
      /\ dirty'[k] = [dirty[k] EXCEPT !.quantity = seen[p].quantity + Cur(p).delta]
      /\ \A c \in Coord : c # k => dirty'[c] = dirty[c]
  BY <1>1 DEF TypeOK, LockInv
<1>3. /\ dirty'[k].quantity = seen[p].quantity + Cur(p).delta
      /\ dirty'[k].exists = dirty[k].exists
  BY <1>1, <1>2 DEF TypeOK, Row
<1>4. \A q \in Proc : q # p /\ pc[q] \in {"update", "record", "layers"} =>
        Cur(q).coord \in Coord /\ Cur(q).coord # k
  BY <1>1, <1>2, CurType DEF LockInv, Line, Busy, Statement
<1>5. seen[p].quantity + Cur(p).delta >= 0
  BY DEF Sufficient
<1>6. rowLock' = rowLock /\ pend' = pend /\ items' = items /\ book' = book
  OBVIOUS
<1>7. LockInv'
  <2>1. ASSUME NEW c \in Coord
        PROVE  IF rowLock'[c] = NoProc THEN pend'[c] = <<>>
               ELSE pc'[rowLock'[c]] \in Statement /\ dirty'[c].exists
    BY <1>1, <1>2, <1>3, <1>6 DEF LockInv, TypeOK, Statement
  <2>2. ASSUME NEW q \in Proc
        PROVE  /\ pc'[q] \in {"update", "record", "layers"} => rowLock'[Cur(q)'.coord] = q
               /\ pc'[q] = "update" => seen'[q] = dirty'[Cur(q)'.coord]
               /\ pc'[q] = "record" =>
                    /\ dirty'[Cur(q)'.coord].quantity = seen'[q].quantity + Cur(q)'.delta
                    /\ dirty'[Cur(q)'.coord].quantity >= 0
    BY <1>1, <1>2, <1>3, <1>4, <1>5, <1>6 DEF LockInv
  <2> QED
    BY <2>1, <2>2 DEF LockInv
<1>8. ASSUME NEW c \in Coord, rowLock[c] # NoProc
      PROVE  Recorded(c)' = Recorded(c)
  BY <1>1, <1>2, <1>6, <1>8 DEF Recorded, TypeOK
<1> QED
  BY <1>6, <1>7, <1>8 DEF ChainInv, BookAgrees

LEMMA RecordRows ==
    ASSUME TypeInv, LockInv, ChainInv, NEW p \in Proc, Record(p)
    PROVE  LockInv' /\ ChainInv'
<1> DEFINE k == Cur(p).coord
           e == [delta |-> Cur(p).delta, before |-> seen[p].quantity,
                 after |-> seen[p].quantity + Cur(p).delta, key |-> Cur(p).key, by |-> p]
<1> USE ProcAssumption DEF rowVars, Goto
<1>1. /\ k \in Coord /\ Cur(p) \in Line /\ seen[p] \in Row
      /\ \A q \in Proc : Cur(q)' = Cur(q) /\ seen'[q] = seen[q]
      /\ \A q \in Proc : q # p => pc'[q] = pc[q]
      /\ pc[p] = "record" /\ pc'[p] = "layers"
  BY CurType DEF Record, TypeOK, Cur, Line, Busy, Statement
<1>2. e \in Entry
  BY <1>1 DEF Entry, Line, Row
<1>3. /\ rowLock' = rowLock /\ dirty' = dirty /\ items' = items /\ book' = book
      /\ pend'[k] = Append(pend[k], e)
      /\ \A c \in Coord : c # k => pend'[c] = pend[c]
  BY <1>1 DEF Record, TypeOK
<1>4. /\ rowLock[k] = p
      /\ dirty[k].quantity = e.after /\ e.after >= 0
      /\ e.before = Recorded(k)
  BY <1>1 DEF LockInv, Recorded
<1> HIDE DEF e
<1>5. LockInv'
  <2>1. ASSUME NEW c \in Coord
        PROVE  IF rowLock'[c] = NoProc THEN pend'[c] = <<>>
               ELSE pc'[rowLock'[c]] \in Statement /\ dirty'[c].exists
    <3>1. rowLock[c] = NoProc => c # k
      BY <1>4, <1>1
    <3>2. rowLock[c] \in Proc \cup {NoProc}
      BY DEF TypeOK
    <3>3. "layers" \in Statement
      BY DEF Statement
    <3> QED
      BY <1>1, <1>3, <3>1, <3>2, <3>3 DEF LockInv
  <2>2. ASSUME NEW q \in Proc
        PROVE  /\ pc'[q] \in {"update", "record", "layers"} => rowLock'[Cur(q)'.coord] = q
               /\ pc'[q] = "update" => seen'[q] = dirty'[Cur(q)'.coord]
               /\ pc'[q] = "record" =>
                    /\ dirty'[Cur(q)'.coord].quantity = seen'[q].quantity + Cur(q)'.delta
                    /\ dirty'[Cur(q)'.coord].quantity >= 0
    BY <1>1, <1>3, <1>4 DEF LockInv
  <2> QED
    BY <2>1, <2>2 DEF LockInv
<1>6. ASSUME NEW c \in Coord, rowLock[c] # NoProc
      PROVE  Book!Chain(pend'[c], items[c].quantity, Recorded(c)')
  <2>1. CASE c # k
    <3>1. Recorded(c)' = Recorded(c)
      BY <1>1, <1>3, <1>6, <2>1 DEF Recorded, TypeOK
    <3> QED
      BY <1>3, <1>6, <2>1, <3>1 DEF ChainInv
  <2>2. CASE c = k
    <3>1. Recorded(c)' = e.after
      BY <1>1, <1>3, <1>4, <2>2 DEF Recorded
    <3>2. Book!Chain(pend[k], items[k].quantity, e.before)
      BY <1>4, <1>6, <2>2 DEF ChainInv
    <3>3. e.after = e.before + e.delta
      BY DEF e
    <3>4. Book!Chain(Append(pend[k], e), items[k].quantity, e.after)
      BY <1>1, <1>2, <1>4, <3>2, <3>3, ChainAppend DEF TypeOK
    <3> QED
      BY <1>3, <2>2, <3>1, <3>4
  <2> QED
    BY <2>1, <2>2
<1> QED
  BY <1>3, <1>5, <1>6 DEF ChainInv, BookAgrees

LEMMA StepRows ==
    ASSUME TypeInv, LockInv, ChainInv, [Next]_vars
    PROVE  LockInv' /\ ChainInv'
<1>1. ASSUME NEW p \in Proc, Begin(p) PROVE LockInv' /\ ChainInv'
  BY <1>1, MoveRows DEF Begin, TypeOK, Statement
<1>2. ASSUME NEW p \in Proc, Lookup(p) PROVE LockInv' /\ ChainInv'
  <2>1. /\ pc[p] = "lookup" /\ pc'[p] \in {"commit", "lookup", "select"}
        /\ pc' = [pc EXCEPT ![p] = pc'[p]]
        /\ \A q \in Proc : q # p => todo'[q] = todo[q]
    BY <1>2 DEF Lookup, NextLine, Goto, TypeOK
  <2>2. /\ \A q \in Proc : q # p => seen'[q] = seen[q]
        /\ UNCHANGED <<rowVars, bookVars>>
    BY <1>2 DEF Lookup, NextLine, Goto, TypeOK
  <2> QED
    BY <2>1, <2>2, MoveRows DEF Statement
<1>3. ASSUME NEW p \in Proc, Select(p) PROVE LockInv' /\ ChainInv'
  <2> DEFINE k == Cur(p).coord
  <2>1. /\ pc[p] = "select" /\ k \in Coord /\ UNCHANGED <<items, bookVars>>
        /\ dirty[k] \in Row /\ items[k] \in Row
    BY <1>3, CurType DEF Select, Line, Busy, Statement, TypeOK, bookVars
  <2>2. CASE rowLock[k] = p /\ Hold(p, k, dirty[k]) /\ Goto(p, "update")
    BY <2>1, <2>2, ProcAssumption, HoldRows DEF LockInv
  <2>3. CASE items[k].exists /\ rowLock[k] = NoProc /\ Hold(p, k, items[k]) /\ Goto(p, "update")
    BY <2>1, <2>3, HoldRows
  <2>4. CASE Goto(p, "insert") /\ UNCHANGED <<dirty, rowLock, seen>>
    BY <2>1, <2>4, MoveRows DEF Goto, TypeOK, Statement, rowVars
  <2> QED
    BY <1>3, <2>2, <2>3, <2>4 DEF Select
<1>4. ASSUME NEW p \in Proc, Insert(p) PROVE LockInv' /\ ChainInv'
  <2>1. /\ pc[p] = "insert" /\ Cur(p).coord \in Coord /\ UNCHANGED <<items, bookVars>>
        /\ ZeroRow \in Row /\ ZeroRow.exists
        /\ Hold(p, Cur(p).coord, ZeroRow) /\ Goto(p, "update")
        /\ rowLock[Cur(p).coord] = NoProc
    BY <1>4, CurType DEF Insert, Line, Busy, Statement, ZeroRow, Row, bookVars
  <2>2. ZeroRow.quantity = items[Cur(p).coord].quantity
    BY <1>4, <2>1 DEF Insert, ChainInv, ZeroRow
  <2> QED
    BY <2>1, <2>2, HoldRows
<1>5. ASSUME NEW p \in Proc, Update(p) PROVE LockInv' /\ ChainInv'
  BY <1>5, UpdateRows
<1>6. ASSUME NEW p \in Proc, Record(p) PROVE LockInv' /\ ChainInv'
  BY <1>6, RecordRows
<1>7. ASSUME NEW p \in Proc, CreateLayer(p) \/ ConsumeLayers(p) PROVE LockInv' /\ ChainInv'
  <2>1. NextLine(p) /\ UNCHANGED <<rowVars, bookVars>> /\ pc[p] = "layers"
    BY <1>7 DEF CreateLayer, ConsumeLayers
  <2> QED
    BY <2>1, MoveRows DEF NextLine, TypeOK, Statement
<1>8. ASSUME NEW p \in Proc, Commit(p) PROVE LockInv' /\ ChainInv'
  BY <1>8, CommitRows
<1>9. ASSUME NEW p \in Proc, NEW o, Fail(p, o) PROVE LockInv' /\ ChainInv'
  BY <1>9, FailRows
<1>10. CASE UNCHANGED vars
  BY <1>10 DEF vars, rowVars, bookVars, LockInv, ChainInv, BookAgrees, Recorded, Cur
<1> QED
  BY <1>1, <1>2, <1>3, <1>4, <1>5, <1>6, <1>7, <1>8, <1>9, <1>10
     DEF Next, Step, RejectZero, RejectBatch, InsertConflict, RejectBalance,
         RecordConflict, Rollback

(* In every reachable state the movements of every coordinate follow on    *)
(* from one another and end at the balance of its row.                     *)
THEOREM BooksAgree == Spec => []BookAgrees
<1> DEFINE I == TypeInv /\ LockInv /\ ChainInv
<1>1. Init => I
  BY InitType, InitRows
<1>2. I /\ [Next]_vars => I'
  BY StepType, StepRows
<1>3. I => BookAgrees
  BY DEF ChainInv
<1> HIDE DEF I
<1> QED
  BY <1>1, <1>2, <1>3, PTL DEF Spec

-----------------------------------------------------------------------------
(* Idempotency keys.                                                       *)

LEMMA InitKeys == Init => KeyInv
<1> SUFFICES ASSUME Init PROVE KeyInv
  OBVIOUS
<1>1. \A c \in Coord : \A i \in 1..Len(book[c]) : book[c][i].key = NoKey
  BY DEF Init
<1>2. \A c \in Coord : pend[c] = <<>>
  BY DEF Init
<1> QED
  BY <1>1, <1>2 DEF Init, KeyInv, Book!KeysOnce

LEMMA PendKey ==
    ASSUME TypeInv, NEW c \in Coord, NEW i \in 1..Len(pend[c])
    PROVE  pend[c][i].key \in Key \cup {NoKey}
<1>1. pend[c] \in Seq(Entry)
  BY DEF TypeOK
<1>2. pend[c][i] \in Entry
  BY <1>1
<1> QED
  BY <1>2 DEF Entry

LEMMA FailKeys ==
    ASSUME TypeInv, KeyInv, NEW p \in Proc, NEW o, Fail(p, o)
    PROVE  KeyInv'
<1> USE DEF Fail, Release
<1>1. ASSUME NEW c \in Coord, NEW i \in 1..Len(pend'[c])
      PROVE  /\ pend'[c] = pend[c] /\ rowLock[c] # p /\ rowLock'[c] = rowLock[c]
             /\ i \in 1..Len(pend[c])
  BY <1>1
<1>2. ASSUME NEW c \in Coord, NEW i \in 1..Len(pend'[c]), pend'[c][i].key # NoKey
      PROVE  keyOwner'[pend'[c][i].key] = rowLock'[c]
  <2>1. pend[c][i].key \in Key
    BY <1>1, <1>2, PendKey
  <2> QED
    BY <1>1, <1>2, <2>1 DEF KeyInv
<1>3. Book!KeysOnce(pend')
  BY <1>1 DEF KeyInv, Book!KeysOnce
<1> QED
  BY <1>2, <1>3 DEF KeyInv, Book!KeysOnce

(* The keys a commit publishes were the transaction's own in the index, so *)
(* they are on no committed movement and on no movement of another.        *)
LEMMA CommitKeys ==
    ASSUME TypeInv, KeyInv, NEW p \in Proc, Commit(p)
    PROVE  KeyInv'
<1> USE ProcAssumption, KeyAssumption
<1>0. /\ \A c \in Coord : /\ rowLock'[c] = IF rowLock[c] = p THEN NoProc ELSE rowLock[c]
                          /\ pend'[c] = IF rowLock[c] = p THEN <<>> ELSE pend[c]
                          /\ book'[c] = IF rowLock[c] = p THEN book[c] \o pend[c] ELSE book[c]
      /\ \A k \in Key : keyOwner'[k] = IF keyOwner[k] = p THEN NoProc ELSE keyOwner[k]
      /\ keyUsed' = keyUsed \cup {k \in Key : keyOwner[k] = p}
  BY DEF Commit, Release
<1>1. ASSUME NEW c \in Coord, NEW i \in 1..Len(pend'[c])
      PROVE  /\ pend'[c] = pend[c] /\ rowLock[c] # p /\ rowLock'[c] = rowLock[c]
             /\ i \in 1..Len(pend[c])
  BY <1>0, <1>1
<1>2. ASSUME NEW c \in Coord, NEW i \in 1..Len(pend'[c]), pend'[c][i].key # NoKey
      PROVE  keyOwner'[pend'[c][i].key] = rowLock'[c]
  <2>1. pend[c][i].key \in Key
    BY <1>1, <1>2, PendKey
  <2> QED
    BY <1>0, <1>1, <1>2, <2>1 DEF KeyInv
<1>3. Book!KeysOnce(pend')
  BY <1>1 DEF KeyInv, Book!KeysOnce
<1>4. ASSUME NEW c \in Coord, NEW i \in 1..Len(book'[c])
      PROVE  \/ /\ i \in 1..Len(book[c]) /\ book'[c][i] = book[c][i]
                /\ book'[c][i].key \in keyUsed \cup {NoKey}
             \/ /\ rowLock[c] = p /\ i - Len(book[c]) \in 1..Len(pend[c])
                /\ book'[c][i] = pend[c][i - Len(book[c])]
                /\ book'[c][i].key # NoKey =>
                     /\ book'[c][i].key \in Key
                     /\ keyOwner[book'[c][i].key] = p
                     /\ book'[c][i].key \notin keyUsed
  <2>1. CASE rowLock[c] # p
    BY <1>0, <1>4, <2>1 DEF KeyInv
  <2>2. CASE rowLock[c] = p
    <3>1. /\ book[c] \in Seq(Entry) /\ pend[c] \in Seq(Entry)
          /\ book'[c] = book[c] \o pend[c]
      BY <1>0, <2>2 DEF TypeOK
    <3>2. /\ Len(book[c]) \in Nat
          /\ \A j \in 1..Len(book[c]) : book'[c][j] = book[c][j]
          /\ \A j \in 1..Len(book'[c]) : j > Len(book[c]) =>
               /\ j - Len(book[c]) \in 1..Len(pend[c])
               /\ book'[c][j] = pend[c][j - Len(book[c])]
      <4> DEFINE r == book[c] \o pend[c]
      <4>1. /\ Len(book[c]) \in Nat
            /\ \A j \in 1..Len(book[c]) : r[j] = book[c][j]
            /\ \A j \in 1..Len(r) : j > Len(book[c]) =>
                 j - Len(book[c]) \in 1..Len(pend[c]) /\ r[j] = pend[c][j - Len(book[c])]
        BY <3>1, ConcatEntries
      <4>2. book'[c] = r
        BY <3>1
      <4> HIDE DEF r
      <4> QED
        BY <4>1, <4>2
    <3>3. CASE i \in 1..Len(book[c])
      BY <3>2, <3>3 DEF KeyInv
    <3>4. CASE i \notin 1..Len(book[c])
      <4>1. i > Len(book[c])
        BY <3>2, <3>4
      <4>2. PICK j \in 1..Len(pend[c]) : j = i - Len(book[c]) /\ book'[c][i] = pend[c][j]
        BY <3>2, <4>1
      <4>3. pend[c][j].key \in Key \cup {NoKey}
        BY PendKey
      <4> QED
        <5>1. pend[c][j].key # NoKey => keyOwner[pend[c][j].key] = rowLock[c]
          BY <4>2 DEF KeyInv
        <5>2. pend[c][j].key # NoKey => pend[c][j].key \in Key /\ pend[c][j].key \notin keyUsed
          BY <2>2, <4>3, <5>1, ProcAssumption DEF KeyInv
        <5> QED
          BY <2>2, <3>2, <4>1, <4>2, <5>1, <5>2
    <3> QED
      BY <3>3, <3>4
  <2> QED
    BY <2>1, <2>2
<1>5. Book!KeysOnce(book')
  <2> SUFFICES ASSUME NEW c \in Coord, NEW d \in Coord,
                      NEW i \in 1..Len(book'[c]), NEW j \in 1..Len(book'[d]),
                      book'[c][i].key = book'[d][j].key, book'[c][i].key # NoKey
               PROVE  c = d /\ i = j
    BY DEF Book!KeysOnce
  <2>1. CASE book'[c][i].key \in keyUsed
    <3>1. /\ i \in 1..Len(book[c]) /\ book'[c][i] = book[c][i]
          /\ j \in 1..Len(book[d]) /\ book'[d][j] = book[d][j]
      BY <1>4, <2>1
    <3> QED
      BY <3>1 DEF KeyInv, Book!KeysOnce
  <2>2. CASE book'[c][i].key \notin keyUsed
    <3>1. /\ i - Len(book[c]) \in 1..Len(pend[c])
          /\ book'[c][i] = pend[c][i - Len(book[c])]
          /\ j - Len(book[d]) \in 1..Len(pend[d])
          /\ book'[d][j] = pend[d][j - Len(book[d])]
      BY <1>4, <2>2
    <3>2. PICK m \in 1..Len(pend[c]) :
            m = i - Len(book[c]) /\ book'[c][i] = pend[c][m]
      BY <3>1
    <3>3. PICK n \in 1..Len(pend[d]) :
            n = j - Len(book[d]) /\ book'[d][j] = pend[d][n]
      BY <3>1
    <3>4. c = d /\ m = n
      <4>1. pend[c][m].key = pend[d][n].key /\ pend[c][m].key # NoKey
        BY <3>2, <3>3
      <4>2. Book!KeysOnce(pend)
        BY DEF KeyInv
      <4> QED
        BY <4>1, <4>2 DEF Book!KeysOnce
    <3>5. Len(book[c]) \in Nat /\ i \in Int /\ j \in Int
      BY DEF TypeOK
    <3> QED
      BY <3>2, <3>3, <3>4, <3>5
  <2> QED
    BY <2>1, <2>2
<1>6. \A c \in Coord : \A i \in 1..Len(book'[c]) : book'[c][i].key \in keyUsed' \cup {NoKey}
  BY <1>0, <1>4
<1>7. \A k \in Key : keyOwner'[k] # NoProc => k \notin keyUsed'
  BY <1>0 DEF KeyInv
<1> QED
  BY <1>2, <1>3, <1>5, <1>6, <1>7 DEF KeyInv

(* The INSERT waits for, or fails on, every other movement with its key.   *)
LEMMA RecordKeys ==
    ASSUME TypeInv, LockInv, KeyInv, NEW p \in Proc, Record(p)
    PROVE  KeyInv'
<1> DEFINE k == Cur(p).coord
           e == [delta |-> Cur(p).delta, before |-> seen[p].quantity,
                 after |-> seen[p].quantity + Cur(p).delta, key |-> Cur(p).key, by |-> p]
<1> USE ProcAssumption, KeyAssumption
<1>1. /\ k \in Coord /\ Cur(p) \in Line /\ seen[p] \in Row /\ rowLock[k] = p
  BY CurType DEF Record, TypeOK, LockInv, Line, Busy, Statement
<1>2. e \in Entry
  BY <1>1 DEF Entry, Line, Row
<1>3. /\ rowLock' = rowLock /\ book' = book /\ keyUsed' = keyUsed
      /\ pend'[k] = Append(pend[k], e)
      /\ \A c \in Coord : c # k => pend'[c] = pend[c]
      /\ \A j \in Key : keyOwner'[j] = IF j = e.key THEN p ELSE keyOwner[j]
      /\ e.key \notin keyUsed
      /\ e.key \in Key => keyOwner[e.key] = NoProc
  BY <1>1 DEF Record, TypeOK, rowVars
<1> HIDE DEF e
<1>4. ASSUME NEW c \in Coord, NEW i \in 1..Len(pend'[c])
      PROVE  \/ i \in 1..Len(pend[c]) /\ pend'[c][i] = pend[c][i]
             \/ c = k /\ i = Len(pend[k]) + 1 /\ pend'[c][i] = e
  <2>1. CASE c # k
    BY <1>3, <1>4, <2>1
  <2>2. CASE c = k
    <3>1. /\ pend[k] \in Seq(Entry) /\ Len(pend[k]) \in Nat
          /\ Len(pend'[k]) = Len(pend[k]) + 1
          /\ \A j \in 1..Len(pend[k]) : pend'[k][j] = pend[k][j]
          /\ pend'[k][Len(pend[k]) + 1] = e
      BY <1>1, <1>2, <1>3 DEF TypeOK
    <3> QED
      BY <1>4, <2>2, <3>1
  <2> QED
    BY <2>1, <2>2
<1>5. ASSUME NEW c \in Coord, NEW i \in 1..Len(pend[c]), pend[c][i].key # NoKey
      PROVE  /\ pend[c][i].key \in Key /\ pend[c][i].key # e.key
             /\ keyOwner[pend[c][i].key] = rowLock[c]
  <2>1. pend[c][i].key \in Key
    BY <1>5, PendKey
  <2>2. keyOwner[pend[c][i].key] = rowLock[c]
    BY <1>5 DEF KeyInv
  <2>3. rowLock[c] # NoProc
    BY <1>5 DEF LockInv
  <2> QED
    BY <1>3, <2>1, <2>2, <2>3
<1>6. ASSUME NEW c \in Coord, NEW i \in 1..Len(pend'[c]), pend'[c][i].key # NoKey
      PROVE  keyOwner'[pend'[c][i].key] = rowLock'[c]
  <2>1. e.key \in Key \cup {NoKey}
    BY <1>2 DEF Entry
  <2> QED
    BY <1>1, <1>3, <1>4, <1>5, <1>6, <2>1
<1>7. Book!KeysOnce(pend')
  <2> SUFFICES ASSUME NEW c \in Coord, NEW d \in Coord,
                      NEW i \in 1..Len(pend'[c]), NEW j \in 1..Len(pend'[d]),
                      pend'[c][i].key = pend'[d][j].key, pend'[c][i].key # NoKey
               PROVE  c = d /\ i = j
    BY DEF Book!KeysOnce
  <2>1. CASE /\ i \in 1..Len(pend[c]) /\ pend'[c][i] = pend[c][i]
             /\ j \in 1..Len(pend[d]) /\ pend'[d][j] = pend[d][j]
    BY <2>1 DEF KeyInv, Book!KeysOnce
  <2>2. CASE c = k /\ i = Len(pend[k]) + 1 /\ pend'[c][i] = e
    BY <1>4, <1>5, <2>2
  <2>3. CASE d = k /\ j = Len(pend[k]) + 1 /\ pend'[d][j] = e
    BY <1>4, <1>5, <2>3
  <2> QED
    BY <1>4, <2>1, <2>2, <2>3
<1>8. \A j \in Key : keyOwner'[j] # NoProc => j \notin keyUsed'
  BY <1>3 DEF KeyInv
<1> QED
  BY <1>3, <1>6, <1>7, <1>8 DEF KeyInv

LEMMA StepKeys ==
    ASSUME TypeInv, LockInv, KeyInv, [Next]_vars
    PROVE  KeyInv'
<1> USE DEF bookVars, keyVars, rowVars
<1>1. ASSUME UNCHANGED <<bookVars, keyVars>>,
             \A c \in Coord : rowLock[c] # NoProc => rowLock'[c] = rowLock[c]
      PROVE  KeyInv'
  <2>1. \A c \in Coord : pend[c] # <<>> => rowLock'[c] = rowLock[c]
    BY <1>1 DEF LockInv
  <2>2. book' = book /\ pend' = pend /\ keyUsed' = keyUsed /\ keyOwner' = keyOwner
    BY <1>1
  <2> QED
    BY <2>1, <2>2 DEF KeyInv, Book!KeysOnce
<1>2. ASSUME NEW p \in Proc, Select(p) \/ Insert(p) PROVE KeyInv'
  <2>1. \A c \in Coord : rowLock[c] # NoProc => rowLock'[c] = rowLock[c]
    BY <1>2 DEF Select, Insert, Hold, TypeOK
  <2> QED
    BY <1>1, <1>2, <2>1 DEF Select, Insert
<1>3. ASSUME NEW p \in Proc,
             Begin(p) \/ Lookup(p) \/ Update(p) \/ CreateLayer(p) \/ ConsumeLayers(p)
      PROVE  KeyInv'
  BY <1>1, <1>3 DEF Begin, Lookup, Update, CreateLayer, ConsumeLayers
<1>4. ASSUME NEW p \in Proc, NEW o, Fail(p, o) PROVE KeyInv'
  BY <1>4, FailKeys
<1>5. CASE UNCHANGED vars
  BY <1>1, <1>5 DEF vars
<1> QED
  BY <1>2, <1>3, <1>4, <1>5, RecordKeys, CommitKeys
     DEF Next, Step, RejectZero, RejectBatch, InsertConflict, RejectBalance,
         RecordConflict, Rollback

(* The whole of what keeps rows, locks, movements and keys in step.        *)
LEMMA Invariance == Spec => [](TypeInv /\ LockInv /\ ChainInv /\ KeyInv)
<1>1. Init => TypeInv /\ LockInv /\ ChainInv /\ KeyInv
  BY InitType, InitRows, InitKeys
<1>2. TypeInv /\ LockInv /\ ChainInv /\ KeyInv /\ [Next]_vars
        => (TypeInv /\ LockInv /\ ChainInv /\ KeyInv)'
  BY StepType, StepRows, StepKeys
<1> QED
  BY <1>1, <1>2, PTL DEF Spec

(* In every reachable state an idempotency key is on at most one movement. *)
THEOREM KeysAppliedOnce == Spec => []KeyAppliedOnce
<1>1. KeyInv => KeyAppliedOnce
  BY DEF KeyInv, KeyAppliedOnce
<1> QED
  BY <1>1, Invariance, PTL

-----------------------------------------------------------------------------
(* Cost layers.                                                            *)

LEMMA InitLayers == Init => LayerInv
  BY LayersAssumption DEF Init, LayerInv, LayersNotOverdrawn, OpenLayers

LEMMA ConsumeInv ==
    ASSUME TypeInv, LayerInv, NEW p \in Proc, ConsumeLayers(p)
    PROVE  LayerInv'
<1> DEFINE l == PoolOf[Cur(p).coord]
<1>1. Cur(p) \in Line /\ l \in Pool
  BY CurType, PoolAssumption DEF ConsumeLayers, Line, Busy, Statement
<1>a. PICK take \in Drawn(p, l, -Cur(p).delta) :
        layerDelta' = [layerDelta EXCEPT ![p][l] = @ - take]
  BY Zenon DEF ConsumeLayers
<1>b. /\ layers' = layers
      /\ poolLock' = [poolLock EXCEPT ![l] = IF layers[l] > 0 THEN p ELSE @]
      /\ poolLock[l] \in {p, NoProc} \/ layers[l] = 0
  BY DEF ConsumeLayers
<1>c. layerDelta \in [Proc -> [Pool -> Int]] /\ poolLock \in [Pool -> Proc \cup {NoProc}]
  BY DEF TypeOK
<1> HIDE DEF l
<1>2. /\ layers' = layers
      /\ layerDelta'[p][l] = layerDelta[p][l] - take
      /\ \A q \in Proc, m \in Pool :
           (q # p \/ m # l) => layerDelta'[q][m] = layerDelta[q][m]
      /\ \A m \in Pool : m # l => poolLock'[m] = poolLock[m]
      /\ poolLock'[l] = IF layers[l] > 0 THEN p ELSE poolLock[l]
      /\ poolLock[l] \in {p, NoProc} \/ layers[l] = 0
  BY <1>1, <1>a, <1>b, <1>c
<1>3. /\ layers[l] \in Int /\ layerDelta[p][l] \in Int /\ Cur(p).delta \in Int
      /\ Cur(p).delta <= 0
  BY <1>1 DEF TypeOK, Line, ConsumeLayers
<1>4. layers[l] + layerDelta[p][l] >= take /\ take \in Int
  BY <1>2, <1>3 DEF OpenLayers, Drawn
<1>5. layers[l] >= 0
  BY <1>1 DEF LayerInv, LayersNotOverdrawn
<1>6. layerDelta'[p][l] < 0 => poolLock'[l] = p
  BY <1>2, <1>3, <1>4, <1>5
<1>7. ASSUME NEW q \in Proc, q # p, layerDelta[q][l] < 0
      PROVE  poolLock'[l] = q
  <2>1. poolLock[l] = q
    BY <1>1, <1>7 DEF LayerInv
  <2>2. layers[l] > 0
    <3>1. layers[l] + layerDelta[q][l] >= 0 /\ layerDelta[q][l] \in Int
      BY <1>1 DEF LayerInv, LayersNotOverdrawn, OpenLayers, TypeOK
    <3> QED
      BY <1>3, <1>7, <3>1
  <2>3. q # NoProc
    BY ProcAssumption
  <2> QED
    BY <1>2, <1>7, <2>1, <2>2, <2>3
<1>8. LayersNotOverdrawn'
  <2>1. /\ \A m \in Pool : layers[m] >= 0
        /\ \A q \in Proc, m \in Pool : layers[m] + layerDelta[q][m] >= 0
    BY DEF LayerInv, LayersNotOverdrawn, OpenLayers
  <2>2. layers'[l] + layerDelta'[p][l] >= 0
    BY <1>2, <1>3, <1>4
  <2>3. ASSUME NEW q \in Proc, NEW m \in Pool
        PROVE  layers'[m] + layerDelta'[q][m] >= 0
    BY <1>2, <2>1, <2>2
  <2> QED
    BY <1>2, <2>1, <2>3 DEF LayersNotOverdrawn, OpenLayers
<1>9. ASSUME NEW q \in Proc, NEW m \in Pool, layerDelta'[q][m] < 0
      PROVE  poolLock'[m] = q
  <2>1. CASE m # l
    BY <1>2, <1>9, <2>1 DEF LayerInv
  <2>2. CASE m = l /\ q = p
    BY <1>6, <1>9, <2>2
  <2>3. CASE m = l /\ q # p
    BY <1>2, <1>1, <1>7, <1>9, <2>3
  <2> QED
    BY <2>1, <2>2, <2>3
<1> QED
  BY <1>8, <1>9 DEF LayerInv

LEMMA StepLayers ==
    ASSUME TypeInv, LayerInv, [Next]_vars
    PROVE  LayerInv'
<1>1. ASSUME UNCHANGED layerVars PROVE LayerInv'
  BY <1>1 DEF layerVars, LayerInv, LayersNotOverdrawn, OpenLayers
<1>2. ASSUME NEW p \in Proc, CreateLayer(p) PROVE LayerInv'
  <2> DEFINE l == PoolOf[Cur(p).coord]
  <2>1. Cur(p) \in Line /\ l \in Pool /\ Cur(p).delta \in Int /\ Cur(p).delta > 0
    BY <1>2, CurType, PoolAssumption DEF CreateLayer, Line, Busy, Statement
  <2>2. /\ layers' = layers /\ poolLock' = poolLock
        /\ \A q \in Proc, m \in Pool : /\ layerDelta'[q][m] \in Int
                                       /\ layerDelta[q][m] \in Int
                                       /\ layerDelta'[q][m] >= layerDelta[q][m]
    BY <1>2, <2>1 DEF CreateLayer, TypeOK
  <2> QED
    <3>1. \A m \in Pool : layers[m] \in Int /\ layers'[m] = layers[m]
      BY <2>2 DEF TypeOK
    <3>2. /\ \A m \in Pool : layers[m] >= 0
          /\ \A q \in Proc, m \in Pool : layers[m] + layerDelta[q][m] >= 0
          /\ \A q \in Proc, m \in Pool : layerDelta[q][m] < 0 => poolLock[m] = q
      BY DEF LayerInv, LayersNotOverdrawn, OpenLayers
    <3>3. /\ \A m \in Pool : layers'[m] >= 0
          /\ \A q \in Proc, m \in Pool : layers'[m] + layerDelta'[q][m] >= 0
          /\ \A q \in Proc, m \in Pool : layerDelta'[q][m] < 0 => poolLock'[m] = q
      BY <2>2, <3>1, <3>2
    <3> QED
      BY <3>3 DEF LayerInv, LayersNotOverdrawn, OpenLayers
<1>3. ASSUME NEW p \in Proc, ConsumeLayers(p) PROVE LayerInv'
  BY <1>3, ConsumeInv
<1>4. ASSUME NEW p \in Proc, Commit(p) PROVE LayerInv'
  <2>1. /\ \A m \in Pool : layers'[m] = layers[m] + layerDelta[p][m]
        /\ \A m \in Pool : layerDelta'[p][m] = 0
        /\ \A q \in Proc : q # p => layerDelta'[q] = layerDelta[q]
        /\ \A m \in Pool : poolLock'[m] = IF poolLock[m] = p THEN NoProc ELSE poolLock[m]
    BY <1>4 DEF Commit, Release, OpenLayers, TypeOK
  <2>2. \A q \in Proc, m \in Pool : layerDelta[q][m] \in Int /\ layers[m] \in Int
    BY DEF TypeOK
  <2>3. \A q \in Proc, m \in Pool :
          q # p /\ layerDelta[q][m] < 0 => poolLock[m] = q /\ layerDelta[p][m] >= 0
    BY <2>2 DEF LayerInv
  <2> QED
    BY <2>1, <2>2, <2>3 DEF LayerInv, LayersNotOverdrawn, OpenLayers
<1>5. ASSUME NEW p \in Proc, NEW o, Fail(p, o) PROVE LayerInv'
  <2>1. /\ layers' = layers
        /\ \A m \in Pool : layerDelta'[p][m] = 0
        /\ \A q \in Proc : q # p => layerDelta'[q] = layerDelta[q]
        /\ \A m \in Pool : poolLock'[m] = IF poolLock[m] = p THEN NoProc ELSE poolLock[m]
    BY <1>5 DEF Fail, Release, TypeOK
  <2>2. \A q \in Proc, m \in Pool : layerDelta[q][m] \in Int /\ layers[m] \in Int
    BY DEF TypeOK
  <2> QED
    BY <2>1, <2>2 DEF LayerInv, LayersNotOverdrawn, OpenLayers
<1>6. ASSUME NEW p \in Proc,
             Begin(p) \/ Lookup(p) \/ Select(p) \/ Insert(p) \/ Update(p) \/ Record(p)
      PROVE  LayerInv'
  BY <1>1, <1>6 DEF Begin, Lookup, Select, Insert, Update, Record
<1>7. CASE UNCHANGED vars
  BY <1>1, <1>7 DEF vars
<1> QED
  BY <1>2, <1>3, <1>4, <1>5, <1>6, <1>7
     DEF Next, Step, RejectZero, RejectBatch, InsertConflict, RejectBalance,
         RecordConflict, Rollback

(* No pool is ever overdrawn, whatever draws are still uncommitted.        *)
THEOREM LayersSafe == Spec => []LayersNotOverdrawn
<1>1. Init => TypeInv /\ LayerInv
  BY InitType, InitLayers
<1>2. TypeInv /\ LayerInv /\ [Next]_vars => (TypeInv /\ LayerInv)'
  BY StepType, StepLayers
<1>3. LayerInv => LayersNotOverdrawn
  BY DEF LayerInv
<1> QED
  BY <1>1, <1>2, <1>3, PTL DEF Spec

-----------------------------------------------------------------------------
(* The ledger implements StockBook.                                        *)

LEMMA CommitPosts ==
    ASSUME TypeInv, BookAgrees', KeyInv', NEW p \in Proc, Commit(p)
    PROVE  Book!Post
<1>1. ASSUME NEW c \in Coord PROVE Book!Extends(book[c], book'[c])
  <2>1. CASE rowLock[c] = p
    <3> DEFINE r == book[c] \o pend[c]
    <3>1. book[c] \in Seq(Entry) /\ pend[c] \in Seq(Entry)
      BY DEF TypeOK
    <3>2. Len(book[c]) <= Len(r) /\ \A i \in 1..Len(book[c]) : r[i] = book[c][i]
      BY <3>1, ConcatEntries, Zenon
    <3>3. book'[c] = r
      BY <2>1 DEF Commit
    <3> HIDE DEF r
    <3>4. Len(book[c]) \in Nat
      BY <3>1
    <3> QED
      BY <3>2, <3>3, <3>4 DEF Book!Extends
  <2>2. CASE rowLock[c] # p
    <3>1. book'[c] = book[c] /\ Len(book[c]) \in Nat
      BY <2>2 DEF Commit, TypeOK
    <3> QED
      BY <3>1 DEF Book!Extends
  <2> QED
    BY <2>1, <2>2
<1>2. Book!Sound(book, [c \in Coord |-> items[c].quantity])'
  BY DEF BookAgrees, KeyInv, Book!Sound
<1> QED
  BY <1>1, <1>2 DEF Book!Post

(* Every commit of the ledger is one step of the book; all its other steps *)
(* are invisible there.                                                    *)
THEOREM Refinement == Spec => ImplementsBook
<1> DEFINE I == TypeInv /\ LockInv /\ ChainInv /\ KeyInv
<1>1. Init => Book!Init
  BY InitRows, InitKeys DEF ChainInv, BookAgrees, KeyInv, Book!Init, Book!Sound
<1>2. I /\ I' /\ [Next]_vars => [Book!Post]_(Book!vars)
  <2> SUFFICES ASSUME I, I', [Next]_vars
               PROVE  [Book!Post]_(Book!vars)
    OBVIOUS
  <2>1. CASE \E p \in Proc : Commit(p)
    BY <2>1, CommitPosts DEF ChainInv
  <2>2. CASE UNCHANGED <<book, items>>
    BY <2>2 DEF Book!vars
  <2>3. CASE UNCHANGED vars
    BY <2>2, <2>3 DEF vars, rowVars, bookVars
  <2>4. ASSUME NEW p \in Proc, Step(p) PROVE Commit(p) \/ UNCHANGED <<book, items>>
    BY <2>4 DEF Step, Lookup, RejectZero, RejectBatch, Select, Insert,
           InsertConflict, Update, RejectBalance, Record, RecordConflict, CreateLayer,
           ConsumeLayers, Fail, rowVars, bookVars
  <2>5. ASSUME NEW p \in Proc, Begin(p) \/ Rollback(p) PROVE UNCHANGED <<book, items>>
    BY <2>5 DEF Begin, Rollback, Fail, rowVars, bookVars
  <2> QED
    BY <2>1, <2>2, <2>3, <2>4, <2>5 DEF Next
<1> QED
  BY <1>1, <1>2, Invariance, PTL DEF Spec, ImplementsBook, Book!Spec

-----------------------------------------------------------------------------
(* A request is one atomic unit.                                           *)

(* How many lines of its job a request has put into a movement, which they *)
(* are at a coordinate, and which uncommitted movements are its own.       *)
Taken(p) == Len(job[p]) - Len(todo[p]) + (IF pc[p] = "layers" THEN 1 ELSE 0)
TakenAt(p, c) == {i \in 1..Taken(p) : job[p][i].coord = c}
PendOf(p, c) == IF rowLock[c] = p THEN 1..Len(pend[c]) ELSE {}

(* A request whose key was found skips its one line.                       *)
Retried(p) ==
    /\ pc[p] = "commit"
    /\ \A c \in Coord : rowLock[c] # p
    /\ \A i \in 1..Len(job[p]) : job[p][i].key \in keyUsed

(* A running request works through its job from the front, and its         *)
(* uncommitted movements are those of the lines behind it.                 *)
Progress(p) ==
    /\ job[p] \in Jobs
    /\ Len(todo[p]) <= Len(job[p])
    /\ \A i \in 1..Len(todo[p]) : todo[p][i] = job[p][Len(job[p]) - Len(todo[p]) + i]
    /\ pc[p] = "commit" => todo[p] = <<>>
    /\ pc[p] = "lookup" /\ Len(todo[p]) = Len(job[p]) =>
         /\ \A c \in Coord : rowLock[c] # p
         /\ \A k \in Key : keyOwner[k] # p
    /\ Retried(p) \/ \A c \in Coord : SameInOrder(job[p], TakenAt(p, c), pend[c], PendOf(p, c))

JobInv == \A p \in Proc : pc[p] \in Statement => Progress(p)

(* Uncommitted movements are the lock owner's, and only a running request  *)
(* owns a key or can still get an answer.                                  *)
OwnInv ==
    /\ \A k \in Key : keyOwner[k] # NoProc => pc[keyOwner[k]] \in Statement
    /\ \A c \in Coord : \A i \in 1..Len(pend[c]) : pend[c][i].by = rowLock[c]
    /\ \A p \in Proc : pc[p] # "done" => outcome[p] = "none"

(* Nothing is matched by nothing, and by nothing else.                     *)
LEMMA NothingInOrder ==
    ASSUME NEW s, NEW b, NEW L, NEW E, L = {} \/ E = {}
    PROVE  SameInOrder(s, L, b, E) <=> L = {} /\ E = {}
<1>1. ASSUME SameInOrder(s, L, b, E) PROVE L = {} /\ E = {}
  BY <1>1 DEF SameInOrder
<1>2. ASSUME L = {}, E = {} PROVE SameInOrder(s, L, b, E)
  <2>1. [x \in {} |-> x] \in [L -> E]
    BY <1>2
  <2> QED
    BY <1>2, <2>1 DEF SameInOrder
<1> QED
  BY <1>1, <1>2

(* One line and one entry are added at the end.                            *)
LEMMA AddedInOrder ==
    ASSUME NEW s, NEW b \in Seq(Entry), NEW e \in Entry, NEW n \in Nat, NEW L \in SUBSET (1..n),
           SameInOrder(s, L, b, 1..Len(b)), e.delta = s[n + 1].delta
    PROVE  SameInOrder(s, L \cup {n + 1}, Append(b, e), 1..Len(Append(b, e)))
<1> DEFINE m == Len(b) + 1
<1>1. m \in Nat /\ m \notin 1..Len(b) /\ 1..m = (1..Len(b)) \cup {m} /\ Len(b) \in Nat
  OBVIOUS
<1>2. Len(Append(b, e)) = m /\ Append(b, e)[m] = e
      /\ \A i \in 1..Len(b) : Append(b, e)[i] = b[i]
  OBVIOUS
<1>3. PICK f \in [L -> 1..Len(b)] :
        /\ \A x \in 1..Len(b) : \E i \in L : f[i] = x
        /\ \A i, j \in L : i < j => f[i] < f[j]
        /\ \A i \in L : b[f[i]].delta = s[i].delta
  BY DEF SameInOrder
<1> DEFINE g == [i \in L \cup {n + 1} |-> IF i = n + 1 THEN m ELSE f[i]]
<1>4. n + 1 \notin L /\ \A i \in L : i \in Nat /\ i < n + 1
  OBVIOUS
<1> HIDE DEF m
<1>5. \A i \in L : g[i] = f[i] /\ f[i] \in 1..Len(b)
  BY <1>4
<1>6. g[n + 1] = m
  OBVIOUS
<1>7. g \in [L \cup {n + 1} -> 1..m]
  BY <1>1
<1> HIDE DEF g
<1>8. ASSUME NEW x \in 1..m PROVE \E i \in L \cup {n + 1} : g[i] = x
  BY <1>1, <1>3, <1>5, <1>6
<1>9. ASSUME NEW i \in L \cup {n + 1}, NEW j \in L \cup {n + 1}, i < j PROVE g[i] < g[j]
  <2>1. i \in L
    BY <1>4, <1>9
  <2>2. CASE j \in L
    BY <1>3, <1>5, <1>9, <2>1, <2>2
  <2>3. CASE j = n + 1
    <3>1. f[i] < m
      BY <1>1, <1>5, <2>1 DEF m
    <3> QED
      BY <1>5, <1>6, <2>1, <2>3, <3>1
  <2> QED
    BY <2>2, <2>3
<1>10. ASSUME NEW i \in L \cup {n + 1} PROVE Append(b, e)[g[i]].delta = s[i].delta
  <2>1. CASE i \in L
    BY <1>2, <1>3, <1>5, <2>1
  <2>2. CASE i = n + 1
    BY <1>2, <1>6, <2>2
  <2> QED
    BY <2>1, <2>2
<1> QED
  BY <1>2, <1>7, <1>8, <1>9, <1>10 DEF SameInOrder

(* The entries of a book are joined to those of another that holds none of *)
(* the lines.                                                              *)
LEMMA JoinedInOrder ==
    ASSUME NEW s, NEW L \in SUBSET Nat, NEW b \in Seq(Entry), NEW d \in Seq(Entry), NEW E,
           SameInOrder(s, L, d, 1..Len(d)),
           E = {i \in 1..Len(b \o d) : i > Len(b)}
    PROVE  SameInOrder(s, L, b \o d, E)
<1>1. /\ Len(b) \in Nat /\ Len(d) \in Nat /\ Len(b \o d) = Len(b) + Len(d)
      /\ \A x \in 1..Len(d) : (b \o d)[Len(b) + x] = d[x]
  OBVIOUS
<1>2. PICK f \in [L -> 1..Len(d)] :
        /\ \A x \in 1..Len(d) : \E i \in L : f[i] = x
        /\ \A i, j \in L : i < j => f[i] < f[j]
        /\ \A i \in L : d[f[i]].delta = s[i].delta
  BY DEF SameInOrder
<1> DEFINE g == [i \in L |-> Len(b) + f[i]]
           r == b \o d
<1>3. \A i \in L : g[i] = Len(b) + f[i] /\ f[i] \in 1..Len(d)
  OBVIOUS
<1>4. E = {i \in 1..Len(r) : i > Len(b)} /\ Len(r) = Len(b) + Len(d)
      /\ \A x \in 1..Len(d) : r[Len(b) + x] = d[x]
  BY <1>1
<1> HIDE DEF r
<1>5. g \in [L -> E]
  BY <1>1, <1>4
<1> HIDE DEF g
<1>6. ASSUME NEW x \in E PROVE \E i \in L : g[i] = x
  <2>1. x - Len(b) \in 1..Len(d)
    BY <1>1, <1>4
  <2>2. PICK i \in L : f[i] = x - Len(b)
    BY <1>2, <2>1
  <2>3. g[i] = x
    BY <1>1, <1>3, <1>4, <2>2
  <2> QED
    BY <2>3
<1>7. \A i, j \in L : i < j => g[i] < g[j]
  BY <1>1, <1>2, <1>3
<1>8. ASSUME NEW i \in L PROVE r[g[i]].delta = s[i].delta
  <2>1. PICK x \in 1..Len(d) : x = f[i]
    BY <1>3
  <2>2. g[i] = Len(b) + x /\ r[Len(b) + x] = d[x]
    BY <1>3, <1>4, <2>1
  <2>3. r[g[i]] = d[f[i]]
    BY <2>1, <2>2
  <2> QED
    BY <1>2, <2>3
<1> QED
  BY <1>5, <1>6, <1>7, <1>8 DEF SameInOrder, r

(* What a step of another request leaves of the progress of q.             *)
LEMMA ProgressKept ==
    ASSUME TypeInv, NEW q \in Proc, Progress(q),
           pc'[q] = pc[q], job'[q] = job[q], todo'[q] = todo[q],
           \A c \in Coord : rowLock'[c] = q <=> rowLock[c] = q,
           \A c \in Coord : rowLock[c] = q => pend'[c] = pend[c],
           \A k \in Key : keyOwner'[k] = q => keyOwner[k] = q,
           keyUsed \subseteq keyUsed'
    PROVE  Progress(q)'
<1>1. Taken(q)' = Taken(q)
  BY DEF Taken
<1>2. ASSUME NEW c \in Coord
      PROVE  TakenAt(q, c)' = TakenAt(q, c) /\ PendOf(q, c)' = PendOf(q, c)
  BY <1>1 DEF TakenAt, PendOf
<1>3. ASSUME NEW c \in Coord, SameInOrder(job[q], TakenAt(q, c), pend[c], PendOf(q, c))
      PROVE  SameInOrder(job[q], TakenAt(q, c), pend'[c], PendOf(q, c))
  <2>1. CASE rowLock[c] = q
    BY <1>3, <2>1
  <2>2. CASE rowLock[c] # q
    <3>1. PendOf(q, c) = {}
      BY <2>2 DEF PendOf
    <3> QED
      BY <1>3, <3>1, NothingInOrder
  <2> QED
    BY <2>1, <2>2
<1>4. Retried(q) => Retried(q)'
  BY DEF Retried
<1>5. (\A c \in Coord : SameInOrder(job[q], TakenAt(q, c), pend[c], PendOf(q, c)))
        => \A c \in Coord : SameInOrder(job[q], TakenAt(q, c), pend[c], PendOf(q, c))'
  <2> SUFFICES ASSUME \A c \in Coord : SameInOrder(job[q], TakenAt(q, c), pend[c], PendOf(q, c)),
                      NEW c \in Coord
               PROVE  SameInOrder(job[q], TakenAt(q, c), pend[c], PendOf(q, c))'
    OBVIOUS
  <2>1. SameInOrder(job'[q], TakenAt(q, c)', pend'[c], PendOf(q, c)')
    BY <1>2, <1>3
  <2> QED
    BY <2>1 DEF SameInOrder
<1> QED
  BY <1>4, <1>5 DEF Progress

(* A request that goes on without recording a movement.                    *)
LEMMA ProgressMoves ==
    ASSUME TypeInv, NEW p \in Proc, Progress(p), pc[p] \in Busy,
           pc'[p] \in Statement \ {"layers"}, job'[p] = job[p], pend' = pend,
           \/ pc[p] # "layers" /\ todo'[p] = todo[p] /\ pc'[p] \in Busy \ {"lookup"}
           \/ /\ pc[p] = "layers" /\ todo'[p] = Tail(todo[p])
              /\ pc'[p] = IF Tail(todo[p]) = <<>> THEN "commit" ELSE "lookup",
           \A c \in Coord : PendOf(p, c)' = PendOf(p, c)
    PROVE  Progress(p)'
<1>1. /\ todo[p] \in Seq(Line) /\ todo[p] # <<>> /\ job[p] \in Seq(Line)
      /\ Len(todo[p]) \in Nat /\ Len(todo[p]) > 0 /\ Len(job[p]) \in Nat
  BY DEF TypeOK, HasLine
<1>2. /\ Len(Tail(todo[p])) = Len(todo[p]) - 1
      /\ \A i \in 1..(Len(todo[p]) - 1) : Tail(todo[p])[i] = todo[p][i + 1]
  BY <1>1
<1>0. /\ pc[p] # "layers" => Len(todo'[p]) = Len(todo[p]) /\ pc'[p] # "lookup"
      /\ pc[p] = "layers" => Len(todo'[p]) = Len(todo[p]) - 1
  <2>1. CASE pc[p] # "layers"
    BY <2>1
  <2>2. CASE pc[p] = "layers"
    <3>1. todo'[p] = Tail(todo[p])
      BY <2>2
    <3> QED
      BY <1>2, <2>2, <3>1
  <2> QED
    BY <2>1, <2>2
<1>3. Taken(p)' = Taken(p)
  <2>1. CASE pc[p] # "layers"
    BY <1>0, <2>1 DEF Taken
  <2>2. CASE pc[p] = "layers"
    <3> DEFINE l == Len(todo[p])
               n == Len(job[p])
    <3>1. l \in Nat /\ n \in Nat /\ Len(todo'[p]) = l - 1 /\ pc'[p] # "layers" /\ job'[p] = job[p]
      BY <1>0, <1>1, <2>2
    <3>2. Taken(p)' = n - (l - 1) + 0 /\ Taken(p) = n - l + 1
      BY <2>2, <3>1 DEF Taken
    <3> HIDE DEF l, n
    <3> QED
      BY <3>1, <3>2
  <2> QED
    BY <2>1, <2>2
<1>4. Len(todo[p]) <= Len(job[p]) /\ Len(todo'[p]) <= Len(job[p])
  <2>1. Len(todo[p]) <= Len(job[p])
    BY DEF Progress
  <2> QED
    BY <1>0, <1>1, <2>1
<1>5. ASSUME NEW i \in 1..Len(todo'[p])
      PROVE  todo'[p][i] = job[p][Len(job[p]) - Len(todo'[p]) + i]
  <2>1. CASE todo'[p] = todo[p]
    BY <2>1 DEF Progress
  <2>2. CASE todo'[p] = Tail(todo[p])
    <3>1. i + 1 \in 1..Len(todo[p]) /\ i \in 1..(Len(todo[p]) - 1)
      BY <1>1, <1>2, <2>2
    <3>2. todo[p][i + 1] = job[p][Len(job[p]) - Len(todo[p]) + (i + 1)]
      BY <3>1 DEF Progress
    <3>3. Len(job[p]) - Len(todo[p]) + (i + 1) = Len(job[p]) - Len(todo'[p]) + i
      <4> DEFINE l == Len(todo[p])
                 n == Len(job[p])
      <4>1. Len(todo'[p]) = l - 1 /\ i \in Int /\ l \in Int /\ n \in Int
        BY <1>1, <1>2, <2>2
      <4> HIDE DEF l, n
      <4>2. n - l + (i + 1) = n - (l - 1) + i
        BY <4>1
      <4> QED
        BY <4>1, <4>2 DEF l, n
    <3> QED
      BY <1>2, <2>2, <3>1, <3>2, <3>3
  <2> QED
    BY <2>1, <2>2
<1>6. pc'[p] = "commit" => todo'[p] = <<>>
  BY DEF Busy
<1>7. ~(pc'[p] = "lookup" /\ Len(todo'[p]) = Len(job[p]))
  BY <1>0, <1>1, <1>4
<1>8. ASSUME NEW c \in Coord
      PROVE  SameInOrder(job[p], TakenAt(p, c), pend[c], PendOf(p, c))'
  <2>1. SameInOrder(job[p], TakenAt(p, c), pend[c], PendOf(p, c))
    BY DEF Progress, Retried, Busy
  <2>2. TakenAt(p, c)' = TakenAt(p, c)
    BY <1>3 DEF TakenAt
  <2>3. SameInOrder(job'[p], TakenAt(p, c)', pend'[c], PendOf(p, c)')
    BY <2>1, <2>2
  <2> QED
    BY <2>3 DEF SameInOrder
<1>9. job[p] \in Jobs
  BY DEF Progress
<1> QED
  BY <1>4, <1>5, <1>6, <1>7, <1>8, <1>9 DEF Progress

(* The line a request is at is the first of its job it has not yet taken.  *)
LEMMA CurrentLine ==
    ASSUME TypeInv, NEW p \in Proc, Progress(p), pc[p] \in Busy
    PROVE  /\ Len(job[p]) \in Nat /\ Len(todo[p]) \in Nat \ {0}
           /\ Len(todo[p]) <= Len(job[p])
           /\ Len(job[p]) - Len(todo[p]) \in Nat
           /\ Cur(p) = job[p][Len(job[p]) - Len(todo[p]) + 1]
           /\ todo[p] \in Seq(Line) /\ todo[p] # <<>>
<1>1. /\ todo[p] \in Seq(Line) /\ todo[p] # <<>> /\ job[p] \in Seq(Line)
      /\ Len(job[p]) \in Nat /\ Len(todo[p]) \in Nat \ {0}
  BY DEF TypeOK, HasLine
<1>2. 1 \in 1..Len(todo[p])
  BY <1>1
<1>3. /\ Len(todo[p]) <= Len(job[p])
      /\ \A i \in 1..Len(todo[p]) : todo[p][i] = job[p][Len(job[p]) - Len(todo[p]) + i]
  BY DEF Progress
<1>4. todo[p][1] = job[p][Len(job[p]) - Len(todo[p]) + 1]
  BY <1>2, <1>3, Zenon
<1>5. Cur(p) = todo[p][1]
  BY <1>1 DEF Cur
<1>6. Len(job[p]) - Len(todo[p]) \in Nat
  BY <1>1, <1>3
<1> QED
  BY <1>1, <1>3, <1>4, <1>5, <1>6

(* A request begins with its whole job before it and nothing of its own.   *)
LEMMA ProgressBegins ==
    ASSUME TypeInv, LockInv, OwnInv, NEW p \in Proc, Begin(p)
    PROVE  Progress(p)'
<1> USE ProcAssumption DEF Begin, rowVars, bookVars, keyVars
<1>1. PICK j \in Jobs : job' = [job EXCEPT ![p] = j] /\ todo' = [todo EXCEPT ![p] = j]
  OBVIOUS
<1>2. job'[p] = j /\ todo'[p] = j /\ pc'[p] = "lookup" /\ j \in Seq(Line)
  BY <1>1, JobsAssumption DEF TypeOK
<1> DEFINE n == Len(j)
<1>0. n \in Nat /\ Len(job'[p]) = n /\ Len(todo'[p]) = n
  BY <1>2
<1>3. /\ \A c \in Coord : rowLock'[c] # p
      /\ \A k \in Key : keyOwner'[k] # p
  <2>1. pc[p] \notin Statement
    BY DEF Statement
  <2> QED
    BY <2>1 DEF LockInv, OwnInv
<1> HIDE DEF n
<1>4. Taken(p)' = 0
  <2>1. Taken(p)' = n - n + 0
    BY <1>0, <1>2 DEF Taken
  <2> QED
    BY <1>0, <2>1
<1>5. ASSUME NEW c \in Coord
      PROVE  SameInOrder(job[p], TakenAt(p, c), pend[c], PendOf(p, c))'
  <2>1. TakenAt(p, c)' = {} /\ PendOf(p, c)' = {}
    BY <1>3, <1>4 DEF TakenAt, PendOf
  <2>2. SameInOrder(job'[p], TakenAt(p, c)', pend'[c], PendOf(p, c)')
    BY <2>1, NothingInOrder
  <2> QED
    BY <2>2 DEF SameInOrder
<1>6. ASSUME NEW i \in 1..n PROVE todo'[p][i] = job'[p][n - n + i]
  <2>1. n - n + i = i
    BY <1>0
  <2> QED
    BY <1>2, <2>1
<1>7. \A i \in 1..Len(todo'[p]) : todo'[p][i] = job'[p][Len(job'[p]) - Len(todo'[p]) + i]
  BY <1>0, <1>6, Zenon
<1>8. job'[p] \in Jobs /\ Len(todo'[p]) <= Len(job'[p]) /\ pc'[p] # "commit"
  BY <1>0, <1>2
<1> QED
  BY <1>3, <1>5, <1>7, <1>8, Zenon DEF Progress

(* A key that is found is the only line's, and on a committed movement:    *)
(* the request has none of its own yet.                                    *)
LEMMA ProgressSkips ==
    ASSUME TypeInv, NEW p \in Proc, Progress(p), Lookup(p), KeyVisible(p, Cur(p).key)
    PROVE  Progress(p)'
<1> USE KeyAssumption DEF Lookup, rowVars, bookVars, keyVars
<1>1. pc[p] = "lookup" /\ pc[p] \in Busy /\ NextLine(p)
  BY DEF Busy, Statement
<1>2. Cur(p).key \in Key
  BY DEF KeyVisible, TypeOK
<1> DEFINE l == Len(todo[p])
           n == Len(job[p])
<1>3. n \in Nat /\ l \in Nat \ {0} /\ l <= n /\ Cur(p) = job[p][n - l + 1]
  BY <1>1, CurrentLine
<1>4. n = 1 /\ l = 1
  <2>1. job[p] \in Jobs
    BY DEF Progress
  <2>2. n > 1 => \A i \in 1..n : job[p][i].key = NoKey
    BY <2>1, KeyedJobAssumption
  <2> HIDE DEF l, n
  <2>3. n - l + 1 \in 1..n
    BY <1>3
  <2>4. ~(n > 1)
    BY <1>2, <1>3, <2>2, <2>3
  <2> QED
    BY <1>3, <2>4
<1>5. (\A c \in Coord : rowLock[c] # p) /\ (\A k \in Key : keyOwner[k] # p)
  BY <1>1, <1>4 DEF Progress
<1>6. \A i \in 1..Len(job[p]) : job[p][i].key \in keyUsed
  <2>1. Cur(p).key \in keyUsed
    BY <1>2, <1>5 DEF KeyVisible
  <2>2. Cur(p) = job[p][1]
    BY <1>3, <1>4
  <2> QED
    BY <1>4, <2>1, <2>2
<1>7. Tail(todo[p]) = <<>>
  <2>1. todo[p] \in Seq(Line) /\ todo[p] # <<>>
    BY <1>1, CurrentLine
  <2>2. Tail(todo[p]) \in Seq(Line) /\ Len(Tail(todo[p])) = 0
    BY <1>4, <2>1
  <2>3. Len(Tail(todo[p])) \notin Nat \ {0}
    BY <2>2
  <2> QED
    BY <2>2, <2>3, EmptySeq, Zenon
<1>8. pc'[p] = "commit" /\ todo'[p] = <<>> /\ job'[p] = job[p]
  BY <1>1, <1>7 DEF NextLine, TypeOK
<1>9. Retried(p)'
  BY <1>5, <1>6, <1>8 DEF Retried
<1>10. job[p] \in Jobs /\ Len(job[p]) = 1
  BY <1>4 DEF Progress
<1>11. Len(todo'[p]) = 0 /\ Len(job'[p]) = 1
  BY <1>8, <1>10
<1>12. 1..Len(todo'[p]) = {}
  BY <1>11
<1> HIDE DEF l, n
<1> QED
  BY <1>8, <1>9, <1>10, <1>11, <1>12 DEF Progress

(* A movement is recorded for the line the request is at.                  *)
LEMMA ProgressRecords ==
    ASSUME TypeInv, LockInv, NEW p \in Proc, Progress(p), Record(p)
    PROVE  Progress(p)'
<1>1. /\ Cur(p) \in Line /\ Cur(p).coord \in Coord /\ seen[p] \in Row
      /\ rowLock[Cur(p).coord] = p
      /\ pc[p] = "record" /\ pc'[p] = "layers" /\ UNCHANGED <<job, todo, rowLock>>
  <2>1. pc[p] = "record" /\ pc'[p] = "layers" /\ UNCHANGED <<job, todo, rowLock>>
    BY DEF Record, Goto, TypeOK, rowVars
  <2>2. Cur(p) \in Line /\ Cur(p).coord \in Coord
    BY <2>1, CurType DEF Line, Busy, Statement
  <2>3. seen[p] \in Row /\ rowLock[Cur(p).coord] = p
    BY <2>1 DEF TypeOK, LockInv
  <2> QED
    BY <2>1, <2>2, <2>3
<1>2. PICK k \in Coord : k = Cur(p).coord
  BY <1>1
<1> DEFINE n == Len(job[p]) - Len(todo[p])
           e == [delta |-> Cur(p).delta, before |-> seen[p].quantity,
                 after |-> seen[p].quantity + Cur(p).delta, key |-> Cur(p).key, by |-> p]
<1>3. e \in Entry
  BY <1>1 DEF Entry, Line, Row
<1>4. /\ pend'[k] = Append(pend[k], e)
      /\ \A c \in Coord : c # k => pend'[c] = pend[c]
  BY <1>1, <1>2 DEF Record, TypeOK
<1>5. n \in Nat /\ Cur(p) = job[p][n + 1]
  BY <1>1, CurrentLine DEF Busy, Statement
<1>6. Taken(p) = n /\ Taken(p)' = n + 1
  BY <1>1, <1>5 DEF Taken
<1>7. e.delta = job[p][n + 1].delta /\ job[p][n + 1].coord = k
  BY <1>2, <1>5
<1>8. ASSUME NEW c \in Coord
      PROVE  SameInOrder(job[p], TakenAt(p, c), pend[c], PendOf(p, c))
  BY <1>1 DEF Progress, Retried
<1> HIDE DEF n, e
<1>9. ASSUME NEW c \in Coord
      PROVE  SameInOrder(job[p], TakenAt(p, c)', pend'[c], PendOf(p, c)')
  <2>1. 1..(n + 1) = (1..n) \cup {n + 1}
    BY <1>5
  <2>2. /\ TakenAt(p, c)' = {i \in 1..(n + 1) : job[p][i].coord = c}
        /\ TakenAt(p, c) = {i \in 1..n : job[p][i].coord = c}
    BY <1>1, <1>6 DEF TakenAt
  <2>3. CASE c = k
    <3> DEFINE L == TakenAt(p, c)
               b == pend[c]
    <3>1. L \in SUBSET (1..n) /\ TakenAt(p, c)' = L \cup {n + 1}
      BY <1>7, <2>1, <2>2, <2>3
    <3>2. b \in Seq(Entry) /\ PendOf(p, c) = 1..Len(b)
      BY <1>1, <1>2, <2>3 DEF TypeOK, PendOf
    <3>3. pend'[c] = Append(b, e)
      BY <1>4, <2>3
    <3>4. PendOf(p, c)' = 1..Len(Append(b, e))
      BY <1>1, <1>2, <2>3, <3>3 DEF PendOf
    <3>5. SameInOrder(job[p], L, b, 1..Len(b))
      BY <1>8, <3>2
    <3> HIDE DEF L, b
    <3>6. SameInOrder(job[p], L \cup {n + 1}, Append(b, e), 1..Len(Append(b, e)))
      BY <1>3, <1>5, <1>7, <3>1, <3>2, <3>5, AddedInOrder
    <3> QED
      BY <3>1, <3>3, <3>4, <3>6
  <2>4. CASE c # k
    <3>1. TakenAt(p, c)' = TakenAt(p, c)
      BY <1>7, <2>1, <2>2, <2>4
    <3>2. PendOf(p, c)' = PendOf(p, c) /\ pend'[c] = pend[c]
      BY <1>1, <1>4, <2>4 DEF PendOf
    <3> QED
      BY <1>8, <3>1, <3>2
  <2> QED
    BY <2>3, <2>4
<1>10. ASSUME NEW c \in Coord
       PROVE  SameInOrder(job[p], TakenAt(p, c), pend[c], PendOf(p, c))'
  <2>1. SameInOrder(job'[p], TakenAt(p, c)', pend'[c], PendOf(p, c)')
    BY <1>1, <1>9
  <2> QED
    BY <2>1 DEF SameInOrder
<1> QED
  BY <1>1, <1>10 DEF Progress

(* A step of one request leaves the rows, keys and movements of another.   *)
LEMMA OthersKept ==
    ASSUME TypeInv, LockInv, NEW p \in Proc, NEW q \in Proc, q # p,
           Begin(p) \/ Step(p) \/ Rollback(p)
    PROVE  /\ pc'[q] = pc[q] /\ job'[q] = job[q] /\ todo'[q] = todo[q]
           /\ outcome'[q] = outcome[q]
           /\ \A c \in Coord : rowLock'[c] = q <=> rowLock[c] = q
           /\ \A c \in Coord : rowLock[c] = q => pend'[c] = pend[c]
           /\ \A k \in Key : keyOwner'[k] = q <=> keyOwner[k] = q
           /\ keyUsed \subseteq keyUsed'
<1> DEFINE Kept == /\ pc'[q] = pc[q] /\ job'[q] = job[q] /\ todo'[q] = todo[q]
                   /\ outcome'[q] = outcome[q]
                   /\ \A c \in Coord : rowLock'[c] = q <=> rowLock[c] = q
                   /\ \A c \in Coord : rowLock[c] = q => pend'[c] = pend[c]
                   /\ \A k \in Key : keyOwner'[k] = q <=> keyOwner[k] = q
                   /\ keyUsed \subseteq keyUsed'
<1> USE ProcAssumption DEF rowVars, bookVars, keyVars
<1>1. ASSUME NEW o, Fail(p, o) PROVE Kept
  BY <1>1 DEF Fail, Release, Answer, TypeOK
<1>2. CASE Commit(p)
  BY <1>2 DEF Commit, Release, Answer, TypeOK
<1>3. CASE Begin(p)
  BY <1>3 DEF Begin, TypeOK
<1>4. CASE Lookup(p) \/ CreateLayer(p) \/ ConsumeLayers(p)
  <2>1. UNCHANGED <<rowVars, bookVars, keyVars, outcome>> /\ (NextLine(p) \/ Goto(p, "select"))
    BY <1>4 DEF Lookup, CreateLayer, ConsumeLayers, NextLine, Goto
  <2> QED
    BY <2>1 DEF NextLine, Goto, TypeOK
<1>5. CASE Select(p) \/ Insert(p)
  <2>1. /\ UNCHANGED <<bookVars, keyVars, job, todo, outcome>>
        /\ pc' = [pc EXCEPT ![p] = "update"] \/ pc' = [pc EXCEPT ![p] = "insert"]
    BY <1>5 DEF Select, Insert, Goto
  <2>2. \A c \in Coord : rowLock'[c] = q <=> rowLock[c] = q
    BY <1>5 DEF Select, Insert, Hold, TypeOK
  <2> QED
    BY <2>1, <2>2 DEF TypeOK
<1>6. CASE Update(p)
  BY <1>6 DEF Update, Goto, TypeOK
<1>7. CASE Record(p)
  <2>1. rowLock[Cur(p).coord] = p /\ rowLock' = rowLock /\ keyUsed' = keyUsed
    BY <1>7 DEF Record, LockInv
  <2>2. \A c \in Coord : c # Cur(p).coord => pend'[c] = pend[c]
    BY <1>7 DEF Record, TypeOK
  <2>3. \A k \in Key : keyOwner'[k] = q <=> keyOwner[k] = q
    BY <1>7 DEF Record
  <2>4. pc'[q] = pc[q] /\ job'[q] = job[q] /\ todo'[q] = todo[q] /\ outcome'[q] = outcome[q]
    BY <1>7 DEF Record, Goto, TypeOK
  <2> QED
    BY <2>1, <2>2, <2>3, <2>4
<1> QED
  BY <1>1, <1>2, <1>3, <1>4, <1>5, <1>6, <1>7
     DEF Step, RejectZero, RejectBatch, InsertConflict, RejectBalance, RecordConflict, Rollback

(* Whatever a request does, it stays at a point of its job.                *)
LEMMA StepJob ==
    ASSUME TypeInv, LockInv, OwnInv, JobInv, NEW p \in Proc,
           Begin(p) \/ Step(p) \/ Rollback(p), pc'[p] \in Statement
    PROVE  Progress(p)'
<1> USE ProcAssumption DEF rowVars, bookVars, keyVars
<1>1. \A o : ~Fail(p, o) /\ ~Commit(p)
  BY DEF Fail, Commit, Answer, TypeOK, Statement
<1>2. CASE Begin(p)
  BY <1>2, ProgressBegins
<1>3. ASSUME pc[p] \in Busy PROVE Progress(p)
  BY <1>3 DEF JobInv, Busy
<1>4. CASE Lookup(p)
  <2>1. pc[p] \in Busy
    BY <1>4 DEF Lookup, Busy, Statement
  <2>2. CASE KeyVisible(p, Cur(p).key)
    BY <1>3, <1>4, <2>1, <2>2, ProgressSkips
  <2>3. CASE ~KeyVisible(p, Cur(p).key)
    <3>1. /\ pc[p] = "lookup" /\ pc'[p] = "select" /\ job'[p] = job[p] /\ todo'[p] = todo[p]
          /\ pend' = pend /\ rowLock' = rowLock
      BY <1>4, <2>3 DEF Lookup, Goto, TypeOK
    <3>2. \A c \in Coord : PendOf(p, c)' = PendOf(p, c)
      BY <3>1 DEF PendOf
    <3> QED
      BY <1>3, <2>1, <3>1, <3>2, ProgressMoves DEF Busy, Statement
  <2> QED
    BY <2>2, <2>3
<1>5. CASE Select(p) \/ Insert(p)
  <2>1. /\ pc[p] \in {"select", "insert"} /\ pc'[p] \in {"update", "insert"}
        /\ job'[p] = job[p] /\ todo'[p] = todo[p] /\ pend' = pend
    BY <1>5 DEF Select, Insert, Goto, TypeOK
  <2>2. \A c \in Coord : rowLock'[c] = rowLock[c] \/ rowLock[c] = NoProc
    BY <1>5 DEF Select, Insert, Hold, TypeOK
  <2>3. ASSUME NEW c \in Coord PROVE PendOf(p, c)' = PendOf(p, c)
    <3>1. CASE rowLock'[c] = rowLock[c]
      BY <2>1, <3>1 DEF PendOf
    <3>2. CASE rowLock[c] = NoProc
      <4>1. pend[c] = <<>> /\ pend'[c] = <<>>
        BY <2>1, <3>2 DEF LockInv
      <4>2. 1..Len(<<>>) = {}
        OBVIOUS
      <4> QED
        BY <3>2, <4>1, <4>2 DEF PendOf
    <3> QED
      BY <2>2, <3>1, <3>2
  <2> QED
    BY <1>3, <2>1, <2>3, ProgressMoves DEF Busy, Statement
<1>6. CASE Update(p)
  <2>1. /\ pc[p] = "update" /\ pc'[p] = "record" /\ job'[p] = job[p] /\ todo'[p] = todo[p]
        /\ pend' = pend /\ rowLock' = rowLock
    BY <1>6 DEF Update, Goto, TypeOK
  <2>2. \A c \in Coord : PendOf(p, c)' = PendOf(p, c)
    BY <2>1 DEF PendOf
  <2> QED
    BY <1>3, <2>1, <2>2, ProgressMoves DEF Busy, Statement
<1>7. CASE Record(p)
  <2>1. pc[p] \in Busy
    BY <1>7 DEF Record, Busy, Statement
  <2> QED
    BY <1>3, <1>7, <2>1, ProgressRecords
<1>8. CASE CreateLayer(p) \/ ConsumeLayers(p)
  <2>1. pc[p] = "layers" /\ NextLine(p) /\ pend' = pend /\ rowLock' = rowLock
    BY <1>8 DEF CreateLayer, ConsumeLayers
  <2>2. /\ job'[p] = job[p] /\ todo'[p] = Tail(todo[p])
        /\ pc'[p] = IF Tail(todo[p]) = <<>> THEN "commit" ELSE "lookup"
    BY <2>1 DEF NextLine, TypeOK
  <2>3. \A c \in Coord : PendOf(p, c)' = PendOf(p, c)
    BY <2>1 DEF PendOf
  <2> QED
    BY <1>3, <2>1, <2>2, <2>3, ProgressMoves DEF Busy, Statement
<1> QED
  BY <1>1, <1>2, <1>4, <1>5, <1>6, <1>7, <1>8
     DEF Step, RejectZero, RejectBatch, InsertConflict, RejectBalance, RecordConflict, Rollback

LEMMA JobsAdvance ==
    ASSUME TypeInv, LockInv, OwnInv, JobInv, [Next]_vars
    PROVE  JobInv'
<1>1. ASSUME NEW p \in Proc, Begin(p) \/ Step(p) \/ Rollback(p) PROVE JobInv'
  <2> SUFFICES ASSUME NEW q \in Proc, pc'[q] \in Statement PROVE Progress(q)'
    BY DEF JobInv
  <2>1. CASE q = p
    BY <1>1, <2>1, StepJob
  <2>2. CASE q # p
    <3>1. /\ pc'[q] = pc[q] /\ job'[q] = job[q] /\ todo'[q] = todo[q]
          /\ \A c \in Coord : rowLock'[c] = q <=> rowLock[c] = q
          /\ \A c \in Coord : rowLock[c] = q => pend'[c] = pend[c]
          /\ \A k \in Key : keyOwner'[k] = q => keyOwner[k] = q
          /\ keyUsed \subseteq keyUsed'
      BY <1>1, <2>2, OthersKept
    <3>2. Progress(q)
      BY <3>1 DEF JobInv
    <3> QED
      BY <3>1, <3>2, ProgressKept
  <2> QED
    BY <2>1, <2>2
<1>2. CASE UNCHANGED vars
  <2> SUFFICES ASSUME NEW q \in Proc, pc'[q] \in Statement PROVE Progress(q)'
    BY DEF JobInv
  <2>1. UNCHANGED <<pc, job, todo, rowLock, pend, keyOwner, keyUsed>>
    BY <1>2 DEF vars, rowVars, bookVars, keyVars
  <2>2. Progress(q)
    BY <2>1 DEF JobInv
  <2> QED
    BY <2>1, <2>2, ProgressKept
<1> QED
  BY <1>1, <1>2 DEF Next

(* Commit, Fail, Begin and the statements between keep what is one's own.  *)
LEMMA OwnersKept ==
    ASSUME TypeInv, LockInv, OwnInv, [Next]_vars
    PROVE  OwnInv'
<1> USE ProcAssumption, KeyAssumption DEF rowVars, bookVars, keyVars
<1>1. ASSUME NEW p \in Proc, Begin(p) \/ Step(p) \/ Rollback(p) PROVE OwnInv'
  <2>1. /\ pc[p] # "done"
        /\ pc'[p] \in Statement \cup {"done"}
        /\ pc'[p] # "done" => outcome'[p] = outcome[p]
    BY <1>1 DEF Begin, Step, Rollback, Lookup, RejectZero, RejectBatch, Select, Insert,
           InsertConflict, Update, RejectBalance, Record, RecordConflict, CreateLayer,
           ConsumeLayers, Commit, Fail, Answer, NextLine, Goto, TypeOK, Statement
  <2>2. ASSUME pc'[p] = "done" PROVE \A k \in Key : keyOwner'[k] # p
    <3>1. (\E o : Fail(p, o)) \/ Commit(p)
      BY <1>1, <2>1, <2>2 DEF Begin, Step, Rollback, Lookup, RejectZero, RejectBatch, Select,
             Insert, InsertConflict, Update, RejectBalance, Record, RecordConflict,
             CreateLayer, ConsumeLayers, NextLine, Goto, TypeOK
    <3>2. Release(p)
      BY <3>1 DEF Fail, Commit
    <3>3. keyOwner' = [k \in Key |-> IF keyOwner[k] = p THEN NoProc ELSE keyOwner[k]]
      BY <3>2 DEF Release
    <3> QED
      BY <3>3
  <2>3. ASSUME NEW k \in Key, keyOwner'[k] # NoProc
        PROVE  pc'[keyOwner'[k]] \in Statement
    <3>1. keyOwner'[k] \in Proc
      BY <2>3, StepType, <1>1 DEF Next, TypeOK
    <3>2. CASE keyOwner'[k] = p
      BY <2>1, <2>2, <3>2
    <3>3. CASE keyOwner'[k] # p
      <4>1. PICK q \in Proc : q = keyOwner'[k]
        BY <3>1
      <4>2. keyOwner[k] = q /\ pc'[q] = pc[q]
        BY <1>1, <3>3, <4>1, OthersKept
      <4> QED
        BY <4>1, <4>2 DEF OwnInv
    <3> QED
      BY <3>2, <3>3
  <2>4. ASSUME NEW c \in Coord, NEW i \in 1..Len(pend'[c])
        PROVE  pend'[c][i].by = rowLock'[c]
    <3>1. pend[c] \in Seq(Entry) /\ Len(pend[c]) \in Nat
      BY DEF TypeOK
    <3>2. rowLock[c] = NoProc => pend[c] = <<>>
      BY DEF LockInv
    <3>3. CASE \E o : Fail(p, o) \/ Commit(p)
      <4>1. /\ rowLock'[c] = IF rowLock[c] = p THEN NoProc ELSE rowLock[c]
            /\ pend'[c] = IF rowLock[c] = p THEN <<>> ELSE pend[c]
        BY <3>3 DEF Fail, Commit, Release
      <4>2. 1..Len(<<>>) = {}
        OBVIOUS
      <4> QED
        BY <2>4, <4>1, <4>2 DEF OwnInv
    <3>4. CASE Select(p) \/ Insert(p)
      <4>1. pend' = pend /\ (rowLock'[c] = rowLock[c] \/ rowLock[c] = NoProc)
        BY <3>4 DEF Select, Insert, Hold, TypeOK
      <4>2. 1..Len(<<>>) = {}
        OBVIOUS
      <4> QED
        BY <2>4, <3>2, <4>1, <4>2 DEF OwnInv
    <3>5. CASE Record(p)
      <4> DEFINE e == [delta |-> Cur(p).delta, before |-> seen[p].quantity,
                       after |-> seen[p].quantity + Cur(p).delta, key |-> Cur(p).key, by |-> p]
      <4>1. /\ rowLock' = rowLock /\ rowLock[Cur(p).coord] = p
            /\ pend'[c] = IF c = Cur(p).coord THEN Append(pend[c], e) ELSE pend[c]
        BY <3>5 DEF Record, TypeOK, LockInv
      <4>2. CASE c = Cur(p).coord
        <5>0. Cur(p) \in Line /\ seen[p] \in Row
          BY <3>5, CurType DEF Record, Busy, Statement, TypeOK
        <5>1. e \in Entry
          BY <5>0 DEF Entry, Line, Row
        <5>2. e.by = p
          OBVIOUS
        <5> HIDE DEF e
        <5>3. /\ Len(Append(pend[c], e)) = Len(pend[c]) + 1
              /\ \A j \in 1..Len(pend[c]) : Append(pend[c], e)[j] = pend[c][j]
              /\ Append(pend[c], e)[Len(pend[c]) + 1] = e
          BY <3>1, <5>1
        <5>4. i \in 1..Len(pend[c]) \/ i = Len(pend[c]) + 1
          BY <2>4, <3>1, <4>1, <4>2, <5>3
        <5> QED
          BY <4>1, <4>2, <5>2, <5>3, <5>4 DEF OwnInv
      <4>3. CASE c # Cur(p).coord
        BY <2>4, <4>1, <4>3 DEF OwnInv
      <4> QED
        BY <4>2, <4>3
    <3>6. CASE Begin(p) \/ Lookup(p) \/ Update(p) \/ CreateLayer(p) \/ ConsumeLayers(p)
      <4>1. pend' = pend /\ rowLock' = rowLock
        BY <3>6 DEF Begin, Lookup, Update, CreateLayer, ConsumeLayers
      <4> QED
        BY <2>4, <4>1 DEF OwnInv
    <3> QED
      BY <1>1, <3>3, <3>4, <3>5, <3>6
         DEF Step, RejectZero, RejectBatch, InsertConflict, RejectBalance, RecordConflict, Rollback
  <2>5. ASSUME NEW q \in Proc, pc'[q] # "done" PROVE outcome'[q] = "none"
    <3>1. CASE q = p
      BY <2>1, <2>5, <3>1 DEF OwnInv
    <3>2. CASE q # p
      <4>1. pc'[q] = pc[q] /\ outcome'[q] = outcome[q]
        BY <1>1, <3>2, OthersKept
      <4> QED
        BY <2>5, <4>1 DEF OwnInv
    <3> QED
      BY <3>1, <3>2
  <2> QED
    BY <2>3, <2>4, <2>5 DEF OwnInv
<1>2. CASE UNCHANGED vars
  BY <1>2 DEF vars, OwnInv
<1> QED
  BY <1>1, <1>2 DEF Next

(* A movement that is committed later does not disturb the match.          *)
LEMMA LongerInOrder ==
    ASSUME NEW s, NEW L, NEW b \in Seq(Entry), NEW d \in Seq(Entry), NEW E \in SUBSET (1..Len(b)),
           SameInOrder(s, L, b, E)
    PROVE  SameInOrder(s, L, b \o d, E)
<1>1. \A i \in 1..Len(b) : (b \o d)[i] = b[i]
  BY ConcatEntries
<1> DEFINE r == b \o d
<1>2. \A i \in E : r[i] = b[i]
  BY <1>1
<1> HIDE DEF r
<1>3. PICK f \in [L -> E] :
        /\ \A x \in E : \E i \in L : f[i] = x
        /\ \A i, j \in L : i < j => f[i] < f[j]
        /\ \A i \in L : b[f[i]].delta = s[i].delta
  BY DEF SameInOrder
<1>4. \A i \in L : r[f[i]].delta = s[i].delta
  BY <1>2, <1>3
<1>5. SameInOrder(s, L, r, E)
  BY <1>3, <1>4 DEF SameInOrder
<1> QED
  BY <1>5 DEF r

(* The movements a commit adds to a book are the committer's.              *)
LEMMA CommitEntries ==
    ASSUME TypeInv, LockInv, OwnInv, NEW p \in Proc, Commit(p), NEW q \in Proc, NEW c \in Coord
    PROVE  /\ q # p => EntriesOf(q, c)' = EntriesOf(q, c)
           /\ rowLock[c] # p => EntriesOf(q, c)' = EntriesOf(q, c)
           /\ rowLock[c] = p /\ EntriesOf(p, c) = {} =>
                EntriesOf(p, c)' = {i \in 1..Len(book[c] \o pend[c]) : i > Len(book[c])}
<1> DEFINE r == book[c] \o pend[c]
           m == Len(book[c])
           n == Len(pend[c])
<1>1. book[c] \in Seq(Entry) /\ pend[c] \in Seq(Entry) /\ m \in Nat /\ n \in Nat
  BY DEF TypeOK
<1>2. /\ Len(r) = m + n
      /\ \A i \in 1..m : r[i] = book[c][i]
      /\ \A i \in 1..Len(r) : i > m => i - m \in 1..n /\ r[i] = pend[c][i - m]
  BY <1>1, ConcatEntries, Zenon
<1>3. book'[c] = IF rowLock[c] = p THEN r ELSE book[c]
  BY DEF Commit
<1>4. \A i \in 1..n : pend[c][i].by = rowLock[c]
  BY DEF OwnInv
<1>5. /\ EntriesOf(q, c) = {i \in 1..m : book[c][i].by = q}
      /\ EntriesOf(p, c) = {i \in 1..m : book[c][i].by = p}
  BY DEF EntriesOf
<1>6. /\ rowLock[c] = p => EntriesOf(q, c)' = {i \in 1..Len(r) : r[i].by = q}
      /\ rowLock[c] = p => EntriesOf(p, c)' = {i \in 1..Len(r) : r[i].by = p}
      /\ rowLock[c] # p => EntriesOf(q, c)' = EntriesOf(q, c)
  BY <1>3 DEF EntriesOf
<1> HIDE DEF r, m, n
<1>7. ASSUME rowLock[c] = p
      PROVE  /\ q # p => EntriesOf(q, c)' = EntriesOf(q, c)
             /\ EntriesOf(p, c) = {} => EntriesOf(p, c)' = {i \in 1..Len(r) : i > m}
  <2>1. \A i \in 1..Len(r) : i \in 1..m \/ i > m
    BY <1>1, <1>2
  <2>2. ASSUME NEW i \in 1..Len(r), i > m PROVE r[i].by = p
    <3>1. i - m \in 1..n /\ r[i] = pend[c][i - m]
      BY <1>2, <2>2
    <3> QED
      BY <1>4, <1>7, <3>1
  <2>3. 1..m \subseteq 1..Len(r) /\ \A i \in 1..m : ~(i > m)
    BY <1>1, <1>2
  <2>4. ASSUME q # p PROVE EntriesOf(q, c)' = EntriesOf(q, c)
    BY <1>2, <1>5, <1>6, <1>7, <2>1, <2>2, <2>3, <2>4
  <2>5. ASSUME EntriesOf(p, c) = {}
        PROVE  EntriesOf(p, c)' = {i \in 1..Len(r) : i > m}
    <3>1. \A i \in 1..m : r[i].by # p
      BY <1>2, <1>5, <2>5
    <3> QED
      BY <1>6, <1>7, <2>1, <2>2, <2>3, <3>1
  <2> QED
    BY <2>4, <2>5
<1> QED
  BY <1>6, <1>7 DEF r, m

(* When p commits, what it has recorded is its whole job, or it is a retry *)
(* that found its key and has recorded nothing.                            *)
LEMMA CommitWhole ==
    ASSUME TypeInv, LockInv, OwnInv, JobInv, AllOrNothing, NEW p \in Proc, Commit(p)
    PROVE  /\ Wrote(p) => \A c \in Coord :
                SameInOrder(job[p], LinesOf(p, c), book[c], EntriesOf(p, c))'
           /\ ~Wrote(p) => /\ \A c \in Coord : EntriesOf(p, c)' = {}
                           /\ \A i \in 1..Len(job[p]) : job[p][i].key \in keyUsed
<1> USE ProcAssumption
<1>1. /\ pc[p] = "commit" /\ Progress(p) /\ todo[p] = <<>> /\ outcome[p] = "none"
      /\ job'[p] = job[p]
  <2>1. pc[p] = "commit" /\ job'[p] = job[p]
    BY DEF Commit, Answer
  <2>2. Progress(p) /\ outcome[p] = "none"
    BY <2>1 DEF JobInv, OwnInv, Statement
  <2> QED
    BY <2>1, <2>2 DEF Progress
<1>2. job[p] \in Jobs /\ job[p] \in Seq(Line) /\ job[p] # <<>> /\ Len(job[p]) \in Nat
  BY <1>1, JobsAssumption DEF Progress
<1>3. Taken(p) = Len(job[p])
  <2>1. Len(todo[p]) = 0
    BY <1>1
  <2> QED
    BY <1>1, <1>2, <2>1 DEF Taken
<1>4. \A c \in Coord : TakenAt(p, c) = LinesOf(p, c) /\ LinesOf(p, c)' = LinesOf(p, c)
                       /\ LinesOf(p, c) \in SUBSET Nat
  BY <1>1, <1>3 DEF TakenAt, LinesOf
<1>5. \A c \in Coord : EntriesOf(p, c) = {}
  BY <1>1 DEF AllOrNothing
<1>6. ASSUME Wrote(p), NEW c \in Coord
      PROVE  SameInOrder(job[p], LinesOf(p, c), book[c], EntriesOf(p, c))'
  <2>1. SameInOrder(job[p], LinesOf(p, c), pend[c], PendOf(p, c))
    BY <1>1, <1>4, <1>6 DEF Wrote, Progress, Retried
  <2>2. SameInOrder(job[p], LinesOf(p, c), book'[c], EntriesOf(p, c)')
    <3>1. CASE rowLock[c] = p
      <4>1. book[c] \in Seq(Entry) /\ pend[c] \in Seq(Entry) /\ LinesOf(p, c) \in SUBSET Nat
        BY <1>4 DEF TypeOK
      <4>2. SameInOrder(job[p], LinesOf(p, c), pend[c], 1..Len(pend[c]))
        BY <2>1, <3>1 DEF PendOf
      <4>3. EntriesOf(p, c)' = {i \in 1..Len(book[c] \o pend[c]) : i > Len(book[c])}
        BY <1>5, <3>1, CommitEntries
      <4>4. book'[c] = book[c] \o pend[c]
        BY <3>1 DEF Commit
      <4> DEFINE L == LinesOf(p, c)
                 b == book[c]
                 d == pend[c]
                 E == EntriesOf(p, c)'
      <4>5. /\ L \in SUBSET Nat /\ b \in Seq(Entry) /\ d \in Seq(Entry)
            /\ SameInOrder(job[p], L, d, 1..Len(d))
            /\ E = {i \in 1..Len(b \o d) : i > Len(b)}
        BY <4>1, <4>2, <4>3
      <4> HIDE DEF L, b, d, E
      <4>6. SameInOrder(job[p], L, b \o d, E)
        BY <4>5, JoinedInOrder
      <4> QED
        BY <4>4, <4>6 DEF L, b, d, E
    <3>2. CASE rowLock[c] # p
      <4>1. LinesOf(p, c) = {}
        BY <2>1, <3>2, NothingInOrder DEF PendOf
      <4>2. EntriesOf(p, c)' = {}
        BY <1>5, <3>2, CommitEntries
      <4> QED
        BY <4>1, <4>2, NothingInOrder
    <3> QED
      BY <3>1, <3>2
  <2>3. SameInOrder(job'[p], LinesOf(p, c)', book'[c], EntriesOf(p, c)')
    BY <1>1, <1>4, <2>2
  <2> QED
    BY <2>3 DEF SameInOrder
<1>7. ASSUME ~Wrote(p)
      PROVE  /\ \A c \in Coord : EntriesOf(p, c)' = {}
             /\ \A i \in 1..Len(job[p]) : job[p][i].key \in keyUsed
  <2>1. ~\A c \in Coord : SameInOrder(job[p], LinesOf(p, c), pend[c], PendOf(p, c))
    <3>1. 1 \in 1..Len(job[p]) /\ job[p][1] \in Line
      BY <1>2
    <3>2. PICK c \in Coord : c = job[p][1].coord
      BY <3>1 DEF Line
    <3>3. 1 \in LinesOf(p, c)
      BY <3>1, <3>2 DEF LinesOf
    <3>4. PendOf(p, c) = {}
      <4>1. rowLock[c] = p => pend[c] = <<>>
        BY <1>7 DEF Wrote
      <4>2. 1..Len(<<>>) = {}
        OBVIOUS
      <4> QED
        BY <4>1, <4>2 DEF PendOf
    <3> QED
      BY <3>3, <3>4, NothingInOrder
  <2>2. Retried(p)
    BY <1>1, <1>4, <2>1 DEF Progress
  <2> QED
    BY <1>5, <2>2, CommitEntries DEF Retried
<1> QED
  BY <1>6, <1>7

LEMMA StepAtomic ==
    ASSUME TypeInv, LockInv, OwnInv, JobInv, AllOrNothing, [Next]_vars
    PROVE  AllOrNothing'
<1> USE ProcAssumption DEF rowVars, bookVars, keyVars
<1> DEFINE Fits(q) == /\ \A c \in Coord :
                           IF outcome[q] = "applied"
                           THEN SameInOrder(job[q], LinesOf(q, c), book[c], EntriesOf(q, c))
                           ELSE EntriesOf(q, c) = {}
                      /\ outcome[q] = "duplicate" =>
                           \A i \in 1..Len(job[q]) : job[q][i].key \in keyUsed
<1>1. ASSUME NEW q \in Proc, book' = book, job'[q] = job[q], outcome'[q] = outcome[q],
             keyUsed \subseteq keyUsed'
      PROVE  Fits(q)'
  <2>1. Fits(q)
    BY DEF AllOrNothing
  <2>2. ASSUME NEW c \in Coord
        PROVE  LinesOf(q, c)' = LinesOf(q, c) /\ EntriesOf(q, c)' = EntriesOf(q, c)
    BY <1>1 DEF LinesOf, EntriesOf
  <2>3. ASSUME NEW c \in Coord, SameInOrder(job[q], LinesOf(q, c), book[c], EntriesOf(q, c))
        PROVE  SameInOrder(job[q], LinesOf(q, c), book[c], EntriesOf(q, c))'
    <3>1. SameInOrder(job'[q], LinesOf(q, c)', book'[c], EntriesOf(q, c)')
      BY <1>1, <2>2, <2>3
    <3> QED
      BY <3>1 DEF SameInOrder
  <2> QED
    BY <1>1, <2>1, <2>2, <2>3
<1>2. ASSUME NEW p \in Proc, Begin(p) \/ Step(p) \/ Rollback(p), ~Commit(p), NEW q \in Proc
      PROVE  Fits(q)'
  <2>1. book' = book /\ keyUsed' = keyUsed
    BY <1>2 DEF Begin, Step, Rollback, Lookup, RejectZero, RejectBatch, Select, Insert,
           InsertConflict, Update, RejectBalance, Record, RecordConflict, CreateLayer,
           ConsumeLayers, Fail
  <2>2. CASE q # p
    <3>1. /\ job'[q] = job[q] /\ outcome'[q] = outcome[q] /\ book' = book
          /\ keyUsed' = keyUsed
      BY <1>2, <2>1, <2>2, OthersKept
    <3> QED
      BY <1>1, <3>1
  <2>3. CASE q = p
    <3>1. outcome[p] = "none"
      BY <1>2 DEF OwnInv, Begin, Step, Rollback, Lookup, RejectZero, RejectBatch, Select, Insert,
           InsertConflict, Update, RejectBalance, Record, RecordConflict, CreateLayer,
           ConsumeLayers, Statement
    <3>2. outcome'[p] \notin {"applied", "duplicate"}
      BY <1>2, <3>1 DEF Begin, Step, Rollback, Lookup, RejectZero, RejectBatch, Select, Insert,
           InsertConflict, Update, RejectBalance, Record, RecordConflict, CreateLayer,
           ConsumeLayers, Fail, Answer, NextLine, Goto, TypeOK
    <3>3. \A c \in Coord : EntriesOf(p, c)' = {}
      BY <2>1, <3>1 DEF AllOrNothing, EntriesOf
    <3> DEFINE none == \A c \in Coord : EntriesOf(p, c)' = {}
    <3>4. none /\ outcome'[p] # "applied" /\ outcome'[p] # "duplicate"
      BY <3>2, <3>3
    <3> HIDE DEF none
    <3> QED
      BY <2>3, <3>4 DEF none
  <2> QED
    BY <2>2, <2>3
<1>3. ASSUME NEW p \in Proc, Commit(p), NEW q \in Proc PROVE Fits(q)'
  <2>1. CASE q = p
    <3>1. keyUsed \subseteq keyUsed' /\ job'[p] = job[p]
          /\ outcome'[p] = IF Wrote(p) THEN "applied" ELSE "duplicate"
      BY <1>3 DEF Commit, Answer, TypeOK
    <3>2. CASE Wrote(p)
      BY <1>3, <2>1, <3>1, <3>2, CommitWhole
    <3>3. CASE ~Wrote(p)
      BY <1>3, <2>1, <3>1, <3>3, CommitWhole
    <3> QED
      BY <3>2, <3>3
  <2>2. CASE q # p
    <3>1. job'[q] = job[q] /\ outcome'[q] = outcome[q] /\ keyUsed \subseteq keyUsed'
      BY <1>3, <2>2, OthersKept DEF Step
    <3>2. Fits(q)
      BY DEF AllOrNothing
    <3>3. ASSUME NEW c \in Coord
          PROVE  EntriesOf(q, c)' = EntriesOf(q, c) /\ LinesOf(q, c)' = LinesOf(q, c)
      BY <1>3, <2>2, <3>1, CommitEntries DEF LinesOf
    <3>4. ASSUME NEW c \in Coord, SameInOrder(job[q], LinesOf(q, c), book[c], EntriesOf(q, c))
          PROVE  SameInOrder(job[q], LinesOf(q, c), book[c], EntriesOf(q, c))'
      <4>1. /\ book[c] \in Seq(Entry) /\ pend[c] \in Seq(Entry)
            /\ EntriesOf(q, c) \in SUBSET (1..Len(book[c]))
        BY DEF TypeOK, EntriesOf
      <4>2. book'[c] = book[c] \/ book'[c] = book[c] \o pend[c]
        BY <1>3 DEF Commit
      <4>3. SameInOrder(job[q], LinesOf(q, c), book'[c], EntriesOf(q, c))
        BY <3>4, <4>1, <4>2, LongerInOrder
      <4>4. SameInOrder(job'[q], LinesOf(q, c)', book'[c], EntriesOf(q, c)')
        BY <3>1, <3>3, <4>3
      <4> QED
        BY <4>4 DEF SameInOrder
    <3> QED
      BY <3>1, <3>2, <3>3, <3>4
  <2> QED
    BY <2>1, <2>2
<1>4. ASSUME UNCHANGED vars, NEW q \in Proc PROVE Fits(q)'
  BY <1>1, <1>4 DEF vars
<1>5. \A q \in Proc : Fits(q)'
  BY <1>2, <1>3, <1>4 DEF Next
<1> QED
  BY <1>5 DEF AllOrNothing

LEMMA InitAtomic == Init => OwnInv /\ JobInv /\ AllOrNothing
<1> SUFFICES ASSUME Init PROVE OwnInv /\ JobInv /\ AllOrNothing
  OBVIOUS
<1> USE ProcAssumption
<1>1. OwnInv
  BY DEF Init, OwnInv
<1>2. JobInv
  BY DEF Init, JobInv, Statement
<1>3. ASSUME NEW p \in Proc, NEW c \in Coord PROVE EntriesOf(p, c) = {}
  <2>1. \A i \in 1..Len(book[c]) : book[c][i].by = NoProc
    <3>1. CASE Opening[c] = 0
      <4>1. book[c] = <<>> /\ 1..Len(<<>>) = {}
        BY <3>1 DEF Init
      <4> QED
        BY <4>1
    <3>2. CASE Opening[c] # 0
      <4> DEFINE e == [delta |-> Opening[c], before |-> 0, after |-> Opening[c],
                       key |-> NoKey, by |-> NoProc]
      <4>1. book[c] = <<e>> /\ e.by = NoProc
        BY <3>2 DEF Init
      <4> HIDE DEF e
      <4> QED
        BY <4>1
    <3> QED
      BY <3>1, <3>2
  <2> QED
    BY <2>1 DEF EntriesOf
<1>4. \A p \in Proc : outcome[p] = "none"
  BY DEF Init
<1> QED
  BY <1>1, <1>2, <1>3, <1>4 DEF AllOrNothing

(* In every reachable state a request has all of its lines in the books,   *)
(* in their order, when it was answered "applied", and none of them with   *)
(* any other answer; "duplicate" is the answer to a key that is in use.    *)
THEOREM RequestsAreAtomic == Spec => []AllOrNothing
<1>1. Init => TypeInv /\ LockInv /\ ChainInv /\ OwnInv /\ JobInv /\ AllOrNothing
  BY InitType, InitRows, InitAtomic
<1>2. TypeInv /\ LockInv /\ ChainInv /\ OwnInv /\ JobInv /\ AllOrNothing /\ [Next]_vars
        => (TypeInv /\ LockInv /\ ChainInv /\ OwnInv /\ JobInv /\ AllOrNothing)'
  BY StepType, StepRows, OwnersKept, JobsAdvance, StepAtomic
<1> QED
  BY <1>1, <1>2, PTL DEF Spec
=============================================================================
