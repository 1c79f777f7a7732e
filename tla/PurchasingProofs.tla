-------------------------- MODULE PurchasingProofs --------------------------
(***************************************************************************)
(* Theorems about Purchasing, for any orders, lines, quantities, users and *)
(* number of overlapping requests.                                         *)
(***************************************************************************)
EXTENDS Purchasing, TLAPS

-----------------------------------------------------------------------------
(* Typing, and what a busy handler is about.                               *)

Busy(p) == phase[p] # "idle"

(* The request of a busy handler fits the phase it is in.                  *)
RequestFits(p) ==
    /\ req[p].po \in PO
    /\ phase[p] \in {"load", "write"} => req[p].op # "create"
    /\ phase[p] = "write" => req[p].op # "receive"
    /\ phase[p] \in {"number", "book"} => req[p].op \in {"create", "receive"}
    /\ req[p].op \in {"create", "approved"} => req[p].user \in User

Shape == \A p \in Request : Busy(p) => RequestFits(p)

LEMMA ReplyFrame ==
    ASSUME TypeOK, NEW p \in Request, Reply(p)
    PROVE  /\ phase' \in [Request -> {"idle", "load", "write", "number", "book"}]
           /\ req' \in [Request -> RequestRow]
           /\ seen' \in [Request -> OrderRow]
           /\ booked' \in [Request -> Quantities]
           /\ phase'[p] = "idle"
           /\ \A r \in Request \ {p} :
                /\ phase'[r] = phase[r]
                /\ req'[r] = req[r]
                /\ seen'[r] = seen[r]
                /\ booked'[r] = booked[r]
<1>1. NoRequestRow \in RequestRow
  BY DEF NoRequestRow, RequestRow, Op
<1>2. Absent \in OrderRow /\ Zero \in Quantities
  BY DEF Absent, OrderRow, Status, Zero, Quantities
<1> HIDE DEF Absent, OrderRow, Zero, Quantities, NoRequestRow, RequestRow
<1>3. /\ phase' \in [Request -> {"idle", "load", "write", "number", "book"}]
      /\ phase'[p] = "idle" /\ \A r \in Request \ {p} : phase'[r] = phase[r]
  BY DEF TypeOK, Reply
<1>4. req' \in [Request -> RequestRow] /\ \A r \in Request \ {p} : req'[r] = req[r]
  BY <1>1 DEF TypeOK, Reply
<1>5. seen' \in [Request -> OrderRow] /\ \A r \in Request \ {p} : seen'[r] = seen[r]
  BY <1>2 DEF TypeOK, Reply
<1>6. booked' \in [Request -> Quantities] /\ \A r \in Request \ {p} : booked'[r] = booked[r]
  BY <1>2 DEF TypeOK, Reply
<1>7. QED
  BY <1>3, <1>4, <1>5, <1>6

LEMMA ReplyShape ==
    ASSUME TypeOK, Shape, NEW p \in Request, Reply(p)
    PROVE  Shape'
<1>1. SUFFICES ASSUME NEW r \in Request, Busy(r)' PROVE RequestFits(r)'
  BY DEF Shape
<1>2. r # p
  BY <1>1, ReplyFrame DEF Busy
<1>3. phase'[r] = phase[r] /\ req'[r] = req[r] /\ seen'[r] = seen[r]
  BY <1>2, ReplyFrame
<1>4. RequestFits(r)
  BY <1>1, <1>3 DEF Shape, Busy
<1>5. QED
  BY <1>3, <1>4 DEF RequestFits

LEMMA ReleaseType ==
    ASSUME TypeOK, NEW p \in Request, ReleaseCounters(p)
    PROVE  /\ holder' \in [DocType -> Request \cup {NoRequest}]
           /\ minted' \in [Request -> Nat]
BY DEF TypeOK, SeqTypeOK, ReleaseCounters

LEMMA CommitCodesType ==
    ASSUME TypeOK, NEW p \in Request, CommitCodes(p)
    PROVE  SeqTypeOK'
<1>1. last' \in [DocType -> Nat]
  BY DEF TypeOK, SeqTypeOK, CommitCodes
<1>2. ASSUME NEW d \in DocType
      PROVE  (IF holder[d] = p THEN Append(codes[d], minted[p]) ELSE codes[d]) \in Seq(Nat)
  BY DEF TypeOK, SeqTypeOK
<1>3. codes' \in [DocType -> Seq(Nat)]
  BY <1>2 DEF CommitCodes
<1>4. QED
  BY <1>1, <1>3, ReleaseType DEF SeqTypeOK, CommitCodes

LEMMA AbortCodesType ==
    ASSUME TypeOK, NEW p \in Request, AbortCodes(p)
    PROVE  SeqTypeOK'
BY ReleaseType DEF TypeOK, SeqTypeOK, AbortCodes

(* A row made of typed fields is a row.                                    *)
LEMMA RowType ==
    ASSUME NEW s \in Status, NEW n \in Quantities,
           NEW c \in User \cup {NoUser}, NEW a \in User \cup {NoUser}
    PROVE  [status |-> s, received |-> n, createdBy |-> c, approvedBy |-> a] \in OrderRow
BY DEF OrderRow

LEMMA ArriveType ==
    ASSUME TypeOK, Shape, NEW p \in Request, ArriveCreate(p) \/ Arrive(p)
    PROVE  TypeOK' /\ Shape'
<1>1. PICK x \in RequestRow, f \in {"load", "number"} :
        /\ req' = [req EXCEPT ![p] = x]
        /\ phase' = [phase EXCEPT ![p] = f]
        /\ x.po \in PO
        /\ f = "load" => x.op # "create"
        /\ f = "number" => x.op \in {"create", "receive"}
        /\ x.op \in {"create", "approved"} => x.user \in User
  <2>1. CASE ArriveCreate(p)
    <3>1. PICK po \in PO, u \in User :
            req' = [req EXCEPT ![p] = [po |-> po, op |-> "create", user |-> u]]
      BY <2>1 DEF ArriveCreate
    <3>2. phase' = [phase EXCEPT ![p] = "number"]
      BY <2>1 DEF ArriveCreate
    <3>3. [po |-> po, op |-> "create", user |-> u] \in RequestRow
      BY DEF RequestRow, Op
    <3>4. QED
      BY <3>1, <3>2, <3>3
  <2>2. CASE Arrive(p)
    <3>1. PICK po \in PO, op \in Op \ {"create"}, u \in User :
            req' = [req EXCEPT ![p] =
                     [po |-> po, op |-> op, user |-> IF op = "approved" THEN u ELSE NoUser]]
      BY <2>2 DEF Arrive
    <3>2. phase' = [phase EXCEPT ![p] = "load"]
      BY <2>2 DEF Arrive
    <3>3. [po |-> po, op |-> op, user |-> IF op = "approved" THEN u ELSE NoUser] \in RequestRow
      BY DEF RequestRow
    <3>4. QED
      BY <3>1, <3>2, <3>3
  <2>3. QED
    BY <2>1, <2>2
<1>2. UNCHANGED <<seqVars, poVars, seen, booked>>
  BY DEF ArriveCreate, Arrive
<1>3. req' \in [Request -> RequestRow]
  BY <1>1 DEF TypeOK
<1>4. phase' \in [Request -> {"idle", "load", "write", "number", "book"}]
  BY <1>1 DEF TypeOK
<1>5. Shape'
  BY <1>1 DEF Shape, Busy, RequestFits, TypeOK
<1>6. QED
  BY <1>2, <1>3, <1>4, <1>5 DEF TypeOK, SeqTypeOK, seqVars, poVars

LEMMA LoadType ==
    ASSUME TypeOK, Shape, NEW p \in Request, Load(p)
    PROVE  TypeOK' /\ Shape'
<1>1. req[p].po \in PO /\ phase[p] = "load" /\ req[p].op # "create"
  BY DEF Load, Shape, Busy, RequestFits
<1>2. phase' = [phase EXCEPT ![p] = IF req[p].op = "receive" THEN "number" ELSE "write"]
  BY DEF Load
<1>3. seen' = [seen EXCEPT ![p] = orders[req[p].po]] /\ UNCHANGED <<seqVars, poVars, req, booked>>
  BY DEF Load
<1>4. seen' \in [Request -> OrderRow]
  BY <1>1, <1>3 DEF TypeOK
<1>5. phase' \in [Request -> {"idle", "load", "write", "number", "book"}]
  BY <1>2 DEF TypeOK
<1>6. Shape'
  BY <1>1, <1>2, <1>3 DEF Shape, Busy, RequestFits, TypeOK
<1>7. QED
  BY <1>3, <1>4, <1>5, <1>6 DEF TypeOK, SeqTypeOK, seqVars, poVars

LEMMA TransitionType ==
    ASSUME TypeOK, Shape, NEW p \in Request, Transition(p)
    PROVE  TypeOK' /\ Shape'
<1> DEFINE po == req[p].po
           row == orders[po]
           a == IF req[p].op = "approved" THEN req[p].user ELSE row.approvedBy
           new == [status |-> req[p].op, received |-> row.received,
                   createdBy |-> row.createdBy, approvedBy |-> a]
<1>1. phase[p] = "write" /\ Reply(p) /\ UNCHANGED <<seqVars, stock>>
  BY DEF Transition
<1>2. po \in PO /\ req[p].op \in Status /\ req[p] \in RequestRow
  <2>1. req[p] \in RequestRow
    BY DEF TypeOK
  <2>2. po \in PO /\ req[p].op # "create" /\ req[p].op # "receive"
    BY <1>1 DEF Shape, Busy, RequestFits
  <2>3. QED
    BY <2>1, <2>2 DEF RequestRow, Op, Status
<1>3. row \in OrderRow
  BY <1>2 DEF TypeOK
<1>4. a \in User \cup {NoUser} /\ row.received \in Quantities /\ row.createdBy \in User \cup {NoUser}
  BY <1>2, <1>3 DEF RequestRow, OrderRow
<1>5. new \in OrderRow
  BY <1>2, <1>4, RowType
<1>6. orders' = [orders EXCEPT ![po] = new]
  BY DEF Transition
<1> HIDE DEF new, po
<1>7. orders' \in [PO -> OrderRow]
  BY <1>5, <1>6 DEF TypeOK
<1>8. stale' \in BOOLEAN
  BY DEF Transition, TypeOK
<1>9. QED
  BY <1>1, <1>7, <1>8, ReplyFrame, ReplyShape DEF TypeOK, SeqTypeOK, seqVars

LEMMA NumberType ==
    ASSUME TypeOK, Shape, NEW p \in Request, Number(p)
    PROVE  TypeOK' /\ Shape'
<1>1. PICK d \in DocType : Allocate(p, d)
  BY DocTypeAssumption DEF Number
<1>2. SeqTypeOK'
  BY <1>1 DEF TypeOK, SeqTypeOK, Allocate
<1>3. /\ phase[p] = "number" /\ phase' = [phase EXCEPT ![p] = "book"]
      /\ UNCHANGED <<poVars, req, seen, booked>>
  BY DEF Number
<1>4. Shape'
  BY <1>3 DEF Shape, Busy, RequestFits, TypeOK
<1>5. QED
  BY <1>2, <1>3, <1>4 DEF TypeOK, poVars

LEMMA CommitCreateType ==
    ASSUME TypeOK, Shape, NEW p \in Request, CommitCreate(p)
    PROVE  TypeOK' /\ Shape'
<1> DEFINE new == [status |-> "draft", received |-> Zero, createdBy |-> req[p].user,
                   approvedBy |-> NoUser]
<1>1. Reply(p) /\ CommitCodes(p) /\ UNCHANGED <<stock, stale>>
  BY DEF CommitCreate
<1>2. req[p].user \in User
  BY DEF CommitCreate, Shape, Busy, RequestFits
<1>3. new \in OrderRow
  BY <1>2, RowType DEF Zero, Quantities, Status
<1>4. orders' = [orders EXCEPT ![req[p].po] = new]
  BY DEF CommitCreate
<1> HIDE DEF new
<1>5. orders' \in [PO -> OrderRow]
  BY <1>3, <1>4 DEF TypeOK
<1>6. QED
  BY <1>1, <1>5, ReplyFrame, ReplyShape, CommitCodesType DEF TypeOK

LEMMA BookLineType ==
    ASSUME TypeOK, Shape, NEW p \in Request, BookLine(p)
    PROVE  TypeOK' /\ Shape'
<1>1. req[p].po \in PO
  BY DEF BookLine, Shape, Busy, RequestFits
<1>2. PICK l \in Line : \E q \in 0..Ordered[req[p].po][l] :
        booked' = [booked EXCEPT ![p] = Plus(booked[p], l, q)]
  BY DEF BookLine
<1>3. PICK q \in 0..Ordered[req[p].po][l] :
        booked' = [booked EXCEPT ![p] = Plus(booked[p], l, q)]
  BY <1>2
<1>4. q \in Nat
  BY <1>1, OrderedAssumption
<1>5. Plus(booked[p], l, q) \in Quantities
  BY <1>4 DEF TypeOK, Quantities, Plus
<1> HIDE DEF Quantities
<1>6. booked' \in [Request -> Quantities]
  BY <1>3, <1>5 DEF TypeOK
<1>7. UNCHANGED <<seqVars, poVars, phase, req, seen>>
  BY DEF BookLine
<1>8. QED
  BY <1>6, <1>7 DEF TypeOK, SeqTypeOK, seqVars, poVars, Shape, Busy, RequestFits

LEMMA CommitReceiptType ==
    ASSUME TypeOK, Shape, NEW p \in Request, CommitReceipt(p)
    PROVE  TypeOK' /\ Shape'
<1> DEFINE po == req[p].po
           row == orders[po]
           n == [l \in Line |-> IF booked[p][l] = 0 THEN row.received[l] ELSE Received(p)[l]]
           new == [status |-> NextStatus(p), received |-> n,
                   createdBy |-> row.createdBy, approvedBy |-> row.approvedBy]
<1>1. po \in PO
  BY DEF CommitReceipt, Shape, Busy, RequestFits
<1>2. row \in OrderRow /\ seen[p] \in OrderRow /\ booked[p] \in Quantities /\ stock[po] \in Quantities
  BY <1>1 DEF TypeOK
<1>3. Received(p) \in Quantities
  BY <1>2 DEF Received, OrderRow, Quantities
<1>4. n \in Quantities
  BY <1>2, <1>3 DEF OrderRow, Quantities
<1>5. NextStatus(p) \in Status
  BY DEF NextStatus, Status
<1>6. new \in OrderRow
  <2>1. row.createdBy \in User \cup {NoUser} /\ row.approvedBy \in User \cup {NoUser}
    BY <1>2 DEF OrderRow
  <2> HIDE DEF row, n
  <2>2. QED
    BY <1>4, <1>5, <2>1, RowType
<1>7. orders' = [orders EXCEPT ![po] = new]
  BY DEF CommitReceipt
<1>8. [l \in Line |-> stock[po][l] + booked[p][l]] \in Quantities
  BY <1>2 DEF Quantities
<1>9. stock' = [stock EXCEPT ![po] = [l \in Line |-> stock[po][l] + booked[p][l]]]
  BY DEF CommitReceipt
<1> HIDE DEF new, Quantities
<1>10. orders' \in [PO -> OrderRow] /\ stock' \in [PO -> Quantities]
  BY <1>6, <1>7, <1>8, <1>9 DEF TypeOK
<1>11. Reply(p) /\ CommitCodes(p) /\ stale' \in BOOLEAN
  BY DEF CommitReceipt, TypeOK
<1>12. QED
  BY <1>10, <1>11, ReplyFrame, ReplyShape, CommitCodesType DEF TypeOK

LEMMA TypeStep ==
    ASSUME TypeOK, Shape, [Next]_vars
    PROVE  TypeOK' /\ Shape'
<1>1. CASE UNCHANGED vars
  BY <1>1 DEF vars, seqVars, poVars, handlerVars, TypeOK, SeqTypeOK, Shape, Busy, RequestFits
<1>2. ASSUME NEW p \in Request, Next, Refuse(p) PROVE TypeOK' /\ Shape'
  BY <1>2, ReplyFrame, ReplyShape DEF Refuse, TypeOK, SeqTypeOK, seqVars, poVars
<1>3. ASSUME NEW p \in Request, RefuseLine(p) \/ Abort(p) PROVE TypeOK' /\ Shape'
  <2>1. AbortCodes(p) /\ Reply(p) /\ UNCHANGED poVars
    BY <1>3 DEF RefuseLine, Abort
  <2>2. QED
    BY <2>1, AbortCodesType, ReplyFrame, ReplyShape DEF TypeOK, poVars
<1>4. QED
  BY <1>1, <1>2, <1>3, ArriveType, LoadType, TransitionType, NumberType, CommitCreateType,
     BookLineType, CommitReceiptType DEF Next, Work

LEMMA TypeInit == Init => TypeOK /\ Shape
<1> SUFFICES ASSUME Init PROVE TypeOK /\ Shape
  OBVIOUS
<1>1. NoRequestRow \in RequestRow
  BY DEF NoRequestRow, RequestRow, Op
<1>2. Absent \in OrderRow /\ Zero \in Quantities
  BY DEF Absent, OrderRow, Status, Zero, Quantities
<1>3. SeqTypeOK
  BY DEF Init, SeqInit, SeqTypeOK
<1>4. Shape
  BY DEF Init, Shape, Busy
<1> HIDE DEF Absent, OrderRow, Zero, Quantities, NoRequestRow, RequestRow
<1>5. QED
  BY <1>1, <1>2, <1>3, <1>4 DEF Init, TypeOK

(* Every variable keeps its type, for any orders and requests.             *)
THEOREM TypeCorrect == Spec => []TypeOK
<1>1. TypeOK /\ Shape /\ [Next]_vars => TypeOK' /\ Shape'
  BY TypeStep
<1>2. QED
  BY <1>1, TypeInit, PTL DEF Spec

-----------------------------------------------------------------------------
(* Document codes.                                                         *)

(* A counter is held by a handler that has taken its code from it and has  *)
(* not finished; the code is the one after the last committed.             *)
Holding ==
    \A d \in DocType :
        holder[d] # NoRequest =>
            /\ holder[d] \in Request
            /\ phase[holder[d]] = "book"
            /\ minted[holder[d]] = last[d] + 1

LEMMA AppendNext ==
    ASSUME NEW n \in Nat
    PROVE  Append([i \in 1..n |-> i], n + 1) = [i \in 1..(n + 1) |-> i]
<1> DEFINE s == [i \in 1..n |-> i]
<1>1. s \in Seq(Nat) /\ Len(s) = n
  OBVIOUS
<1>2. Append(s, n + 1) \in Seq(Nat) /\ Len(Append(s, n + 1)) = n + 1
  BY <1>1
<1>3. \A i \in 1..(n + 1) : Append(s, n + 1)[i] = i
  BY <1>1
<1>4. QED
  BY <1>2, <1>3

(* Giving back the counters of a handler keeps the others' held.           *)
LEMMA HoldingRelease ==
    ASSUME TypeOK, Holding, NEW p \in Request, ReleaseCounters(p), Reply(p),
           \A d \in DocType : holder[d] # p => last'[d] = last[d]
    PROVE  Holding'
<1> SUFFICES ASSUME NEW d \in DocType, holder'[d] # NoRequest
             PROVE  /\ holder'[d] \in Request
                    /\ phase'[holder'[d]] = "book"
                    /\ minted'[holder'[d]] = last'[d] + 1
  BY Zenon DEF Holding
<1>1. holder'[d] = holder[d] /\ holder[d] # p
  BY DEF ReleaseCounters
<1>2. holder[d] \in Request /\ phase[holder[d]] = "book" /\ minted[holder[d]] = last[d] + 1
  BY <1>1 DEF Holding
<1>3. phase'[holder[d]] = phase[holder[d]]
  BY <1>1, <1>2, ReplyFrame
<1>4. minted'[holder[d]] = minted[holder[d]]
  BY <1>1, <1>2 DEF ReleaseCounters, TypeOK, SeqTypeOK
<1>5. QED
  BY <1>1, <1>2, <1>3, <1>4

LEMMA CodesCommit ==
    ASSUME TypeOK, Holding, CodesGapless, NEW p \in Request, CommitCodes(p), Reply(p)
    PROVE  Holding' /\ CodesGapless'
<1>1. Holding'
  BY HoldingRelease DEF CommitCodes
<1>2. ASSUME NEW d \in DocType PROVE codes'[d] = [i \in 1..last'[d] |-> i]
  <2>1. CASE holder[d] = p
    <3>1. minted[p] = last[d] + 1 /\ last[d] \in Nat
      BY <2>1, NoRequestAssumption DEF Holding, TypeOK, SeqTypeOK
    <3>2. codes'[d] = Append(codes[d], minted[p]) /\ last'[d] = minted[p]
      BY <2>1 DEF CommitCodes
    <3>3. codes[d] = [i \in 1..last[d] |-> i]
      BY DEF CodesGapless
    <3>4. QED
      BY <3>1, <3>2, <3>3, AppendNext
  <2>2. CASE holder[d] # p
    BY <2>2 DEF CommitCodes, CodesGapless
  <2>3. QED
    BY <2>1, <2>2
<1>3. QED
  BY <1>1, <1>2 DEF CodesGapless

LEMMA CodesAbort ==
    ASSUME TypeOK, Holding, CodesGapless, NEW p \in Request, AbortCodes(p), Reply(p)
    PROVE  Holding' /\ CodesGapless'
BY HoldingRelease DEF AbortCodes, CodesGapless

(* A step that leaves the counters alone and takes no handler out of the   *)
(* phase in which it holds one.                                            *)
LEMMA CodesFrame ==
    ASSUME Holding, CodesGapless, UNCHANGED seqVars,
           \A r \in Request : phase[r] = "book" => phase'[r] = "book"
    PROVE  Holding' /\ CodesGapless'
BY DEF Holding, CodesGapless, seqVars

LEMMA CodesStep ==
    ASSUME TypeOK, Holding, CodesGapless, [Next]_vars
    PROVE  Holding' /\ CodesGapless'
<1>1. CASE UNCHANGED vars
  BY <1>1, CodesFrame DEF vars, handlerVars
<1>2. ASSUME NEW p \in Request, ArriveCreate(p) \/ Arrive(p) \/ Load(p) \/ BookLine(p)
      PROVE  Holding' /\ CodesGapless'
  <2>1. UNCHANGED seqVars
    BY <1>2 DEF ArriveCreate, Arrive, Load, BookLine
  <2>2. \A r \in Request : phase[r] = "book" => phase'[r] = "book"
    BY <1>2 DEF ArriveCreate, Arrive, Load, BookLine, TypeOK
  <2>3. QED
    BY <2>1, <2>2, CodesFrame
<1>3. ASSUME NEW p \in Request, Refuse(p) \/ Transition(p)
      PROVE  Holding' /\ CodesGapless'
  <2>1. UNCHANGED seqVars /\ Reply(p) /\ phase[p] # "book"
    BY <1>3 DEF Refuse, Transition
  <2>2. \A r \in Request : phase[r] = "book" => phase'[r] = "book"
    BY <2>1, ReplyFrame
  <2>3. QED
    BY <2>1, <2>2, CodesFrame
<1>4. ASSUME NEW p \in Request, CommitCreate(p) \/ CommitReceipt(p)
      PROVE  Holding' /\ CodesGapless'
  BY <1>4, CodesCommit DEF CommitCreate, CommitReceipt
<1>5. ASSUME NEW p \in Request, RefuseLine(p) \/ Abort(p)
      PROVE  Holding' /\ CodesGapless'
  BY <1>5, CodesAbort DEF RefuseLine, Abort
<1>6. ASSUME NEW p \in Request, Number(p) PROVE Holding' /\ CodesGapless'
  <2>1. PICK d \in DocType : Allocate(p, d)
    BY <1>6, DocTypeAssumption DEF Number
  <2>2. phase[p] = "number" /\ phase' = [phase EXCEPT ![p] = "book"]
    BY <1>6 DEF Number
  <2>3. holder[d] = NoRequest /\ UNCHANGED <<last, codes>>
    BY <2>1 DEF Allocate
  <2>4. ASSUME NEW e \in DocType, holder'[e] # NoRequest
        PROVE  /\ holder'[e] \in Request
               /\ phase'[holder'[e]] = "book"
               /\ minted'[holder'[e]] = last'[e] + 1
    <3>1. CASE e = d
      BY <2>1, <2>2, <3>1 DEF Allocate, TypeOK, SeqTypeOK
    <3>2. CASE e # d
      <4>1. holder'[e] = holder[e]
        BY <2>1, <3>2 DEF Allocate, TypeOK, SeqTypeOK
      <4>2. holder[e] \in Request /\ phase[holder[e]] = "book" /\ minted[holder[e]] = last[e] + 1
        BY <2>4, <4>1 DEF Holding
      <4>3. holder[e] # p
        BY <2>2, <4>2
      <4>4. phase'[holder[e]] = phase[holder[e]] /\ minted'[holder[e]] = minted[holder[e]]
        BY <2>1, <2>2, <4>2, <4>3 DEF Allocate, TypeOK, SeqTypeOK
      <4>5. QED
        BY <2>3, <4>1, <4>2, <4>4
    <3>3. QED
      BY <3>1, <3>2
  <2>5. QED
    BY <2>3, <2>4 DEF Holding, CodesGapless
<1>7. QED
  BY <1>1, <1>2, <1>3, <1>4, <1>5, <1>6 DEF Next, Work

(* However receipts and new orders overlap, fail or crash, the codes of a  *)
(* document type have no gap and no duplicate (sequence.go:13-18, 32-34).  *)
THEOREM CodesHaveNoGap == Spec => []CodesGapless
<1> DEFINE IInv == TypeOK /\ Shape /\ Holding /\ CodesGapless
<1>1. Init => IInv
  BY TypeInit DEF Init, SeqInit, Holding, CodesGapless
<1>2. IInv /\ [Next]_vars => IInv'
  BY TypeStep, CodesStep
<1>3. QED
  BY <1>1, <1>2, PTL DEF Spec

-----------------------------------------------------------------------------
(* Orders keep who raised them and who approved them.                      *)

(* An order that does not exist has no goods, is worked on by nobody but   *)
(* the one handler that creates it, and no other handler has one.          *)
Fresh ==
    /\ \A po \in PO : orders[po].status = "none" => orders[po] = Absent /\ stock[po] = Zero
    /\ \A p \in Request : Busy(p) =>
         IF req[p].op = "create"
         THEN /\ orders[req[p].po].status = "none"
              /\ \A r \in Request : r # p /\ Busy(r) => req[r].po # req[p].po
         ELSE orders[req[p].po].status # "none"

(* What a handler has found approved, or may approve, stays so.            *)
ApprovalSeen ==
    \A p \in Request : Busy(p) =>
        /\ req[p].op = "receive" /\ phase[p] \in {"number", "book"} =>
             ApprovedRow(orders[req[p].po])
        /\ req[p].op = "approved" /\ phase[p] = "write" =>
             ApprovedByAnother(orders[req[p].po].createdBy, req[p].user)

(* A step keeps an existing order, its author and its approval.            *)
Keeps(po) ==
    orders[po].status # "none" =>
        /\ orders'[po].status # "none"
        /\ orders'[po].createdBy = orders[po].createdBy
        /\ ApprovedRow(orders[po]) => ApprovedRow(orders'[po])

LEMMA TransitionWrites ==
    ASSUME TypeOK, Shape, NEW p \in Request, Transition(p)
    PROVE  /\ \A x \in PO \ {req[p].po} : orders'[x] = orders[x]
           /\ orders'[req[p].po].status = req[p].op
           /\ orders'[req[p].po].received = orders[req[p].po].received
           /\ orders'[req[p].po].createdBy = orders[req[p].po].createdBy
           /\ orders'[req[p].po].approvedBy =
                (IF req[p].op = "approved" THEN req[p].user ELSE orders[req[p].po].approvedBy)
<1>1. req[p].po \in PO
  BY DEF Transition, Shape, Busy, RequestFits
<1>2. QED
  BY <1>1 DEF Transition, TypeOK

LEMMA ReceiptWrites ==
    ASSUME TypeOK, Shape, NEW p \in Request, CommitReceipt(p)
    PROVE  /\ \A x \in PO \ {req[p].po} : orders'[x] = orders[x] /\ stock'[x] = stock[x]
           /\ orders'[req[p].po].status \in {"partially_received", "received"}
           /\ orders'[req[p].po].createdBy = orders[req[p].po].createdBy
           /\ orders'[req[p].po].approvedBy = orders[req[p].po].approvedBy
           /\ \A l \in Line :
                /\ orders'[req[p].po].received[l] =
                     (IF booked[p][l] = 0 THEN orders[req[p].po].received[l] ELSE Received(p)[l])
                /\ stock'[req[p].po][l] = stock[req[p].po][l] + booked[p][l]
<1>1. req[p].po \in PO
  BY DEF CommitReceipt, Shape, Busy, RequestFits
<1>2. NextStatus(p) \in {"partially_received", "received"}
  BY DEF NextStatus
<1>3. \A x \in PO \ {req[p].po} : orders'[x] = orders[x] /\ stock'[x] = stock[x]
  BY <1>1 DEF CommitReceipt, TypeOK
<1>4. orders'[req[p].po] =
        [status |-> NextStatus(p),
         received |-> [l \in Line |-> IF booked[p][l] = 0 THEN orders[req[p].po].received[l]
                                      ELSE Received(p)[l]],
         createdBy |-> orders[req[p].po].createdBy,
         approvedBy |-> orders[req[p].po].approvedBy]
  BY <1>1 DEF CommitReceipt, TypeOK
<1>5. stock'[req[p].po] = [l \in Line |-> stock[req[p].po][l] + booked[p][l]]
  BY <1>1 DEF CommitReceipt, TypeOK
<1>6. QED
  BY <1>2, <1>3, <1>4, <1>5

LEMMA CreateWrites ==
    ASSUME TypeOK, Shape, NEW p \in Request, CommitCreate(p)
    PROVE  /\ \A x \in PO \ {req[p].po} : orders'[x] = orders[x]
           /\ orders'[req[p].po].status = "draft"
           /\ orders'[req[p].po].received = Zero
           /\ UNCHANGED stock
<1>1. req[p].po \in PO
  BY DEF CommitCreate, Shape, Busy, RequestFits
<1>2. QED
  BY <1>1 DEF CommitCreate, TypeOK

(* The steps that write no order.                                          *)
LEMMA OtherWrites ==
    ASSUME NEW p \in Request,
           ArriveCreate(p) \/ Arrive(p) \/ Load(p) \/ Refuse(p) \/ Number(p) \/ BookLine(p)
             \/ RefuseLine(p) \/ Abort(p)
    PROVE  UNCHANGED <<orders, stock>>
BY DEF ArriveCreate, Arrive, Load, Refuse, Number, BookLine, RefuseLine, Abort, poVars

LEMMA KeepsStep ==
    ASSUME TypeOK, Shape, Fresh, ApprovalSeen, [Next]_vars
    PROVE  \A po \in PO : Keeps(po)
<1>1. CASE UNCHANGED orders
  BY <1>1 DEF Keeps, ApprovedRow
<1>2. ASSUME NEW p \in Request, CommitCreate(p) PROVE \A po \in PO : Keeps(po)
  <2>1. orders[req[p].po].status = "none"
    BY <1>2 DEF Fresh, CommitCreate, Busy
  <2>2. QED
    BY <1>2, <2>1, CreateWrites DEF Keeps, ApprovedRow
<1>3. ASSUME NEW p \in Request, Transition(p) PROVE \A po \in PO : Keeps(po)
  <2>1. /\ phase[p] = "write" /\ req[p].po \in PO
        /\ req[p].op = "approved" => req[p].user \in User
        /\ req[p].op # "create" /\ req[p] \in RequestRow
    BY <1>3 DEF Transition, Shape, Busy, RequestFits, TypeOK
  <2>2. req[p].op # "none"
    BY <2>1 DEF RequestRow, Op
  <2>3. req[p].op = "approved" => ApprovedByAnother(orders[req[p].po].createdBy, req[p].user)
    BY <2>1 DEF ApprovalSeen, Busy
  <2>4. \A x \in PO \ {req[p].po} : Keeps(x)
    BY <1>3, TransitionWrites DEF Keeps, ApprovedRow
  <2>5. Keeps(req[p].po)
    <3>1. CASE req[p].op = "approved"
      BY <1>3, <2>1, <2>2, <2>3, <3>1, TransitionWrites DEF Keeps, ApprovedRow
    <3>2. CASE req[p].op # "approved"
      BY <1>3, <2>2, <3>2, TransitionWrites DEF Keeps, ApprovedRow
    <3>3. QED
      BY <3>1, <3>2
  <2>6. QED
    BY <2>4, <2>5
<1>4. ASSUME NEW p \in Request, CommitReceipt(p) PROVE \A po \in PO : Keeps(po)
  BY <1>4, ReceiptWrites DEF Keeps, ApprovedRow
<1>5. QED
  BY <1>1, <1>2, <1>3, <1>4, OtherWrites DEF Next, Work, vars, poVars

(* A busy handler that does not move keeps what Fresh and ApprovalSeen say *)
(* of its order when the step keeps the order.                             *)
LEMMA FreshReply ==
    ASSUME TypeOK, Shape, Fresh, NEW p \in Request, Busy(p), Reply(p),
           \A x \in PO \ {req[p].po} : orders'[x] = orders[x] /\ stock'[x] = stock[x],
           \A x \in PO : orders[x].status # "none" => orders'[x].status # "none",
           orders'[req[p].po].status = "none" => UNCHANGED <<orders, stock>>
    PROVE  Fresh'
<1>1. ASSUME NEW x \in PO, orders'[x].status = "none"
      PROVE  orders'[x] = Absent /\ stock'[x] = Zero
  BY <1>1 DEF Fresh
<1>2. ASSUME NEW r \in Request, Busy(r)'
      PROVE  IF req'[r].op = "create"
             THEN /\ orders'[req'[r].po].status = "none"
                  /\ \A q \in Request : q # r /\ Busy(q)' => req'[q].po # req'[r].po
             ELSE orders'[req'[r].po].status # "none"
  <2>1. r # p /\ Busy(r) /\ req'[r] = req[r]
    BY <1>2, ReplyFrame DEF Busy
  <2>2. \A q \in Request : Busy(q)' => Busy(q) /\ req'[q] = req[q]
    BY ReplyFrame DEF Busy
  <2>3. req[r].po \in PO /\ req[p].po \in PO
    BY <2>1 DEF Shape, RequestFits
  <2>4. CASE req[r].op = "create"
    <3>1. /\ orders[req[r].po].status = "none"
          /\ \A q \in Request : q # r /\ Busy(q) => req[q].po # req[r].po
      BY <2>1, <2>4 DEF Fresh
    <3>2. req[r].po # req[p].po
      BY <2>1, <3>1
    <3>3. QED
      BY <2>1, <2>2, <2>3, <2>4, <3>1, <3>2
  <2>5. CASE req[r].op # "create"
    <3>1. orders[req[r].po].status # "none"
      BY <2>1, <2>5 DEF Fresh
    <3>2. QED
      BY <2>1, <2>3, <2>5, <3>1
  <2>6. QED
    BY <2>4, <2>5
<1>3. QED
  BY <1>1, <1>2, Zenon DEF Fresh

LEMMA FreshStep ==
    ASSUME TypeOK, Shape, Fresh, ApprovalSeen, [Next]_vars
    PROVE  Fresh'
<1> \A x \in PO : orders[x].status # "none" => orders'[x].status # "none"
  BY KeepsStep DEF Keeps
<1>1. CASE UNCHANGED vars
  BY <1>1 DEF vars, poVars, handlerVars, Fresh, Busy
<1>2. ASSUME NEW p \in Request, ArriveCreate(p) PROVE Fresh'
  <2>1. PICK po \in PO, u \in User :
          /\ orders[po] = Absent
          /\ \A r \in Request : req[r].po # po
          /\ req' = [req EXCEPT ![p] = [po |-> po, op |-> "create", user |-> u]]
    BY <1>2 DEF ArriveCreate
  <2>2. UNCHANGED <<orders, stock>> /\ phase' = [phase EXCEPT ![p] = "number"]
    BY <1>2 DEF ArriveCreate, poVars
  <2>3. orders[po].status = "none"
    BY <2>1 DEF Absent
  <2>4. QED
    BY <2>1, <2>2, <2>3 DEF Fresh, Busy, TypeOK
<1>3. ASSUME NEW p \in Request, Arrive(p) PROVE Fresh'
  <2>1. PICK po \in PO, op \in Op \ {"create"}, u \in User :
          /\ orders[po] # Absent
          /\ req' = [req EXCEPT ![p] =
               [po |-> po, op |-> op, user |-> IF op = "approved" THEN u ELSE NoUser]]
    BY <1>3 DEF Arrive
  <2>2. UNCHANGED <<orders, stock>> /\ phase' = [phase EXCEPT ![p] = "load"] /\ phase[p] = "idle"
    BY <1>3 DEF Arrive, poVars
  <2>3. orders[po].status # "none"
    BY <2>1 DEF Fresh
  <2>4. req'[p].op # "create" /\ req'[p].po = po
    BY <2>1 DEF TypeOK
  <2>5. \A r \in Request \ {p} : req'[r] = req[r] /\ phase'[r] = phase[r]
    BY <2>1, <2>2 DEF TypeOK
  <2>6. \A r \in Request : Busy(r) /\ req[r].op = "create" => req[r].po # po
    BY <2>3 DEF Fresh
  <2>7. ASSUME NEW r \in Request, Busy(r)'
        PROVE  IF req'[r].op = "create"
               THEN /\ orders'[req'[r].po].status = "none"
                    /\ \A q \in Request : q # r /\ Busy(q)' => req'[q].po # req'[r].po
               ELSE orders'[req'[r].po].status # "none"
    <3>1. CASE r = p
      BY <2>2, <2>3, <2>4, <3>1
    <3>2. CASE r # p
      <4>1. Busy(r) /\ req'[r] = req[r]
        BY <2>5, <2>7, <3>2 DEF Busy
      <4>2. \A q \in Request : q # r /\ Busy(q)' =>
              (q # p /\ Busy(q) /\ req'[q] = req[q]) \/ (q = p /\ req'[q].po = po)
        BY <2>4, <2>5 DEF Busy
      <4>3. CASE req[r].op = "create"
        BY <2>2, <2>6, <4>1, <4>2, <4>3 DEF Fresh
      <4>4. CASE req[r].op # "create"
        BY <2>2, <4>1, <4>4 DEF Fresh
      <4>5. QED
        BY <4>3, <4>4
    <3>3. QED
      BY <3>1, <3>2
  <2>8. \A x \in PO : orders'[x].status = "none" => orders'[x] = Absent /\ stock'[x] = Zero
    BY <2>2 DEF Fresh
  <2>9. QED
    BY <2>7, <2>8, Zenon DEF Fresh
<1>4. ASSUME NEW p \in Request, Load(p) \/ Number(p) \/ BookLine(p) PROVE Fresh'
  <2>1. UNCHANGED <<orders, stock, req>> /\ Busy(p)
    BY <1>4 DEF Load, Number, BookLine, poVars, Busy
  <2>2. \A r \in Request : Busy(r)' => Busy(r)
    BY <1>4 DEF Load, Number, BookLine, Busy, TypeOK
  <2>3. QED
    BY <2>1, <2>2 DEF Fresh
<1>5. ASSUME NEW p \in Request, Refuse(p) \/ RefuseLine(p) \/ Abort(p) PROVE Fresh'
  <2>1. UNCHANGED <<orders, stock>> /\ Reply(p) /\ Busy(p)
    BY <1>5 DEF Refuse, RefuseLine, Abort, poVars, Busy
  <2>2. QED
    BY <2>1, FreshReply
<1>6. ASSUME NEW p \in Request, CommitCreate(p) PROVE Fresh'
  <2>1. Reply(p) /\ Busy(p)
    BY <1>6 DEF CommitCreate, Busy
  <2>2. QED
    BY <1>6, <2>1, CreateWrites, FreshReply
<1>7. ASSUME NEW p \in Request, Transition(p) PROVE Fresh'
  <2>1. Reply(p) /\ Busy(p) /\ UNCHANGED stock
    BY <1>7 DEF Transition, Busy
  <2>2. req[p].op # "none"
    BY <1>7 DEF TypeOK, RequestRow, Op
  <2>3. QED
    BY <1>7, <2>1, <2>2, TransitionWrites, FreshReply
<1>8. ASSUME NEW p \in Request, CommitReceipt(p) PROVE Fresh'
  <2>1. Reply(p) /\ Busy(p)
    BY <1>8 DEF CommitReceipt, Busy
  <2>2. QED
    BY <1>8, <2>1, ReceiptWrites, FreshReply
<1>9. QED
  BY <1>1, <1>2, <1>3, <1>4, <1>5, <1>6, <1>7, <1>8 DEF Next, Work

-----------------------------------------------------------------------------
(* Goods are received only for approved orders.                            *)

(* A handler that does not move keeps what it has found.                   *)
LEMMA SeenKept ==
    ASSUME Shape, Fresh, ApprovalSeen, \A po \in PO : Keeps(po),
           NEW r \in Request, Busy(r), req'[r] = req[r], phase'[r] = phase[r]
    PROVE  /\ req'[r].op = "receive" /\ phase'[r] \in {"number", "book"} =>
                ApprovedRow(orders'[req'[r].po])
           /\ req'[r].op = "approved" /\ phase'[r] = "write" =>
                ApprovedByAnother(orders'[req'[r].po].createdBy, req'[r].user)
<1>1. req[r].po \in PO
  BY DEF Shape, RequestFits
<1>2. req[r].op # "create" => orders[req[r].po].status # "none"
  BY DEF Fresh
<1>3. req[r].op # "create" =>
        /\ orders'[req[r].po].createdBy = orders[req[r].po].createdBy
        /\ ApprovedRow(orders[req[r].po]) => ApprovedRow(orders'[req[r].po])
  BY <1>1, <1>2 DEF Keeps
<1>4. QED
  BY <1>3 DEF ApprovalSeen

LEMMA ApprovalStep ==
    ASSUME TypeOK, Shape, Fresh, ApprovalSeen, GoodsWereApproved, [Next]_vars
    PROVE  ApprovalSeen'
<1>0. \A po \in PO : Keeps(po)
  BY KeepsStep
<1>1. CASE UNCHANGED vars
  BY <1>1 DEF vars, poVars, handlerVars, ApprovalSeen, Busy, ApprovedRow
<1>2. SUFFICES ASSUME NEW p \in Request,
                      ArriveCreate(p) \/ Arrive(p) \/ Work(p) \/ Number(p) \/ Abort(p),
                      NEW r \in Request, Busy(r)'
               PROVE  /\ req'[r].op = "receive" /\ phase'[r] \in {"number", "book"} =>
                           ApprovedRow(orders'[req'[r].po])
                      /\ req'[r].op = "approved" /\ phase'[r] = "write" =>
                           ApprovedByAnother(orders'[req'[r].po].createdBy, req'[r].user)
  BY <1>1, Zenon DEF Next, ApprovalSeen, ApprovedRow
<1>3. CASE Reply(p)
  <2>1. r # p /\ Busy(r) /\ req'[r] = req[r] /\ phase'[r] = phase[r]
    BY <1>2, <1>3, ReplyFrame DEF Busy
  <2>2. QED
    BY <1>0, <2>1, SeenKept
<1>4. CASE ArriveCreate(p) \/ Arrive(p)
  <2>1. CASE r = p
    <3>1. req'[p].op = "create" \/ phase'[p] = "load"
      BY <1>4 DEF ArriveCreate, Arrive, TypeOK
    <3>2. QED
      BY <2>1, <3>1
  <2>2. CASE r # p
    <3>1. Busy(r) /\ req'[r] = req[r] /\ phase'[r] = phase[r]
      BY <1>2, <1>4, <2>2 DEF ArriveCreate, Arrive, TypeOK, Busy
    <3>2. QED
      BY <1>0, <3>1, SeenKept
  <2>3. QED
    BY <2>1, <2>2
<1>5. CASE Load(p)
  <2>1. /\ UNCHANGED <<orders, req>> /\ phase[p] = "load"
        /\ Permitted(req[p], orders[req[p].po])
        /\ phase' = [phase EXCEPT ![p] = IF req[p].op = "receive" THEN "number" ELSE "write"]
        /\ req[p].po \in PO
    BY <1>5 DEF Load, poVars, Shape, Busy, RequestFits
  <2>2. CASE r = p
    <3>1. req[p].op = "receive" => ApprovedRow(orders[req[p].po])
      BY <2>1 DEF Permitted, GoodsWereApproved, ApprovedRow
    <3>2. req[p].op = "approved" => ApprovedByAnother(orders[req[p].po].createdBy, req[p].user)
      BY <2>1 DEF Permitted
    <3>3. QED
      BY <2>1, <2>2, <3>1, <3>2 DEF ApprovedRow
  <2>3. CASE r # p
    <3>1. Busy(r) /\ req'[r] = req[r] /\ phase'[r] = phase[r]
      BY <1>2, <2>1, <2>3 DEF TypeOK, Busy
    <3>2. QED
      BY <1>0, <3>1, SeenKept
  <2>4. QED
    BY <2>2, <2>3
<1>6. CASE Number(p)
  <2>1. /\ UNCHANGED <<orders, req>> /\ phase[p] = "number"
        /\ phase' = [phase EXCEPT ![p] = "book"]
    BY <1>6 DEF Number, poVars
  <2>2. CASE r = p
    BY <2>1, <2>2 DEF ApprovalSeen, Busy, ApprovedRow, TypeOK
  <2>3. CASE r # p
    <3>1. Busy(r) /\ req'[r] = req[r] /\ phase'[r] = phase[r]
      BY <1>2, <2>1, <2>3 DEF TypeOK, Busy
    <3>2. QED
      BY <1>0, <3>1, SeenKept
  <2>4. QED
    BY <2>2, <2>3
<1>7. CASE BookLine(p)
  <2>1. Busy(r) /\ req'[r] = req[r] /\ phase'[r] = phase[r]
    BY <1>2, <1>7 DEF BookLine, Busy
  <2>2. QED
    BY <1>0, <2>1, SeenKept
<1>8. QED
  BY <1>2, <1>3, <1>4, <1>5, <1>6, <1>7
     DEF Work, Refuse, Transition, CommitCreate, RefuseLine, CommitReceipt, Abort

LEMMA ApprovedStep ==
    ASSUME TypeOK, Shape, Fresh, ApprovalSeen, GoodsWereApproved, [Next]_vars
    PROVE  GoodsWereApproved'
<1> SUFFICES ASSUME NEW x \in PO,
                    \/ stock'[x] # Zero
                    \/ orders'[x].status \in {"approved", "partially_received", "received"}
             PROVE  ApprovedRow(orders'[x])
  BY DEF GoodsWereApproved, ApprovedRow
<1>1. Keeps(x)
  BY KeepsStep
<1>2. ASSUME stock'[x] = stock[x], orders'[x] = orders[x] PROVE ApprovedRow(orders'[x])
  BY <1>2 DEF GoodsWereApproved, ApprovedRow
<1>3. CASE UNCHANGED <<orders, stock>>
  BY <1>2, <1>3
<1>4. ASSUME NEW p \in Request, CommitCreate(p) PROVE ApprovedRow(orders'[x])
  <2>1. CASE x = req[p].po
    <3>1. orders[x].status = "none" /\ stock[x] = Zero
      BY <1>4, <2>1 DEF CommitCreate, Fresh, Busy
    <3>2. stock'[x] = Zero /\ orders'[x].status = "draft"
      BY <1>4, <2>1, <3>1, CreateWrites
    <3>3. QED
      BY <3>2
  <2>2. CASE x # req[p].po
    BY <1>2, <1>4, <2>2, CreateWrites
  <2>3. QED
    BY <2>1, <2>2
<1>5. ASSUME NEW p \in Request, Transition(p) PROVE ApprovedRow(orders'[x])
  <2>1. stock' = stock /\ phase[p] = "write"
    BY <1>5 DEF Transition
  <2>2. CASE x # req[p].po
    BY <1>2, <1>5, <2>1, <2>2, TransitionWrites
  <2>3. CASE x = req[p].po /\ req[p].op = "approved"
    <3>1. req[p].user \in User /\ ApprovedByAnother(orders[x].createdBy, req[p].user)
      BY <2>1, <2>3 DEF Shape, Busy, RequestFits, ApprovalSeen
    <3>2. QED
      BY <1>5, <2>3, <3>1, TransitionWrites DEF ApprovedRow
  <2>4. CASE x = req[p].po /\ req[p].op # "approved"
    <3>1. req[p].op \notin {"partially_received", "received"}
      BY DEF TypeOK, RequestRow, Op
    <3>2. stock[x] # Zero
      BY <1>5, <2>1, <2>4, <3>1, TransitionWrites
    <3>3. ApprovedRow(orders[x]) /\ orders[x].status # "none"
      BY <3>2 DEF GoodsWereApproved, ApprovedRow, Fresh
    <3>4. QED
      BY <1>1, <3>3 DEF Keeps
  <2>5. QED
    BY <2>2, <2>3, <2>4
<1>6. ASSUME NEW p \in Request, CommitReceipt(p) PROVE ApprovedRow(orders'[x])
  <2>1. CASE x # req[p].po
    BY <1>2, <1>6, <2>1, ReceiptWrites
  <2>2. CASE x = req[p].po
    <3>1. ApprovedRow(orders[x]) /\ orders[x].status # "none"
      BY <1>6, <2>2 DEF CommitReceipt, ApprovalSeen, Fresh, Busy
    <3>2. QED
      BY <1>1, <3>1 DEF Keeps
  <2>3. QED
    BY <2>1, <2>2
<1>7. QED
  BY <1>3, <1>4, <1>5, <1>6, OtherWrites DEF Next, Work, vars, poVars

(* However requests overlap, goods reach the stock only for an order that  *)
(* somebody else, or an admin, has approved (service.go:302-310, 464-467). *)
THEOREM ReceiptsNeedApproval == Spec => []GoodsWereApproved
<1> DEFINE IInv == TypeOK /\ Shape /\ Fresh /\ ApprovalSeen /\ GoodsWereApproved
<1>1. Init => IInv
  <2> SUFFICES ASSUME Init PROVE IInv
    OBVIOUS
  <2>1. Fresh
    BY DEF Init, Fresh, Busy
  <2>2. ApprovalSeen
    BY DEF Init, ApprovalSeen, Busy
  <2>3. GoodsWereApproved
    BY DEF Init, GoodsWereApproved, Absent
  <2>4. QED
    BY TypeInit, <2>1, <2>2, <2>3
<1>2. IInv /\ [Next]_vars => IInv'
  BY TypeStep, FreshStep, ApprovalStep, ApprovedStep
<1>3. QED
  BY <1>1, <1>2, PTL DEF Spec

-----------------------------------------------------------------------------
(* Order lines never claim more than is in stock.                          *)

(* What a receipt has seen of a line is in stock, and what it has booked   *)
(* on top still fits the line.                                             *)
LinesSeen ==
    \A p \in Request, l \in Line :
        /\ phase[p] # "book" => booked[p] = Zero
        /\ Busy(p) /\ req[p].op = "receive" /\ phase[p] \in {"number", "book"} =>
             /\ seen[p].received[l] <= stock[req[p].po][l]
             /\ seen[p].received[l] + booked[p][l] <= Ordered[req[p].po][l]

(* Stock that receipts have brought is never taken back here.              *)
LEMMA StockGrows ==
    ASSUME TypeOK, Shape, [Next]_vars, NEW x \in PO, NEW l \in Line
    PROVE  stock[x][l] \in Nat /\ stock'[x][l] \in Nat /\ stock[x][l] <= stock'[x][l]
<1>1. stock[x][l] \in Nat
  BY DEF TypeOK, Quantities
<1>2. CASE stock' = stock
  BY <1>1, <1>2
<1>3. ASSUME NEW p \in Request, CommitReceipt(p)
      PROVE  stock'[x][l] \in Nat /\ stock[x][l] <= stock'[x][l]
  <2>1. booked[p][l] \in Nat
    BY DEF TypeOK, Quantities
  <2>2. CASE x = req[p].po
    BY <1>1, <1>3, <2>1, <2>2, ReceiptWrites
  <2>3. CASE x # req[p].po
    BY <1>1, <1>3, <2>3, ReceiptWrites
  <2>4. QED
    BY <2>2, <2>3
<1>4. ASSUME NEW p \in Request, CommitCreate(p) \/ Transition(p) PROVE stock' = stock
  BY <1>4 DEF CommitCreate, Transition
<1>5. QED
  BY <1>1, <1>2, <1>3, <1>4, OtherWrites DEF Next, Work, vars, poVars

LEMMA LinesSeenKept ==
    ASSUME TypeOK, Shape, LinesSeen, [Next]_vars, NEW r \in Request, NEW l \in Line,
           req'[r] = req[r], phase'[r] = phase[r], seen'[r] = seen[r], booked'[r] = booked[r]
    PROVE  /\ phase'[r] # "book" => booked'[r] = Zero
           /\ Busy(r)' /\ req'[r].op = "receive" /\ phase'[r] \in {"number", "book"} =>
                /\ seen'[r].received[l] <= stock'[req'[r].po][l]
                /\ seen'[r].received[l] + booked'[r][l] <= Ordered[req'[r].po][l]
<1>1. phase[r] # "book" => booked[r] = Zero
  BY DEF LinesSeen
<1>2. ASSUME Busy(r), req[r].op = "receive", phase[r] \in {"number", "book"}
      PROVE  /\ seen[r].received[l] <= stock'[req[r].po][l]
             /\ seen[r].received[l] + booked[r][l] <= Ordered[req[r].po][l]
  <2>1. req[r].po \in PO
    BY <1>2 DEF Shape, RequestFits
  <2>2. /\ seen[r].received[l] <= stock[req[r].po][l]
        /\ seen[r].received[l] + booked[r][l] <= Ordered[req[r].po][l]
    BY <1>2 DEF LinesSeen
  <2>3. seen[r].received[l] \in Nat
    BY DEF TypeOK, OrderRow, Quantities
  <2>4. /\ stock[req[r].po][l] \in Nat /\ stock'[req[r].po][l] \in Nat
        /\ stock[req[r].po][l] <= stock'[req[r].po][l]
    <3>1. PICK x \in PO : x = req[r].po
      BY <2>1
    <3>2. stock[x][l] \in Nat /\ stock'[x][l] \in Nat /\ stock[x][l] <= stock'[x][l]
      BY StockGrows
    <3>3. QED
      BY <3>1, <3>2
  <2>5. QED
    BY <2>2, <2>3, <2>4
<1>3. QED
  BY <1>1, <1>2 DEF Busy

LEMMA LinesSeenStep ==
    ASSUME TypeOK, Shape, LinesSeen, LineWithinStock, [Next]_vars
    PROVE  LinesSeen'
<1> DEFINE Good(r, l) ==
      /\ phase'[r] # "book" => booked'[r] = Zero
      /\ Busy(r)' /\ req'[r].op = "receive" /\ phase'[r] \in {"number", "book"} =>
           /\ seen'[r].received[l] <= stock'[req'[r].po][l]
           /\ seen'[r].received[l] + booked'[r][l] <= Ordered[req'[r].po][l]
<1>1. SUFFICES ASSUME NEW r \in Request, NEW l \in Line PROVE Good(r, l)
  BY Zenon DEF LinesSeen
<1>2. CASE UNCHANGED vars
  BY <1>2, LinesSeenKept DEF vars, handlerVars
<1>3. ASSUME NEW p \in Request,
             ArriveCreate(p) \/ Arrive(p) \/ Work(p) \/ Number(p) \/ Abort(p), r # p
      PROVE  Good(r, l)
  <2>1. req'[r] = req[r] /\ phase'[r] = phase[r] /\ seen'[r] = seen[r] /\ booked'[r] = booked[r]
    <3>1. CASE Reply(p)
      BY <1>3, <3>1, ReplyFrame
    <3>2. CASE ArriveCreate(p) \/ Arrive(p)
      BY <1>3, <3>2 DEF ArriveCreate, Arrive, TypeOK
    <3>3. CASE Load(p) \/ Number(p) \/ BookLine(p)
      BY <1>3, <3>3 DEF Load, Number, BookLine, TypeOK
    <3>4. QED
      BY <1>3, <3>1, <3>2, <3>3
         DEF Work, Refuse, Transition, CommitCreate, RefuseLine, CommitReceipt, Abort
  <2>2. QED
    BY <2>1, LinesSeenKept
<1>4. CASE Reply(r)
  <2>1. phase'[r] = "idle" /\ booked'[r] = Zero
    BY <1>4 DEF Reply, TypeOK
  <2>2. QED
    BY <2>1 DEF Busy
<1>5. CASE ArriveCreate(r) \/ Arrive(r)
  <2>1. /\ phase[r] = "idle" /\ phase'[r] \in {"number", "load"}
        /\ phase'[r] = "number" => req'[r].op = "create"
        /\ booked' = booked
    BY <1>5 DEF ArriveCreate, Arrive, TypeOK
  <2>2. booked[r] = Zero
    BY <2>1 DEF LinesSeen
  <2>3. QED
    BY <2>1, <2>2
<1>6. CASE Load(r)
  <2>1. /\ phase[r] = "load" /\ phase'[r] \in {"number", "write"} /\ req[r].po \in PO
        /\ seen'[r] = orders[req[r].po] /\ UNCHANGED <<booked, stock, req>>
    BY <1>6 DEF Load, poVars, TypeOK, Shape, Busy, RequestFits
  <2>2. booked[r] = Zero
    BY <2>1 DEF LinesSeen
  <2>3. /\ orders[req[r].po].received[l] <= stock[req[r].po][l]
        /\ orders[req[r].po].received[l] <= Ordered[req[r].po][l]
    BY <2>1 DEF LineWithinStock
  <2>4. orders[req[r].po].received[l] + Zero[l] = orders[req[r].po].received[l]
    BY <2>1 DEF TypeOK, OrderRow, Quantities, Zero
  <2>5. QED
    BY <2>1, <2>2, <2>3, <2>4
<1>7. CASE Number(r)
  <2>1. /\ phase[r] = "number" /\ phase'[r] = "book" /\ UNCHANGED <<booked, stock, req, seen>>
    BY <1>7 DEF Number, poVars, TypeOK
  <2>2. QED
    BY <2>1 DEF LinesSeen, Busy
<1>8. CASE BookLine(r)
  <2>1. /\ phase[r] = "book" /\ phase' = phase /\ UNCHANGED <<stock, req, seen>>
        /\ req[r].op = "receive" /\ req[r].po \in PO
    BY <1>8 DEF BookLine, poVars, Shape, Busy, RequestFits
  <2>2. PICK k \in Line : \E q \in 0..Ordered[req[r].po][k] :
          Acceptable(r, k, q) /\ booked' = [booked EXCEPT ![r] = Plus(booked[r], k, q)]
    BY <1>8 DEF BookLine
  <2>3. PICK q \in 0..Ordered[req[r].po][k] :
          Acceptable(r, k, q) /\ booked' = [booked EXCEPT ![r] = Plus(booked[r], k, q)]
    BY <2>2
  <2>4. booked'[r] = Plus(booked[r], k, q)
    BY <2>3 DEF TypeOK
  <2>5. /\ seen[r].received[l] <= stock[req[r].po][l]
        /\ seen[r].received[l] + booked[r][l] <= Ordered[req[r].po][l]
    BY <2>1 DEF LinesSeen, Busy
  <2>6. /\ Ordered[req[r].po][l] \in Nat /\ seen[r].received[l] \in Nat /\ booked[r][l] \in Nat
        /\ Ordered[req[r].po][k] \in Nat
    BY <2>1, OrderedAssumption DEF TypeOK, OrderRow, Quantities
  <2>7. seen[r].received[l] + booked'[r][l] <= Ordered[req[r].po][l]
    <3>1. CASE l = k
      <4>1. booked'[r][l] = booked[r][l] + q
        BY <2>4, <3>1 DEF Plus, TypeOK, Quantities
      <4>2. q <= Ordered[req[r].po][l] - seen[r].received[l] - booked[r][l]
        BY <2>3, <3>1 DEF Acceptable, Outstanding
      <4>3. QED
        BY <2>3, <2>6, <4>1, <4>2
    <3>2. CASE l # k
      <4>1. booked'[r][l] = booked[r][l]
        BY <2>4, <3>2 DEF Plus, TypeOK, Quantities
      <4>2. QED
        BY <2>5, <4>1
    <3>3. QED
      BY <3>1, <3>2
  <2>8. QED
    BY <2>1, <2>5, <2>7
<1>9. Work(r) \/ Abort(r) => Load(r) \/ BookLine(r) \/ Reply(r)
  BY DEF Work, Refuse, Transition, CommitCreate, RefuseLine, CommitReceipt, Abort
<1> HIDE DEF Good
<1>10. ASSUME ArriveCreate(r) \/ Arrive(r) \/ Work(r) \/ Number(r) \/ Abort(r) PROVE Good(r, l)
  BY <1>4, <1>5, <1>6, <1>7, <1>8, <1>9, <1>10
<1>11. QED
  BY <1>2, <1>3, <1>10 DEF Next

LEMMA LineStep ==
    ASSUME TypeOK, Shape, LinesSeen, LineWithinStock, [Next]_vars
    PROVE  LineWithinStock'
<1> SUFFICES ASSUME NEW x \in PO, NEW l \in Line
             PROVE  /\ orders'[x].received[l] <= stock'[x][l]
                    /\ orders'[x].received[l] <= Ordered[x][l]
  BY DEF LineWithinStock
<1>1. /\ orders[x].received[l] <= stock[x][l] /\ orders[x].received[l] <= Ordered[x][l]
      /\ orders[x].received[l] \in Nat /\ Ordered[x][l] \in Nat
  BY OrderedAssumption DEF LineWithinStock, TypeOK, OrderRow, Quantities
<1>2. stock[x][l] \in Nat /\ stock'[x][l] \in Nat /\ stock[x][l] <= stock'[x][l]
  BY StockGrows
<1>3. ASSUME orders'[x].received = orders[x].received
      PROVE  /\ orders'[x].received[l] <= stock'[x][l]
             /\ orders'[x].received[l] <= Ordered[x][l]
  BY <1>1, <1>2, <1>3
<1>4. CASE UNCHANGED orders
  BY <1>3, <1>4
<1>5. ASSUME NEW p \in Request, CommitCreate(p)
      PROVE  /\ orders'[x].received[l] <= stock'[x][l]
             /\ orders'[x].received[l] <= Ordered[x][l]
  <2>1. CASE x # req[p].po
    BY <1>3, <1>5, <2>1, CreateWrites
  <2>2. CASE x = req[p].po
    <3>1. orders'[x].received = Zero
      BY <1>5, <2>2, CreateWrites
    <3>2. QED
      BY <1>1, <1>2, <3>1 DEF Zero
  <2>3. QED
    BY <2>1, <2>2
<1>6. ASSUME NEW p \in Request, Transition(p)
      PROVE  orders'[x].received = orders[x].received
  BY <1>6, TransitionWrites
<1>7. ASSUME NEW p \in Request, CommitReceipt(p)
      PROVE  /\ orders'[x].received[l] <= stock'[x][l]
             /\ orders'[x].received[l] <= Ordered[x][l]
  <2>1. CASE x # req[p].po
    BY <1>3, <1>7, <2>1, ReceiptWrites
  <2>2. CASE x = req[p].po
    <3>1. /\ orders'[x].received[l] =
               (IF booked[p][l] = 0 THEN orders[x].received[l] ELSE Received(p)[l])
          /\ stock'[x][l] = stock[x][l] + booked[p][l]
      BY <1>7, <2>2, ReceiptWrites
    <3>2. /\ seen[p].received[l] <= stock[x][l]
          /\ seen[p].received[l] + booked[p][l] <= Ordered[x][l]
      BY <1>7, <2>2 DEF CommitReceipt, LinesSeen, Busy
    <3>3. seen[p].received[l] \in Nat /\ booked[p][l] \in Nat
      BY DEF TypeOK, OrderRow, Quantities
    <3>4. Received(p)[l] = seen[p].received[l] + booked[p][l]
      BY DEF Received
    <3>5. QED
      BY <1>1, <1>2, <3>1, <3>2, <3>3, <3>4
  <2>3. QED
    BY <2>1, <2>2
<1>8. QED
  BY <1>3, <1>4, <1>5, <1>6, <1>7, OtherWrites DEF Next, Work, vars, poVars

(* However receipts overlap, an order line never claims more than receipts *)
(* have put into stock and never more than was ordered: the constraint     *)
(* po_lines_no_over_receipt (migrations/000004:63) is a backstop only.     *)
THEOREM LinesStayWithinStock == Spec => []LineWithinStock
<1> DEFINE IInv == TypeOK /\ Shape /\ LinesSeen /\ LineWithinStock
<1>1. Init => IInv
  <2> SUFFICES ASSUME Init PROVE IInv
    OBVIOUS
  <2>1. LinesSeen
    BY DEF Init, LinesSeen, Busy
  <2>2. LineWithinStock
    <3>1. ASSUME NEW x \in PO, NEW l \in Line
          PROVE  orders[x].received[l] = 0 /\ stock[x][l] = 0 /\ Ordered[x][l] \in Nat
      BY OrderedAssumption DEF Init, Absent, Zero
    <3>2. QED
      BY <3>1 DEF LineWithinStock
  <2>3. QED
    BY TypeInit, <2>1, <2>2
<1>2. IInv /\ [Next]_vars => IInv'
  BY TypeStep, LinesSeenStep, LineStep
<1>3. QED
  BY <1>1, <1>2, PTL DEF Spec

-----------------------------------------------------------------------------
(* Without outdated writes, an order knows what it has in stock.           *)

(* What a handler goes on with was permitted by the order it has read.     *)
SeenPermitted ==
    \A p \in Request :
        /\ phase[p] = "write" => Permitted(req[p], seen[p])
        /\ phase[p] \in {"number", "book"} /\ req[p].op = "receive" =>
             Permitted(req[p], seen[p])

(* The order and the stock it has brought agree.                           *)
Agrees(x) == orders[x].received = stock[x] /\ StatusTells(x)

LEMMA SeenPermittedStep ==
    ASSUME TypeOK, Shape, SeenPermitted, [Next]_vars
    PROVE  SeenPermitted'
<1> DEFINE Good(r) ==
      /\ phase'[r] = "write" => Permitted(req'[r], seen'[r])
      /\ phase'[r] \in {"number", "book"} /\ req'[r].op = "receive" =>
           Permitted(req'[r], seen'[r])
<1>1. SUFFICES ASSUME NEW r \in Request PROVE Good(r)
  BY Zenon DEF SeenPermitted, Permitted, CanTransitionTo, ApprovedByAnother, poTransitions
<1>2. ASSUME req'[r] = req[r], phase'[r] = phase[r], seen'[r] = seen[r]
      PROVE  Good(r)
  BY <1>2 DEF SeenPermitted
<1>3. ASSUME phase'[r] \in {"idle", "load"} PROVE Good(r)
  BY <1>3
<1>4. CASE UNCHANGED vars
  BY <1>2, <1>4 DEF vars, handlerVars
<1>5. ASSUME NEW p \in Request, Reply(p) PROVE Good(r)
  BY <1>2, <1>3, <1>5, ReplyFrame
<1>6. ASSUME NEW p \in Request, ArriveCreate(p) PROVE Good(r)
  <2>1. p # r => req'[r] = req[r] /\ phase'[r] = phase[r] /\ seen'[r] = seen[r]
    BY <1>6 DEF ArriveCreate, TypeOK
  <2>2. p = r => phase'[r] = "number" /\ req'[r].op = "create"
    BY <1>6 DEF ArriveCreate, TypeOK
  <2>3. QED
    BY <1>2, <2>1, <2>2
<1>7. ASSUME NEW p \in Request, Arrive(p) PROVE Good(r)
  <2>1. p # r => req'[r] = req[r] /\ phase'[r] = phase[r] /\ seen'[r] = seen[r]
    BY <1>7 DEF Arrive, TypeOK
  <2>2. p = r => phase'[r] = "load"
    BY <1>7 DEF Arrive, TypeOK
  <2>3. QED
    BY <1>2, <1>3, <2>1, <2>2
<1>8. ASSUME NEW p \in Request, Load(p) PROVE Good(r)
  <2>1. p # r => req'[r] = req[r] /\ phase'[r] = phase[r] /\ seen'[r] = seen[r]
    BY <1>8 DEF Load, TypeOK
  <2>2. p = r => /\ Permitted(req[r], orders[req[r].po])
                 /\ seen'[r] = orders[req[r].po] /\ req'[r] = req[r]
    BY <1>8 DEF Load, TypeOK
  <2>3. QED
    BY <1>2, <2>1, <2>2
<1>9. ASSUME NEW p \in Request, Number(p) PROVE Good(r)
  <2>1. UNCHANGED <<req, seen>> /\ (p # r => phase'[r] = phase[r])
    BY <1>9 DEF Number, TypeOK
  <2>2. phase[p] = "number" /\ phase'[p] = "book"
    BY <1>9 DEF Number, TypeOK
  <2>3. QED
    BY <1>2, <2>1, <2>2 DEF SeenPermitted
<1>10. ASSUME NEW p \in Request, BookLine(p) PROVE Good(r)
  BY <1>2, <1>10 DEF BookLine
<1>11. QED
  BY <1>4, <1>5, <1>6, <1>7, <1>8, <1>9, <1>10
     DEF Next, Work, Refuse, Transition, CommitCreate, RefuseLine, CommitReceipt, Abort

(* A status written over the one that permitted it.                        *)
LEMMA TransitionAgrees ==
    ASSUME TypeOK, Shape, SeenPermitted, NEW p \in Request, Transition(p),
           NEW x \in PO, x = req[p].po, seen[p] = orders[x], Agrees(x)
    PROVE  Agrees(x)'
<1>1. phase[p] = "write" /\ req[p].op \notin {"create", "receive"}
  BY DEF Transition, Shape, Busy, RequestFits
<1>2. CanTransitionTo(orders[x].status, req[p].op)
  BY <1>1 DEF SeenPermitted, Permitted
<1>3. req[p].op \in {"pending_approval", "approved", "rejected", "cancelled"}
  BY <1>1 DEF TypeOK, RequestRow, Op
<1>4. orders'[x].status = req[p].op /\ orders'[x].received = orders[x].received
  BY TransitionWrites
<1>5. stock' = stock
  BY DEF Transition
<1>6. orders[x].status \in {"draft", "pending_approval", "approved", "rejected", "partially_received"}
  BY <1>2 DEF CanTransitionTo, Status, poTransitions
<1>7. orders[x].status = "partially_received" => req[p].op = "cancelled"
  BY <1>2, <1>3 DEF CanTransitionTo, poTransitions
<1>8. \E l \in Line : Outstanding(x, orders[x], l) > 0
  <2>1. CASE orders[x].status = "partially_received"
    BY <2>1 DEF Agrees, StatusTells
  <2>2. CASE orders[x].status # "partially_received"
    <3>1. orders[x].received = Zero
      BY <1>6, <2>2 DEF Agrees, StatusTells
    <3>2. PICK l \in Line : Ordered[x][l] > 0
      BY <1>1, OrderHasLine
    <3>3. Ordered[x][l] - Zero[l] = Ordered[x][l]
      BY <1>1, OrderedAssumption DEF Zero
    <3>4. QED
      BY <3>1, <3>2, <3>3 DEF Outstanding
  <2>3. QED
    BY <2>1, <2>2
<1>9. orders[x].status # "partially_received" => orders[x].received = Zero
  BY <1>6 DEF Agrees, StatusTells
<1>10. orders'[x].received = stock'[x]
  BY <1>4, <1>5 DEF Agrees
<1>11. StatusTells(x)'
  <2>1. CASE req[p].op = "cancelled"
    BY <1>4, <1>8, <2>1 DEF StatusTells, Outstanding
  <2>2. CASE req[p].op # "cancelled"
    BY <1>3, <1>4, <1>7, <1>9, <2>2 DEF StatusTells
  <2>3. QED
    BY <2>1, <2>2
<1>12. QED
  BY <1>10, <1>11 DEF Agrees

(* A receipt of an order nobody has written since it was read.             *)
LEMMA ReceiptAgrees ==
    ASSUME TypeOK, Shape, NEW p \in Request, CommitReceipt(p),
           NEW x \in PO, x = req[p].po, seen[p] = orders[x], Agrees(x)
    PROVE  Agrees(x)'
<1>1. /\ orders[x].received = stock[x] /\ stock[x] \in Quantities
      /\ booked[p] \in Quantities /\ booked[p] # Zero
      /\ Ordered[x] \in [Line -> Nat]
  BY OrderedAssumption DEF Agrees, TypeOK, CommitReceipt
<1>2. /\ orders'[x] =
           [status |-> NextStatus(p),
            received |-> [l \in Line |-> IF booked[p][l] = 0 THEN orders[x].received[l]
                                         ELSE Received(p)[l]],
            createdBy |-> orders[x].createdBy, approvedBy |-> orders[x].approvedBy]
      /\ stock'[x] = [l \in Line |-> stock[x][l] + booked[p][l]]
  BY DEF CommitReceipt, TypeOK
<1>3. \A l \in Line : Received(p)[l] = stock[x][l] + booked[p][l]
  BY <1>1 DEF Received
<1>4. orders'[x].received = stock'[x]
  BY <1>1, <1>2, <1>3 DEF Quantities
<1>5. orders'[x].received # Zero
  <2>1. PICK l \in Line : booked[p][l] # 0
    BY <1>1 DEF Zero, Quantities
  <2>2. stock'[x][l] = stock[x][l] + booked[p][l] /\ stock[x][l] \in Nat /\ booked[p][l] \in Nat
    BY <1>1, <1>2 DEF Quantities
  <2>3. stock'[x][l] # 0
    BY <2>1, <2>2
  <2>4. QED
    BY <1>4, <2>3 DEF Zero
<1>6. ASSUME NEW l \in Line
      PROVE  Ordered[x][l] > Received(p)[l] <=> Ordered[x][l] - orders'[x].received[l] > 0
  BY <1>1, <1>2, <1>3, <1>4 DEF Quantities
<1>7. orders'[x].status =
        (IF \E l \in Line : Ordered[x][l] - orders'[x].received[l] > 0
         THEN "partially_received" ELSE "received")
  <2>1. NextStatus(p) = (IF \E l \in Line : Ordered[x][l] > Received(p)[l]
                         THEN "partially_received" ELSE "received")
    BY DEF NextStatus
  <2>2. (\E l \in Line : Ordered[x][l] > Received(p)[l])
          <=> (\E l \in Line : Ordered[x][l] - orders'[x].received[l] > 0)
    BY <1>6
  <2>3. orders'[x].status = NextStatus(p)
    BY <1>2
  <2>4. QED
    BY <2>1, <2>2, <2>3, Zenon
<1>8. StatusTells(x)'
  <2> DEFINE open == \E l \in Line : Ordered[x][l] - orders'[x].received[l] > 0
  <2>1. open <=> (\E l \in Line : Outstanding(x, orders[x], l) > 0)'
    BY DEF Outstanding
  <2> HIDE DEF open
  <2>2. CASE open
    <3>1. orders'[x].status = "partially_received"
      BY <1>7, <2>2 DEF open
    <3>2. QED
      BY <1>5, <2>1, <2>2, <3>1 DEF StatusTells
  <2>3. CASE ~open
    <3>1. orders'[x].status = "received"
      BY <1>7, <2>3 DEF open
    <3>2. QED
      BY <2>1, <2>3, <3>1 DEF StatusTells
  <2>4. QED
    BY <2>2, <2>3
<1>9. QED
  BY <1>4, <1>8 DEF Agrees

LEMMA AgreesStep ==
    ASSUME TypeOK, Shape, Fresh, SeenPermitted, OrderKnowsStock, [Next]_vars
    PROVE  OrderKnowsStock'
<1> SUFFICES ASSUME ~stale', NEW x \in PO PROVE Agrees(x)'
  BY DEF OrderKnowsStock, Agrees, StatusTells, Outstanding
<1>1. ~stale
  BY DEF Next, Work, ArriveCreate, Arrive, Load, Refuse, Transition, Number, CommitCreate,
         BookLine, RefuseLine, CommitReceipt, Abort, vars, poVars
<1>2. Agrees(x)
  BY <1>1 DEF OrderKnowsStock, Agrees
<1>3. ASSUME orders'[x] = orders[x], stock'[x] = stock[x] PROVE Agrees(x)'
  BY <1>2, <1>3 DEF Agrees, StatusTells, Outstanding
<1>4. CASE UNCHANGED vars
  BY <1>3, <1>4 DEF vars, poVars
<1>5. ASSUME NEW p \in Request, CommitCreate(p) PROVE Agrees(x)'
  <2>1. CASE x # req[p].po
    BY <1>3, <1>5, <2>1, CreateWrites
  <2>2. CASE x = req[p].po
    <3>1. orders[x].status = "none"
      BY <1>5, <2>2 DEF Fresh, CommitCreate, Busy
    <3>2. stock[x] = Zero
      BY <3>1 DEF Fresh
    <3>3. /\ orders'[x].status = "draft" /\ orders'[x].received = Zero
          /\ stock'[x] = stock[x]
      BY <1>5, <2>2, CreateWrites
    <3>4. QED
      BY <3>2, <3>3 DEF Agrees, StatusTells
  <2>3. QED
    BY <2>1, <2>2
<1>6. ASSUME NEW p \in Request, Transition(p) PROVE Agrees(x)'
  <2>1. seen[p] = orders[req[p].po] /\ stock' = stock
    BY <1>6 DEF Transition
  <2>2. CASE x # req[p].po
    BY <1>3, <1>6, <2>1, <2>2, TransitionWrites
  <2>3. CASE x = req[p].po
    BY <1>2, <1>6, <2>1, <2>3, TransitionAgrees
  <2>4. QED
    BY <2>2, <2>3
<1>7. ASSUME NEW p \in Request, CommitReceipt(p) PROVE Agrees(x)'
  <2>1. seen[p] = orders[req[p].po]
    BY <1>7 DEF CommitReceipt
  <2>2. CASE x # req[p].po
    BY <1>3, <1>7, <2>2, ReceiptWrites
  <2>3. CASE x = req[p].po
    BY <1>2, <1>7, <2>1, <2>3, ReceiptAgrees
  <2>4. QED
    BY <2>2, <2>3
<1>8. QED
  BY <1>3, <1>4, <1>5, <1>6, <1>7, OtherWrites DEF Next, Work

(* As long as no handler writes from an outdated read, the received        *)
(* quantities of an order are what its receipts have put into stock, and   *)
(* its status says how much of it is outstanding (service.go:464-618).     *)
THEOREM OrdersKnowTheirStock == Spec => []OrderKnowsStock
<1> DEFINE IInv ==
      /\ TypeOK /\ Shape /\ Fresh /\ ApprovalSeen /\ GoodsWereApproved
      /\ SeenPermitted /\ OrderKnowsStock
<1>1. Init => IInv
  <2> SUFFICES ASSUME Init PROVE IInv
    OBVIOUS
  <2>1. Fresh /\ ApprovalSeen /\ SeenPermitted
    BY DEF Init, Fresh, ApprovalSeen, SeenPermitted, Busy
  <2>2. GoodsWereApproved /\ OrderKnowsStock
    BY DEF Init, GoodsWereApproved, OrderKnowsStock, StatusTells, Absent
  <2>3. QED
    BY TypeInit, <2>1, <2>2
<1>2. IInv /\ [Next]_vars => IInv'
  BY TypeStep, FreshStep, ApprovalStep, ApprovedStep, SeenPermittedStep, AgreesStep
<1>3. QED
  BY <1>1, <1>2, PTL DEF Spec

-----------------------------------------------------------------------------
(* How orders move.                                                        *)

StatusLegal ==
    ~stale' => \A po \in PO :
        orders'[po].status # orders[po].status =>
            \/ orders[po].status = "none" /\ orders'[po].status = "draft"
            \/ CanTransitionTo(orders[po].status, orders'[po].status)

PastKept == \A po \in PO : Keeps(po)

LEMMA StatusMoves ==
    ASSUME TypeOK, Shape, Fresh, SeenPermitted, [Next]_vars
    PROVE  StatusLegal
<1> SUFFICES ASSUME ~stale', NEW x \in PO, orders'[x].status # orders[x].status
             PROVE  \/ orders[x].status = "none" /\ orders'[x].status = "draft"
                    \/ CanTransitionTo(orders[x].status, orders'[x].status)
  BY DEF StatusLegal
<1>1. ASSUME NEW p \in Request, CommitCreate(p)
      PROVE  orders[x].status = "none" /\ orders'[x].status = "draft"
  <2>1. x = req[p].po
    BY <1>1, CreateWrites
  <2>2. orders[x].status = "none"
    BY <1>1, <2>1 DEF Fresh, CommitCreate, Busy
  <2>3. QED
    BY <1>1, <2>1, <2>2, CreateWrites
<1>2. ASSUME NEW p \in Request, Transition(p)
      PROVE  CanTransitionTo(orders[x].status, orders'[x].status)
  <2>1. x = req[p].po /\ orders'[x].status = req[p].op
    BY <1>2, TransitionWrites
  <2>2. seen[p] = orders[x] /\ phase[p] = "write"
    BY <1>2, <2>1 DEF Transition
  <2>3. req[p].op # "receive"
    BY <2>2 DEF Shape, Busy, RequestFits
  <2>4. CanTransitionTo(orders[x].status, req[p].op)
    BY <2>2, <2>3 DEF SeenPermitted, Permitted
  <2>5. QED
    BY <2>1, <2>4
<1>3. ASSUME NEW p \in Request, CommitReceipt(p)
      PROVE  CanTransitionTo(orders[x].status, orders'[x].status)
  <2>1. x = req[p].po /\ orders'[x].status \in {"partially_received", "received"}
    BY <1>3, ReceiptWrites
  <2>2. seen[p] = orders[x] /\ phase[p] = "book" /\ req[p].op = "receive"
    BY <1>3, <2>1 DEF CommitReceipt
  <2>3. orders[x].status \in {"approved", "partially_received"}
    BY <2>2 DEF SeenPermitted, Permitted
  <2>4. QED
    BY <2>1, <2>3 DEF CanTransitionTo, Status, poTransitions
<1>4. QED
  BY <1>1, <1>2, <1>3, OtherWrites DEF Next, Work, vars, poVars

(* As long as nothing is written from an outdated read, an order only ever *)
(* moves along poTransitions (purchasing/model.go:45-55), although neither *)
(* a status change nor a receipt looks at the status it replaces.          *)
THEOREM OrdersMoveLegally == Spec => StatusSteps
<1> DEFINE IInv ==
      /\ TypeOK /\ Shape /\ Fresh /\ ApprovalSeen /\ GoodsWereApproved /\ SeenPermitted
<1>1. Init => IInv
  <2> SUFFICES ASSUME Init PROVE IInv
    OBVIOUS
  <2>1. Fresh /\ ApprovalSeen /\ SeenPermitted
    BY DEF Init, Fresh, ApprovalSeen, SeenPermitted, Busy
  <2>2. GoodsWereApproved
    BY DEF Init, GoodsWereApproved, Absent
  <2>3. QED
    BY TypeInit, <2>1, <2>2
<1>2. IInv /\ [Next]_vars => IInv'
  BY TypeStep, FreshStep, ApprovalStep, ApprovedStep, SeenPermittedStep
<1>3. IInv /\ [Next]_vars => [StatusLegal]_vars
  BY StatusMoves
<1>4. Spec => [][StatusLegal]_vars
  BY <1>1, <1>2, <1>3, PTL DEF Spec
<1>5. QED
  BY <1>4 DEF StatusSteps, StatusLegal

(* However requests overlap, and whatever they write from outdated reads,  *)
(* an order is never lost, keeps its author, and once approved by a user   *)
(* entitled to it stays so (service.go:302-310, 376, 566).                 *)
THEOREM ApprovalsLast == Spec => ApprovalLasts
<1> DEFINE IInv == TypeOK /\ Shape /\ Fresh /\ ApprovalSeen /\ GoodsWereApproved
<1>1. Init => IInv
  <2> SUFFICES ASSUME Init PROVE IInv
    OBVIOUS
  <2>1. Fresh /\ ApprovalSeen
    BY DEF Init, Fresh, ApprovalSeen, Busy
  <2>2. GoodsWereApproved
    BY DEF Init, GoodsWereApproved, Absent
  <2>3. QED
    BY TypeInit, <2>1, <2>2
<1>2. IInv /\ [Next]_vars => IInv'
  BY TypeStep, FreshStep, ApprovalStep, ApprovedStep
<1>3. IInv /\ [Next]_vars => [PastKept]_vars
  BY KeepsStep DEF PastKept
<1>4. Spec => [][PastKept]_vars
  BY <1>1, <1>2, <1>3, PTL DEF Spec
<1>5. QED
  BY <1>4 DEF ApprovalLasts, PastKept, Keeps
=============================================================================
