-------------------------- MODULE MasterDataProofs --------------------------
(***************************************************************************)
(* Proofs about MasterData.  What a request has read or counted is known   *)
(* to hold still when it writes, unless another request overlapped on the  *)
(* row; the rest is what each write does with that knowledge.              *)
(***************************************************************************)
EXTENDS MasterData, TLAPS

Rows ==
    /\ wh \in [Warehouse -> [status : Status, isDefault : BOOLEAN]]
    /\ prod \in [Product -> [status : Status, tracked : BOOLEAN]]
    /\ stock \in SUBSET Goods
    /\ ask \in [Handler -> Ask]

Stored == \A g \in stock : \A x \in Subjects(g) : Exists(x)

Remembered ==
    /\ raced \cup supplied \subseteq Warehouse \cup Product
    /\ unticked \in BOOLEAN

(* The rows a request works on were there, and rows are never removed.     *)
Present(h) ==
    /\ \A x \in ask[h].on : Exists(x)
    /\ ask[h].op = "move" => ask[h].on = Subjects(ask[h].goods)

(* What a request read is what the row still says.                         *)
Current(h) ==
    /\ ask[h].op \in {"update", "delete"} => \A w \in ask[h].on \ raced : Live(w)
    /\ ask[h].op = "delete" => \A w \in ask[h].on \ raced : wh[w].isDefault => ask[h].flag
    /\ (ask[h].op = "move" /\ ~ask[h].blind /\ ask[h].goods[2] \notin raced)
           => Live(ask[h].goods[2])

(* What a request that is about to write checked holds still.              *)
Checked(h) ==
    /\ At(h, "delete", "write") => ~ask[h].flag
    /\ At(h, "delete", "write") \/ At(h, "flip", "write") \/ At(h, "remove", "write")
           => \A x \in ask[h].on \ raced : ~Holds(x)
    /\ (At(h, "move", "write") /\ ask[h].goods[1] \notin raced) => Accepts(ask[h].goods)

Asked == \A h \in Handler : Present(h) /\ Current(h) /\ Checked(h)

(* Two requests on one row, not both movements, know to have met.          *)
Together ==
    \A g, h \in Handler :
        (g # h /\ ~(ask[g].op = "move" /\ ask[h].op = "move"))
            => ask[g].on \cap ask[h].on \subseteq raced

Known == Rows /\ Stored /\ Remembered /\ Asked /\ Together

Promise == OneDefault /\ DeletedIsEmpty /\ TrackedHasBatch

Inv == Known /\ Promise

LEMMA TypeParts == TypeOK <=> Rows /\ Stored /\ Remembered
BY DEF TypeOK, Rows, Stored, Remembered

-----------------------------------------------------------------------------
(* Shapes.                                                                 *)

LEMMA GoodsOf ==
    ASSUME NEW g \in Goods
    PROVE  g[1] \in Product /\ g[2] \in Warehouse /\ g[1] \notin Warehouse /\ g[2] \notin Product
           /\ Subjects(g) = {g[1], g[2]} /\ Subjects(g) \subseteq Warehouse \cup Product
BY SubjectAssumption DEF Goods, Subjects

LEMMA Resting == Idle \in Ask /\ Idle.op = "idle" /\ Idle.on = {}
BY DEF Idle, Ask

(* What a request can be doing.                                            *)
LEMMA Kinds ==
    ASSUME Rows, NEW h \in Handler
    PROVE  \/ ask[h] = Idle
           \/ /\ ask[h].op \in {"update", "delete"} /\ ask[h].flag \in BOOLEAN
              /\ \E w \in Warehouse : ask[h].on = {w}
           \/ /\ ask[h].op \in {"flip", "remove"} /\ ask[h].flag \in BOOLEAN
              /\ \E p \in Product : ask[h].on = {p}
           \/ /\ ask[h].op = "move" /\ ask[h].goods \in Goods
              /\ ask[h].blind \in BOOLEAN /\ ask[h].into \in BOOLEAN
<1>1. ask[h] \in Ask
  BY DEF Rows
<1> QED BY <1>1 DEF Ask

LEMMA OnWarehouse ==
    ASSUME Rows, NEW h \in Handler, ask[h].op \in {"update", "delete"}
    PROVE  The(h) \in Warehouse /\ ask[h].on = {The(h)}
<1>1. PICK w \in Warehouse : ask[h].on = {w}
  BY Kinds, Resting
<1> QED BY <1>1 DEF The

LEMMA OnProduct ==
    ASSUME Rows, NEW h \in Handler, ask[h].op \in {"flip", "remove"}
    PROVE  The(h) \in Product /\ The(h) \notin Warehouse /\ ask[h].on = {The(h)}
<1>1. PICK p \in Product : ask[h].on = {p}
  BY Kinds, Resting
<1> QED BY <1>1, SubjectAssumption DEF The

LEMMA OnGoods ==
    ASSUME Rows, NEW h \in Handler, ask[h].op = "move"
    PROVE  ask[h].goods \in Goods /\ ask[h].blind \in BOOLEAN /\ ask[h].into \in BOOLEAN
BY Kinds, Resting

-----------------------------------------------------------------------------
(* What one request leaves of another.                                     *)

(* A request that is not in the way of any other, having nothing.          *)
LEMMA IdleSound ==
    ASSUME NEW h \in Handler, ask[h] = Idle PROVE Present(h) /\ Current(h) /\ Checked(h)
BY Resting DEF Present, Current, Checked, At

(* Rows other than c keep what requests know of them; on those in c the    *)
(* others have met the one that wrote.                                     *)
LEMMA Kept ==
    ASSUME Rows, Asked, NEW c, NEW k \in Handler,
           ask'[k] = ask[k], ask[k].on \cap c \subseteq raced,
           UNCHANGED <<stock, raced>>,
           \A w \in Warehouse \ c : /\ wh'[w].status = wh[w].status
                                    /\ wh'[w].isDefault => wh[w].isDefault,
           \A w \in Warehouse : wh[w].status # "absent" => wh'[w].status # "absent",
           \A p \in Product \ c : prod'[p] = prod[p],
           \A p \in Product : prod[p].status # "absent" => prod'[p].status # "absent"
    PROVE  (Present(k) /\ Current(k) /\ Checked(k))'
<1>0. Present(k) /\ Current(k) /\ Checked(k)
  BY DEF Asked
<1> DEFINE r == ask[k]
<1>a. r.op = "move" => /\ r.goods \in Goods /\ r.on = Subjects(r.goods)
                       /\ r.goods[1] \in Product /\ r.goods[2] \in Warehouse
                       /\ r.goods[1] \notin Warehouse
                       /\ r.goods[1] \in r.on /\ r.goods[2] \in r.on
  BY <1>0, OnGoods, GoodsOf DEF Present
<1>b. r.op \in {"update", "delete"} => r.on \subseteq Warehouse
  BY OnWarehouse
<1>c. r.on \subseteq Warehouse \cup Product
  BY <1>a, <1>b, OnProduct, Kinds, Resting, GoodsOf
<1>1. Present(k)'
  <2>1. ASSUME NEW x \in r.on PROVE Exists(x)'
    <3>1. Exists(x)
      BY <1>0 DEF Present
    <3> QED BY <3>1, <1>c DEF Exists
  <2> QED BY <2>1, <1>0 DEF Present
<1>2. \A w \in r.on \ raced : w \in Warehouse => (/\ wh'[w].status = wh[w].status
                                                /\ wh'[w].isDefault => wh[w].isDefault)
  OBVIOUS
<1>3. Current(k)'
  <2>1. r.op \in {"update", "delete"} => \A w \in r.on \ raced : Live(w)'
    BY <1>0, <1>b, <1>2 DEF Current, Live
  <2>2. r.op = "delete" => \A w \in r.on \ raced : wh'[w].isDefault => r.flag
    BY <1>0, <1>b, <1>2 DEF Current
  <2>3. (r.op = "move" /\ ~r.blind /\ r.goods[2] \notin raced) => Live(r.goods[2])'
    BY <1>0, <1>a, <1>2 DEF Current, Live
  <2> QED BY <2>1, <2>2, <2>3 DEF Current
<1>4. Checked(k)'
  <2>1. (r.op = "move" /\ r.goods[1] \notin raced /\ Accepts(r.goods)) => Accepts(r.goods)'
    BY <1>a DEF Accepts, Live
  <2> QED BY <1>0, <2>1 DEF Checked, At, Holds
<1> QED BY <1>1, <1>3, <1>4

(* A write ends its request; its row is one the others met it on.          *)
LEMMA Written ==
    ASSUME Rows, Asked, Together, NEW h \in Handler, ask[h].op # "move",
           ask' = [ask EXCEPT ![h] = Idle],
           UNCHANGED <<stock, raced>>,
           \A w \in Warehouse \ ask[h].on : /\ wh'[w].status = wh[w].status
                                            /\ wh'[w].isDefault => wh[w].isDefault,
           \A w \in Warehouse : wh[w].status # "absent" => wh'[w].status # "absent",
           \A p \in Product \ ask[h].on : prod'[p] = prod[p],
           \A p \in Product : prod[p].status # "absent" => prod'[p].status # "absent"
    PROVE  Asked' /\ Together'
<1>1. \A k \in Handler : ask'[k] = IF k = h THEN Idle ELSE ask[k]
  BY DEF Rows
<1>2. ASSUME NEW k \in Handler PROVE (Present(k) /\ Current(k) /\ Checked(k))'
  <2>1. CASE k = h
    <3>1. ask'[k] = Idle
      BY <1>1, <2>1
    <3> QED BY <3>1, Resting DEF Present, Current, Checked, At
  <2>2. CASE k # h
    <3>1. ask'[k] = ask[k] /\ ask[k].on \cap ask[h].on \subseteq raced
      BY <1>1, <2>2 DEF Together
    <3> QED BY <3>1, Kept
  <2> QED BY <2>1, <2>2
<1>3. Together'
  BY <1>1, Resting DEF Together
<1> QED BY <1>2, <1>3 DEF Asked

(* A row that is created is one that nobody can work on yet.               *)
LEMMA Created ==
    ASSUME Rows, Asked, Together, NEW x, ~Exists(x),
           UNCHANGED <<stock, raced, ask>>,
           \A w \in Warehouse \ {x} : /\ wh'[w].status = wh[w].status
                                      /\ wh'[w].isDefault => wh[w].isDefault,
           \A w \in Warehouse : wh[w].status # "absent" => wh'[w].status # "absent",
           \A p \in Product \ {x} : prod'[p] = prod[p],
           \A p \in Product : prod[p].status # "absent" => prod'[p].status # "absent"
    PROVE  Asked' /\ Together'
<1>1. ASSUME NEW k \in Handler PROVE (Present(k) /\ Current(k) /\ Checked(k))'
  <2>1. ask'[k] = ask[k] /\ ask[k].on \cap {x} \subseteq raced
    BY DEF Asked, Present
  <2> QED BY <2>1, Kept
<1>2. Together'
  BY DEF Together
<1> QED BY <1>1, <1>2 DEF Asked

(* A request that begins on rows that are there.                           *)
LEMMA Begun ==
    ASSUME Rows, Remembered, Asked, Together, Promise, NEW h \in Handler, NEW r \in Ask, Begin(h, r),
           \A x \in r.on : Exists(x) /\ x \in Warehouse \cup Product,
           r.op = "move" => r.on = Subjects(r.goods) /\ r.goods[2] \in Warehouse,
           r.op # "move" => r.step # "write" \/ r.op = "update",
           r.op = "move" => r.step # "write",
           r.op \in {"update", "delete"} => \A w \in r.on : Live(w),
           r.op = "delete" => \A w \in r.on : wh[w].isDefault => r.flag,
           (r.op = "move" /\ ~r.blind) => Live(r.goods[2])
    PROVE  Rows' /\ Remembered' /\ Asked' /\ Together' /\ Promise'
<1>0. /\ ask[h] = Idle
      /\ UNCHANGED <<wh, prod, stock, supplied, unticked>>
      /\ raced' = raced \cup Met(h, r)
  BY DEF Begin
<1>1. ask' \in [Handler -> Ask] /\ \A k \in Handler : ask'[k] = IF k = h THEN r ELSE ask[k]
  BY DEF Begin, Rows
<1>2. raced \subseteq raced' /\ raced' \subseteq Warehouse \cup Product
  BY <1>0 DEF Met, Remembered
<1>3. ASSUME NEW k \in Handler \ {h}, ~(r.op = "move" /\ ask[k].op = "move")
      PROVE  ask[k].on \cap r.on \subseteq raced'
  BY <1>0, <1>3 DEF Met
<1>4. Together'
  <2> SUFFICES ASSUME NEW g \in Handler, NEW k \in Handler, g # k,
                      ~(ask'[g].op = "move" /\ ask'[k].op = "move")
               PROVE  ask'[g].on \cap ask'[k].on \subseteq raced'
    BY DEF Together
  <2>1. CASE g = h
    BY <2>1, <1>1, <1>3
  <2>2. CASE k = h
    BY <2>2, <1>1, <1>3
  <2>3. CASE g # h /\ k # h
    BY <2>3, <1>1, <1>2 DEF Together
  <2> QED BY <2>1, <2>2, <2>3
<1>5. ASSUME NEW k \in Handler PROVE (Present(k) /\ Current(k) /\ Checked(k))'
  <2>1. CASE k = h
    BY <2>1, <1>0, <1>1 DEF Present, Current, Checked, At, Exists, Live
  <2>2. CASE k # h
    <3>1. ask'[k] = ask[k] /\ Present(k) /\ Current(k) /\ Checked(k)
      BY <2>2, <1>1 DEF Asked
    <3> QED BY <3>1, <1>0, <1>2
            DEF Present, Current, Checked, At, Exists, Live, Holds, Accepts
  <2> QED BY <2>1, <2>2
<1>6. OneDefault'
  BY <1>0, <1>2 DEF Promise, OneDefault, Defaults, Live
<1>7. DeletedIsEmpty'
  BY <1>0, <1>2 DEF Promise, DeletedIsEmpty, Exists, Live
<1>8. TrackedHasBatch'
  BY <1>0, <1>2 DEF Promise, TrackedHasBatch, Live
<1> QED BY <1>0, <1>1, <1>2, <1>4, <1>5, <1>6, <1>7, <1>8
        DEF Rows, Remembered, Asked, Promise

-----------------------------------------------------------------------------
(* The actions.                                                            *)

LEMMA Cleaned ==
    ASSUME Rows, NEW b \in BOOLEAN
    PROVE  /\ Cleared(b) \in [Warehouse -> [status : Status, isDefault : BOOLEAN]]
           /\ \A w \in Warehouse :
                 /\ Cleared(b)[w].status = wh[w].status
                 /\ Cleared(b)[w].isDefault => wh[w].isDefault
                 /\ (b /\ wh[w].status = "live") => ~Cleared(b)[w].isDefault
                 /\ ~b => Cleared(b)[w] = wh[w]
<1> SUFFICES ASSUME NEW w \in Warehouse
             PROVE  /\ Cleared(b)[w] \in [status : Status, isDefault : BOOLEAN]
                    /\ Cleared(b)[w].status = wh[w].status
                    /\ Cleared(b)[w].isDefault => wh[w].isDefault
                    /\ (b /\ wh[w].status = "live") => ~Cleared(b)[w].isDefault
                    /\ ~b => Cleared(b)[w] = wh[w]
  BY DEF Cleared
<1>1. wh[w] \in [status : Status, isDefault : BOOLEAN]
  BY DEF Rows
<1> QED BY <1>1 DEF Cleared

LEMMA CreateWarehouseSafe ==
    ASSUME Inv, NEW w \in Warehouse, NEW b \in BOOLEAN, CreateWarehouse(w, b)
    PROVE  Inv'
<1> DEFINE first == ~\E v \in Warehouse : Live(v)
           row == [status |-> "live", isDefault |-> b \/ first]
<1>0. Rows /\ Stored /\ Remembered /\ Asked /\ Together /\ Promise
  BY DEF Inv, Known
<1>1. /\ ~Exists(w) /\ wh[w].status = "absent"
      /\ wh' = [Cleared(b) EXCEPT ![w] = row]
      /\ unticked' = (unticked /\ ~b /\ ~first)
      /\ UNCHANGED <<prod, stock, ask, raced, supplied>>
  BY DEF CreateWarehouse, Exists
<1>2. row \in [status : Status, isDefault : BOOLEAN] /\ row.status = "live"
      /\ (row.isDefault <=> b \/ first)
  BY DEF Status
<1> HIDE DEF row
<1>3. /\ wh' \in [Warehouse -> [status : Status, isDefault : BOOLEAN]]
      /\ wh'[w] = row
      /\ \A v \in Warehouse \ {w} :
            /\ wh'[v].status = wh[v].status
            /\ wh'[v].isDefault => wh[v].isDefault
            /\ (b /\ wh[v].status = "live") => ~wh'[v].isDefault
            /\ ~b => wh'[v] = wh[v]
  BY <1>0, <1>1, <1>2, Cleaned
<1>4. Rows' /\ Remembered' /\ Stored'
  BY <1>0, <1>1, <1>2, <1>3 DEF Rows, Remembered, Stored, Exists
<1>5. Asked' /\ Together'
  BY <1>0, <1>1, <1>2, <1>3, Created
<1>6. OneDefault'
  <2>1. \A u, v \in Defaults' : u = v
    BY <1>0, <1>1, <1>2, <1>3 DEF Promise, OneDefault, Defaults, Live
  <2>2. ASSUME ~unticked', raced \cap Warehouse = {} PROVE Defaults' # {}
    <3>1. CASE b \/ first
      BY <3>1, <1>2, <1>3 DEF Defaults, Live
    <3>2. CASE ~(b \/ first)
      <4>1. Defaults # {}
        BY <3>2, <2>2, <1>0, <1>1 DEF Promise, OneDefault
      <4>2. PICK v \in Defaults : TRUE
        BY <4>1
      <4>3. v # w
        BY <1>1, <4>2 DEF Defaults, Live
      <4> QED BY <4>2, <4>3, <3>2, <1>3 DEF Defaults, Live
    <3> QED BY <3>1, <3>2
  <2> QED BY <2>1, <2>2, <1>1 DEF OneDefault
<1>7. DeletedIsEmpty'
  BY <1>0, <1>1, <1>2, <1>3 DEF Promise, DeletedIsEmpty, Exists, Live
<1>8. TrackedHasBatch'
  BY <1>0, <1>1, SubjectAssumption DEF Promise, TrackedHasBatch, Live
<1> QED BY <1>4, <1>5, <1>6, <1>7, <1>8 DEF Inv, Known, Promise

LEMMA UpdateWarehouseSafe ==
    ASSUME Inv, NEW h \in Handler, UpdateWarehouse(h)
    PROVE  Inv'
<1> DEFINE w == The(h)
           b == ask[h].flag
           row == [status |-> "live", isDefault |-> b]
<1>0. Rows /\ Stored /\ Remembered /\ Asked /\ Together /\ Promise
  BY DEF Inv, Known
<1>1. ask[h].op = "update" /\ w \in Warehouse /\ ask[h].on = {w} /\ b \in BOOLEAN
  BY <1>0, OnWarehouse, Kinds, Resting DEF UpdateWarehouse, At
<1>2. /\ wh' = [Cleared(b) EXCEPT ![w] = row]
      /\ unticked' = IF b THEN FALSE ELSE unticked \/ (Live(w) /\ wh[w].isDefault)
      /\ ask' = [ask EXCEPT ![h] = Idle]
      /\ UNCHANGED <<prod, stock, raced, supplied>>
  BY DEF UpdateWarehouse
<1>3. row \in [status : Status, isDefault : BOOLEAN] /\ row.status = "live" /\ row.isDefault = b
  BY <1>1 DEF Status
<1>w. w \notin raced => Live(w)
  BY <1>0, <1>1 DEF Asked, Current
<1> HIDE DEF row, w, b
<1>4. /\ wh' \in [Warehouse -> [status : Status, isDefault : BOOLEAN]]
      /\ wh'[w] = row
      /\ \A v \in Warehouse \ {w} :
            /\ wh'[v].status = wh[v].status
            /\ wh'[v].isDefault => wh[v].isDefault
            /\ (b /\ wh[v].status = "live") => ~wh'[v].isDefault
            /\ ~b => wh'[v] = wh[v]
  BY <1>0, <1>1, <1>2, <1>3, Cleaned
<1>5. Rows' /\ Remembered' /\ Stored'
  <2>1. ask' \in [Handler -> Ask]
    BY <1>0, <1>2, Resting DEF Rows
  <2>2. unticked' \in BOOLEAN
    BY <1>0, <1>2, <1>1 DEF Remembered, Rows, Live
  <2>3. Rows' /\ Remembered'
    BY <2>1, <2>2, <1>0, <1>2, <1>4 DEF Rows, Remembered
  <2>4. Stored'
    BY <1>0, <1>2, <1>3, <1>4 DEF Stored, Exists
  <2> QED BY <2>3, <2>4
<1>6. Asked' /\ Together'
  BY <1>0, <1>1, <1>2, <1>3, <1>4, Written
<1>7. OneDefault'
  <2>1. \A u, v \in Defaults' : u = v
    BY <1>0, <1>1, <1>3, <1>4 DEF Promise, OneDefault, Defaults, Live
  <2>2. ASSUME ~unticked', raced \cap Warehouse = {} PROVE Defaults' # {}
    <3>1. CASE b
      BY <3>1, <1>1, <1>3, <1>4 DEF Defaults, Live
    <3>2. CASE ~b
      <4>1. Live(w) /\ ~unticked /\ w \notin Defaults
        BY <3>2, <2>2, <1>1, <1>2, <1>w DEF Defaults
      <4>2. PICK v \in Defaults : TRUE
        BY <4>1, <2>2, <1>0, <1>1 DEF Promise, OneDefault
      <4>3. v # w
        BY <4>1, <4>2
      <4> QED BY <4>2, <4>3, <3>2, <1>4 DEF Defaults, Live
    <3> QED BY <3>1, <3>2
  <2> QED BY <2>1, <2>2, <1>2 DEF OneDefault
<1>8. DeletedIsEmpty'
  BY <1>0, <1>1, <1>2, <1>3, <1>4 DEF Promise, DeletedIsEmpty, Exists, Live
<1>9. TrackedHasBatch'
  BY <1>0, <1>2, SubjectAssumption DEF Promise, TrackedHasBatch, Live
<1> QED BY <1>5, <1>6, <1>7, <1>8, <1>9 DEF Inv, Known, Promise

LEMMA DeleteWarehouseSafe ==
    ASSUME Inv, NEW h \in Handler, DeleteWarehouse(h)
    PROVE  Inv'
<1> DEFINE w == The(h)
<1>0. Rows /\ Stored /\ Remembered /\ Asked /\ Together /\ Promise
  BY DEF Inv, Known
<1>1. ask[h].op = "delete" /\ w \in Warehouse /\ ask[h].on = {w}
  BY <1>0, OnWarehouse DEF DeleteWarehouse, At
<1>2. /\ wh' = [wh EXCEPT ![w].status = "deleted"]
      /\ ask' = [ask EXCEPT ![h] = Idle]
      /\ UNCHANGED <<prod, stock, raced, supplied, unticked>>
  BY DEF DeleteWarehouse, history
<1>3. w \notin raced => ~Holds(w) /\ Live(w) /\ ~wh[w].isDefault
  BY <1>0, <1>1 DEF Asked, Current, Checked, DeleteWarehouse
<1> HIDE DEF w
<1>4. /\ wh' \in [Warehouse -> [status : Status, isDefault : BOOLEAN]]
      /\ wh'[w].status = "deleted"
      /\ \A v \in Warehouse \ {w} : wh'[v] = wh[v]
  BY <1>0, <1>1, <1>2 DEF Rows, Status
<1>5. Rows' /\ Remembered' /\ Stored'
  <2>1. ask' \in [Handler -> Ask]
    BY <1>0, <1>2, Resting DEF Rows
  <2>2. Stored'
    BY <1>0, <1>2, <1>4 DEF Stored, Exists
  <2> QED BY <2>1, <2>2, <1>0, <1>2, <1>4 DEF Rows, Remembered
<1>6. Asked' /\ Together'
  BY <1>0, <1>1, <1>2, <1>4, Written
<1>7. OneDefault'
  <2>1. \A v \in Warehouse : Live(v)' => Live(v) /\ v # w
    BY <1>4 DEF Live
  <2>2. Defaults' \subseteq Defaults
    BY <2>1, <1>4 DEF Defaults, Live
  <2>3. ASSUME ~unticked, raced \cap Warehouse = {}, NEW u \in Warehouse, Live(u)'
        PROVE  Defaults' # {}
    <3>1. PICK v \in Defaults : TRUE
      BY <2>1, <2>3, <1>0 DEF Promise, OneDefault
    <3>2. v # w
      BY <3>1, <2>3, <1>1, <1>3 DEF Defaults
    <3> QED BY <3>1, <3>2, <1>4 DEF Defaults, Live
  <2> QED BY <2>2, <2>3, <1>0, <1>2 DEF Promise, OneDefault
<1>8. DeletedIsEmpty'
  BY <1>0, <1>1, <1>2, <1>3, <1>4 DEF Promise, DeletedIsEmpty, Exists, Live, Holds
<1>9. TrackedHasBatch'
  BY <1>0, <1>2, SubjectAssumption DEF Promise, TrackedHasBatch, Live
<1> QED BY <1>5, <1>6, <1>7, <1>8, <1>9 DEF Inv, Known, Promise

(* Products do not bear on the default warehouse.                          *)
LEMMA SameDefault ==
    ASSUME OneDefault, UNCHANGED <<wh, raced, unticked>> PROVE OneDefault'
BY DEF OneDefault, Defaults, Live

LEMMA CreateProductSafe ==
    ASSUME Inv, NEW p \in Product, NEW b \in BOOLEAN, CreateProduct(p, b)
    PROVE  Inv'
<1>0. Rows /\ Stored /\ Remembered /\ Asked /\ Together /\ Promise
  BY DEF Inv, Known
<1>1. /\ ~Exists(p) /\ p \notin Warehouse /\ prod[p].status = "absent"
      /\ prod' = [prod EXCEPT ![p] = [status |-> "live", tracked |-> b]]
      /\ UNCHANGED <<wh, stock, ask, raced, supplied, unticked>>
  BY SubjectAssumption DEF CreateProduct, Exists, history
<1>2. /\ prod' \in [Product -> [status : Status, tracked : BOOLEAN]]
      /\ prod'[p].status = "live"
      /\ \A q \in Product \ {p} : prod'[q] = prod[q]
  BY <1>0, <1>1 DEF Rows, Status
<1>3. Rows' /\ Remembered' /\ Stored'
  <2>1. Stored'
    BY <1>0, <1>1, <1>2, GoodsOf DEF Stored, Exists, Rows
  <2> QED BY <2>1, <1>0, <1>1, <1>2 DEF Rows, Remembered
<1>4. Asked' /\ Together'
  BY <1>0, <1>1, <1>2, Created
<1>5. OneDefault'
  BY <1>0, <1>1, SameDefault DEF Promise
<1>6. DeletedIsEmpty'
  BY <1>0, <1>1, <1>2 DEF Promise, DeletedIsEmpty, Exists, Live
<1>7. TrackedHasBatch'
  <2>1. \A g \in stock : g[1] # p
    BY <1>0, <1>1, GoodsOf DEF Stored, Rows
  <2> QED BY <2>1, <1>0, <1>1, <1>2, SubjectAssumption DEF Promise, TrackedHasBatch, Live
<1> QED BY <1>3, <1>4, <1>5, <1>6, <1>7 DEF Inv, Known, Promise

LEMMA UpdateProductSafe ==
    ASSUME Inv, NEW h \in Handler, UpdateProduct(h)
    PROVE  Inv'
<1> DEFINE p == The(h)
<1>0. Rows /\ Stored /\ Remembered /\ Asked /\ Together /\ Promise
  BY DEF Inv, Known
<1>1. /\ ask[h].op = "flip" /\ p \in Product /\ p \notin Warehouse /\ ask[h].on = {p}
      /\ ask[h].flag \in BOOLEAN
  BY <1>0, OnProduct, Kinds, Resting DEF UpdateProduct, At
<1>2. /\ prod' = IF Live(p) THEN [prod EXCEPT ![p].tracked = ask[h].flag] ELSE prod
      /\ ask' = [ask EXCEPT ![h] = Idle]
      /\ UNCHANGED <<wh, stock, raced, supplied, unticked>>
  BY DEF UpdateProduct, history
<1>3. p \notin raced => ~Holds(p)
  BY <1>0, <1>1 DEF Asked, Checked, UpdateProduct
<1> HIDE DEF p
<1>4. /\ prod' \in [Product -> [status : Status, tracked : BOOLEAN]]
      /\ \A q \in Product : prod'[q].status = prod[q].status
      /\ \A q \in Product \ {p} : prod'[q] = prod[q]
  BY <1>0, <1>1, <1>2 DEF Rows
<1>5. Rows' /\ Remembered' /\ Stored'
  <2>1. ask' \in [Handler -> Ask]
    BY <1>0, <1>2, Resting DEF Rows
  <2>2. Stored'
    BY <1>0, <1>2, <1>4, GoodsOf DEF Stored, Exists, Rows
  <2> QED BY <2>1, <2>2, <1>0, <1>2, <1>4 DEF Rows, Remembered
<1>6. Asked' /\ Together'
  BY <1>0, <1>1, <1>2, <1>4, Written
<1>7. OneDefault'
  BY <1>0, <1>2, SameDefault DEF Promise
<1>8. DeletedIsEmpty'
  BY <1>0, <1>1, <1>2, <1>4 DEF Promise, DeletedIsEmpty, Exists, Live
<1>9. TrackedHasBatch'
  <2>1. p \notin raced => \A g \in stock : g[1] # p
    BY <1>3, <1>0, GoodsOf DEF Holds, Rows
  <2> QED BY <2>1, <1>0, <1>2, <1>4, SubjectAssumption DEF Promise, TrackedHasBatch, Live
<1> QED BY <1>5, <1>6, <1>7, <1>8, <1>9 DEF Inv, Known, Promise

LEMMA DeleteProductSafe ==
    ASSUME Inv, NEW h \in Handler, DeleteProduct(h)
    PROVE  Inv'
<1> DEFINE p == The(h)
<1>0. Rows /\ Stored /\ Remembered /\ Asked /\ Together /\ Promise
  BY DEF Inv, Known
<1>1. ask[h].op = "remove" /\ p \in Product /\ p \notin Warehouse /\ ask[h].on = {p}
  BY <1>0, OnProduct DEF DeleteProduct, At
<1>2. /\ prod' = [prod EXCEPT ![p].status = "deleted"]
      /\ ask' = [ask EXCEPT ![h] = Idle]
      /\ UNCHANGED <<wh, stock, raced, supplied, unticked>>
  BY DEF DeleteProduct, history
<1>3. p \notin raced => ~Holds(p)
  BY <1>0, <1>1 DEF Asked, Checked, DeleteProduct
<1> HIDE DEF p
<1>4. /\ prod' \in [Product -> [status : Status, tracked : BOOLEAN]]
      /\ prod'[p].status = "deleted"
      /\ \A q \in Product \ {p} : prod'[q] = prod[q]
  BY <1>0, <1>1, <1>2 DEF Rows, Status
<1>5. Rows' /\ Remembered' /\ Stored'
  <2>1. ask' \in [Handler -> Ask]
    BY <1>0, <1>2, Resting DEF Rows
  <2>2. Stored'
    BY <1>0, <1>2, <1>4, GoodsOf DEF Stored, Exists, Rows
  <2> QED BY <2>1, <2>2, <1>0, <1>2, <1>4 DEF Rows, Remembered
<1>6. Asked' /\ Together'
  BY <1>0, <1>1, <1>2, <1>4, Written
<1>7. OneDefault'
  BY <1>0, <1>2, SameDefault DEF Promise
<1>8. DeletedIsEmpty'
  BY <1>0, <1>1, <1>2, <1>3, <1>4 DEF Promise, DeletedIsEmpty, Exists, Live, Holds
<1>9. TrackedHasBatch'
  BY <1>0, <1>1, <1>2, <1>4, SubjectAssumption DEF Promise, TrackedHasBatch, Live
<1> QED BY <1>5, <1>6, <1>7, <1>8, <1>9 DEF Inv, Known, Promise

(* What a request knows changes with its own steps; the promises speak of  *)
(* rows alone.                                                             *)
LEMMA SameRows ==
    ASSUME Promise, UNCHANGED <<wh, prod, stock, raced, supplied, unticked>> PROVE Promise'
BY DEF Promise, OneDefault, Defaults, DeletedIsEmpty, TrackedHasBatch, Exists, Live

LEMMA GiveUpSafe ==
    ASSUME Inv, NEW h \in Handler, GiveUp(h)
    PROVE  Inv'
<1>0. Rows /\ Stored /\ Remembered /\ Asked /\ Together /\ Promise
  BY DEF Inv, Known
<1>1. /\ ask' = [ask EXCEPT ![h] = Idle]
      /\ UNCHANGED <<wh, prod, stock, raced, supplied, unticked>>
  BY DEF GiveUp, history
<1>2. /\ ask' \in [Handler -> Ask]
      /\ \A k \in Handler : ask'[k] = IF k = h THEN Idle ELSE ask[k]
  BY <1>0, <1>1, Resting DEF Rows
<1>3. ASSUME NEW k \in Handler PROVE Present(k)' /\ Current(k)' /\ Checked(k)'
  <2>1. CASE k = h
    <3>1. ask'[k] = Idle
      BY <1>2, <2>1
    <3> QED
      BY <3>1, Resting DEF Present, Current, Checked, At
  <2>2. CASE k # h
    <3>1. ask'[k] = ask[k] /\ Present(k) /\ Current(k) /\ Checked(k)
      BY <1>0, <1>2, <2>2 DEF Asked
    <3>2. Present(k)'
      BY <1>1, <3>1 DEF Present, Exists
    <3>3. Current(k)'
      BY <1>1, <3>1 DEF Current, Live
    <3>4. Checked(k)'
      <4>1. (\A x : Holds(x)' <=> Holds(x)) /\ (\A g : Accepts(g)' <=> Accepts(g))
        BY <1>1 DEF Holds, Accepts, Live
      <4>2. \A op, step : At(k, op, step)' <=> At(k, op, step)
        BY <3>1 DEF At
      <4> QED
        BY <1>1, <3>1, <4>1, <4>2 DEF Checked
    <3> QED
      BY <3>2, <3>3, <3>4
  <2> QED
    BY <2>1, <2>2
<1>4. Together'
  BY <1>0, <1>1, <1>2, Resting DEF Together
<1>5. Rows' /\ Stored' /\ Remembered' /\ Promise'
  BY <1>0, <1>1, <1>2, SameRows DEF Rows, Stored, Remembered, Exists
<1> QED BY <1>3, <1>4, <1>5 DEF Inv, Known, Asked

(* A check that passes: the request goes on to its write.                  *)
LEMMA ProceedSafe ==
    ASSUME Inv, NEW h \in Handler, ask[h] # Idle, Proceed(h, "write"),
           ask[h].op = "delete" => ~ask[h].flag,
           ask[h].op \in {"delete", "flip", "remove"} => \A x \in ask[h].on : ~Holds(x),
           ask[h].op = "move" => Accepts(ask[h].goods)
    PROVE  Inv'
<1>0. Rows /\ Stored /\ Remembered /\ Asked /\ Together /\ Promise
  BY DEF Inv, Known
<1> DEFINE r == [ask[h] EXCEPT !.step = "write"]
<1>1. /\ ask' = [ask EXCEPT ![h] = r]
      /\ UNCHANGED <<wh, prod, stock, raced, supplied, unticked>>
  BY DEF Proceed, history
<1>2. ask[h] \in Ask /\ ask[h] # Idle
  BY <1>0 DEF Rows
<1>3. /\ r \in Ask /\ r.step = "write" /\ r.op = ask[h].op /\ r.on = ask[h].on
      /\ r.op \in {"update", "delete", "flip", "remove"} => r.flag = ask[h].flag
      /\ r.op = "move" => r.goods = ask[h].goods /\ r.blind = ask[h].blind
  BY <1>2 DEF Ask
<1> HIDE DEF r
<1>4. /\ ask' \in [Handler -> Ask]
      /\ \A k \in Handler : ask'[k] = IF k = h THEN r ELSE ask[k]
  BY <1>0, <1>1, <1>3 DEF Rows
<1>5. ASSUME NEW k \in Handler PROVE (Present(k) /\ Current(k) /\ Checked(k))'
  <2>1. Present(k) /\ Current(k) /\ Checked(k)
    BY <1>0 DEF Asked
  <2>2. CASE k = h
    <3>1. ask'[k] = r
      BY <2>2, <1>4
    <3>2. Present(k)' /\ Current(k)'
      BY <2>1, <2>2, <3>1, <1>1, <1>3 DEF Present, Current, Exists, Live
    <3>3. Checked(k)'
      BY <2>2, <3>1, <1>1, <1>3 DEF Checked, At, Holds, Accepts, Live
    <3> QED BY <3>2, <3>3
  <2>3. CASE k # h
    BY <2>1, <2>3, <1>1, <1>4
       DEF Present, Current, Checked, At, Exists, Live, Holds, Accepts
  <2> QED BY <2>2, <2>3
<1>6. Together'
  BY <1>0, <1>1, <1>3, <1>4 DEF Together
<1>7. Rows' /\ Stored' /\ Remembered' /\ Promise'
  BY <1>0, <1>1, <1>4, SameRows DEF Rows, Stored, Remembered, Exists
<1> QED BY <1>5, <1>6, <1>7 DEF Inv, Known, Asked

LEMMA ChecksSafe ==
    ASSUME Inv, NEW h \in Handler, CountForDelete(h) \/ AssertNoStock(h) \/ CheckPolicy(h)
    PROVE  Inv'
<1>0. Rows
  BY DEF Inv, Known
<1>1. CASE CountForDelete(h)
  <2>1. ask[h].op = "delete" /\ ask[h].on = {The(h)} /\ ~ask[h].flag /\ ~Holds(The(h))
    BY <1>0, <1>1, OnWarehouse DEF CountForDelete, At, MayDelete
  <2> QED BY <2>1, <1>1, ProceedSafe, Resting DEF CountForDelete
<1>2. CASE AssertNoStock(h)
  <2>1. ask[h].op \in {"flip", "remove"} /\ ask[h].on = {The(h)} /\ ~Holds(The(h))
    BY <1>0, <1>2, OnProduct DEF AssertNoStock, At
  <2> QED BY <2>1, <1>2, ProceedSafe, Resting DEF AssertNoStock
<1>3. CASE CheckPolicy(h)
  <2>1. ask[h].op = "move" /\ Accepts(ask[h].goods)
    BY <1>3 DEF CheckPolicy, At
  <2> QED BY <2>1, <1>3, ProceedSafe, Resting DEF CheckPolicy
<1> QED BY <1>1, <1>2, <1>3

LEMMA BeginSafe ==
    ASSUME Inv, NEW h \in Handler,
           \/ \E w \in Warehouse, b \in BOOLEAN : GetForUpdate(h, w, b)
           \/ \E w \in Warehouse : GetForDelete(h, w)
           \/ \E p \in Product, op \in {"flip", "remove"} : GetProduct(h, p, op)
           \/ \E g \in Goods, into \in BOOLEAN : Adjust(h, g, into) \/ Deliver(h, g, into)
    PROVE  Inv'
<1>0. Rows /\ Stored /\ Remembered /\ Asked /\ Together /\ Promise
  BY DEF Inv, Known
<1> DEFINE Fits(r) ==
      /\ r \in Ask
      /\ \A x \in r.on : Exists(x) /\ x \in Warehouse \cup Product
      /\ r.op = "move" => r.on = Subjects(r.goods) /\ r.goods[2] \in Warehouse
      /\ r.op # "move" => r.step # "write" \/ r.op = "update"
      /\ r.op = "move" => r.step # "write"
      /\ r.op \in {"update", "delete"} => \A w \in r.on : Live(w)
      /\ r.op = "delete" => \A w \in r.on : wh[w].isDefault => r.flag
      /\ (r.op = "move" /\ ~r.blind) => Live(r.goods[2])
<1>1. ASSUME NEW r, Fits(r), Begin(h, r) PROVE Inv'
  <2>1. Rows' /\ Remembered' /\ Asked' /\ Together' /\ Promise'
    BY <1>0, <1>1, Begun
  <2>2. Stored'
    BY <1>0, <1>1 DEF Begin, Stored, Exists
  <2> QED BY <2>1, <2>2 DEF Inv, Known
<1>2. ASSUME NEW w \in Warehouse, NEW b \in BOOLEAN, GetForUpdate(h, w, b) PROVE Inv'
  <2> DEFINE r == [op |-> "update", step |-> "write", on |-> {w}, flag |-> b]
  <2>1. r \in Ask
    BY DEF Ask
  <2>2. Live(w) /\ Exists(w)
    BY <1>2 DEF GetForUpdate, Live, Exists
  <2>3. Fits(r)
    BY <2>1, <2>2
  <2> QED BY <2>3, <1>1, <1>2 DEF GetForUpdate
<1>3. ASSUME NEW w \in Warehouse, GetForDelete(h, w) PROVE Inv'
  <2>0. wh[w].isDefault \in BOOLEAN
    BY <1>0 DEF Rows
  <2>1. PICK b \in BOOLEAN : b = wh[w].isDefault
    BY <2>0
  <2> DEFINE r == [op |-> "delete", step |-> "count", on |-> {w}, flag |-> b]
  <2>2. r \in Ask
    BY DEF Ask
  <2>3. Live(w) /\ Exists(w)
    BY <1>3 DEF GetForDelete, Live, Exists
  <2>4. Fits(r)
    BY <2>1, <2>2, <2>3
  <2>5. Begin(h, r)
    BY <2>1, <1>3 DEF GetForDelete
  <2> QED BY <2>4, <2>5, <1>1
<1>4. ASSUME NEW p \in Product, NEW op \in {"flip", "remove"}, GetProduct(h, p, op) PROVE Inv'
  <2>1. PICK b \in BOOLEAN : b = (op = "flip" /\ ~prod[p].tracked)
    OBVIOUS
  <2> DEFINE r == [op |-> op, step |-> "count", on |-> {p}, flag |-> b]
  <2>2. r \in Ask
    BY DEF Ask
  <2>3. Exists(p)
    BY <1>4, SubjectAssumption DEF GetProduct, Live, Exists
  <2>4. Fits(r)
    BY <2>2, <2>3
  <2>5. Begin(h, r)
    BY <2>1, <1>4 DEF GetProduct
  <2> QED BY <2>4, <2>5, <1>1
<1>5. ASSUME NEW g \in Goods, NEW into \in BOOLEAN, Adjust(h, g, into) \/ Deliver(h, g, into)
      PROVE  Inv'
  <2>1. PICK b \in BOOLEAN : Begin(h, Movement(g, into, b)) /\ (~b => Live(g[2]))
    <3>1. CASE Adjust(h, g, into)
      BY <3>1 DEF Adjust, AssertWarehouse
    <3>2. CASE Deliver(h, g, into)
      <4>1. PICK b \in BOOLEAN : b = ~Live(g[2])
        OBVIOUS
      <4> QED BY <3>2, <4>1 DEF Deliver
    <3> QED BY <3>1, <3>2, <1>5
  <2> DEFINE r == Movement(g, into, b)
  <2>2. r \in Ask
    BY DEF Ask, Movement
  <2>3. Exists(g[1]) /\ Exists(g[2])
    BY <1>5, GoodsOf DEF Adjust, Deliver, AssertWarehouse, Live, Exists
  <2>4. /\ r.op = "move" /\ r.goods = g /\ r.on = Subjects(g) /\ r.blind = b
        /\ r.step # "write"
    BY DEF Movement
  <2> HIDE DEF r
  <2>5. Fits(r)
    BY <2>1, <2>2, <2>3, <2>4, GoodsOf
  <2>6. Begin(h, r)
    BY <2>1 DEF r
  <2> QED BY <2>5, <2>6, <1>1
<1> QED BY <1>2, <1>3, <1>4, <1>5

(* A movement is booked on rows that other requests know it to be on.      *)
LEMMA MoveSafe ==
    ASSUME Inv, NEW h \in Handler, Move(h)
    PROVE  Inv'
<1> DEFINE g == ask[h].goods
<1>0. Rows /\ Stored /\ Remembered /\ Asked /\ Together /\ Promise
  BY DEF Inv, Known
<1>1. /\ ask[h].op = "move" /\ g \in Goods /\ ask[h].on = Subjects(g)
      /\ ask[h].blind \in BOOLEAN /\ ask[h].into \in BOOLEAN
  BY <1>0, OnGoods DEF Move, At, Asked, Present
<1>2. /\ g[1] \in Product /\ g[2] \in Warehouse /\ g[1] \notin Warehouse
      /\ Subjects(g) = {g[1], g[2]} /\ Subjects(g) \subseteq Warehouse \cup Product
  BY <1>1, GoodsOf
<1>3. /\ ask' = [ask EXCEPT ![h] = Idle]
      /\ stock' \subseteq stock \cup {g}
      /\ g \in stock' => ask[h].into \/ g \in stock
      /\ supplied \subseteq supplied'
      /\ supplied' \subseteq supplied \cup Unlooked(h)
      /\ ask[h].into => \A x \in Unlooked(h) \ raced : Live(x) \/ x \in supplied'
      /\ UNCHANGED <<wh, prod, raced, unticked>>
  BY DEF Move
<1>3a. ~ask[h].into => stock' \subseteq stock
  BY DEF Move
<1>4. Unlooked(h) \subseteq Warehouse \cup Product /\ g[1] \in Unlooked(h)
      /\ (ask[h].blind => g[2] \in Unlooked(h))
  BY <1>1, <1>2 DEF Unlooked
<1>5. /\ ask' \in [Handler -> Ask]
      /\ \A k \in Handler : ask'[k] = IF k = h THEN Idle ELSE ask[k]
  BY <1>0, <1>3, Resting DEF Rows
<1>6. /\ \A x \in Subjects(g) : Exists(x)
      /\ g[1] \notin raced => Accepts(g)
      /\ (~ask[h].blind /\ g[2] \notin raced) => Live(g[2])
  BY <1>0, <1>1 DEF Asked, Present, Current, Checked, Move
<1> HIDE DEF g
<1>7. Rows' /\ Remembered' /\ Stored'
  <2>1. Stored'
    BY <1>0, <1>3, <1>6 DEF Stored, Exists
  <2> QED BY <2>1, <1>0, <1>1, <1>3, <1>4, <1>5 DEF Rows, Remembered
<1>8. ASSUME NEW k \in Handler PROVE (Present(k) /\ Current(k) /\ Checked(k))'
  <2>1. CASE k = h
    BY <2>1, <1>5, Resting DEF Present, Current, Checked, At
  <2>2. CASE k # h
    <3>1. ask'[k] = ask[k] /\ Present(k) /\ Current(k) /\ Checked(k)
      BY <2>2, <1>0, <1>5 DEF Asked
    <3>2. ask[k].op # "move" => ask[k].on \cap Subjects(g) \subseteq raced
      BY <2>2, <1>0, <1>1 DEF Together
    <3>3. Present(k)' /\ Current(k)'
      BY <3>1, <1>3 DEF Present, Current, Exists, Live
    <3>4. ASSUME ask[k].op # "move", NEW x \in ask[k].on \ raced, ~Holds(x) PROVE ~Holds(x)'
      BY <3>2, <3>4, <1>3 DEF Holds
    <3>5. Checked(k)'
      BY <3>1, <3>4, <1>3 DEF Checked, At, Accepts, Live
    <3> QED BY <3>3, <3>5
  <2> QED BY <2>1, <2>2
<1>9. Together'
  BY <1>0, <1>3, <1>5, Resting DEF Together
<1>10. OneDefault'
  BY <1>0, <1>3, SameDefault DEF Promise
<1>11. DeletedIsEmpty'
  <2> SUFFICES ASSUME NEW x \in Warehouse \cup Product, Exists(x), ~Live(x),
                      x \notin raced, x \notin supplied', NEW e \in stock', x \in Subjects(e)
               PROVE  FALSE
    BY <1>3 DEF DeletedIsEmpty, Exists, Live
  <2>1. e \notin stock
    BY <1>0, <1>3 DEF Promise, DeletedIsEmpty
  <2>2. e = g /\ ask[h].into
    BY <2>1, <1>1, <1>3, <1>3a
  <2>3. x \notin Unlooked(h)
    BY <2>2, <1>3
  <2>4. x = g[2] /\ ~ask[h].blind
    BY <2>2, <2>3, <1>1, <1>2, <1>4
  <2> QED BY <2>4, <1>6
<1>12. TrackedHasBatch'
  BY <1>0, <1>2, <1>3, <1>6 DEF Promise, TrackedHasBatch, Accepts, Live
<1> QED BY <1>7, <1>8, <1>9, <1>10, <1>11, <1>12 DEF Inv, Known, Asked, Promise

-----------------------------------------------------------------------------
LEMMA InitInv == Init => Inv
<1> SUFFICES ASSUME Init PROVE Inv
  OBVIOUS
<1>1. Rows /\ Stored /\ Remembered
  BY Resting DEF Init, Rows, Stored, Remembered, Status
<1>2. Asked /\ Together
  BY IdleSound, Resting DEF Init, Asked, Together
<1>3. Promise
  BY SubjectAssumption DEF Init, Promise, OneDefault, Defaults, DeletedIsEmpty, TrackedHasBatch, Live
<1> QED BY <1>1, <1>2, <1>3 DEF Inv, Known

LEMMA NextInv == Inv /\ [Next]_vars => Inv'
<1> SUFFICES ASSUME Inv, [Next]_vars PROVE Inv'
  OBVIOUS
<1>1. CASE UNCHANGED vars
  <2>1. Rows' /\ Stored' /\ Remembered' /\ Together'
    BY <1>1 DEF vars, history, Inv, Known, Rows, Stored, Remembered, Together, Exists
  <2>2. Asked'
    <3> SUFFICES ASSUME NEW k \in Handler PROVE Present(k)' /\ Current(k)' /\ Checked(k)'
      BY DEF Asked
    <3>1. /\ Present(k) /\ Current(k) /\ Checked(k) /\ ask' = ask /\ wh' = wh /\ prod' = prod
          /\ stock' = stock /\ raced' = raced
      BY <1>1 DEF vars, history, Inv, Known, Asked
    <3>2. Present(k)'
      BY <3>1 DEF Present, Exists
    <3>3. Current(k)'
      BY <3>1 DEF Current, Live
    <3>4. Checked(k)'
      <4>1. (\A x : Holds(x)' <=> Holds(x)) /\ (\A g : Accepts(g)' <=> Accepts(g))
        BY <3>1 DEF Holds, Accepts, Live
      <4>2. \A op, step : At(k, op, step)' <=> At(k, op, step)
        BY <3>1 DEF At
      <4> QED
        BY <3>1, <4>1, <4>2 DEF Checked
    <3> QED
      BY <3>2, <3>3, <3>4
  <2>3. Promise'
    BY <1>1, SameRows DEF vars, history, Inv
  <2> QED BY <2>1, <2>2, <2>3 DEF Inv, Known
<1>2. CASE \E w \in Warehouse, b \in BOOLEAN : CreateWarehouse(w, b)
  BY <1>2, CreateWarehouseSafe
<1>3. CASE \E p \in Product, b \in BOOLEAN : CreateProduct(p, b)
  BY <1>3, CreateProductSafe
<1>4. ASSUME NEW h \in Handler,
             \/ \E w \in Warehouse, b \in BOOLEAN : GetForUpdate(h, w, b)
             \/ \E w \in Warehouse : GetForDelete(h, w)
             \/ \E p \in Product, op \in {"flip", "remove"} : GetProduct(h, p, op)
             \/ \E g \in Goods, into \in BOOLEAN : Adjust(h, g, into) \/ Deliver(h, g, into)
      PROVE  Inv'
  BY <1>4, BeginSafe
<1>5. ASSUME NEW h \in Handler, UpdateWarehouse(h) \/ DeleteWarehouse(h) PROVE Inv'
  BY <1>5, UpdateWarehouseSafe, DeleteWarehouseSafe
<1>6. ASSUME NEW h \in Handler, UpdateProduct(h) \/ DeleteProduct(h) PROVE Inv'
  BY <1>6, UpdateProductSafe, DeleteProductSafe
<1>7. ASSUME NEW h \in Handler, CountForDelete(h) \/ AssertNoStock(h) \/ CheckPolicy(h) PROVE Inv'
  BY <1>7, ChecksSafe
<1>8. ASSUME NEW h \in Handler, Move(h) \/ GiveUp(h) PROVE Inv'
  BY <1>8, MoveSafe, GiveUpSafe
<1> QED BY <1>1, <1>2, <1>3, <1>4, <1>5, <1>6, <1>7, <1>8 DEF Next

LEMMA Invariance == Spec => []Inv
BY InitInv, NextInv, PTL DEF Spec

(* Every variable has its type, and goods lie where a product and a        *)
(* warehouse once were.                                                    *)
THEOREM TypeCorrect == Spec => []TypeOK
<1>1. Inv => TypeOK
  BY TypeParts DEF Inv, Known
<1> QED BY <1>1, Invariance, PTL

(* clearDefault and the first warehouse: never two defaults, and one as    *)
(* long as no update unticks it, unless requests overlapped.               *)
THEOREM DefaultHolds == Spec => []OneDefault
<1>1. Inv => OneDefault
  BY DEF Inv, Promise
<1> QED BY <1>1, Invariance, PTL

(* Delete of a warehouse or a product: what was found empty stays empty,   *)
(* unless a movement overlapped the deletion or nobody looked.             *)
THEOREM DeletedStaysEmpty == Spec => []DeletedIsEmpty
<1>1. Inv => DeletedIsEmpty
  BY DEF Inv, Promise
<1> QED BY <1>1, Invariance, PTL

(* Update of a product's batch policy against assertBatchPolicy: tracked   *)
(* goods lie in batches, unless a movement overlapped the update.          *)
THEOREM TrackedStaysInBatches == Spec => []TrackedHasBatch
<1>1. Inv => TrackedHasBatch
  BY DEF Inv, Promise
<1> QED BY <1>1, Invariance, PTL
=============================================================================
