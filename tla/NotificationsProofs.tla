------------------------- MODULE NotificationsProofs -------------------------
(***************************************************************************)
(* Proofs about the notifications: of Delivery its type invariant, that a  *)
(* device that was told it is registered stays so, and how often a task is *)
(* run; of Alerts its type invariant, which bounds the queue of the scans, *)
(* and that only the users an alert is for are mailed about it.            *)
(***************************************************************************)
EXTENDS Delivery, Alerts, FiniteSetTheorems, TLAPS

-----------------------------------------------------------------------------
(* Delivery.                                                               *)

RegistryType ==
    /\ owner \in [Device -> User \cup {Nobody}]
    /\ told \in [Device -> User \cup {Nobody}]
    /\ asking \in [Client -> Asking]

QueueType ==
    /\ tries \in [Task -> 0..MaxRetry]
    /\ state \in [Task -> {"new", "waiting", "running", "done", "archived"}]
    /\ run \in [Worker -> Running]

(* A task that runs is in the hands of exactly one worker.                 *)
InHand ==
    /\ \A w \in Worker : run[w] # Free => state[run[w].task] = "running"
    /\ \A t \in Task : state[t] = "running" => \E w \in Worker : run[w].task = t
    /\ \A v, w \in Worker : run[v] # Free /\ run[v].task = run[w].task => v = w

HistoryType ==
    /\ late \subseteq Device
    /\ starts \in [Task -> Nat] /\ returned \in [Task -> Nat]

LEMMA TypeParts == TypeOK <=> RegistryType /\ QueueType /\ HistoryType /\ InHand
BY DEF TypeOK, RegistryType, QueueType, HistoryType, InHand

(* Where the starts of a task have gone: into attempts that failed, into   *)
(* shutdowns, and into the run that it is in or ended with.                *)
Counted ==
    \A t \in Task :
        /\ starts[t] = tries[t] + returned[t] + (IF state[t] \in {"new", "waiting"} THEN 0 ELSE 1)
        /\ state[t] = "archived" => tries[t] = MaxRetry

-----------------------------------------------------------------------------
(* The registry.                                                           *)

LEMMA Quiet == Silent \in Asking /\ ~Silent.found /\ Silent.device = {}
BY DEF Silent, Asking

(* What a handler asks keeps its type when it loses its device.            *)
LEMMA Narrowed ==
    ASSUME NEW a \in Asking PROVE [a EXCEPT !.device = {}] \in Asking
<1>1. CASE a = Silent
  <2> DEFINE Quieted == [user : {Nobody}, device : {{}}, found : {FALSE}]
  <2>1. a \in Quieted
    BY <1>1 DEF Silent
  <2>2. [a EXCEPT !.device = {}] \in Quieted
    BY <2>1
  <2>3. ASSUME NEW r \in Quieted PROVE r = Silent
    BY DEF Silent
  <2> QED BY <2>2, <2>3, Quiet
<1>2. CASE a # Silent
  <2>1. a \in [user : User, device : SUBSET Device, found : BOOLEAN]
    BY <1>2 DEF Asking
  <2>2. [a EXCEPT !.device = {}] \in [user : User, device : SUBSET Device, found : BOOLEAN]
    BY <2>1
  <2> QED BY <2>2 DEF Asking
<1> QED BY <1>1, <1>2

LEMMA ForgottenType ==
    ASSUME RegistryType, NEW d PROVE Forgotten(d) \in [Client -> Asking]
<1> SUFFICES ASSUME NEW c \in Client PROVE Forgotten(d)[c] \in Asking
  BY DEF Forgotten
<1>1. asking[c] \in Asking
  BY DEF RegistryType
<1> QED BY <1>1, Narrowed DEF Forgotten

LEMMA RemoveType ==
    ASSUME RegistryType, NEW d \in Device, Remove(d)
    PROVE  /\ owner' \in [Device -> User \cup {Nobody}]
           /\ asking' \in [Client -> Asking]
           /\ \A e \in Device : owner'[e] = IF e = d THEN Nobody ELSE owner[e]
BY ForgottenType DEF RegistryType, Remove

(* A request that is answered asks for nothing any more.                   *)
LEMMA Answered ==
    ASSUME RegistryType, NEW c \in Client PROVE [asking EXCEPT ![c] = Silent] \in [Client -> Asking]
BY Quiet DEF RegistryType

(* What a registration that has something to write is for.                 *)
LEMMA ForUser ==
    ASSUME RegistryType, NEW c \in Client, asking[c] # Silent
    PROVE  asking[c].user \in User /\ asking[c].device \subseteq Device
BY DEF RegistryType, Asking

(* Repoint and CreateToken write the same into the table and the answer.   *)
LEMMA Writes ==
    ASSUME RegistryType, NEW c \in Client, asking[c] # Silent,
           owner' = [d \in Device |-> IF d \in asking[c].device THEN asking[c].user ELSE owner[d]],
           told' = [d \in Device |-> IF d \in asking[c].device THEN asking[c].user ELSE told[d]],
           asking' = [asking EXCEPT ![c] = Silent]
    PROVE  RegistryType' /\ (RegistrationHolds => RegistrationHolds')
BY ForUser, Answered DEF RegistryType, RegistrationHolds

LEMMA LookUpSafe ==
    ASSUME RegistryType, NEW c \in Client, NEW u \in User, NEW d \in Device, LookUpToken(c, u, d)
    PROVE  RegistryType' /\ (RegistrationHolds => RegistrationHolds')
<1>1. [user |-> u, device |-> {d}, found |-> owner[d] # Nobody] \in Asking
  BY DEF Asking
<1> QED BY <1>1 DEF LookUpToken, RegistryType, RegistrationHolds

LEMMA RepointSafe ==
    ASSUME RegistryType, NEW c \in Client, Repoint(c)
    PROVE  RegistryType' /\ (RegistrationHolds => RegistrationHolds')
<1>1. asking[c] # Silent
  BY Quiet DEF Repoint
<1> QED BY <1>1, Writes DEF Repoint

LEMMA CreateSafe ==
    ASSUME RegistryType, NEW c \in Client, CreateToken(c)
    PROVE  RegistryType' /\ (RegistrationHolds => RegistrationHolds')
BY Writes DEF CreateToken

LEMMA FailSafe ==
    ASSUME RegistryType, NEW c \in Client, RegisterFails(c)
    PROVE  RegistryType' /\ (RegistrationHolds => RegistrationHolds')
BY Answered DEF RegisterFails, RegistryType, RegistrationHolds

LEMMA UnregisterSafe ==
    ASSUME RegistryType, NEW u \in User, NEW d \in Device, UnregisterDevice(u, d)
    PROVE  RegistryType' /\ (RegistrationHolds => RegistrationHolds')
<1>1. told' = [told EXCEPT ![d] = IF @ = u THEN Nobody ELSE @]
  BY DEF UnregisterDevice
<1>2. told' \in [Device -> User \cup {Nobody}]
  BY <1>1 DEF RegistryType
<1>3. CASE owner[d] = u
  <2>1. Remove(d)
    BY <1>3 DEF UnregisterDevice
  <2>2. RegistryType'
    BY <2>1, <1>2, RemoveType DEF RegistryType
  <2>3. ASSUME RegistrationHolds, NEW e \in Device, told'[e] # Nobody PROVE owner'[e] = told'[e]
    <3>1. CASE e = d
      <4>1. told[d] = u \/ told[d] = Nobody
        BY <1>3, <2>3 DEF RegistrationHolds
      <4>2. told'[d] = Nobody
        BY <1>1, <4>1 DEF RegistryType
      <4> QED BY <3>1, <4>2, <2>3
    <3>2. CASE e # d
      BY <3>2, <2>1, <2>3, <1>1, RemoveType DEF RegistryType, RegistrationHolds
    <3> QED BY <3>1, <3>2
  <2> QED BY <2>2, <2>3 DEF RegistrationHolds
<1>4. CASE owner[d] # u
  BY <1>1, <1>2, <1>4 DEF UnregisterDevice, RegistryType, RegistrationHolds
<1> QED BY <1>3, <1>4

LEMMA RejectedSafe ==
    ASSUME RegistryType, NEW d \in Device, Remove(d), told' = [told EXCEPT ![d] = Nobody]
    PROVE  RegistryType' /\ (RegistrationHolds => RegistrationHolds')
<1>1. RegistryType'
  BY RemoveType DEF RegistryType
<1>2. RegistrationHolds => RegistrationHolds'
  BY RemoveType DEF RegistryType, RegistrationHolds
<1> QED BY <1>1, <1>2

-----------------------------------------------------------------------------
(* The queue.                                                              *)

LEMMA Idling == Free \in Running /\ Free.task = NoTask /\ Free.left = {}
BY DEF Free, Running

(* A worker that is not free has a task.                                   *)
LEMMA HasTask ==
    ASSUME QueueType, NEW w \in Worker
    PROVE  /\ run[w] # Free => run[w].task \in Task
           /\ run[w] = Free => run[w].task \notin Task
           /\ run[w].left \subseteq Device
           /\ run[w].left # {} => run[w] # Free /\ run[w].task \in Push
BY TaskAssumption DEF QueueType, Running, Free

LEMMA EndKeeps ==
    ASSUME QueueType, InHand, NEW w \in Worker, run[w] # Free,
           NEW how \in {"waiting", "done", "archived"}, End(w, how)
    PROVE  /\ state' \in [Task -> {"new", "waiting", "running", "done", "archived"}]
           /\ run' \in [Worker -> Running]
           /\ InHand'
<1> DEFINE t == run[w].task
<1>1. t \in Task
  BY HasTask
<1>2. /\ run' \in [Worker -> Running]
      /\ \A v \in Worker : run'[v] = IF v = w THEN Free ELSE run[v]
  BY Idling DEF End, QueueType
<1>3. /\ state' \in [Task -> {"new", "waiting", "running", "done", "archived"}]
      /\ \A s \in Task : state'[s] = IF s = t THEN how ELSE state[s]
  BY <1>1 DEF End, QueueType
<1>4. ASSUME NEW v \in Worker, run'[v] # Free PROVE state'[run'[v].task] = "running"
  <2>1. v # w /\ run'[v] = run[v]
    BY <1>2, <1>4
  <2>2. run[v].task # t /\ run[v].task \in Task
    BY <2>1, <1>4, HasTask DEF InHand
  <2> QED BY <2>1, <2>2, <1>3, <1>4 DEF InHand
<1>5. ASSUME NEW s \in Task, state'[s] = "running" PROVE \E v \in Worker : run'[v].task = s
  <2>1. s # t /\ state[s] = "running"
    BY <1>3, <1>5
  <2>2. PICK v \in Worker : run[v].task = s
    BY <2>1 DEF InHand
  <2> QED BY <2>1, <2>2, <1>2
<1>6. ASSUME NEW u \in Worker, NEW v \in Worker, run'[u] # Free, run'[u].task = run'[v].task
      PROVE  u = v
  <2>1. u # w /\ run'[u] = run[u]
    BY <1>2, <1>6
  <2>2. run[u].task \in Task
    BY <2>1, <1>6, HasTask
  <2>3. v # w
    BY <1>2, <1>6, <2>1, <2>2, Idling, TaskAssumption
  <2> QED BY <2>1, <2>3, <1>2, <1>6 DEF InHand
<1> QED BY <1>2, <1>3, <1>4, <1>5, <1>6 DEF InHand

LEMMA ServedKeeps ==
    ASSUME QueueType, InHand, NEW w \in Worker, NEW d \in run[w].left, Served(w, d),
           UNCHANGED tries
    PROVE  QueueType' /\ InHand'
<1>1. run[w] # Free /\ run[w].task \in Push
  BY HasTask
<1>2. CASE run[w].left = {d}
  BY <1>1, <1>2, EndKeeps DEF Served, QueueType
<1>3. CASE run[w].left # {d}
  <2> DEFINE next == [run[w] EXCEPT !.left = @ \ {d}]
  <2>1. run[w] \in [task : Push, left : (SUBSET Device) \ {{}}]
    BY <1>1, TaskAssumption, HasTask DEF QueueType, Running
  <2>2. next \in [task : Push, left : (SUBSET Device) \ {{}}] /\ next.task = run[w].task
    <3>1. run[w].left \ {d} # {}
      BY <1>3
    <3> QED BY <2>1, <3>1
  <2>3. next # Free /\ next \in Running
    BY <2>2, TaskAssumption DEF Free, Running
  <2>4. /\ run' \in [Worker -> Running]
        /\ \A v \in Worker : run'[v] = IF v = w THEN next ELSE run[v]
    BY <1>3, <2>3 DEF Served, QueueType
  <2>5. UNCHANGED state
    BY <1>3 DEF Served
  <2> HIDE DEF next
  <2>6. \A v \in Worker : /\ run'[v].task = run[v].task
                          /\ run'[v] = Free <=> run[v] = Free
    BY <2>2, <2>3, <2>4, <1>1
  <2>7. InHand'
    <3>1. \A v \in Worker : run'[v] # Free => state'[run'[v].task] = "running"
      BY <2>5, <2>6 DEF InHand
    <3>2. \A t \in Task : state'[t] = "running" => \E v \in Worker : run'[v].task = t
      BY <2>5, <2>6 DEF InHand
    <3>3. \A u, v \in Worker : run'[u] # Free /\ run'[u].task = run'[v].task => u = v
      BY <2>6 DEF InHand
    <3> QED BY <3>1, <3>2, <3>3 DEF InHand
  <2> QED BY <2>4, <2>5, <2>7 DEF QueueType
<1> QED BY <1>2, <1>3

LEMMA StartKeeps ==
    ASSUME RegistryType, QueueType, InHand, NEW w \in Worker, NEW t \in Task, Start(w, t)
    PROVE  QueueType' /\ InHand'
<1> DEFINE left == IF t \in Push THEN DevicesOf(For[t]) ELSE {}
<1>1. run[w] = Free /\ state[t] = "waiting" /\ UNCHANGED tries
  BY DEF Start
<1>2. left \subseteq Device
  BY DEF DevicesOf
<1>3. CASE t \in Push /\ left = {}
  <2>1. state' = [state EXCEPT ![t] = "done"] /\ UNCHANGED run
    BY <1>3 DEF Start
  <2>2. \A v \in Worker : run[v] # Free => run[v].task \in Task /\ run[v].task # t
    BY <1>1, HasTask DEF InHand
  <2> QED BY <2>1, <2>2, <1>1 DEF QueueType, InHand
<1>4. CASE ~(t \in Push /\ left = {})
  <2> DEFINE job == [task |-> t, left |-> left]
  <2>1. state' = [state EXCEPT ![t] = "running"] /\ run' = [run EXCEPT ![w] = job]
    BY <1>4 DEF Start
  <2>2. job \in Running /\ job # Free /\ job.task = t
    <3>1. job.task = t /\ job.task # NoTask
      BY TaskAssumption
    <3>2. CASE t \in Push
      <4>1. left \in (SUBSET Device) \ {{}}
        BY <3>2, <1>2, <1>4
      <4>2. job \in [task : Push, left : (SUBSET Device) \ {{}}]
        BY <3>2, <4>1
      <4> QED BY <3>1, <4>2 DEF Running, Free
    <3>3. CASE t \notin Push
      <4>1. left = {}
        BY <3>3
      <4>2. job \in [task : Task \ Push, left : {{}}]
        BY <3>3, <4>1
      <4> QED BY <3>1, <4>2 DEF Running, Free
    <3> QED BY <3>2, <3>3
  <2> HIDE DEF job
  <2>3. /\ run' \in [Worker -> Running]
        /\ \A v \in Worker : run'[v] = IF v = w THEN job ELSE run[v]
    BY <2>1, <2>2 DEF QueueType
  <2>4. /\ state' \in [Task -> {"new", "waiting", "running", "done", "archived"}]
        /\ \A s \in Task : state'[s] = IF s = t THEN "running" ELSE state[s]
    BY <2>1 DEF QueueType
  <2>5. \A v \in Worker : run[v].task # t
    BY <1>1, HasTask DEF InHand
  <2>6. \A v \in Worker : run'[v] # Free => state'[run'[v].task] = "running"
    BY <2>2, <2>3, <2>4, HasTask DEF InHand
  <2>7. ASSUME NEW s \in Task, state'[s] = "running" PROVE \E v \in Worker : run'[v].task = s
    <3>1. CASE s = t
      BY <3>1, <2>2, <2>3
    <3>2. CASE s # t
      <4>1. PICK v \in Worker : run[v].task = s
        BY <3>2, <2>4, <2>7 DEF InHand
      <4>2. v # w
        BY <4>1, <1>1, HasTask
      <4> QED BY <4>1, <4>2, <2>3
    <3> QED BY <3>1, <3>2
  <2>8. \A u, v \in Worker : run'[u] # Free /\ run'[u].task = run'[v].task => u = v
    BY <2>2, <2>3, <2>5 DEF InHand
  <2> QED BY <2>3, <2>4, <2>6, <2>7, <2>8, <1>1 DEF QueueType, InHand
<1> QED BY <1>3, <1>4

LEMMA RetriedKeeps ==
    ASSUME QueueType, InHand, NEW w \in Worker, Retried(w)
    PROVE  QueueType' /\ InHand'
<1>1. run[w] # Free
  BY DEF Retried
<1>2. CASE tries[run[w].task] < MaxRetry
  <2>1. End(w, "waiting") /\ tries' = [tries EXCEPT ![run[w].task] = @ + 1]
    BY <1>2 DEF Retried
  <2>2. tries' \in [Task -> 0..MaxRetry]
    <3>1. run[w].task \in Task /\ tries[run[w].task] \in 0..MaxRetry
      BY <1>1, HasTask DEF QueueType
    <3>2. tries[run[w].task] + 1 \in 0..MaxRetry
      BY <3>1, <1>2, BoundAssumption
    <3> QED BY <2>1, <3>1, <3>2 DEF QueueType
  <2> QED BY <1>1, <2>1, <2>2, EndKeeps DEF QueueType
<1>3. CASE ~(tries[run[w].task] < MaxRetry)
  <2>1. End(w, "archived") /\ UNCHANGED tries
    BY <1>3 DEF Retried
  <2> QED BY <1>1, <2>1, EndKeeps DEF QueueType
<1> QED BY <1>2, <1>3

LEMMA EnqueueKeeps ==
    ASSUME QueueType, InHand, NEW t \in Task, Enqueue(t)
    PROVE  QueueType' /\ InHand'
<1>1. \A v \in Worker : run[v] # Free => run[v].task \in Task /\ run[v].task # t
  BY HasTask DEF Enqueue, InHand
<1> QED BY <1>1 DEF Enqueue, counts, QueueType, InHand

LEMMA HandBackKeeps ==
    ASSUME QueueType, HistoryType, InHand, NEW w \in Worker, HandBack(w)
    PROVE  QueueType' /\ HistoryType' /\ InHand'
<1>1. run[w] # Free /\ End(w, "waiting") /\ UNCHANGED <<tries, starts>>
  BY DEF HandBack
<1>2. QueueType' /\ InHand'
  BY <1>1, EndKeeps DEF QueueType
<1>3. late' \subseteq Device
  BY HasTask DEF HandBack, StillDeleting, HistoryType
<1>4. returned' \in [Task -> Nat]
  BY <1>1, HasTask DEF HandBack, HistoryType
<1> QED BY <1>1, <1>2, <1>3, <1>4 DEF HistoryType

-----------------------------------------------------------------------------
(* How often a task is started.                                            *)

LEMMA SameCounted ==
    ASSUME Counted, UNCHANGED <<state, counts>> PROVE Counted'
BY DEF Counted, counts

(* A worker ends the task it runs, and no other.                           *)
LEMMA EndCounted ==
    ASSUME QueueType, HistoryType, InHand, Counted, NEW w \in Worker, run[w] # Free,
           NEW how \in {"waiting", "done", "archived"}, End(w, how), UNCHANGED starts,
           \/ how = "done" /\ UNCHANGED <<tries, returned>>
           \/ how = "archived" /\ tries[run[w].task] = MaxRetry /\ UNCHANGED <<tries, returned>>
           \/ /\ how = "waiting"
              /\ tries' = [tries EXCEPT ![run[w].task] = @ + 1] /\ UNCHANGED returned
           \/ /\ how = "waiting"
              /\ returned' = [returned EXCEPT ![run[w].task] = @ + 1] /\ UNCHANGED tries
    PROVE  Counted'
<1> DEFINE t == run[w].task
<1>1. t \in Task /\ state[t] = "running"
  BY HasTask DEF InHand
<1>2. \A s \in Task : state'[s] = IF s = t THEN how ELSE state[s]
  BY <1>1 DEF End, QueueType
<1>3. ASSUME NEW s \in Task PROVE starts[s] \in Nat /\ tries[s] \in Nat /\ returned[s] \in Nat
  BY BoundAssumption DEF QueueType, HistoryType
<1>4. starts[t] = tries[t] + returned[t] + 1
  BY <1>1 DEF Counted
<1>5. \A s \in Task \ {t} : tries'[s] = tries[s] /\ returned'[s] = returned[s]
  BY <1>1 DEF QueueType, HistoryType
<1>6. /\ starts'[t] = tries'[t] + returned'[t] + (IF how = "waiting" THEN 0 ELSE 1)
      /\ how = "archived" => tries'[t] = MaxRetry
  <2>1. CASE how # "waiting"
    BY <1>4, <2>1
  <2>2. CASE how = "waiting"
    <3>1. tries'[t] + returned'[t] = tries[t] + returned[t] + 1
      BY <1>1, <1>3, <2>2 DEF QueueType, HistoryType
    <3>2. tries'[t] \in Nat /\ returned'[t] \in Nat
      BY <1>1, <1>3, <2>2 DEF QueueType, HistoryType
    <3> QED BY <1>1, <1>3, <1>4, <2>2, <3>1, <3>2
  <2> QED BY <2>1, <2>2
<1> HIDE DEF t
<1>7. ASSUME NEW s \in Task
      PROVE  /\ starts'[s] = tries'[s] + returned'[s]
                             + (IF state'[s] \in {"new", "waiting"} THEN 0 ELSE 1)
             /\ state'[s] = "archived" => tries'[s] = MaxRetry
  <2>1. CASE s = t
    BY <2>1, <1>2, <1>6
  <2>2. CASE s # t
    BY <2>2, <1>2, <1>5 DEF Counted
  <2> QED BY <2>1, <2>2
<1> QED BY <1>7 DEF Counted

LEMMA ServedCounted ==
    ASSUME QueueType, HistoryType, InHand, Counted, NEW w \in Worker, NEW d \in run[w].left,
           Served(w, d), UNCHANGED counts
    PROVE  Counted'
<1>1. run[w] # Free
  BY HasTask
<1>2. CASE run[w].left = {d}
  BY <1>1, <1>2, EndCounted DEF Served, counts
<1>3. CASE run[w].left # {d}
  BY <1>3, SameCounted DEF Served
<1> QED BY <1>2, <1>3

LEMMA RetriedCounted ==
    ASSUME QueueType, HistoryType, InHand, Counted, NEW w \in Worker, Retried(w)
    PROVE  Counted'
<1>1. run[w] # Free /\ UNCHANGED <<starts, returned>>
  BY DEF Retried
<1>2. CASE tries[run[w].task] < MaxRetry
  BY <1>1, <1>2, EndCounted DEF Retried
<1>3. CASE ~(tries[run[w].task] < MaxRetry)
  <2>1. tries[run[w].task] \in 0..MaxRetry
    BY <1>1, HasTask DEF QueueType
  <2>2. tries[run[w].task] = MaxRetry
    BY <1>3, <2>1, BoundAssumption
  <2> QED BY <1>1, <1>3, <2>2, EndCounted DEF Retried
<1> QED BY <1>2, <1>3

LEMMA StartCounted ==
    ASSUME QueueType, HistoryType, Counted, NEW w \in Worker, NEW t \in Task, Start(w, t)
    PROVE  Counted'
<1>1. /\ state[t] = "waiting" /\ UNCHANGED <<tries, returned>>
      /\ starts' = [starts EXCEPT ![t] = @ + 1]
      /\ \/ state' = [state EXCEPT ![t] = "running"]
         \/ state' = [state EXCEPT ![t] = "done"]
  BY DEF Start
<1>2. ASSUME NEW s \in Task PROVE starts[s] \in Nat /\ tries[s] \in Nat /\ returned[s] \in Nat
  BY BoundAssumption DEF QueueType, HistoryType
<1>3. state'[t] \in {"running", "done"} /\ starts'[t] = starts[t] + 1
  BY <1>1 DEF QueueType, HistoryType
<1>4. starts[t] = tries[t] + returned[t]
  BY <1>1, <1>2 DEF Counted
<1>5. ASSUME NEW s \in Task, s # t PROVE state'[s] = state[s] /\ starts'[s] = starts[s]
  BY <1>1, <1>5 DEF QueueType, HistoryType
<1> QED BY <1>1, <1>2, <1>3, <1>4, <1>5 DEF Counted

LEMMA EnqueueCounted ==
    ASSUME QueueType, HistoryType, Counted, NEW t \in Task, Enqueue(t) PROVE Counted'
<1>1. state[t] = "new" /\ state'[t] = "waiting" /\ UNCHANGED counts
  BY DEF Enqueue, QueueType
<1>2. ASSUME NEW s \in Task, s # t PROVE state'[s] = state[s]
  BY <1>2 DEF Enqueue, QueueType
<1> QED BY <1>1, <1>2 DEF Counted, counts

-----------------------------------------------------------------------------
Inv == TypeOK /\ RegistrationHolds /\ Counted

LEMMA InitInv == Init => Inv
<1> SUFFICES ASSUME Init PROVE Inv
  OBVIOUS
<1>1. RegistryType
  BY Quiet DEF Init, RegistryType
<1>2. QueueType /\ HistoryType
  BY Idling, BoundAssumption DEF Init, QueueType, HistoryType
<1>3. InHand
  BY TaskAssumption DEF Init, InHand, Free
<1>4. RegistrationHolds
  BY DEF Init, RegistrationHolds
<1>5. Counted
  BY DEF Init, Counted
<1> QED BY <1>1, <1>2, <1>3, <1>4, <1>5, TypeParts DEF Inv

(* A step either leaves the queue alone or the registry, but for a device  *)
(* that FCM rejects.                                                       *)
LEMMA NextInv == Inv /\ [Next]_vars => Inv'
<1> SUFFICES ASSUME Inv, [Next]_vars PROVE Inv'
  OBVIOUS
<1>0. RegistryType /\ QueueType /\ HistoryType /\ InHand /\ RegistrationHolds /\ Counted
  BY TypeParts DEF Inv
<1>a. ASSUME RegistryType', RegistrationHolds', QueueType', HistoryType', InHand', Counted'
      PROVE  Inv'
  BY <1>a DEF Inv, TypeOK, RegistryType, QueueType, HistoryType, InHand
<1>b. UNCHANGED queue => QueueType' /\ HistoryType' /\ InHand' /\ Counted'
  BY <1>0 DEF queue, counts, QueueType, HistoryType, InHand, Counted
<1>c. UNCHANGED registry => RegistryType' /\ RegistrationHolds'
  BY <1>0 DEF registry, RegistryType, RegistrationHolds
<1>d. UNCHANGED <<late, starts, returned>> => HistoryType'
  BY <1>0 DEF HistoryType
<1>1. ASSUME NEW c \in Client, NEW u \in User, NEW d \in Device, LookUpToken(c, u, d) PROVE Inv'
  BY <1>0, <1>a, <1>b, <1>1, LookUpSafe DEF LookUpToken
<1>2. ASSUME NEW c \in Client, Repoint(c) PROVE Inv'
  BY <1>0, <1>a, <1>b, <1>2, RepointSafe DEF Repoint
<1>3. ASSUME NEW c \in Client, CreateToken(c) PROVE Inv'
  BY <1>0, <1>a, <1>b, <1>3, CreateSafe DEF CreateToken
<1>4. ASSUME NEW c \in Client, RegisterFails(c) PROVE Inv'
  BY <1>0, <1>a, <1>b, <1>4, FailSafe DEF RegisterFails
<1>5. ASSUME NEW u \in User, NEW d \in Device, UnregisterDevice(u, d) PROVE Inv'
  BY <1>0, <1>a, <1>b, <1>5, UnregisterSafe DEF UnregisterDevice
<1>6. ASSUME NEW t \in Task, Enqueue(t) PROVE Inv'
  <2>1. UNCHANGED registry /\ UNCHANGED <<late, starts, returned>>
    BY <1>6 DEF Enqueue, counts
  <2>2. QueueType' /\ InHand'
    BY <1>0, <1>6, EnqueueKeeps
  <2> QED BY <2>1, <2>2, <1>0, <1>a, <1>c, <1>d, <1>6, EnqueueCounted
<1>7. ASSUME NEW w \in Worker, NEW t \in Task, Start(w, t) PROVE Inv'
  <2>1. UNCHANGED registry
    BY <1>7 DEF Start
  <2>2. HistoryType'
    BY <1>0, <1>7 DEF Start, HistoryType
  <2>3. QueueType' /\ InHand'
    BY <1>0, <1>7, StartKeeps
  <2> QED BY <2>1, <2>2, <2>3, <1>0, <1>a, <1>c, <1>7, StartCounted
<1>8. ASSUME NEW w \in Worker, Mailed(w) PROVE Inv'
  <2>1. UNCHANGED registry /\ UNCHANGED <<tries, late, starts, returned>>
    BY <1>8 DEF Mailed, counts
  <2>2. QueueType' /\ InHand'
    BY <2>1, <1>0, <1>8, EndKeeps DEF Mailed, QueueType
  <2>3. Counted'
    BY <2>1, <1>0, <1>8, EndCounted DEF Mailed
  <2> QED BY <2>1, <2>2, <2>3, <1>a, <1>c, <1>d
<1>9. ASSUME NEW w \in Worker, NEW d \in Device, Sent(w, d) PROVE Inv'
  <2>1. UNCHANGED registry /\ UNCHANGED <<tries, late, starts, returned>> /\ UNCHANGED counts
    BY <1>9 DEF Sent, counts
  <2>2. QueueType' /\ InHand'
    BY <2>1, <1>0, <1>9, ServedKeeps DEF Sent
  <2>3. Counted'
    BY <2>1, <1>0, <1>9, ServedCounted DEF Sent
  <2> QED BY <2>1, <2>2, <2>3, <1>a, <1>c, <1>d
<1>10. ASSUME NEW w \in Worker, NEW d \in Device, Rejected(w, d) PROVE Inv'
  <2>1. RegistryType' /\ RegistrationHolds'
    BY <1>0, <1>10, RejectedSafe DEF Rejected, StruckOff
  <2>2. UNCHANGED <<tries, late, starts, returned>> /\ UNCHANGED counts
    BY <1>10 DEF Rejected, counts
  <2>3. QueueType' /\ InHand'
    BY <2>2, <1>0, <1>10, ServedKeeps DEF Rejected
  <2>4. Counted'
    BY <2>2, <1>0, <1>10, ServedCounted DEF Rejected
  <2> QED BY <2>1, <2>2, <2>3, <2>4, <1>a, <1>d
<1>11. ASSUME NEW w \in Worker, Unavailable(w) \/ CutOff(w) PROVE Inv'
  <2>1. Retried(w) /\ UNCHANGED registry /\ UNCHANGED <<starts, returned>>
    BY <1>11 DEF Unavailable, CutOff, StillDeleting, Retried
  <2>2. late' \subseteq Device
    BY <1>0, <1>11, HasTask DEF Unavailable, CutOff, StillDeleting, HistoryType
  <2>3. HistoryType'
    BY <1>0, <2>1, <2>2 DEF HistoryType
  <2>4. QueueType' /\ InHand'
    BY <1>0, <2>1, RetriedKeeps
  <2> QED BY <1>0, <1>a, <1>c, <2>1, <2>3, <2>4, RetriedCounted
<1>12. ASSUME NEW w \in Worker, HandBack(w) PROVE Inv'
  <2>1. /\ run[w] # Free /\ End(w, "waiting") /\ UNCHANGED <<tries, starts>>
        /\ returned' = [returned EXCEPT ![run[w].task] = @ + 1]
        /\ UNCHANGED registry
    BY <1>12 DEF HandBack, StillDeleting
  <2>2. Counted'
    BY <1>0, <2>1, EndCounted
  <2>3. QueueType' /\ HistoryType' /\ InHand'
    BY <1>0, <1>12, HandBackKeeps
  <2> QED BY <1>a, <1>c, <2>1, <2>2, <2>3
<1>13. ASSUME NEW d \in Device, DeletedLate(d) PROVE Inv'
  <2>1. RegistryType' /\ RegistrationHolds'
    BY <1>0, <1>13, RejectedSafe DEF DeletedLate, StruckOff
  <2>2. QueueType' /\ HistoryType' /\ InHand'
    BY <1>0, <1>13 DEF DeletedLate, counts, QueueType, HistoryType, InHand
  <2>3. Counted'
    BY <1>0, <1>13, SameCounted DEF DeletedLate
  <2> QED BY <1>a, <2>1, <2>2, <2>3
<1>14. CASE UNCHANGED vars
  BY <1>14, <1>a, <1>b, <1>c DEF vars, queue, registry
<1>15. ASSUME NEW w \in Worker, Deliver(w) PROVE Inv'
  BY <1>8, <1>9, <1>10, <1>11, <1>15, Zenon DEF Deliver
<1>16. CASE Next
  BY <1>1, <1>2, <1>3, <1>4, <1>5, <1>6, <1>7, <1>11, <1>12, <1>13, <1>15, <1>16, Zenon DEF Next
<1> QED BY <1>14, <1>16

LEMMA Invariance == Spec => []Inv
<1> QED BY InitInv, NextInv, PTL DEF Spec

(* Every state has its type: a running task is in the hands of exactly one *)
(* worker, no task is tried more often than MaxRetry allows.               *)
THEOREM TypeCorrect == Spec => []TypeOK
<1>1. Inv => TypeOK
  BY DEF Inv
<1> QED BY <1>1, Invariance, PTL

(* RegisterDevice, UnregisterDevice and a push that is rejected: a device  *)
(* stays with the user it was told of, for any number of users, devices    *)
(* and overlapping requests.                                               *)
THEOREM DevicesStay == Spec => []RegistrationHolds
<1>1. Inv => RegistrationHolds
  BY DEF Inv
<1> QED BY <1>1, Invariance, PTL

(* platform/queue.go:52-53: for any number of tasks, workers, failures,    *)
(* deaths and shutdowns, no task is started more than MaxRetry + 1 times   *)
(* besides the times it was handed back, nor given up before that.         *)
THEOREM TasksRunOut == Spec => []RunsBounded
<1>1. Inv => RunsBounded
  <2> SUFFICES ASSUME Inv, NEW t \in Task
               PROVE  /\ starts[t] <= MaxRetry + 1 + returned[t]
                      /\ state[t] = "archived" => starts[t] = MaxRetry + 1 + returned[t]
    BY DEF RunsBounded
  <2>1. tries[t] \in 0..MaxRetry /\ returned[t] \in Nat /\ starts[t] \in Nat
    BY TypeParts DEF Inv, QueueType, HistoryType
  <2>2. /\ starts[t] = tries[t] + returned[t] + (IF state[t] \in {"new", "waiting"} THEN 0 ELSE 1)
        /\ state[t] = "archived" => tries[t] = MaxRetry
    BY DEF Inv, Counted
  <2> QED BY <2>1, <2>2, BoundAssumption
<1> QED BY <1>1, Invariance, PTL

-----------------------------------------------------------------------------
(* Alerts.                                                                 *)

(* What an actor that does something does it about, and for whom.          *)
Aimed(s) ==
    /\ s.step \in {"resolve", "fan", "copy"} => s.now \in Subject
    /\ s.step = "copy" => s.now \in Copied
    /\ s.step = "fan" => \A task \in s.fan : task[2] \in Told[AlertOf[s.now]]

(* The workers that run a scan of a kind.                                  *)
Scanning(k) == {w \in Scanner : at[w].scan = k}

ScansBounded ==
    \A k \in Kind :
        queued[k] \in Nat /\ queued[k] + Cardinality(Scanning(k)) <= MaxScans + Cardinality(Scanner)

(* Only the decision on an order leaves a row for its raiser alone.        *)
OwnIsCopied == \A c \in Alert : open[c] = "own" => \E d \in Copied : AlertOf[d] = c

ActorsType ==
    /\ at \in [Actor -> ActorState]
    /\ \A a \in Actor : Aimed(at[a])
    /\ \A a \in Request : at[a].scan = "none"

(* notification.go:158-168: mail about what is due goes to the users of    *)
(* the roles it is for, and to nobody else.                                *)
OnlyToldAreMailed == \A m \in mailed : m[2] \in Told[m[1]] /\ Due(m[1])

TablesType ==
    /\ due \in SUBSET Watch
    /\ open \in [Alert -> Row]
    /\ mailed \in SUBSET (Alert \X Recipient)
    /\ faults \in 0..MaxFaults

AlertsInv ==
    /\ TablesType /\ OwnIsCopied /\ ActorsType
    /\ queued \in [Kind -> Nat] /\ ScansBounded
    /\ OnlyToldAreMailed

-----------------------------------------------------------------------------
(* The states of an actor.                                                 *)

LEMMA IdleState == Idle \in ActorState /\ Aimed(Idle) /\ Idle.scan = "none"
BY DEF Idle, ActorState, Aimed, Kind

LEMMA AlertTyped ==
    ASSUME NEW x \in Subject
    PROVE  AlertOf[x] \in Alert /\ Told[AlertOf[x]] \subseteq Recipient
BY AlertAssumption

(* The actor goes on with what is well aimed, and with its scan or none.   *)
Onward(s, t) == t \in ActorState /\ Aimed(t) /\ t.scan \in {s.scan, "none"}

LEMMA NextRowOnward ==
    ASSUME NEW s \in ActorState, NEW x PROVE Onward(s, NextRow(s, x))
<1>1. CASE s.todo \ {x} = {}
  BY <1>1, IdleState DEF NextRow, Onward
<1>2. CASE s.todo \ {x} # {}
  <2> DEFINE t == [s EXCEPT !.step = "raise", !.todo = @ \ {x}, !.now = Nothing, !.fan = {}]
  <2>1. t \in ActorState /\ t.step = "raise" /\ t.scan = s.scan
    BY DEF ActorState
  <2>2. NextRow(s, x) = t
    BY <1>2 DEF NextRow
  <2> QED BY <2>1, <2>2 DEF Onward, Aimed
<1> QED BY <1>1, <1>2

LEMMA AfterRaiseOnward ==
    ASSUME NEW s \in ActorState, NEW x \in Subject PROVE Onward(s, AfterRaise(s, x))
<1>1. CASE x \in Copied
  <2> DEFINE t == [s EXCEPT !.step = "copy", !.now = x, !.fan = {}]
  <2>1. t \in ActorState /\ t.step = "copy" /\ t.now = x /\ t.scan = s.scan
    BY DEF ActorState
  <2>2. AfterRaise(s, x) = t
    BY <1>1 DEF AfterRaise
  <2> QED BY <2>1, <2>2, <1>1 DEF Onward, Aimed
<1>2. CASE x \notin Copied
  BY <1>2, NextRowOnward DEF AfterRaise
<1> QED BY <1>1, <1>2

LEMMA TaskGoneOnward ==
    ASSUME NEW s \in ActorState, Aimed(s), s.step = "fan", NEW task
    PROVE  Onward(s, TaskGone(s, task))
<1>1. CASE s.fan = {task}
  <2>1. s.now \in Subject
    BY DEF Aimed
  <2> QED BY <1>1, <2>1, AfterRaiseOnward DEF TaskGone
<1>2. CASE s.fan # {task}
  <2> DEFINE t == [s EXCEPT !.fan = @ \ {task}]
  <2>1. /\ t \in ActorState /\ t.step = "fan" /\ t.now = s.now /\ t.scan = s.scan
        /\ t.fan \subseteq s.fan
    BY DEF ActorState
  <2>2. TaskGone(s, task) = t
    BY <1>2 DEF TaskGone
  <2> HIDE DEF t
  <2> QED BY <2>1, <2>2 DEF Onward, Aimed
<1> QED BY <1>1, <1>2

-----------------------------------------------------------------------------
(* The queue of the scans.                                                 *)

LEMMA ScanningFinite ==
    ASSUME NEW k
    PROVE  /\ IsFiniteSet(Scanning(k)) /\ Cardinality(Scanning(k)) \in Nat
           /\ Cardinality(Scanning(k)) <= Cardinality(Scanner)
           /\ Cardinality(Scanner) \in Nat
<1>1. Scanning(k) \subseteq Scanner /\ IsFiniteSet(Scanner)
  BY ActorAssumption DEF Scanning
<1> QED BY <1>1, FS_Subset, FS_CardinalityType

(* The workers in a scan are no more, one fewer or one more than before.   *)
LEMMA ScanningSame ==
    ASSUME NEW k, \A w \in Scanner : (at[w].scan = k)' <=> at[w].scan = k
    PROVE  Scanning(k)' = Scanning(k)
BY DEF Scanning

LEMMA ScanningFewer ==
    ASSUME NEW k, \A w \in Scanner : (at[w].scan = k)' => at[w].scan = k
    PROVE  Cardinality(Scanning(k)') <= Cardinality(Scanning(k))
           /\ Cardinality(Scanning(k)') \in Nat
<1>1. Scanning(k)' \subseteq Scanning(k)
  BY DEF Scanning
<1> QED BY <1>1, ScanningFinite, FS_Subset, FS_CardinalityType

LEMMA ScanningLess ==
    ASSUME NEW k, NEW a \in Scanner, at[a].scan = k, at'[a].scan # k,
           \A w \in Scanner : (at[w].scan = k)' => at[w].scan = k
    PROVE  Cardinality(Scanning(k)') + 1 <= Cardinality(Scanning(k))
           /\ Cardinality(Scanning(k)') \in Nat
<1>1. Scanning(k)' \subseteq Scanning(k) \ {a} /\ a \in Scanning(k)
  BY DEF Scanning
<1>2. /\ IsFiniteSet(Scanning(k) \ {a})
      /\ Cardinality(Scanning(k) \ {a}) = Cardinality(Scanning(k)) - 1
  BY <1>1, ScanningFinite, FS_RemoveElement
<1>3. /\ Cardinality(Scanning(k)') <= Cardinality(Scanning(k) \ {a})
      /\ IsFiniteSet(Scanning(k)')
  BY <1>1, <1>2, FS_Subset
<1> QED BY <1>2, <1>3, ScanningFinite, FS_CardinalityType

LEMMA ScanningMore ==
    ASSUME NEW k, NEW a \in Scanner,
           \A w \in Scanner \ {a} : (at[w].scan = k)' => at[w].scan = k
    PROVE  Cardinality(Scanning(k)') <= Cardinality(Scanning(k)) + 1
           /\ Cardinality(Scanning(k)') \in Nat
<1>1. Scanning(k)' \subseteq Scanning(k) \cup {a}
  BY DEF Scanning
<1>2. /\ IsFiniteSet(Scanning(k) \cup {a})
      /\ Cardinality(Scanning(k) \cup {a}) <= Cardinality(Scanning(k)) + 1
  <2>1. IsFiniteSet(Scanning(k)) /\ Cardinality(Scanning(k)) \in Nat
    BY ScanningFinite
  <2>2. /\ IsFiniteSet(Scanning(k) \cup {a})
        /\ \/ Cardinality(Scanning(k) \cup {a}) = Cardinality(Scanning(k))
           \/ Cardinality(Scanning(k) \cup {a}) = Cardinality(Scanning(k)) + 1
    BY <2>1, FS_AddElement
  <2> QED BY <2>1, <2>2
<1>3. /\ Cardinality(Scanning(k)') <= Cardinality(Scanning(k) \cup {a})
      /\ IsFiniteSet(Scanning(k)')
  BY <1>1, <1>2, FS_Subset
<1> QED BY <1>2, <1>3, ScanningFinite, FS_CardinalityType

(* An actor goes on with its own scan, or ends it, and the queue is left   *)
(* alone.                                                                  *)
LEMMA GoesOn ==
    ASSUME AlertsInv, NEW a \in Actor, NEW t, Onward(at[a], t),
           at' = [at EXCEPT ![a] = t], UNCHANGED queued
    PROVE  ActorsType' /\ queued' \in [Kind -> Nat] /\ ScansBounded'
<1>1. ActorsType'
  BY DEF AlertsInv, ActorsType, Onward
<1>2. ASSUME NEW k \in Kind, NEW w \in Scanner, at'[w].scan = k PROVE at[w].scan = k
  <2>1. k # "none"
    BY DEF Kind
  <2> QED BY <1>2, <2>1 DEF AlertsInv, ActorsType, Onward
<1>3. ASSUME NEW k \in Kind
      PROVE  queued'[k] \in Nat
             /\ queued'[k] + Cardinality(Scanning(k)') <= MaxScans + Cardinality(Scanner)
  <2>1. Cardinality(Scanning(k)') <= Cardinality(Scanning(k)) /\ Cardinality(Scanning(k)') \in Nat
    BY <1>2, ScanningFewer
  <2>2. queued'[k] = queued[k] /\ queued[k] \in Nat
        /\ queued[k] + Cardinality(Scanning(k)) <= MaxScans + Cardinality(Scanner)
    BY DEF AlertsInv, ScansBounded
  <2> QED BY <2>1, <2>2, ScanningFinite, FaultAssumption
<1>4. ScansBounded'
  BY <1>3 DEF ScansBounded
<1> QED BY <1>1, <1>4 DEF AlertsInv

(* Actors at rest leave the queue as it is.                                *)
LEMMA AtRest ==
    ASSUME AlertsInv, UNCHANGED at
    PROVE  ActorsType' /\ \A k \in Kind : Scanning(k)' = Scanning(k)
BY ScanningSame DEF AlertsInv, ActorsType

LEMMA QueueAtRest ==
    ASSUME AlertsInv, UNCHANGED <<at, queued>>
    PROVE  ActorsType' /\ queued' \in [Kind -> Nat] /\ ScansBounded'
BY AtRest DEF AlertsInv, ScansBounded

-----------------------------------------------------------------------------
(* The tables.                                                             *)

LEMMA BecomeKeeps ==
    ASSUME AlertsInv, NEW set \in SUBSET Watch, Become(set), UNCHANGED <<open, faults>>
    PROVE  TablesType' /\ OwnIsCopied' /\ OnlyToldAreMailed'
<1>1. due' = set /\ mailed' = {m \in mailed : \E x \in set : AlertOf[x] = m[1]}
  BY DEF Become
<1>2. TablesType' /\ OwnIsCopied'
  BY <1>1 DEF AlertsInv, TablesType, OwnIsCopied
<1>3. OnlyToldAreMailed'
  BY <1>1 DEF AlertsInv, OnlyToldAreMailed, Due
<1> QED BY <1>2, <1>3

(* A call that fails or not changes no table but the count of failures.    *)
LEMMA TablesAtRest ==
    ASSUME AlertsInv, UNCHANGED <<due, open, mailed>>, Fault \/ Fine
    PROVE  TablesType' /\ OwnIsCopied' /\ OnlyToldAreMailed'
<1>1. faults' \in 0..MaxFaults
  BY FaultAssumption DEF AlertsInv, TablesType, Fault, Fine
<1>2. OnlyToldAreMailed'
  BY DEF AlertsInv, OnlyToldAreMailed, Due
<1> QED BY <1>1, <1>2 DEF AlertsInv, TablesType, OwnIsCopied

LEMMA AlertsInvParts ==
    ASSUME TablesType', OwnIsCopied', OnlyToldAreMailed',
           ActorsType', queued' \in [Kind -> Nat], ScansBounded'
    PROVE  AlertsInv'
BY DEF AlertsInv

-----------------------------------------------------------------------------
(* The steps.                                                              *)

LEMMA AlertsStart == AlertsInit => AlertsInv
<1> SUFFICES ASSUME AlertsInit PROVE AlertsInv
  OBVIOUS
<1>1. TablesType /\ OwnIsCopied /\ OnlyToldAreMailed
  BY FaultAssumption DEF AlertsInit, TablesType, OwnIsCopied, OnlyToldAreMailed, Row
<1>2. ActorsType
  BY IdleState DEF AlertsInit, ActorsType, Actor
<1>3. ASSUME NEW k \in Kind
      PROVE  queued[k] \in Nat
             /\ queued[k] + Cardinality(Scanning(k)) <= MaxScans + Cardinality(Scanner)
  <2>1. queued[k] = 0
    BY DEF AlertsInit
  <2> QED BY <2>1, ScanningFinite, FaultAssumption
<1>4. queued \in [Kind -> Nat] /\ ScansBounded
  BY <1>3 DEF AlertsInit, ScansBounded
<1> QED BY <1>1, <1>2, <1>4 DEF AlertsInv

LEMMA ChangeKeeps == ASSUME AlertsInv, NEW x \in Watch, Change(x) PROVE AlertsInv'
<1>1. /\ (IF x \in due THEN due \ {x} ELSE due \cup {x}) \in SUBSET Watch
      /\ due \in SUBSET Watch
  BY DEF AlertsInv, TablesType
<1>2. PICK set \in SUBSET Watch : Become(set)
  BY <1>1 DEF Change
<1> QED BY <1>2, BecomeKeeps, QueueAtRest, AlertsInvParts DEF Change

LEMMA MovedKeeps ==
    ASSUME AlertsInv, NEW a \in Request, NEW x \in Spot, Moved(a, x) PROVE AlertsInv'
<1>1. (due \cup {x}) \in SUBSET Watch /\ (due \ {x}) \in SUBSET Watch
  BY DEF AlertsInv, TablesType, Watch
<1>2. PICK set \in SUBSET Watch : Become(set)
  BY <1>1 DEF Moved
<1> DEFINE t == [Idle EXCEPT !.step = "check", !.now = x]
<1>3. t \in ActorState /\ t.step = "check" /\ t.scan = "none"
  BY DEF Idle, ActorState, Kind, Subject, Watch
<1>4. Onward(at[a], t)
  BY <1>3 DEF Onward, Aimed
<1>5. at' = [at EXCEPT ![a] = t] /\ UNCHANGED <<open, queued, faults>>
  BY DEF Moved
<1> HIDE DEF t
<1>6. ActorsType' /\ queued' \in [Kind -> Nat] /\ ScansBounded'
  BY <1>4, <1>5, GoesOn DEF Actor
<1> QED BY <1>2, <1>5, <1>6, BecomeKeeps, AlertsInvParts

(* An actor that goes on and changes no table.                             *)
LEMMA OnlyGoesOn ==
    ASSUME AlertsInv, NEW a \in Actor, NEW t, Onward(at[a], t),
           at' = [at EXCEPT ![a] = t], UNCHANGED <<due, open, queued, mailed>>, Fault \/ Fine
    PROVE  AlertsInv'
BY GoesOn, TablesAtRest, AlertsInvParts

LEMMA TypedActor ==
    ASSUME AlertsInv, NEW a \in Actor PROVE at[a] \in ActorState /\ Aimed(at[a])
BY DEF AlertsInv, ActorsType

LEMMA CheckKeeps == ASSUME AlertsInv, NEW a \in Actor, CheckLowStock(a) PROVE AlertsInv'
<1> DEFINE r == [Idle EXCEPT !.step = "raise", !.todo = {at[a].now}]
           t == IF at[a].now \in due THEN r ELSE Idle
<1>1. at[a].now \in due => r \in ActorState /\ r.step = "raise" /\ r.scan = "none"
  BY DEF AlertsInv, TablesType, Idle, ActorState, Kind, Subject
<1>2. Onward(at[a], t)
  BY <1>1, IdleState DEF Onward, Aimed
<1>3. at' = [at EXCEPT ![a] = t] /\ UNCHANGED <<due, open, queued, mailed>> /\ UNCHANGED faults
  BY DEF CheckLowStock
<1> HIDE DEF t
<1> QED BY <1>2, <1>3, OnlyGoesOn DEF Fine

LEMMA AnnounceKeeps ==
    ASSUME AlertsInv, NEW a \in Request, NEW d \in Document, Announce(a, d) PROVE AlertsInv'
<1> DEFINE t == [Idle EXCEPT !.step = "raise", !.todo = {d}]
<1>1. t \in ActorState /\ t.step = "raise" /\ t.scan = "none"
  BY DEF Idle, ActorState, Kind, Subject
<1>2. Onward(at[a], t)
  BY <1>1 DEF Onward, Aimed
<1>3. at' = [at EXCEPT ![a] = t] /\ UNCHANGED <<due, open, queued, mailed>> /\ UNCHANGED faults
  BY DEF Announce
<1> HIDE DEF t
<1> QED BY <1>2, <1>3, OnlyGoesOn DEF Fine, Actor

LEMMA InsertKeeps ==
    ASSUME AlertsInv, NEW a \in Actor, NEW x \in Subject, Insert(a, x) PROVE AlertsInv'
<1> DEFINE t == [at[a] EXCEPT !.step = "resolve", !.now = x]
<1>1. t \in ActorState /\ t.step = "resolve" /\ t.now = x /\ t.scan = at[a].scan
  BY TypedActor DEF ActorState
<1>2. Onward(at[a], t)
  BY <1>1 DEF Onward, Aimed
<1>3. at' = [at EXCEPT ![a] = t] /\ UNCHANGED <<due, queued, mailed>> /\ Fine
      /\ open' = [open EXCEPT ![AlertOf[x]] = "all"]
  BY DEF Insert
<1> HIDE DEF t
<1>4. ActorsType' /\ queued' \in [Kind -> Nat] /\ ScansBounded'
  BY <1>2, <1>3, GoesOn
<1>5. TablesType' /\ OwnIsCopied'
  BY <1>3, AlertTyped DEF AlertsInv, TablesType, OwnIsCopied, Row, Fine
<1>6. OnlyToldAreMailed'
  BY <1>3 DEF AlertsInv, OnlyToldAreMailed, Due
<1> QED BY <1>4, <1>5, <1>6, AlertsInvParts

LEMMA SuppressedKeeps ==
    ASSUME AlertsInv, NEW a \in Actor, NEW x \in Subject, Suppressed(a, x) \/ InsertFails(a, x)
    PROVE  AlertsInv'
<1> DEFINE t == AfterRaise(at[a], x)
<1>1. Onward(at[a], t)
  BY TypedActor, AfterRaiseOnward
<1>2. at' = [at EXCEPT ![a] = t] /\ UNCHANGED <<due, open, queued, mailed>> /\ (Fault \/ Fine)
  BY DEF Suppressed, InsertFails
<1> HIDE DEF t
<1> QED BY <1>1, <1>2, OnlyGoesOn

LEMMA ResolveKeeps == ASSUME AlertsInv, NEW a \in Actor, Resolve(a) PROVE AlertsInv'
<1> DEFINE x == at[a].now
           fan == Channels(x) \X Recipients(AlertOf[x])
           f == [at[a] EXCEPT !.step = "fan", !.fan = fan]
           t == IF fan = {} THEN AfterRaise(at[a], x) ELSE f
<1>1. x \in Subject
  BY TypedActor DEF Resolve, Aimed
<1>2. fan \in SUBSET ({"email", "push"} \X Recipient)
      /\ \A task \in fan : task[2] \in Told[AlertOf[x]]
  BY <1>1, AlertTyped DEF Channels, Recipients
<1>3. f \in ActorState /\ f.step = "fan" /\ f.now = x /\ f.fan = fan /\ f.scan = at[a].scan
  <2> HIDE DEF fan
  <2> QED BY <1>2, TypedActor DEF ActorState
<1>4. Onward(at[a], f)
  <2> HIDE DEF f, fan
  <2> QED BY <1>1, <1>2, <1>3 DEF Onward, Aimed
<1>5. Onward(at[a], t)
  BY <1>1, <1>4, TypedActor, AfterRaiseOnward
<1>6. at' = [at EXCEPT ![a] = t] /\ UNCHANGED <<due, open, queued, mailed>> /\ Fine
  BY DEF Resolve
<1> HIDE DEF t
<1> QED BY <1>5, <1>6, OnlyGoesOn

LEMMA ResolveFailsKeeps == ASSUME AlertsInv, NEW a \in Actor, ResolveFails(a) PROVE AlertsInv'
<1> DEFINE t == AfterRaise(at[a], at[a].now)
<1>1. at[a].now \in Subject
  BY TypedActor DEF ResolveFails, Aimed
<1>2. Onward(at[a], t)
  BY <1>1, TypedActor, AfterRaiseOnward
<1>3. at' = [at EXCEPT ![a] = t] /\ UNCHANGED <<due, open, queued, mailed>> /\ Fault
  BY DEF ResolveFails
<1> HIDE DEF t
<1> QED BY <1>2, <1>3, OnlyGoesOn

LEMMA QueueTaskKeeps ==
    ASSUME AlertsInv, NEW a \in Actor, NEW task \in {"email", "push"} \X Recipient,
           QueueTask(a, task)
    PROVE  AlertsInv'
<1> DEFINE t == TaskGone(at[a], task)
           c == AlertOf[at[a].now]
<1>1. at[a].step = "fan" /\ task \in at[a].fan
  BY DEF QueueTask, Ready
<1>2. c \in Alert /\ task[2] \in Told[c] /\ task[2] \in Recipient
  <2>1. at[a].now \in Subject
    BY <1>1, TypedActor DEF Aimed
  <2> QED BY <2>1, <1>1, TypedActor, AlertTyped DEF Aimed
<1>3. Onward(at[a], t)
  BY <1>1, TypedActor, TaskGoneOnward
<1>4. /\ at' = [at EXCEPT ![a] = t] /\ UNCHANGED <<due, open, queued>> /\ Fine
      /\ \/ Due(c) /\ mailed' = mailed \cup {<<c, task[2]>>}
         \/ UNCHANGED mailed
  BY DEF QueueTask
<1> HIDE DEF t, c
<1>5. ActorsType' /\ queued' \in [Kind -> Nat] /\ ScansBounded'
  BY <1>3, <1>4, GoesOn
<1>6. TablesType' /\ OwnIsCopied'
  BY <1>2, <1>4 DEF AlertsInv, TablesType, OwnIsCopied, Fine
<1>7. OnlyToldAreMailed'
  <2>1. ASSUME NEW m \in mailed' PROVE m \in mailed \/ (m = <<c, task[2]>> /\ Due(c))
    BY <1>4
  <2>2. ASSUME NEW m \in mailed' PROVE m[2] \in Told[m[1]] /\ Due(m[1])
    BY <2>1, <1>2 DEF AlertsInv, OnlyToldAreMailed
  <2>3. due' = due
    BY <1>4
  <2> QED BY <2>2, <2>3 DEF OnlyToldAreMailed, Due
<1> QED BY <1>5, <1>6, <1>7, AlertsInvParts

LEMMA DroppedKeeps ==
    ASSUME AlertsInv, NEW a \in Actor, NEW task \in {"email", "push"} \X Recipient,
           Dropped(a, task)
    PROVE  AlertsInv'
<1> DEFINE t == TaskGone(at[a], task)
<1>1. Onward(at[a], t)
  BY TypedActor, TaskGoneOnward DEF Dropped
<1>2. at' = [at EXCEPT ![a] = t] /\ UNCHANGED <<due, open, queued, mailed>> /\ Fault
  BY DEF Dropped
<1> HIDE DEF t
<1> QED BY <1>1, <1>2, OnlyGoesOn

LEMMA CopyKeeps == ASSUME AlertsInv, NEW a \in Actor, RaiseForUser(a) PROVE AlertsInv'
<1> DEFINE t == NextRow(at[a], at[a].now)
           c == AlertOf[at[a].now]
<1>1. at[a].now \in Copied /\ at[a].now \in Subject
  BY TypedActor DEF RaiseForUser, Aimed
<1>2. Onward(at[a], t)
  BY TypedActor, NextRowOnward
<1>3. /\ at' = [at EXCEPT ![a] = t] /\ UNCHANGED <<due, queued, mailed>> /\ Fine
      /\ open' = [open EXCEPT ![c] = IF NoneOpen(c) THEN "own" ELSE @]
  BY DEF RaiseForUser
<1>4. c \in Alert /\ \E d \in Copied : AlertOf[d] = c
  BY <1>1, AlertTyped
<1> HIDE DEF t, c
<1>5. ActorsType' /\ queued' \in [Kind -> Nat] /\ ScansBounded'
  BY <1>2, <1>3, GoesOn
<1>6. TablesType' /\ OwnIsCopied'
  BY <1>3, <1>4 DEF AlertsInv, TablesType, OwnIsCopied, Row, Fine
<1>7. OnlyToldAreMailed'
  BY <1>3 DEF AlertsInv, OnlyToldAreMailed, Due
<1> QED BY <1>5, <1>6, <1>7, AlertsInvParts

LEMMA ReadKeeps ==
    ASSUME AlertsInv, MarkAllRead \/ \E c \in Alert : MarkRead(c) PROVE AlertsInv'
<1>1. UNCHANGED <<due, queued, at, mailed, faults>>
  BY DEF MarkAllRead, MarkRead
<1>2. open' \in [Alert -> Row] /\ \A c \in Alert : open'[c] = "own" => open[c] = "own"
  BY DEF AlertsInv, TablesType, Row, MarkAllRead, MarkRead
<1>3. TablesType' /\ OwnIsCopied' /\ OnlyToldAreMailed'
  BY <1>1, <1>2 DEF AlertsInv, TablesType, OwnIsCopied, OnlyToldAreMailed, Due
<1> QED BY <1>1, <1>3, QueueAtRest, AlertsInvParts

LEMMA ScheduleKeeps == ASSUME AlertsInv, NEW k \in Kind, Schedule(k) PROVE AlertsInv'
<1>1. queued[k] < MaxScans /\ queued' = [queued EXCEPT ![k] = @ + 1]
      /\ UNCHANGED <<due, open, at, mailed, faults>>
  BY DEF Schedule
<1>2. queued \in [Kind -> Nat] /\ ScansBounded
  BY DEF AlertsInv
<1>3. ActorsType' /\ \A j \in Kind : Scanning(j)' = Scanning(j)
  BY <1>1, AtRest
<1>4. ASSUME NEW j \in Kind
      PROVE  queued'[j] \in Nat
             /\ queued'[j] + Cardinality(Scanning(j)') <= MaxScans + Cardinality(Scanner)
  <2>1. queued'[j] = IF j = k THEN queued[k] + 1 ELSE queued[j]
    BY <1>1, <1>2
  <2>2. Cardinality(Scanning(j)') = Cardinality(Scanning(j))
    BY <1>3
  <2> QED BY <2>1, <2>2, <1>1, <1>2, ScanningFinite, FaultAssumption DEF ScansBounded
<1>5. queued' \in [Kind -> Nat] /\ ScansBounded'
  BY <1>1, <1>2, <1>4 DEF ScansBounded
<1>6. TablesType' /\ OwnIsCopied' /\ OnlyToldAreMailed'
  BY <1>1, TablesAtRest DEF Fine
<1> QED BY <1>3, <1>5, <1>6, AlertsInvParts

LEMMA ScanFailsKeeps == ASSUME AlertsInv, NEW k \in Kind, ScanFails(k) PROVE AlertsInv'
<1>1. queued[k] > 0 /\ queued' = [queued EXCEPT ![k] = @ - 1]
      /\ UNCHANGED <<due, open, at, mailed>> /\ Fault
  BY DEF ScanFails
<1>2. queued \in [Kind -> Nat] /\ ScansBounded
  BY DEF AlertsInv
<1>3. ActorsType' /\ \A j \in Kind : Scanning(j)' = Scanning(j)
  BY <1>1, AtRest
<1>4. ASSUME NEW j \in Kind
      PROVE  queued'[j] \in Nat
             /\ queued'[j] + Cardinality(Scanning(j)') <= MaxScans + Cardinality(Scanner)
  <2>1. queued'[j] = IF j = k THEN queued[k] - 1 ELSE queued[j]
    BY <1>1, <1>2
  <2>2. Cardinality(Scanning(j)') = Cardinality(Scanning(j))
    BY <1>3
  <2> QED BY <2>1, <2>2, <1>1, <1>2, ScanningFinite, FaultAssumption DEF ScansBounded
<1>5. queued' \in [Kind -> Nat] /\ ScansBounded'
  BY <1>1, <1>2, <1>4 DEF ScansBounded
<1>6. TablesType' /\ OwnIsCopied' /\ OnlyToldAreMailed'
  BY <1>1, TablesAtRest
<1> QED BY <1>3, <1>5, <1>6, AlertsInvParts

(* A worker takes a scan out of the queue and may run it.                  *)
LEMMA ScanKeeps ==
    ASSUME AlertsInv, NEW w \in Scanner, NEW k \in Kind, Scan(w, k) PROVE AlertsInv'
<1> DEFINE r == [Idle EXCEPT !.step = "raise", !.scan = k, !.todo = Scanned(k)]
           t == IF Scanned(k) = {} THEN Idle ELSE r
<1>1. /\ queued[k] > 0 /\ queued' = [queued EXCEPT ![k] = @ - 1]
      /\ at' = [at EXCEPT ![w] = t] /\ UNCHANGED <<due, open, mailed, faults>>
  BY DEF Scan
<1>2. queued \in [Kind -> Nat] /\ ScansBounded
  BY DEF AlertsInv
<1>3. r \in ActorState /\ r.step = "raise" /\ r.scan = k
  <2>1. Scanned(k) \in SUBSET Subject
    BY DEF Scanned, AlertsInv, TablesType, Subject
  <2> QED BY <2>1 DEF Idle, ActorState, Kind
<1>4. t \in ActorState /\ Aimed(t) /\ t.scan \in {k, "none"}
  BY <1>3, IdleState DEF Aimed
<1> HIDE DEF r, t
<1>5. w \in Actor /\ w \notin Request
  BY ActorAssumption DEF Actor
<1>6. ActorsType'
  BY <1>1, <1>4, <1>5 DEF AlertsInv, ActorsType
<1>7. ASSUME NEW j \in Kind, NEW v \in Scanner, at'[v].scan = j, v # w \/ j # k
      PROVE  at[v].scan = j
  <2>1. j # "none" /\ v \in Actor
    BY DEF Kind, Actor
  <2> QED BY <1>1, <1>4, <1>7, <2>1, <1>5 DEF AlertsInv, ActorsType
<1>8. ASSUME NEW j \in Kind
      PROVE  queued'[j] \in Nat
             /\ queued'[j] + Cardinality(Scanning(j)') <= MaxScans + Cardinality(Scanner)
  <2>1. queued'[j] = IF j = k THEN queued[k] - 1 ELSE queued[j]
    BY <1>1, <1>2
  <2>2. CASE j = k
    <3>1. /\ Cardinality(Scanning(j)') <= Cardinality(Scanning(j)) + 1
          /\ Cardinality(Scanning(j)') \in Nat
      BY <1>7, ScanningMore
    <3> QED BY <2>1, <2>2, <3>1, <1>1, <1>2, ScanningFinite, FaultAssumption DEF ScansBounded
  <2>3. CASE j # k
    <3>1. /\ Cardinality(Scanning(j)') <= Cardinality(Scanning(j))
          /\ Cardinality(Scanning(j)') \in Nat
      BY <1>7, <2>3, ScanningFewer
    <3> QED BY <2>1, <2>3, <3>1, <1>1, <1>2, ScanningFinite, FaultAssumption DEF ScansBounded
  <2> QED BY <2>2, <2>3
<1>9. queued' \in [Kind -> Nat] /\ ScansBounded'
  BY <1>1, <1>2, <1>8 DEF ScansBounded
<1>10. TablesType' /\ OwnIsCopied' /\ OnlyToldAreMailed'
  BY <1>1, TablesAtRest DEF Fine
<1> QED BY <1>6, <1>9, <1>10, AlertsInvParts

(* The scan of a worker that dies is queued again.                         *)
LEMMA DieKeeps == ASSUME AlertsInv, NEW a \in Actor, Die(a) PROVE AlertsInv'
<1>1. /\ at' = [at EXCEPT ![a] = Idle] /\ UNCHANGED <<due, open, mailed>> /\ Fault
      /\ queued' = [k \in Kind |-> IF at[a].scan = k THEN queued[k] + 1 ELSE queued[k]]
  BY DEF Die
<1>2. queued \in [Kind -> Nat] /\ ScansBounded
  BY DEF AlertsInv
<1>3. ActorsType'
  BY <1>1, IdleState DEF AlertsInv, ActorsType, Actor
<1>4. ASSUME NEW j \in Kind, NEW v \in Scanner, at'[v].scan = j
      PROVE  at[v].scan = j /\ v # a
  <2>1. j # "none" /\ v \in Actor
    BY DEF Kind, Actor
  <2> QED BY <1>1, <1>4, <2>1, IdleState DEF AlertsInv, ActorsType
<1>5. ASSUME NEW j \in Kind
      PROVE  queued'[j] \in Nat
             /\ queued'[j] + Cardinality(Scanning(j)') <= MaxScans + Cardinality(Scanner)
  <2>1. CASE at[a].scan = j
    <3>1. a \in Scanner
      <4>1. j # "none"
        BY DEF Kind
      <4> QED BY <2>1, <4>1 DEF AlertsInv, ActorsType, Actor
    <3>2. at'[a].scan # j
      <4>1. j # "none"
        BY DEF Kind
      <4> QED BY <1>1, <4>1, IdleState DEF AlertsInv, ActorsType
    <3>3. /\ Cardinality(Scanning(j)') + 1 <= Cardinality(Scanning(j))
          /\ Cardinality(Scanning(j)') \in Nat
      BY <2>1, <3>1, <3>2, <1>4, ScanningLess
    <3>4. queued'[j] = queued[j] + 1
      BY <1>1, <2>1
    <3> QED BY <3>3, <3>4, <1>2, ScanningFinite, FaultAssumption DEF ScansBounded
  <2>2. CASE at[a].scan # j
    <3>1. /\ Cardinality(Scanning(j)') <= Cardinality(Scanning(j))
          /\ Cardinality(Scanning(j)') \in Nat
      BY <1>4, ScanningFewer
    <3>2. queued'[j] = queued[j]
      BY <1>1, <2>2
    <3> QED BY <3>1, <3>2, <1>2, ScanningFinite, FaultAssumption DEF ScansBounded
  <2> QED BY <2>1, <2>2
<1>6. queued' \in [Kind -> Nat] /\ ScansBounded'
  BY <1>1, <1>5 DEF ScansBounded
<1>7. TablesType' /\ OwnIsCopied' /\ OnlyToldAreMailed'
  BY <1>1, TablesAtRest
<1> QED BY <1>3, <1>6, <1>7, AlertsInvParts

LEMMA AlertsStep == AlertsInv /\ [AlertsNext]_alerts => AlertsInv'
<1> SUFFICES ASSUME AlertsInv, [AlertsNext]_alerts PROVE AlertsInv'
  OBVIOUS
<1>1. ASSUME NEW a \in Actor, Work(a) PROVE AlertsInv'
  BY <1>1, CheckKeeps, InsertKeeps, SuppressedKeeps, ResolveKeeps, QueueTaskKeeps, CopyKeeps
     DEF Work
<1>2. ASSUME NEW a \in Actor, Fail(a) PROVE AlertsInv'
  BY <1>2, SuppressedKeeps, ResolveFailsKeeps, DroppedKeeps, DieKeeps DEF Fail
<1>3. CASE UNCHANGED alerts
  <2>1. UNCHANGED <<due, open, queued, at, mailed, faults>>
    BY <1>3 DEF alerts
  <2> QED BY <2>1, QueueAtRest, TablesAtRest, AlertsInvParts DEF Fine
<1> QED BY <1>1, <1>2, <1>3, ChangeKeeps, MovedKeeps, AnnounceKeeps, ReadKeeps, ScheduleKeeps,
           ScanFailsKeeps, ScanKeeps DEF AlertsNext

LEMMA AlertsInvariance == AlertsSpec => []AlertsInv
<1> QED BY AlertsStart, AlertsStep, PTL DEF AlertsSpec

(* The scans and Raise: every state has its type for any number of         *)
(* requests, workers, alerts and faults.  However many workers die and     *)
(* hand their scans back, the copies of a scan in the queue do not exceed  *)
(* those the schedulers put there by one for each worker, and no row that  *)
(* is for one user alone is ever left for a low product or a batch.        *)
THEOREM AlertsTypeCorrect == AlertsSpec => []AlertsTypeOK
<1>1. ASSUME AlertsInv, NEW k \in Kind PROVE queued[k] \in 0..(MaxScans + Cardinality(Scanner))
  BY <1>1, ScanningFinite, FaultAssumption DEF AlertsInv, ScansBounded
<1>2. AlertsInv => AlertsTypeOK
  BY <1>1 DEF AlertsInv, TablesType, OwnIsCopied, ActorsType, AlertsTypeOK
<1> QED BY <1>2, AlertsInvariance, PTL

(* Raise and recipients (notification.go:133-168): between the alert and   *)
(* its tasks the actor may be overtaken by changes of stock, by readers,   *)
(* by other scans and by deaths; still, mail about a low product or a      *)
(* batch is only kept on record for the users of the roles it is for, and  *)
(* as long as its cause lasts.                                             *)
THEOREM OnlyTheToldAreMailed == AlertsSpec => []OnlyToldAreMailed
<1>1. AlertsInv => OnlyToldAreMailed
  BY DEF AlertsInv
<1> QED BY <1>1, AlertsInvariance, PTL
=============================================================================
