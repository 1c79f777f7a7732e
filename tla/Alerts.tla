------------------------------- MODULE Alerts -------------------------------
(***************************************************************************)
(* In-app alerts and the tasks that carry them out of the app              *)
(* (notification/notification.go, events.go, worker.go, platform/queue.go, *)
(* cmd/worker/main.go).                                                    *)
(*                                                                         *)
(* Raise writes one row and then, statement by statement and in no         *)
(* transaction, looks for the recipients and queues a task for each.  It   *)
(* is called by requests after their COMMIT and by the hourly and daily    *)
(* scans of the workers.  A unique index over the unread rows keeps one    *)
(* alert per cause; what a failure or a death leaves out after the row was *)
(* written is made up for, if at all, by a later scan.                     *)
(*                                                                         *)
(* What becomes of a queued task is Delivery's.  The workers that run the  *)
(* scans are Delivery's too; each module has names of its own, so that one *)
(* module may extend both.                                                 *)
(***************************************************************************)
EXTENDS Naturals, FiniteSets

CONSTANTS
    Request, Scanner,   \* processes that raise alerts; the workers run the scans
    Spot,            \* a product in a warehouse, with a minimum
    Lot,             \* a batch with an expiry date
    Document,        \* an event of a document: a decision, a submission, a return
    Copied,          \* the decisions on an order whose raiser is known
    Returned,        \* the requests for a return, which are not pushed
    Alert,           \* keys of the open-alert index: type and entity
    AlertOf,         \* the key of an alert about a spot, a lot or a document
    Recipient, Told, \* active users, and those in the roles an alert is for
    Nothing,         \* no subject
    MaxScans,        \* bound: copies of a scan that wait in the queue
    MaxFaults        \* bound: calls that fail and processes that die

Watch == Spot \cup Lot
Subject == Watch \cup Document
Kind == {"low", "expiry"}

ASSUME SubjectAssumption ==
    /\ Spot \cap Lot = {} /\ Watch \cap Document = {}
    /\ Nothing \notin Subject
    /\ Copied \subseteq Document /\ Returned \subseteq Document
ASSUME AlertAssumption ==
    /\ AlertOf \in [Subject -> Alert]
    /\ Told \in [Alert -> SUBSET Recipient]
    /\ \A x \in Watch, d \in Document : AlertOf[x] # AlertOf[d]
ASSUME ActorAssumption == Request \cap Scanner = {} /\ IsFiniteSet(Scanner)
ASSUME FaultAssumption == MaxScans \in Nat \ {0} /\ MaxFaults \in Nat

Actor == Request \cup Scanner

VARIABLES
    due,     \* spots at or below the minimum, lots that expire with stock left
    open,    \* the unread row of a key: for everyone, for the raiser, or none
    queued,  \* scan tasks in Redis
    at,      \* what an actor is doing
    mailed,  \* history: whose mail about what was queued since it became due
    faults   \* calls that failed so far

alerts == <<due, open, queued, at, mailed, faults>>
-----------------------------------------------------------------------------
Row == {"none", "all", "own"}

Idle == [step |-> "idle", scan |-> "none", todo |-> {}, now |-> Nothing, fan |-> {}]

ActorState ==
    [step : {"idle", "check", "raise", "resolve", "fan", "copy"},
     scan : Kind \cup {"none"}, todo : SUBSET Subject,
     now : Subject \cup {Nothing}, fan : SUBSET ({"email", "push"} \X Recipient)]

Due(c) == \E x \in due : AlertOf[x] = c

AlertsInit ==
    /\ due \in SUBSET Watch
    /\ open = [c \in Alert |-> "none"]
    /\ queued = [k \in Kind |-> 0]
    /\ at = [a \in Actor |-> Idle]
    /\ mailed = {}
    /\ faults = 0

Fault == faults < MaxFaults /\ faults' = faults + 1
Fine == faults' = faults

Become(set) ==
    /\ due' = set
    /\ mailed' = {m \in mailed : \E x \in set : AlertOf[x] = m[1]}
-----------------------------------------------------------------------------
(* What alerts are about.                                                  *)

(* Stock moves by a request that does not check it (a shipment, a receipt, *)
(* a count), a minimum is edited, or days pass.                            *)
Change(x) ==
    /\ Become(IF x \in due THEN due \ {x} ELSE due \cup {x})
    /\ UNCHANGED <<open, queued, at, faults>>

(* Adjust or DispatchTransfer has committed, and will check the stock.     *)
Moved(a, x) ==
    /\ at[a] = Idle
    /\ \/ Become(due \cup {x})
       \/ Become(due \ {x})
    /\ at' = [at EXCEPT ![a] = [Idle EXCEPT !.step = "check", !.now = x]]
    /\ UNCHANGED <<open, queued, faults>>

(* The sum and the minimum are read now, by a statement of their own.      *)
CheckLowStock(a) ==
    /\ at[a].step = "check"
    /\ at' = [at EXCEPT ![a] =
         IF at[a].now \in due THEN [Idle EXCEPT !.step = "raise", !.todo = {at[a].now}]
                              ELSE Idle]
    /\ UNCHANGED <<due, open, queued, mailed, faults>>

(* POPendingApproval, PODecided or ReturnRequested, after a COMMIT.        *)
Announce(a, d) ==
    /\ at[a] = Idle
    /\ at' = [at EXCEPT ![a] = [Idle EXCEPT !.step = "raise", !.todo = {d}]]
    /\ UNCHANGED <<due, open, queued, mailed, faults>>
-----------------------------------------------------------------------------
(* Raise.                                                                  *)

Recipients(c) == Told[c]

(* Mutant of Channels: the flags of a return and of the rest are swapped.  *)
ChannelsSwapped(x) == IF x \in Returned THEN {"email", "push"} ELSE {"push"}

Channels(x) == IF x \in Returned THEN {"email"} ELSE {"email", "push"}

(* The next row of the scan, if any; a request has only one.               *)
NextRow(s, x) ==
    IF s.todo \ {x} = {} THEN Idle
    ELSE [s EXCEPT !.step = "raise", !.todo = @ \ {x}, !.now = Nothing, !.fan = {}]

(* Mutant of AfterRaise: every event is copied to somebody.                *)
CopiesEvery(s, x) == [s EXCEPT !.step = "copy", !.now = x, !.fan = {}]

(* Raise returns nothing to its caller, whatever it met.                   *)
AfterRaise(s, x) ==
    IF x \in Copied THEN [s EXCEPT !.step = "copy", !.now = x, !.fan = {}]
    ELSE NextRow(s, x)

(* The unique index covers the unread rows of a key, whoever they are for. *)
NoneOpen(c) == open[c] = "none"

Insert(a, x) ==
    /\ at[a].step = "raise" /\ x \in at[a].todo
    /\ NoneOpen(AlertOf[x])
    /\ open' = [open EXCEPT ![AlertOf[x]] = "all"]
    /\ at' = [at EXCEPT ![a] = [@ EXCEPT !.step = "resolve", !.now = x]]
    /\ Fine
    /\ UNCHANGED <<due, queued, mailed>>

Suppressed(a, x) ==
    /\ at[a].step = "raise" /\ x \in at[a].todo
    /\ ~NoneOpen(AlertOf[x])
    /\ at' = [at EXCEPT ![a] = AfterRaise(@, x)]
    /\ Fine
    /\ UNCHANGED <<due, open, queued, mailed>>

(* The name of the product, or the row, cannot be read or written.         *)
InsertFails(a, x) ==
    /\ at[a].step = "raise" /\ x \in at[a].todo
    /\ Fault
    /\ at' = [at EXCEPT ![a] = AfterRaise(@, x)]
    /\ UNCHANGED <<due, open, queued, mailed>>

Resolve(a) ==
    /\ at[a].step = "resolve"
    /\ LET x == at[a].now
           fan == Channels(x) \X Recipients(AlertOf[x])
       IN at' = [at EXCEPT ![a] = IF fan = {} THEN AfterRaise(@, x)
                                  ELSE [@ EXCEPT !.step = "fan", !.fan = fan]]
    /\ Fine
    /\ UNCHANGED <<due, open, queued, mailed>>

ResolveFails(a) ==
    /\ at[a].step = "resolve"
    /\ Fault
    /\ at' = [at EXCEPT ![a] = AfterRaise(@, at[a].now)]
    /\ UNCHANGED <<due, open, queued, mailed>>

(* A recipient's mail is queued before the push.                           *)
Ready(s, task) == task \in s.fan /\ (task[1] = "push" => <<"email", task[2]>> \notin s.fan)

TaskGone(s, task) ==
    IF s.fan = {task} THEN AfterRaise(s, s.now) ELSE [s EXCEPT !.fan = @ \ {task}]

QueueTask(a, task) ==
    /\ at[a].step = "fan" /\ Ready(at[a], task)
    /\ at' = [at EXCEPT ![a] = TaskGone(@, task)]
    /\ mailed' = IF task[1] = "email" /\ Due(AlertOf[at[a].now])
                 THEN mailed \cup {<<AlertOf[at[a].now], task[2]>>} ELSE mailed
    /\ Fine
    /\ UNCHANGED <<due, open, queued>>

(* Redis cannot be reached: the task is logged and forgotten.              *)
Dropped(a, task) ==
    /\ at[a].step = "fan" /\ Ready(at[a], task)
    /\ Fault
    /\ at' = [at EXCEPT ![a] = TaskGone(@, task)]
    /\ UNCHANGED <<due, open, queued, mailed>>

(* raiseForUser: a copy for the raiser of the order.  Its key is the one   *)
(* of the row for everyone, so it is written only if that was read since.  *)
RaiseForUser(a) ==
    /\ at[a].step = "copy"
    /\ LET c == AlertOf[at[a].now]
       IN open' = [open EXCEPT ![c] = IF NoneOpen(c) THEN "own" ELSE @]
    /\ at' = [at EXCEPT ![a] = NextRow(@, @.now)]
    /\ Fine
    /\ UNCHANGED <<due, queued, mailed>>
-----------------------------------------------------------------------------
(* Reading.                                                                *)

(* A row for everyone is read for everyone.                                *)
MarkRead(c) ==
    /\ open[c] # "none"
    /\ open' = [open EXCEPT ![c] = "none"]
    /\ UNCHANGED <<due, queued, at, mailed, faults>>

(* Someone other than the raiser does not reach the raiser's own rows.     *)
MarkAllRead ==
    /\ open' = [c \in Alert |-> IF open[c] = "all" THEN "none" ELSE open[c]]
    /\ UNCHANGED <<due, queued, at, mailed, faults>>
-----------------------------------------------------------------------------
(* The scans.                                                              *)

(* Mutant of Schedule: the daily scan is not registered.                   *)
HourlyOnly(k) ==
    /\ k = "low"
    /\ queued[k] < MaxScans
    /\ queued' = [queued EXCEPT ![k] = @ + 1]
    /\ UNCHANGED <<due, open, at, mailed, faults>>

(* Every worker runs a scheduler of its own, and no scan is unique, so     *)
(* there may be as many copies of one as there are workers.                *)
Schedule(k) ==
    /\ queued[k] < MaxScans
    /\ queued' = [queued EXCEPT ![k] = @ + 1]
    /\ UNCHANGED <<due, open, at, mailed, faults>>

Scanned(k) == {x \in due : x \in (IF k = "low" THEN Spot ELSE Lot)}

(* A handler takes a scan and reads the rows it will go through.           *)
Scan(w, k) ==
    /\ at[w] = Idle /\ queued[k] > 0
    /\ queued' = [queued EXCEPT ![k] = @ - 1]
    /\ at' = [at EXCEPT ![w] =
         IF Scanned(k) = {} THEN Idle
         ELSE [Idle EXCEPT !.step = "raise", !.scan = k, !.todo = Scanned(k)]]
    /\ UNCHANGED <<due, open, mailed, faults>>

(* The query of a scan fails for the last time it is retried.              *)
ScanFails(k) ==
    /\ queued[k] > 0
    /\ Fault
    /\ queued' = [queued EXCEPT ![k] = @ - 1]
    /\ UNCHANGED <<due, open, at, mailed>>

(* A process dies.  The scan of a worker goes back to the queue and starts *)
(* again; what a request had still to raise is forgotten.                  *)
Die(a) ==
    /\ at[a] # Idle
    /\ Fault
    /\ at' = [at EXCEPT ![a] = Idle]
    /\ queued' = [k \in Kind |-> IF at[a].scan = k THEN queued[k] + 1 ELSE queued[k]]
    /\ UNCHANGED <<due, open, mailed>>
-----------------------------------------------------------------------------
Work(a) ==
    \/ CheckLowStock(a)
    \/ \E x \in Subject : Insert(a, x) \/ Suppressed(a, x)
    \/ Resolve(a)
    \/ \E task \in {"email", "push"} \X Recipient : QueueTask(a, task)
    \/ RaiseForUser(a)

Fail(a) ==
    \/ \E x \in Subject : InsertFails(a, x)
    \/ ResolveFails(a)
    \/ \E task \in {"email", "push"} \X Recipient : Dropped(a, task)
    \/ Die(a)

AlertsNext ==
    \/ \E x \in Watch : Change(x)
    \/ \E a \in Request, x \in Spot : Moved(a, x)
    \/ \E a \in Request, d \in Document : Announce(a, d)
    \/ \E a \in Actor : Work(a) \/ Fail(a)
    \/ \E c \in Alert : MarkRead(c)
    \/ MarkAllRead
    \/ \E k \in Kind : Schedule(k) \/ ScanFails(k)
    \/ \E w \in Scanner, k \in Kind : Scan(w, k)

AlertsSpec == AlertsInit /\ [][AlertsNext]_alerts

(* The schedulers tick and the workers work; asynq serves its queue in the *)
(* order of arrival, so no scan is passed over for ever.  Nothing is       *)
(* assumed of requests, of readers or of stock.                            *)
AlertsFairness ==
    /\ \A w \in Scanner : WF_alerts(Work(w))
    /\ \A k \in Kind : WF_alerts(Schedule(k)) /\ SF_alerts(\E w \in Scanner : Scan(w, k))

AlertsFairSpec == AlertsSpec /\ AlertsFairness
-----------------------------------------------------------------------------
(* Properties.                                                             *)

(* Every variable has its type; only the decision on an order leaves a row *)
(* that is for its raiser alone, and a queue grows no further than by the  *)
(* scans that died.                                                        *)
AlertsTypeOK ==
    /\ due \in SUBSET Watch
    /\ open \in [Alert -> Row]
    /\ \A c \in Alert : open[c] = "own" => \E d \in Copied : AlertOf[d] = c
    /\ \A k \in Kind : queued[k] \in 0..(MaxScans + Cardinality(Scanner))
    /\ at \in [Actor -> ActorState]
    /\ mailed \in SUBSET (Alert \X Recipient)
    /\ faults \in 0..MaxFaults

Watched == {AlertOf[x] : x \in Watch}

(* worker.go:149-151: "this catches thresholds that were raised after the  *)
(* fact and anything missed": a product that stays low and a batch that    *)
(* stays about to expire have an unread alert in the end, whichever of the *)
(* inline checks never ran, failed or died.                                *)
LowIsAlerted == \A c \in Watched : Due(c) ~> (open[c] # "none" \/ ~Due(c))

(* And everyone it is for is mailed in the end, if what hides the cause    *)
(* from the scans (the unread alert whose tasks were dropped,              *)
(* platform/queue.go:52-56) is read again and again.  Without a reader it  *)
(* is false: a task that was dropped is not made up for by any scan.       *)
LowIsMailed ==
    \A c \in Watched : \A u \in Told[c] :
        []<>(open[c] = "none") => (Due(c) ~> (<<c, u>> \in mailed \/ ~Due(c)))
=============================================================================
