------------------------------ MODULE Delivery ------------------------------
(***************************************************************************)
(* What becomes of a queued mail or push (notification/worker.go), and the *)
(* registry of devices that pushes go to (notification/notification.go).   *)
(*                                                                         *)
(* A worker reads the devices of a user and sends to one after the other;  *)
(* a device that fails sends the whole task back to the queue.  Meanwhile  *)
(* users sign in and out on those devices: RegisterDevice looks the token  *)
(* up and writes it in two statements with no transaction, and a device    *)
(* that is handed over keeps its row and changes its user.                 *)
(*                                                                         *)
(* A worker may lose its task while it works on it: its time is up, its    *)
(* lease expires, its process dies or is shut down.  The task goes back to *)
(* the queue, and what the worker was at goes on: a mail or push may still *)
(* go out, and a DELETE that is on its way may still be done.              *)
(***************************************************************************)
EXTENDS Naturals, Functions

CONSTANTS
    Client,      \* requests that register a device
    Worker,
    User, Device,
    Task,        \* mails and pushes that Raise queues
    Push,        \* those of them that are pushes
    For,         \* the user a task is for
    MaxRetry,    \* attempts after the first, 5 in platform/queue.go
    MaxReturns,  \* bound on how often shutdowns hand tasks back
    Nobody, NoTask

ASSUME TaskAssumption ==
    /\ Push \subseteq Task /\ NoTask \notin Task
    /\ For \in [Task -> User] /\ Nobody \notin User
ASSUME BoundAssumption == MaxRetry \in Nat

VARIABLES
    owner,   \* device_tokens: the user a device is registered for
    asking,  \* what a registration has read
    state,   \* of a task: not queued yet, waiting, running, done or archived
    tries,   \* how often a task was retried
    run,     \* the task a worker runs and the devices it has still to serve
    late,    \* the devices whose DELETE was under way when a worker lost its task
    told,    \* history: the user a device was last told it is registered for
    starts,  \* history: how often a task was started
    returned \* history: how often a shutdown handed a task back

registry == <<owner, asking, told>>
counts == <<tries, starts, returned>>
queue == <<state, run, late, counts>>
vars == <<registry, queue>>
-----------------------------------------------------------------------------
Silent == [user |-> Nobody, device |-> {}, found |-> FALSE]
Free == [task |-> NoTask, left |-> {}]

Init ==
    /\ owner = [d \in Device |-> Nobody]
    /\ asking = [c \in Client |-> Silent]
    /\ state = [t \in Task |-> "new"]
    /\ tries = [t \in Task |-> 0]
    /\ run = [w \in Worker |-> Free]
    /\ late = {}
    /\ told = [d \in Device |-> Nobody]
    /\ starts = [t \in Task |-> 0]
    /\ returned = [t \in Task |-> 0]
-----------------------------------------------------------------------------
(* The registry.                                                           *)

(* A row that was found is written by its id: once it is deleted, nothing  *)
(* is, whatever row the device has by then.                                *)
Forgotten(d) == [c \in Client |-> IF asking[c].device = {d} /\ asking[c].found
                                  THEN [asking[c] EXCEPT !.device = {}] ELSE asking[c]]

LookUpToken(c, u, d) ==
    /\ asking[c] = Silent
    /\ asking' = [asking EXCEPT ![c] =
                    [user |-> u, device |-> {d}, found |-> owner[d] # Nobody]]
    /\ UNCHANGED <<owner, told, queue>>

(* The answer is the same whether the row was still there or not.          *)
Repoint(c) ==
    /\ asking[c].found
    /\ LET Written(f) == [d \in Device |-> IF d \in asking[c].device THEN asking[c].user ELSE f[d]]
       IN owner' = Written(owner) /\ told' = Written(told)
    /\ asking' = [asking EXCEPT ![c] = Silent]
    /\ UNCHANGED queue

CreateToken(c) ==
    /\ asking[c] # Silent /\ ~asking[c].found
    /\ \A d \in asking[c].device : owner[d] = Nobody
    /\ LET Written(f) == [d \in Device |-> IF d \in asking[c].device THEN asking[c].user ELSE f[d]]
       IN owner' = Written(owner) /\ told' = Written(told)
    /\ asking' = [asking EXCEPT ![c] = Silent]
    /\ UNCHANGED queue

(* The token was registered since, or a statement fails.                   *)
RegisterFails(c) ==
    /\ asking[c] # Silent
    /\ asking' = [asking EXCEPT ![c] = Silent]
    /\ UNCHANGED <<owner, told, queue>>

Remove(d) ==
    /\ owner' = [owner EXCEPT ![d] = Nobody]
    /\ asking' = Forgotten(d)

(* Mutant of UnregisterDevice: the user is not part of the condition.      *)
UnregisterAnyones(u, d) ==
    /\ Remove(d)
    /\ told' = [told EXCEPT ![d] = IF @ = u THEN Nobody ELSE @]
    /\ UNCHANGED queue

(* A sign-out; it may arrive when the device is already someone else's.    *)
UnregisterDevice(u, d) ==
    /\ IF owner[d] = u THEN Remove(d) ELSE UNCHANGED <<owner, asking>>
    /\ told' = [told EXCEPT ![d] = IF @ = u THEN Nobody ELSE @]
    /\ UNCHANGED queue
-----------------------------------------------------------------------------
(* The queue.                                                              *)

Enqueue(t) ==
    /\ state[t] = "new"
    /\ state' = [state EXCEPT ![t] = "waiting"]
    /\ UNCHANGED <<run, late, counts, registry>>

DevicesOf(u) == {d \in Device : owner[d] = u}

End(w, how) ==
    /\ state' = [state EXCEPT ![run[w].task] = how]
    /\ run' = [run EXCEPT ![w] = Free]

(* A push reads its devices when it starts, and again at every retry; a    *)
(* user without any is done with.                                          *)
Start(w, t) ==
    /\ run[w] = Free /\ state[t] = "waiting"
    /\ LET left == IF t \in Push THEN DevicesOf(For[t]) ELSE {}
       IN IF t \in Push /\ left = {}
          THEN state' = [state EXCEPT ![t] = "done"] /\ UNCHANGED run
          ELSE /\ state' = [state EXCEPT ![t] = "running"]
               /\ run' = [run EXCEPT ![w] = [task |-> t, left |-> left]]
    /\ starts' = [starts EXCEPT ![t] = @ + 1]
    /\ UNCHANGED <<tries, returned, late, registry>>

Mailed(w) ==
    /\ run[w] # Free /\ run[w].task \notin Push
    /\ End(w, "done")
    /\ UNCHANGED <<late, counts, registry>>

Served(w, d) ==
    IF run[w].left = {d} THEN End(w, "done")
    ELSE run' = [run EXCEPT ![w].left = @ \ {d}] /\ UNCHANGED state

(* The device has the push; or it is refused with an answer that is not    *)
(* looked at; or the row of a rejected device cannot be deleted.           *)
Sent(w, d) ==
    /\ d \in run[w].left
    /\ Served(w, d)
    /\ UNCHANGED <<late, counts, registry>>

(* The device is struck off, whoever it belongs to by now.                 *)
StruckOff(d) == Remove(d) /\ told' = [told EXCEPT ![d] = Nobody]

(* 401 or 403.                                                             *)
Rejected(w, d) ==
    /\ d \in run[w].left
    /\ Served(w, d)
    /\ StruckOff(d)
    /\ UNCHANGED <<late, counts>>

(* Mutant of Retried: a failed attempt is not counted at all.              *)
RetriedForEver(w) ==
    /\ run[w] # Free
    /\ End(w, "waiting")
    /\ starts' = [starts EXCEPT ![run[w].task] = @ - 1]
    /\ UNCHANGED <<tries, returned>>

(* Mutant of Retried: one attempt too many.                                *)
RetriedOnceMore(w) ==
    /\ run[w] # Free
    /\ LET t == run[w].task
       IN IF tries[t] <= MaxRetry
          THEN End(w, "waiting") /\ tries' = [tries EXCEPT ![t] = @ + 1]
          ELSE End(w, "archived") /\ UNCHANGED tries
    /\ UNCHANGED <<starts, returned>>

(* An attempt that failed is made again from the start, until there were   *)
(* too many.                                                               *)
Retried(w) ==
    /\ run[w] # Free
    /\ LET t == run[w].task
       IN IF tries[t] < MaxRetry
          THEN End(w, "waiting") /\ tries' = [tries EXCEPT ![t] = @ + 1]
          ELSE End(w, "archived") /\ UNCHANGED tries
    /\ UNCHANGED <<starts, returned>>

(* FCM or the mail server cannot be reached, or answers 5xx.               *)
Unavailable(w) == Retried(w) /\ UNCHANGED <<late, registry>>

(* A worker that loses its task may be deleting a device that was rejected.*)
StillDeleting(w) ==
    /\ late' \in {late} \cup {late \cup {d} : d \in run[w].left}
    /\ UNCHANGED registry

(* Its time is up, its lease expires, or its process dies.                 *)
CutOff(w) == Retried(w) /\ StillDeleting(w)

(* The process is shut down and does not wait for it any longer: that does *)
(* not count as an attempt.                                                *)
HandBack(w) ==
    /\ run[w] # Free
    /\ SumFunctionOnSet(returned, Task) < MaxReturns
    /\ End(w, "waiting")
    /\ returned' = [returned EXCEPT ![run[w].task] = @ + 1]
    /\ StillDeleting(w)
    /\ UNCHANGED <<tries, starts>>

(* PostgreSQL does what it was asked to before.                            *)
DeletedLate(d) ==
    /\ d \in late
    /\ StruckOff(d)
    /\ late' = late \ {d}
    /\ UNCHANGED <<state, run, counts>>
-----------------------------------------------------------------------------
Deliver(w) ==
    \/ Mailed(w)
    \/ \E d \in Device : Sent(w, d) \/ Rejected(w, d)
    \/ Unavailable(w)

Next ==
    \/ \E c \in Client, u \in User, d \in Device : LookUpToken(c, u, d)
    \/ \E c \in Client : Repoint(c) \/ CreateToken(c) \/ RegisterFails(c)
    \/ \E u \in User, d \in Device : UnregisterDevice(u, d)
    \/ \E t \in Task : Enqueue(t)
    \/ \E w \in Worker, t \in Task : Start(w, t)
    \/ \E w \in Worker : Deliver(w) \/ CutOff(w) \/ HandBack(w)
    \/ \E d \in Device : DeletedLate(d)

Spec == Init /\ [][Next]_vars

(* The queue hands its tasks to idle workers, and a worker goes on: the    *)
(* calls it makes have time limits (worker.go:54, platform/queue.go:52).   *)
Fairness ==
    /\ \A w \in Worker : WF_vars(Deliver(w))
    /\ WF_vars(\E w \in Worker, t \in Task : Start(w, t))

FairSpec == Spec /\ Fairness
-----------------------------------------------------------------------------
(* Properties.                                                             *)

Asking == {Silent} \cup [user : User, device : SUBSET Device, found : BOOLEAN]

Running == {Free} \cup [task : Push, left : (SUBSET Device) \ {{}}]
                  \cup [task : Task \ Push, left : {{}}]

(* Every variable has its type.  A task is in the hands of one worker when *)
(* it is running, and of none otherwise, and only pushes have devices.     *)
TypeOK ==
    /\ owner \in [Device -> User \cup {Nobody}]
    /\ told \in [Device -> User \cup {Nobody}]
    /\ asking \in [Client -> Asking]
    /\ tries \in [Task -> 0..MaxRetry]
    /\ state \in [Task -> {"new", "waiting", "running", "done", "archived"}]
    /\ run \in [Worker -> Running]
    /\ late \subseteq Device
    /\ starts \in [Task -> Nat] /\ returned \in [Task -> Nat]
    /\ \A w \in Worker : run[w] # Free => state[run[w].task] = "running"
    /\ \A t \in Task : state[t] = "running" => \E w \in Worker : run[w].task = t
    /\ \A v, w \in Worker : run[v] # Free /\ run[v].task = run[w].task => v = w

(* worker.go:133: a failure at any device sends the push to every device   *)
(* again, but not for ever: each task is done or archived in the end, with *)
(* workers that die or are shut down and providers that never answer.      *)
(* (Shutdowns hand tasks back MaxReturns times, so finitely often; one that*)
(* is handed back for ever does not end.)                                  *)
TaskEnds == \A t \in Task : (state[t] = "waiting") ~> (state[t] \in {"done", "archived"})

(* platform/queue.go:52-53, worker.go:133: however often workers fail, die *)
(* or are shut down, no mail or push is started more than MaxRetry + 1     *)
(* times and once more for each time it was handed back; and none is given *)
(* up before it was started that often.                                    *)
RunsBounded ==
    \A t \in Task :
        /\ starts[t] <= MaxRetry + 1 + returned[t]
        /\ state[t] = "archived" => starts[t] = MaxRetry + 1 + returned[t]

(* notification.go:278-279, 310: "tokens migrate between users when a      *)
(* device is handed over".  A device that was told it is registered for a  *)
(* user stays so until that user signs out, another registers, or FCM      *)
(* rejects it: no late sign-out of an earlier user and no overlapping      *)
(* registration takes it away.  A registration whose row was deleted       *)
(* between its SELECT and its UPDATE is answered with success as well, and *)
(* leaves no row: that answer does not count.                              *)
RegistrationHolds == \A d \in Device : told[d] # Nobody => owner[d] = told[d]
=============================================================================
