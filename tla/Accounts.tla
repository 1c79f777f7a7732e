------------------------------ MODULE Accounts ------------------------------
(***************************************************************************)
(* The users of an organization and their sessions                         *)
(* (internal/auth/service.go).                                             *)
(*                                                                         *)
(* Rows are read without locks, and administration is not even one         *)
(* transaction: the row is read, the remaining admins are counted, the row *)
(* is updated and the sessions are revoked by four separate statements.    *)
(* Each of them is a step here; what a handler carries from one to the     *)
(* next is in work.  Tokens expire by themselves; that only forbids what   *)
(* is allowed here, so it is left out.                                     *)
(***************************************************************************)
EXTENDS Integers

CONSTANTS
    Handler,        \* requests being served
    User,           \* accounts
    Token,          \* refresh tokens that may be minted
    Reset,          \* password_resets that may be requested
    Org,            \* the organization, as something requests can meet on
    Nobody,         \* no account, no token
    MaxRequests     \* bound: requests of several steps that are begun

ASSUME KindsAssumption ==
    /\ User \cap Token = {} /\ User \cap Reset = {} /\ Token \cap Reset = {}
    /\ Org \notin User \cup Token \cup Reset
    /\ Nobody \notin User \cup Token \cup Reset \cup {Org}
ASSUME BoundAssumption == MaxRequests \in Nat

VARIABLES
    users,      \* users rows; pwd counts the passwords the account has had
    tokens,     \* refresh_tokens rows
    resets,     \* password_resets rows
    badges,     \* users holding an access token, with the role it states
    work,       \* what a handler has read and is about to do
    raced,      \* accounts, resets and Org two handlers have worked on at once
    cut,        \* accounts changed by a request that ended before its LogoutAll
    closed,     \* logins whose live session was logged out
    uses,       \* how many times a reset has set a password
    begun       \* how many requests of several steps were begun

vars == <<users, tokens, resets, badges, work, raced, cut, closed, uses, begun>>

(* Told apart: the admin role from the others, active from the other       *)
(* statuses, which CanLogin refuses alike.                                 *)
Role == {"admin", "member"}
Status == {"absent", "active", "barred", "deleted"}
Keep == "keep"
Op == {"idle", "login", "refresh", "rotate", "change", "reset", "count", "write",
       "reload", "signout"}

Idle == [op |-> "idle", user |-> Nobody, doc |-> Nobody, role |-> Keep, status |-> Keep,
         pwd |-> 0]

Init ==
    /\ users = [u \in User |-> [role |-> "member", status |-> "absent", pwd |-> 0]]
    /\ tokens = [t \in Token |-> [status |-> "absent", user |-> Nobody, root |-> Nobody,
                                  role |-> "member", pwd |-> 0]]
    /\ resets = [r \in Reset |-> [status |-> "absent", user |-> Nobody]]
    /\ badges = {}
    /\ work = [h \in Handler |-> Idle]
    /\ raced = {} /\ cut = {} /\ closed = {}
    /\ uses = [r \in Reset |-> 0]
    /\ begun = 0

Exists(u) == users[u].status \in {"active", "barred"}
CanLogin(u) == users[u].status = "active"

-----------------------------------------------------------------------------
(* Handlers.                                                               *)
Administers(h) == work[h].op \in {"count", "write"}
WorksOn(h) == {work[h].user, work[h].doc} \cup (IF Administers(h) THEN {Org} ELSE {})

(* What the handlers H are working on.                                     *)
Touched(H) == UNION {WorksOn(h) : h \in H}

Start(h, w, subjects) ==
    /\ work[h].op = "idle"
    /\ begun < MaxRequests
    /\ begun' = begun + 1
    /\ work' = [work EXCEPT ![h] = w]
    /\ raced' = raced \cup (subjects \cap Touched(Handler \ {h}))

Goto(h, op) ==
    /\ work' = [work EXCEPT ![h] = [op |-> op, user |-> work[h].user, doc |-> work[h].doc,
                                    role |-> work[h].role, status |-> work[h].status,
                                    pwd |-> work[h].pwd]]
    /\ UNCHANGED raced

Finish(h) ==
    /\ work' = [work EXCEPT ![h] = Idle]
    /\ UNCHANGED raced

(* A request is refused after its first read, fails, or its process dies.  *)
(* A failed LogoutAll after an update is only logged.                      *)
GiveUp(h) ==
    /\ work[h].op # "idle"
    /\ Finish(h)
    /\ cut' = cut \cup (IF work[h].op \in {"reload", "signout"} THEN {work[h].user} ELSE {})
    /\ UNCHANGED <<users, tokens, resets, badges, closed, uses, begun>>

-----------------------------------------------------------------------------
(* Sessions.                                                               *)

(* mintSession: root is the login a chain of rotations began with.         *)
Minted(n, u, root, role, pwd) ==
    [status |-> "live", user |-> u, root |-> root, role |-> role, pwd |-> pwd]

Mint(n, u, root, role, pwd) ==
    /\ tokens[n].status = "absent"
    /\ badges' = badges \cup {<<u, role>>}

Revoked(t) ==
    [status |-> "revoked", user |-> tokens[t].user, root |-> tokens[t].root,
     role |-> tokens[t].role, pwd |-> tokens[t].pwd]

(* Mutant of Condemned: the test for NULL is the wrong way round.          *)
CondemnedRevoked(u) == {t \in Token : tokens[t].user = u /\ tokens[t].status = "revoked"}

(* The rows LogoutAll updates.                                             *)
Condemned(u) == {t \in Token : tokens[t].user = u /\ tokens[t].status = "live"}

RevokeAll(u) ==
    /\ tokens' = [t \in Token |-> IF t \in Condemned(u) THEN Revoked(t) ELSE tokens[t]]
    /\ closed' = closed \cup {tokens[t].root : t \in Condemned(u)}
    /\ cut' = cut \ {u}

(* The transaction of Register: the organization and its first admin.      *)
Register(u, n) ==
    /\ \A v \in User : users[v].status = "absent"
    /\ users' = [users EXCEPT ![u] = [role |-> "admin", status |-> "active", pwd |-> 0]]
    /\ Mint(n, u, n, "admin", 0)
    /\ tokens' = [tokens EXCEPT ![n] = Minted(n, u, n, "admin", 0)]
    /\ UNCHANGED <<resets, work, raced, cut, closed, uses, begun>>

(* Login reads the account, compares the password, and opens the session   *)
(* in a transaction that reads nothing again.                              *)
CheckLogin(h, u) ==
    /\ CanLogin(u)
    /\ Start(h, [op |-> "login", user |-> u, doc |-> Nobody, role |-> users[u].role,
                 status |-> Keep, pwd |-> users[u].pwd], {u})
    /\ UNCHANGED <<users, tokens, resets, badges, cut, closed, uses>>

Login(h, n) ==
    LET w == work[h] IN
    /\ w.op = "login"
    /\ Mint(n, w.user, n, w.role, w.pwd)
    /\ tokens' = [tokens EXCEPT ![n] = Minted(n, w.user, n, w.role, w.pwd)]
    /\ Finish(h)
    /\ UNCHANGED <<users, resets, cut, closed, uses, begun>>

(* Refresh reads the token, then its user, without locks.  A token that is *)
(* already revoked makes it revoke the user's other sessions and return an *)
(* error; the error rolls that back, so nothing is left of it.             *)
ReadToken(h, t) ==
    /\ tokens[t].status = "live"
    /\ Start(h, [op |-> "refresh", user |-> tokens[t].user, doc |-> t, role |-> Keep,
                 status |-> Keep, pwd |-> 0], {tokens[t].user})
    /\ UNCHANGED <<users, tokens, resets, badges, cut, closed, uses>>

ReadOwner(h) ==
    LET w == work[h] IN
    /\ w.op = "refresh"
    /\ CanLogin(w.user)
    /\ work' = [work EXCEPT ![h] = [op |-> "rotate", user |-> w.user, doc |-> w.doc,
                                    role |-> users[w.user].role, status |-> Keep, pwd |-> 0]]
    /\ UNCHANGED <<users, tokens, resets, badges, raced, cut, closed, uses, begun>>

(* Mutant of Retired: the presented token stays valid.                     *)
RetiredNot(t) == tokens[t]

(* The presented token is revoked, whatever became of it meanwhile.        *)
Retired(t) == Revoked(t)

Rotate(h, n) ==
    LET w == work[h]
        old == tokens[w.doc]
    IN
    /\ w.op = "rotate"
    /\ Mint(n, w.user, old.root, w.role, old.pwd)
    /\ tokens' = [tokens EXCEPT ![n] = Minted(n, w.user, old.root, w.role, old.pwd),
                                ![w.doc] = Retired(w.doc)]
    /\ Finish(h)
    /\ UNCHANGED <<users, resets, cut, closed, uses, begun>>

(* Logout is one statement; it does not touch a token already revoked.     *)
Logout(t) ==
    /\ tokens[t].status = "live"
    /\ tokens' = [tokens EXCEPT ![t] = Revoked(t)]
    /\ closed' = closed \cup {tokens[t].root}
    /\ raced' = raced \cup ({tokens[t].user} \cap Touched(Handler))
    /\ UNCHANGED <<users, resets, badges, work, cut, uses, begun>>

(* After a LogoutAll that meets no other request the account is as good as *)
(* one that never was raced.                                               *)
RacedAfter(others, u) == IF u \in Touched(others) THEN raced \cup {u} ELSE raced \ {u}

LogoutAll(u) ==
    /\ \E role \in Role : <<u, role>> \in badges
    /\ RevokeAll(u)
    /\ raced' = RacedAfter(Handler, u)
    /\ UNCHANGED <<users, resets, badges, work, uses, begun>>

-----------------------------------------------------------------------------
(* Passwords.                                                              *)

(* Mutant of SetPassword: deleted accounts are not left out.               *)
SetPasswordDeleted(u) ==
    users' = [users EXCEPT ![u] =
                [role |-> users[u].role, status |-> users[u].status, pwd |-> users[u].pwd + 1]]

(* The UPDATE finds no row when the account has been deleted meanwhile.    *)
SetPassword(u) ==
    users' = [users EXCEPT ![u] =
                [role |-> users[u].role, status |-> users[u].status,
                 pwd |-> IF Exists(u) THEN users[u].pwd + 1 ELSE users[u].pwd]]

(* ChangePassword: read and compare, update, LogoutAll (SignOut below).    *)
CheckPassword(h, u) ==
    /\ \E role \in Role : <<u, role>> \in badges
    /\ Exists(u)
    /\ Start(h, [op |-> "change", user |-> u, doc |-> Nobody, role |-> Keep,
                 status |-> Keep, pwd |-> 0], {u})
    /\ UNCHANGED <<users, tokens, resets, badges, cut, closed, uses>>

ChangePassword(h) ==
    /\ work[h].op = "change"
    /\ SetPassword(work[h].user)
    /\ Goto(h, "signout")
    /\ UNCHANGED <<tokens, resets, badges, cut, closed, uses, begun>>

RequestPasswordReset(r, u) ==
    /\ Exists(u)
    /\ resets[r].status = "absent"
    /\ resets' = [resets EXCEPT ![r] = [status |-> "open", user |-> u]]
    /\ UNCHANGED <<users, tokens, badges, work, raced, cut, closed, uses, begun>>

Usable(r) == resets[r].status = "open"

ReadReset(h, r) ==
    /\ Usable(r)
    /\ Start(h, [op |-> "reset", user |-> resets[r].user, doc |-> r, role |-> Keep,
                 status |-> Keep, pwd |-> 0], {resets[r].user, r})
    /\ UNCHANGED <<users, tokens, resets, badges, cut, closed, uses>>

(* The rest of ResetPassword commits as one: password, grant, sessions.    *)
ResetPassword(h) ==
    LET u == work[h].user
        r == work[h].doc
    IN
    /\ work[h].op = "reset"
    /\ SetPassword(u)
    /\ resets' = [resets EXCEPT ![r] = [status |-> "used", user |-> u]]
    /\ uses' = [uses EXCEPT ![r] = uses[r] + 1]
    /\ RevokeAll(u)
    /\ raced' = RacedAfter(Handler \ {h}, u)
    /\ work' = [work EXCEPT ![h] = Idle]
    /\ UNCHANGED <<badges, begun>>

-----------------------------------------------------------------------------
(* Administration.  The caller is whoever presents an admin's access       *)
(* token; nobody changes or deletes their own account.                     *)
Admin(a) == <<a, "admin">> \in badges

CreateUser(a, u, role) ==
    /\ Admin(a)
    /\ users[u].status = "absent"
    /\ users' = [users EXCEPT ![u] = [role |-> role, status |-> "active", pwd |-> 0]]
    /\ UNCHANGED <<tokens, resets, badges, work, raced, cut, closed, uses, begun>>

(* Whether UpdateUser and DeleteUser call assertNotLastAdmin.              *)
MustCount(u, role, status) ==
    users[u].role = "admin" /\ (role # Keep \/ status \in {"barred", "deleted"})

(* Only a field that differs from the row just read is updated; a status   *)
(* of deleted stands for DeleteUser.                                       *)
LookUp(h, a, u, role, status) ==
    /\ Admin(a) /\ a # u
    /\ Exists(u)
    /\ role # users[u].role /\ status # users[u].status
    /\ role # Keep \/ status # Keep
    /\ status = "deleted" => role = Keep
    /\ Start(h, [op |-> IF MustCount(u, role, status) THEN "count" ELSE "write",
                 user |-> u, doc |-> Nobody, role |-> role, status |-> status, pwd |-> 0],
             {u, Org})
    /\ UNCHANGED <<users, tokens, resets, badges, cut, closed, uses>>

(* Mutant of OtherAdmins: the account itself is counted.                   *)
OtherAdminsAndSelf(u) == {v \in User : users[v].role = "admin" /\ CanLogin(v)}

OtherAdmins(u) == {v \in User \ {u} : users[v].role = "admin" /\ CanLogin(v)}

(* assertNotLastAdmin.                                                     *)
CountAdmins(h) ==
    /\ work[h].op = "count"
    /\ OtherAdmins(work[h].user) # {}
    /\ Goto(h, "write")
    /\ UNCHANGED <<users, tokens, resets, badges, cut, closed, uses, begun>>

(* The UPDATE finds no row when the account has been deleted meanwhile.    *)
WriteUser(h) ==
    LET w == work[h]
        row == users[w.user]
    IN
    /\ w.op = "write"
    /\ users' = [users EXCEPT ![w.user] =
                   [role |-> IF w.role # Keep /\ Exists(w.user) THEN w.role ELSE row.role,
                    status |-> IF w.status # Keep /\ Exists(w.user) THEN w.status ELSE row.status,
                    pwd |-> row.pwd]]
    /\ Goto(h, IF w.status = "deleted" THEN "signout" ELSE "reload")
    /\ UNCHANGED <<tokens, resets, badges, cut, closed, uses, begun>>

(* LogoutAll at the end of a change; UpdateUser first reads the account    *)
(* again and stops if it is gone.                                          *)
SignOut(h) ==
    LET u == work[h].user IN
    /\ work[h].op \in {"reload", "signout"}
    /\ work[h].op = "reload" => Exists(u)
    /\ RevokeAll(u)
    /\ raced' = RacedAfter(Handler \ {h}, u)
    /\ work' = [work EXCEPT ![h] = Idle]
    /\ UNCHANGED <<users, resets, badges, uses, begun>>

Serve(h) ==
    \/ \E u \in User : CheckLogin(h, u) \/ CheckPassword(h, u)
    \/ \E n \in Token : Login(h, n) \/ Rotate(h, n) \/ ReadToken(h, n)
    \/ \E r \in Reset : ReadReset(h, r)
    \/ ReadOwner(h) \/ ChangePassword(h) \/ ResetPassword(h)
    \/ \E a, u \in User, role \in Role \cup {Keep}, status \in {Keep, "active", "barred", "deleted"} :
         LookUp(h, a, u, role, status)
    \/ CountAdmins(h) \/ WriteUser(h) \/ SignOut(h) \/ GiveUp(h)

Next ==
    \/ \E h \in Handler : Serve(h)
    \/ \E u \in User, n \in Token : Register(u, n)
    \/ \E t \in Token : Logout(t)
    \/ \E u \in User : LogoutAll(u)
    \/ \E r \in Reset, u \in User : RequestPasswordReset(r, u)
    \/ \E a, u \in User, role \in Role : CreateUser(a, u, role)

Spec == Init /\ [][Next]_vars
-----------------------------------------------------------------------------
(* Properties.                                                             *)

(* Every variable has its type; a session that was minted has an owner.    *)
TokenRow ==
    [status : {"absent"}, user : {Nobody}, root : {Nobody}, role : Role, pwd : Nat]
      \cup [status : {"live", "revoked"}, user : User, root : Token, role : Role, pwd : Nat]

ResetRow ==
    [status : {"absent"}, user : {Nobody}] \cup [status : {"open", "used"}, user : User]

TypeOK ==
    /\ users \in [User -> [role : Role, status : Status, pwd : Nat]]
    /\ tokens \in [Token -> TokenRow]
    /\ resets \in [Reset -> ResetRow]
    /\ badges \in SUBSET (User \X Role)
    /\ work \in [Handler -> [op : Op, user : User \cup {Nobody},
                             doc : Token \cup Reset \cup {Nobody}, role : Role \cup {Keep},
                             status : {Keep, "active", "barred", "deleted"}, pwd : Nat]]
    /\ raced \in SUBSET (User \cup Reset \cup {Org})
    /\ cut \in SUBSET User
    /\ closed \in SUBSET Token
    /\ uses \in [Reset -> Nat]
    /\ begun \in Nat

(* service.go:646: as long as requests that administer users do not        *)
(* overlap, the organization keeps an admin who can log in, even if the    *)
(* access tokens of demoted and deleted admins are still presented.        *)
KeepsAdmin ==
    (Org \notin raced /\ \E u \in User : users[u].status # "absent") =>
        \E u \in User : users[u].role = "admin" /\ CanLogin(u)

(* service.go:187: rotation is single-use, so a login has one session that *)
(* can be refreshed at most, and none after that session was logged out,   *)
(* as long as requests of the account do not overlap.                      *)
OneSessionPerLogin ==
    \A t \in Token :
        (tokens[t].status = "live" /\ tokens[t].user \notin raced) =>
          /\ tokens[t].root \notin closed
          /\ \A s \in Token :
               (tokens[s].status = "live" /\ tokens[s].root = tokens[t].root) => s = t

(* service.go:313, 507: a session never outlives the password, the role or *)
(* the status it was opened under, once the request that changed them has  *)
(* reached its LogoutAll and no other request of the account overlapped.   *)
SignedOut ==
    \A t \in Token :
        LET u == tokens[t].user IN
        (/\ tokens[t].status = "live"
         /\ u \notin raced \cup cut
         /\ \A h \in Handler : work[h].op \in {"reload", "signout"} => work[h].user # u) =>
            /\ CanLogin(u)
            /\ tokens[t].role = users[u].role
            /\ tokens[t].pwd = users[u].pwd

(* service.go:313: a reset token sets a password once, unless two requests *)
(* present it at the same time.                                            *)
ResetOnce ==
    \A r \in Reset \ raced : uses[r] = IF resets[r].status = "used" THEN 1 ELSE 0

(* Whatever overlaps, and however outdated what a handler writes: no step  *)
(* brings back a session that was revoked, moves one to another login or   *)
(* account, reopens a reset or changes an account that was deleted         *)
(* (service.go:210-243, 333-346, 495-541).                                 *)
WhatEndedStays ==
    [][/\ \A t \in Token :
            /\ tokens[t].status = "revoked" => tokens'[t].status = "revoked"
            /\ tokens[t].status # "absent" =>
                 /\ tokens'[t].user = tokens[t].user
                 /\ tokens'[t].root = tokens[t].root
                 /\ tokens'[t].pwd = tokens[t].pwd
       /\ \A r \in Reset :
            resets[r].status = "used" =>
              resets'[r].status = "used" /\ resets'[r].user = resets[r].user
       /\ \A u \in User :
            users[u].status = "deleted" =>
              /\ users'[u].status = "deleted"
              /\ users'[u].role = users[u].role
              /\ users'[u].pwd = users[u].pwd]_vars
=============================================================================
