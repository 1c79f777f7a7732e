--------------------------- MODULE AccountsProofs ---------------------------
(***************************************************************************)
(* What is proved about Accounts for every number of accounts, tokens,     *)
(* resets and handlers.                                                    *)
(*                                                                         *)
(* The four properties hold because of what a handler may rely on while it *)
(* works: on a subject that is not in raced it is the only one at work     *)
(* (Together), so what it read still holds (Counted, Rotating, Reading,    *)
(* Resetting).  What has ended stays ended (WhatEndedStays) even there.    *)
(***************************************************************************)
EXTENDS Accounts, TLAPS

Subject == User \cup Reset \cup {Org}

WorkRow == [op : Op, user : User \cup {Nobody}, doc : Token \cup Reset \cup {Nobody},
            role : Role \cup {Keep}, status : {Keep, "active", "barred", "deleted"}, pwd : Nat]

(* Two handlers on one subject have been seen.                             *)
Together ==
    \A g, h \in Handler : \A s \in Subject :
        (g # h /\ s \in WorksOn(g) /\ s \in WorksOn(h)) => s \in raced

(* What a handler works on is of the right kind and exists.                *)
Shape ==
    \A h \in Handler :
        /\ work[h].op # "idle" =>
             work[h].user \in User /\ users[work[h].user].status # "absent"
        /\ work[h].op \in {"login", "rotate"} => work[h].role \in Role
        /\ work[h].op \in {"refresh", "rotate"} =>
             /\ work[h].doc \in Token
             /\ tokens[work[h].doc].status # "absent"
             /\ tokens[work[h].doc].user = work[h].user
        /\ work[h].op = "reset" =>
             /\ work[h].doc \in Reset
             /\ resets[work[h].doc].status # "absent"
             /\ resets[work[h].doc].user = work[h].user

(* Rows refer to rows that exist, and a chain of rotations to one account. *)
Owners ==
    /\ \A t \in Token : tokens[t].status # "absent" =>
         /\ users[tokens[t].user].status # "absent"
         /\ tokens[tokens[t].root].status # "absent"
    /\ \A s, t \in Token :
         (/\ tokens[s].status # "absent" /\ tokens[t].status # "absent"
          /\ tokens[s].root = tokens[t].root) => tokens[s].user = tokens[t].user
    /\ \A r \in Reset : resets[r].status # "absent" => users[resets[r].user].status # "absent"
    /\ \A c \in closed : tokens[c].status # "absent"

(* An access token is held by an account that exists.                      *)
Badged ==
    \A u \in User : (\E role \in Role : <<u, role>> \in badges) => users[u].status # "absent"

(* An update that would take an admin away follows a count that still      *)
(* holds.                                                                  *)
Counted ==
    \A h \in Handler :
        (Org \notin raced /\ work[h].op = "write") =>
          \/ ~MustCount(work[h].user, work[h].role, work[h].status)
          \/ OtherAdmins(work[h].user) # {}

(* A handler that refreshes presents the only session of its login.        *)
Rotating ==
    \A h \in Handler :
        LET root == tokens[work[h].doc].root IN
        (work[h].op \in {"refresh", "rotate"} /\ work[h].user \notin raced) =>
          /\ root \notin closed
          /\ \A s \in Token : (tokens[s].status = "live" /\ tokens[s].root = root) => s = work[h].doc

(* What a handler read of the account before it mints a session.           *)
Reading ==
    \A h \in Handler :
        LET u == work[h].user IN
        u \notin raced =>
          /\ work[h].op \in {"login", "rotate"} => CanLogin(u) /\ users[u].role = work[h].role
          /\ work[h].op = "login" => users[u].pwd = work[h].pwd
          /\ (work[h].op \in {"refresh", "rotate"} /\ u \notin cut) =>
               users[u].pwd = tokens[work[h].doc].pwd

(* The reset a handler is about to use has not been used.                  *)
Resetting ==
    \A h \in Handler :
        (work[h].op = "reset" /\ work[h].doc \notin raced) => resets[work[h].doc].status = "open"

Inv ==
    /\ TypeOK /\ Together /\ Shape /\ Owners /\ Badged
    /\ KeepsAdmin /\ Counted
    /\ OneSessionPerLogin /\ Rotating
    /\ SignedOut /\ Reading
    /\ ResetOnce /\ Resetting

-----------------------------------------------------------------------------
(* What the pieces of the actions do.                                      *)
LEMMA NobodyIsNoSubject == Nobody \notin Subject /\ Token \cap Subject = {}
  BY KindsAssumption DEF Subject

(* A request begins: whatever it shares with another handler is now in     *)
(* raced.                                                                  *)
LEMMA StartFacts ==
    ASSUME TypeOK, Together, NEW h \in Handler, NEW w \in WorkRow,
           NEW subjects \in SUBSET Subject,
           {w.user, w.doc} \cap Subject \subseteq subjects,
           w.op \in {"count", "write"} => Org \in subjects,
           Start(h, w, subjects)
    PROVE  /\ work' \in [Handler -> WorkRow]
           /\ work[h].op = "idle" /\ work'[h] = w
           /\ \A g \in Handler : g # h => work'[g] = work[g]
           /\ raced' \in SUBSET Subject /\ raced \subseteq raced'
           /\ begun' \in Nat
           /\ \A g \in Handler, s \in subjects : (g # h /\ s \in WorksOn(g)) => s \in raced'
           /\ Together'
<1>1. work' = [work EXCEPT ![h] = w] /\ work \in [Handler -> WorkRow]
  BY DEF Start, TypeOK, WorkRow
<1>2. /\ work' \in [Handler -> WorkRow] /\ work'[h] = w
      /\ \A g \in Handler : g # h => work'[g] = work[g]
  BY <1>1
<1>3. raced' = raced \cup (subjects \cap Touched(Handler \ {h}))
  BY DEF Start
<1>4. raced' \in SUBSET Subject /\ raced \subseteq raced'
  BY <1>3 DEF TypeOK, Subject
<1>5. ASSUME NEW g \in Handler, NEW s \in subjects, g # h, s \in WorksOn(g)
      PROVE  s \in raced'
  BY <1>3, <1>5 DEF Touched
<1>6. \A g \in Handler : g # h => WorksOn(g)' = WorksOn(g)
  BY <1>2 DEF WorksOn, Administers
<1>7. WorksOn(h)' \cap Subject \subseteq subjects
  BY <1>2 DEF WorksOn, Administers
<1>8. Together'
  <2> SUFFICES ASSUME NEW f \in Handler, NEW g \in Handler, NEW s \in Subject,
                      f # g, s \in WorksOn(f)', s \in WorksOn(g)'
               PROVE  s \in raced'
    BY DEF Together, Subject
  <2>1. CASE f # h /\ g # h
    BY <2>1, <1>4, <1>6 DEF Together
  <2>2. CASE f = h
    BY <2>2, <1>5, <1>6, <1>7
  <2>3. CASE g = h
    BY <2>3, <1>5, <1>6, <1>7
  <2> QED BY <2>1, <2>2, <2>3
<1>9. begun' \in Nat
  BY DEF Start, TypeOK
<1>10. work[h].op = "idle"
  BY DEF Start
<1> QED BY <1>2, <1>4, <1>5, <1>8, <1>9, <1>10

(* A request goes on, or ends: it takes up nothing new, and what leaves    *)
(* raced is nobody else's.                                                 *)
LEMMA GoOnFacts ==
    ASSUME TypeOK, Together, NEW h \in Handler, NEW w \in WorkRow,
           work' = [work EXCEPT ![h] = w],
           w.user \in {work[h].user, Nobody}, w.doc \in {work[h].doc, Nobody},
           w.op \in {"count", "write"} => Administers(h),
           \A s \in raced \ raced' : \A g \in Handler : g # h => s \notin WorksOn(g)
    PROVE  /\ work' \in [Handler -> WorkRow]
           /\ work'[h] = w
           /\ \A g \in Handler : g # h => work'[g] = work[g]
           /\ Together'
<1>1. work \in [Handler -> WorkRow]
  BY DEF TypeOK, WorkRow
<1>2. /\ work' \in [Handler -> WorkRow] /\ work'[h] = w
      /\ \A g \in Handler : g # h => work'[g] = work[g]
  BY <1>1
<1>3. \A g \in Handler : g # h => WorksOn(g)' = WorksOn(g)
  BY <1>2 DEF WorksOn, Administers
<1>4. WorksOn(h)' \cap Subject \subseteq WorksOn(h)
  BY <1>2, NobodyIsNoSubject DEF WorksOn, Administers
<1>5. Together'
  <2> SUFFICES ASSUME NEW f \in Handler, NEW g \in Handler, NEW s \in Subject,
                      f # g, s \in WorksOn(f)', s \in WorksOn(g)'
               PROVE  s \in raced'
    BY DEF Together, Subject
  <2>1. s \in WorksOn(f) /\ s \in WorksOn(g)
    BY <1>3, <1>4
  <2>2. s \in raced
    BY <2>1 DEF Together
  <2>3. f # h \/ g # h
    OBVIOUS
  <2> QED BY <2>1, <2>2, <2>3
<1> QED BY <1>2, <1>5

LEMMA IdleRow == Idle \in WorkRow /\ Idle.op = "idle" /\ Idle.user = Nobody /\ Idle.doc = Nobody
  BY DEF Idle, WorkRow, Op, Role, Keep

LEMMA FinishFacts ==
    ASSUME TypeOK, Together, NEW h \in Handler, Finish(h)
    PROVE  /\ work' \in [Handler -> WorkRow]
           /\ work'[h].op = "idle"
           /\ \A g \in Handler : g # h => work'[g] = work[g]
           /\ raced' = raced
           /\ Together'
  BY GoOnFacts, IdleRow DEF Finish

LEMMA GotoFacts ==
    ASSUME TypeOK, Together, NEW h \in Handler, NEW op \in {"write", "reload", "signout"},
           Goto(h, op), op = "write" => Administers(h)
    PROVE  /\ work' \in [Handler -> WorkRow]
           /\ work'[h].op = op /\ work'[h].user = work[h].user /\ work'[h].doc = work[h].doc
           /\ work'[h].role = work[h].role /\ work'[h].status = work[h].status
           /\ \A g \in Handler : g # h => work'[g] = work[g]
           /\ raced' = raced
           /\ Together'
<1> DEFINE w == [op |-> op, user |-> work[h].user, doc |-> work[h].doc,
                 role |-> work[h].role, status |-> work[h].status, pwd |-> work[h].pwd]
<1>1. w \in WorkRow
  BY DEF TypeOK, WorkRow, Op
<1>2. work' = [work EXCEPT ![h] = w] /\ raced' = raced
  BY DEF Goto
<1> QED BY <1>1, <1>2, GoOnFacts

(* The account is clean again unless another handler is at work on it.     *)
LEMMA EndFacts ==
    ASSUME TypeOK, Together, NEW h \in Handler, NEW u \in User,
           work' = [work EXCEPT ![h] = Idle], raced' = RacedAfter(Handler \ {h}, u)
    PROVE  /\ work' \in [Handler -> WorkRow]
           /\ work'[h].op = "idle"
           /\ \A g \in Handler : g # h => work'[g] = work[g]
           /\ raced' \in SUBSET Subject
           /\ \A s \in Subject : s # u => (s \in raced' <=> s \in raced)
           /\ \A g \in Handler : (g # h /\ work[g].user = u) => u \in raced'
           /\ Together'
<1>1. raced' \in SUBSET Subject
  BY DEF RacedAfter, TypeOK, Subject
<1>2. \A s : s # u => (s \in raced' <=> s \in raced)
  BY DEF RacedAfter
<1>3. \A g \in Handler : (g # h /\ u \in WorksOn(g)) => u \in raced'
  BY DEF RacedAfter, Touched
<1>4. \A s \in raced \ raced' : \A g \in Handler : g # h => s \notin WorksOn(g)
  BY <1>2, <1>3
<1>5. \A g \in Handler : (g # h /\ work[g].user = u) => u \in raced'
  BY <1>3 DEF WorksOn
<1> QED BY <1>1, <1>2, <1>4, <1>5, GoOnFacts, IdleRow

LEMMA MintedRow ==
    ASSUME NEW n \in Token, NEW u \in User, NEW root \in Token, NEW role \in Role, NEW pwd \in Nat
    PROVE  Minted(n, u, root, role, pwd) \in TokenRow
  BY DEF Minted, TokenRow

LEMMA RevokedRow ==
    ASSUME TypeOK, NEW t \in Token, tokens[t].status # "absent"
    PROVE  /\ Revoked(t) \in TokenRow /\ Revoked(t).status = "revoked"
           /\ Revoked(t).user = tokens[t].user /\ Revoked(t).root = tokens[t].root
           /\ tokens[t].user \in User /\ tokens[t].root \in Token
<1>1. tokens[t] \in TokenRow
  BY DEF TypeOK
<1>2. tokens[t] \in [status : {"live", "revoked"}, user : User, root : Token, role : Role, pwd : Nat]
  BY <1>1 DEF TokenRow
<1> QED BY <1>2 DEF Revoked, TokenRow

(* LogoutAll leaves no live session of the account, and the rest alone.    *)
LEMMA RevokeFacts ==
    ASSUME TypeOK, NEW u \in User, RevokeAll(u)
    PROVE  /\ tokens' \in [Token -> TokenRow]
           /\ \A t \in Token :
                /\ tokens'[t].user = tokens[t].user /\ tokens'[t].root = tokens[t].root
                /\ tokens'[t].pwd = tokens[t].pwd /\ tokens'[t].role = tokens[t].role
                /\ tokens'[t].status = "absent" <=> tokens[t].status = "absent"
                /\ tokens'[t].status = "live" => tokens[t].status = "live" /\ tokens[t].user # u
           /\ closed \subseteq closed' /\ closed' \in SUBSET Token
           /\ \A c \in closed' \ closed : \E t \in Token :
                tokens[t].status = "live" /\ tokens[t].user = u /\ tokens[t].root = c
           /\ cut' = cut \ {u} /\ cut' \in SUBSET User
<1>1. tokens' = [t \in Token |-> IF t \in Condemned(u) THEN Revoked(t) ELSE tokens[t]]
  BY DEF RevokeAll
<1>2. \A t \in Condemned(u) : t \in Token /\ tokens[t].status # "absent" /\ tokens[t].user = u
  BY DEF Condemned
<1>3. ASSUME NEW t \in Token
      PROVE  /\ tokens'[t] \in TokenRow
             /\ tokens'[t].user = tokens[t].user /\ tokens'[t].root = tokens[t].root
             /\ tokens'[t].pwd = tokens[t].pwd /\ tokens'[t].role = tokens[t].role
             /\ tokens'[t].status = "absent" <=> tokens[t].status = "absent"
             /\ tokens'[t].status = "live" => tokens[t].status = "live" /\ tokens[t].user # u
  <2>1. CASE t \in Condemned(u)
    <3>1. tokens'[t] = Revoked(t) /\ tokens[t].status # "absent"
      BY <2>1, <1>1, <1>2
    <3> QED BY <3>1, RevokedRow DEF Revoked
  <2>2. CASE t \notin Condemned(u)
    <3>1. tokens'[t] = tokens[t]
      BY <2>2, <1>1
    <3> QED BY <2>2, <3>1 DEF TypeOK, Condemned
  <2> QED BY <2>1, <2>2
<1>4. closed' = closed \cup {tokens[t].root : t \in Condemned(u)}
  BY DEF RevokeAll
<1>5. \A t \in Condemned(u) : tokens[t].root \in Token
  BY <1>2, RevokedRow
<1>6. \A c \in closed' \ closed : \E t \in Token :
        tokens[t].status = "live" /\ tokens[t].user = u /\ tokens[t].root = c
  BY <1>4 DEF Condemned
<1> QED BY <1>1, <1>3, <1>4, <1>5, <1>6 DEF TypeOK, RevokeAll

-----------------------------------------------------------------------------
(* Requests that begin.  Begun(h, u) gathers what the five of them share.  *)
Begun(h, u) ==
    /\ UNCHANGED <<users, tokens, resets, badges, cut, closed, uses>>
    /\ work' \in [Handler -> WorkRow]
    /\ work[h].op = "idle" /\ work'[h].user = u
    /\ \A g \in Handler : g # h => work'[g] = work[g]
    /\ raced' \in SUBSET Subject /\ raced \subseteq raced'
    /\ begun' \in Nat
    /\ \A g \in Handler : (g # h /\ work[g].user = u) => u \in raced'
    /\ Together'

LEMMA BegunFacts ==
    ASSUME TypeOK, Together, NEW h \in Handler, NEW w \in WorkRow, NEW u \in User,
           NEW subjects \in SUBSET Subject,
           w.user = u, u \in subjects, w.doc \in subjects \/ w.doc \notin Subject,
           w.op \in {"count", "write"} => Org \in subjects,
           Start(h, w, subjects),
           UNCHANGED <<users, tokens, resets, badges, cut, closed, uses>>
    PROVE  /\ Begun(h, u) /\ work'[h] = w
           /\ \A g \in Handler, s \in subjects : (g # h /\ s \in WorksOn(g)) => s \in raced'
<1>1. {w.user, w.doc} \cap Subject \subseteq subjects
  OBVIOUS
<1>2. /\ work' \in [Handler -> WorkRow]
      /\ work[h].op = "idle" /\ work'[h] = w
      /\ \A g \in Handler : g # h => work'[g] = work[g]
      /\ raced' \in SUBSET Subject /\ raced \subseteq raced'
      /\ begun' \in Nat
      /\ \A g \in Handler, s \in subjects : (g # h /\ s \in WorksOn(g)) => s \in raced'
      /\ Together'
  BY <1>1, StartFacts
<1>3. \A g \in Handler : (g # h /\ work[g].user = u) => u \in raced'
  BY <1>2 DEF WorksOn
<1> QED BY <1>2, <1>3 DEF Begun

LEMMA LiveOwner ==
    ASSUME TypeOK, NEW t \in Token, tokens[t].status # "absent"
    PROVE  /\ tokens[t].user \in User /\ tokens[t].root \in Token
           /\ tokens[t].pwd \in Nat /\ tokens[t].role \in Role
<1>1. tokens[t] \in TokenRow
  BY DEF TypeOK
<1> QED BY <1>1 DEF TokenRow

LEMMA ResetOwner ==
    ASSUME TypeOK, NEW r \in Reset, resets[r].status # "absent"
    PROVE  resets[r].user \in User
<1>1. resets[r] \in ResetRow
  BY DEF TypeOK
<1> QED BY <1>1 DEF ResetRow

LEMMA CheckLoginFacts ==
    ASSUME TypeOK, Together, NEW h \in Handler, NEW u \in User, CheckLogin(h, u)
    PROVE  /\ Begun(h, u) /\ CanLogin(u)
           /\ work'[h].op = "login" /\ work'[h].role = users[u].role /\ work'[h].pwd = users[u].pwd
<1> DEFINE w == [op |-> "login", user |-> u, doc |-> Nobody, role |-> users[u].role,
                 status |-> Keep, pwd |-> users[u].pwd]
<1>1. w \in WorkRow
  BY DEF TypeOK, WorkRow, Op
<1>2. Start(h, w, {u}) /\ CanLogin(u) /\ {u} \in SUBSET Subject
      /\ UNCHANGED <<users, tokens, resets, badges, cut, closed, uses>>
  BY DEF CheckLogin, Subject
<1>3. Begun(h, u) /\ work'[h] = w
  BY <1>1, <1>2, BegunFacts, NobodyIsNoSubject
<1> QED BY <1>2, <1>3

LEMMA ReadTokenFacts ==
    ASSUME TypeOK, Together, NEW h \in Handler, NEW t \in Token, ReadToken(h, t)
    PROVE  /\ Begun(h, tokens[t].user) /\ tokens[t].status = "live" /\ tokens[t].user \in User
           /\ work'[h].op = "refresh" /\ work'[h].doc = t
<1> DEFINE u == tokens[t].user
           w == [op |-> "refresh", user |-> u, doc |-> t, role |-> Keep, status |-> Keep, pwd |-> 0]
<1>1. tokens[t].status = "live" /\ u \in User
  BY LiveOwner DEF ReadToken
<1>2. w \in WorkRow
  BY <1>1 DEF WorkRow, Op
<1>3. Start(h, w, {u}) /\ {u} \in SUBSET Subject
      /\ UNCHANGED <<users, tokens, resets, badges, cut, closed, uses>>
  BY <1>1 DEF ReadToken, Subject
<1>4. Begun(h, u) /\ work'[h] = w
  BY <1>1, <1>2, <1>3, BegunFacts, NobodyIsNoSubject
<1> QED BY <1>1, <1>4

LEMMA CheckPasswordFacts ==
    ASSUME TypeOK, Together, NEW h \in Handler, NEW u \in User, CheckPassword(h, u)
    PROVE  Begun(h, u) /\ Exists(u) /\ work'[h].op = "change"
<1> DEFINE w == [op |-> "change", user |-> u, doc |-> Nobody, role |-> Keep, status |-> Keep,
                 pwd |-> 0]
<1>1. w \in WorkRow
  BY DEF WorkRow, Op
<1>2. Start(h, w, {u}) /\ Exists(u) /\ {u} \in SUBSET Subject
      /\ UNCHANGED <<users, tokens, resets, badges, cut, closed, uses>>
  BY DEF CheckPassword, Subject
<1>3. Begun(h, u) /\ work'[h] = w
  BY <1>1, <1>2, BegunFacts, NobodyIsNoSubject
<1> QED BY <1>2, <1>3

LEMMA ReadResetFacts ==
    ASSUME TypeOK, Together, NEW h \in Handler, NEW r \in Reset, ReadReset(h, r)
    PROVE  /\ Begun(h, resets[r].user) /\ resets[r].status = "open" /\ resets[r].user \in User
           /\ work'[h].op = "reset" /\ work'[h].doc = r
           /\ \A g \in Handler : (g # h /\ work[g].doc = r) => r \in raced'
<1> DEFINE u == resets[r].user
           w == [op |-> "reset", user |-> u, doc |-> r, role |-> Keep, status |-> Keep, pwd |-> 0]
<1>1. resets[r].status = "open" /\ u \in User
  BY ResetOwner DEF ReadReset, Usable
<1>2. w \in WorkRow
  BY <1>1 DEF WorkRow, Op
<1>3. Start(h, w, {u, r}) /\ {u, r} \in SUBSET Subject
      /\ UNCHANGED <<users, tokens, resets, badges, cut, closed, uses>>
  BY <1>1 DEF ReadReset, Subject
<1>4. /\ Begun(h, u) /\ work'[h] = w
      /\ \A g \in Handler, s \in {u, r} : (g # h /\ s \in WorksOn(g)) => s \in raced'
  BY <1>1, <1>2, <1>3, BegunFacts
<1>5. \A g \in Handler : (g # h /\ work[g].doc = r) => r \in raced'
  BY <1>4 DEF WorksOn
<1> QED BY <1>1, <1>4, <1>5

LEMMA LookUpFacts ==
    ASSUME TypeOK, Together, NEW h \in Handler, NEW a \in User, NEW u \in User,
           NEW role \in Role \cup {Keep}, NEW status \in {Keep, "active", "barred", "deleted"},
           LookUp(h, a, u, role, status)
    PROVE  /\ Begun(h, u) /\ Exists(u)
           /\ work'[h].op \in {"count", "write"}
           /\ work'[h].role = role /\ work'[h].status = status
           /\ work'[h].op = "write" => ~MustCount(u, role, status)
<1> DEFINE w == [op |-> IF MustCount(u, role, status) THEN "count" ELSE "write",
                 user |-> u, doc |-> Nobody, role |-> role, status |-> status, pwd |-> 0]
<1>1. w \in WorkRow
  BY DEF WorkRow, Op
<1>2. Start(h, w, {u, Org}) /\ Exists(u) /\ {u, Org} \in SUBSET Subject
      /\ UNCHANGED <<users, tokens, resets, badges, cut, closed, uses>>
  BY DEF LookUp, Subject
<1>3. Begun(h, u) /\ work'[h] = w
  BY <1>1, <1>2, BegunFacts, NobodyIsNoSubject
<1> QED BY <1>2, <1>3

-----------------------------------------------------------------------------
(* Requests that go on.                                                    *)
LEMMA LoginFacts ==
    ASSUME TypeOK, Together, Shape, NEW h \in Handler, NEW n \in Token, Login(h, n)
    PROVE  /\ tokens[n].status = "absent" /\ work[h].user \in User
           /\ users[work[h].user].status # "absent"
           /\ tokens' \in [Token -> TokenRow]
           /\ tokens'[n] = Minted(n, work[h].user, n, work[h].role, work[h].pwd)
           /\ \A t \in Token : t # n => tokens'[t] = tokens[t]
           /\ badges' \in SUBSET (User \X Role)
<1>1. work[h].op = "login" /\ work[h].user \in User /\ work[h].role \in Role
      /\ users[work[h].user].status # "absent" /\ work[h].pwd \in Nat
  BY DEF Login, Shape, TypeOK
<1>2. Minted(n, work[h].user, n, work[h].role, work[h].pwd) \in TokenRow
  BY <1>1, MintedRow
<1>3. /\ tokens' = [tokens EXCEPT ![n] = Minted(n, work[h].user, n, work[h].role, work[h].pwd)]
      /\ tokens[n].status = "absent" /\ badges' = badges \cup {<<work[h].user, work[h].role>>}
  BY DEF Login, Mint
<1> QED BY <1>1, <1>2, <1>3 DEF TypeOK

LEMMA RotateFacts ==
    ASSUME TypeOK, Together, Shape, NEW h \in Handler, NEW n \in Token, Rotate(h, n)
    PROVE  LET t == work[h].doc IN
           /\ tokens[n].status = "absent" /\ t \in Token /\ t # n
           /\ tokens[t].status # "absent" /\ tokens[t].user = work[h].user
           /\ work[h].user \in User /\ users[work[h].user].status # "absent"
           /\ tokens[t].root \in Token
           /\ tokens' \in [Token -> TokenRow]
           /\ tokens'[n] = Minted(n, work[h].user, tokens[t].root, work[h].role, tokens[t].pwd)
           /\ tokens'[t] = Revoked(t)
           /\ \A s \in Token : (s # n /\ s # t) => tokens'[s] = tokens[s]
           /\ badges' \in SUBSET (User \X Role)
<1> DEFINE t == work[h].doc
           new == Minted(n, work[h].user, tokens[t].root, work[h].role, tokens[t].pwd)
<1>1. work[h].op = "rotate" /\ work[h].user \in User /\ work[h].role \in Role
      /\ users[work[h].user].status # "absent"
      /\ t \in Token /\ tokens[t].status # "absent" /\ tokens[t].user = work[h].user
  BY DEF Rotate, Shape
<1>2. tokens[t].root \in Token /\ tokens[t].pwd \in Nat
  BY <1>1, LiveOwner
<1>3. new \in TokenRow /\ Revoked(t) \in TokenRow
  BY <1>1, <1>2, MintedRow, RevokedRow
<1>4. tokens[n].status = "absent" /\ badges' = badges \cup {<<work[h].user, work[h].role>>}
  BY DEF Rotate, Mint
<1>5. t # n
  BY <1>1, <1>4
<1>6. tokens' = [tokens EXCEPT ![n] = new, ![t] = Revoked(t)]
  BY DEF Rotate, Retired
<1>7. /\ tokens' \in [Token -> TokenRow] /\ tokens'[n] = new /\ tokens'[t] = Revoked(t)
      /\ \A s \in Token : (s # n /\ s # t) => tokens'[s] = tokens[s]
  BY <1>1, <1>3, <1>5, <1>6 DEF TypeOK
<1>8. badges' \in SUBSET (User \X Role)
  BY <1>1, <1>4 DEF TypeOK
<1> QED BY <1>1, <1>2, <1>4, <1>5, <1>7, <1>8

LEMMA ReadOwnerFacts ==
    ASSUME TypeOK, Together, Shape, NEW h \in Handler, ReadOwner(h)
    PROVE  /\ work[h].op = "refresh" /\ work[h].user \in User /\ CanLogin(work[h].user)
           /\ work' \in [Handler -> WorkRow]
           /\ work'[h].op = "rotate" /\ work'[h].user = work[h].user
           /\ work'[h].doc = work[h].doc /\ work'[h].role = users[work[h].user].role
           /\ \A g \in Handler : g # h => work'[g] = work[g]
           /\ raced' = raced
           /\ Together'
<1> DEFINE w == [op |-> "rotate", user |-> work[h].user, doc |-> work[h].doc,
                 role |-> users[work[h].user].role, status |-> Keep, pwd |-> 0]
<1>1. work[h].op = "refresh" /\ work[h].user \in User /\ CanLogin(work[h].user)
  BY DEF ReadOwner, Shape
<1>2. w \in WorkRow
  BY <1>1 DEF TypeOK, WorkRow, Op
<1>3. work' = [work EXCEPT ![h] = w] /\ raced' = raced
  BY DEF ReadOwner
<1> QED BY <1>1, <1>2, <1>3, GoOnFacts

LEMMA LogoutFacts ==
    ASSUME TypeOK, Together, NEW t \in Token, Logout(t)
    PROVE  /\ tokens[t].status = "live" /\ tokens[t].user \in User /\ tokens[t].root \in Token
           /\ tokens' \in [Token -> TokenRow]
           /\ tokens'[t] = Revoked(t)
           /\ \A s \in Token : s # t => tokens'[s] = tokens[s]
           /\ closed' = closed \cup {tokens[t].root}
           /\ raced' \in SUBSET Subject /\ raced \subseteq raced'
           /\ \A g \in Handler : work[g].user = tokens[t].user => tokens[t].user \in raced'
           /\ Together'
<1>1. /\ tokens[t].status = "live" /\ tokens[t].user \in User /\ tokens[t].root \in Token
      /\ Revoked(t) \in TokenRow
  BY LiveOwner, RevokedRow DEF Logout
<1>2. /\ tokens' \in [Token -> TokenRow] /\ tokens'[t] = Revoked(t)
      /\ \A s \in Token : s # t => tokens'[s] = tokens[s]
      /\ closed' = closed \cup {tokens[t].root}
  BY <1>1 DEF Logout, TypeOK
<1>3. raced' = raced \cup ({tokens[t].user} \cap Touched(Handler)) /\ work' = work
  BY DEF Logout
<1>4. raced' \in SUBSET Subject /\ raced \subseteq raced'
  BY <1>1, <1>3 DEF TypeOK, Subject
<1>5. \A g \in Handler : work[g].user = tokens[t].user => tokens[t].user \in raced'
  BY <1>3 DEF Touched, WorksOn
<1>6. Together'
  <2>1. \A g \in Handler : WorksOn(g)' = WorksOn(g)
    BY <1>3 DEF WorksOn, Administers
  <2> QED BY <1>4, <2>1 DEF Together, Subject
<1> QED BY <1>1, <1>2, <1>4, <1>5, <1>6

LEMMA LogoutAllFacts ==
    ASSUME TypeOK, Together, NEW u \in User, LogoutAll(u)
    PROVE  /\ RevokeAll(u) /\ work' = work
           /\ raced' \in SUBSET Subject
           /\ \A s \in Subject : s # u => (s \in raced' <=> s \in raced)
           /\ \A g \in Handler : work[g].user = u => u \in raced'
           /\ Together'
<1>1. RevokeAll(u) /\ work' = work /\ raced' = RacedAfter(Handler, u)
  BY DEF LogoutAll
<1>2. raced' \in SUBSET Subject
  BY <1>1 DEF RacedAfter, TypeOK, Subject
<1>3. \A s : s # u => (s \in raced' <=> s \in raced)
  BY <1>1 DEF RacedAfter
<1>4. \A g \in Handler : u \in WorksOn(g) => u \in raced'
  BY <1>1 DEF RacedAfter, Touched
<1>5. \A g \in Handler : work[g].user = u => u \in raced'
  BY <1>4 DEF WorksOn
<1>6. Together'
  <2>1. \A g \in Handler : WorksOn(g)' = WorksOn(g)
    BY <1>1 DEF WorksOn, Administers
  <2> QED BY <1>3, <1>4, <2>1 DEF Together, Subject
<1> QED BY <1>1, <1>2, <1>3, <1>5, <1>6

LEMMA SetPasswordFacts ==
    ASSUME TypeOK, NEW u \in User, SetPassword(u)
    PROVE  /\ users' \in [User -> [role : Role, status : Status, pwd : Nat]]
           /\ \A v \in User : users'[v].role = users[v].role /\ users'[v].status = users[v].status
           /\ \A v \in User : v # u => users'[v] = users[v]
<1>1. users[u] \in [role : Role, status : Status, pwd : Nat]
  BY DEF TypeOK
<1> DEFINE row == [role |-> users[u].role, status |-> users[u].status,
                   pwd |-> IF Exists(u) THEN users[u].pwd + 1 ELSE users[u].pwd]
<1>2. row \in [role : Role, status : Status, pwd : Nat]
  BY <1>1
<1>3. users' = [users EXCEPT ![u] = row]
  BY DEF SetPassword
<1> QED BY <1>2, <1>3 DEF TypeOK

LEMMA WriteUserFacts ==
    ASSUME TypeOK, Together, Shape, NEW h \in Handler, WriteUser(h)
    PROVE  LET u == work[h].user IN
           /\ u \in User /\ users[u].status # "absent"
           /\ users' \in [User -> [role : Role, status : Status, pwd : Nat]]
           /\ \A v \in User : v # u => users'[v] = users[v]
           /\ users'[u].status # "absent"
           /\ (work[h].role = Keep \/ ~Exists(u)) => users'[u].role = users[u].role
           /\ (work[h].status = Keep \/ ~Exists(u)) => users'[u].status = users[u].status
           /\ (work[h].status # Keep /\ Exists(u)) => users'[u].status = work[h].status
           /\ work[h].op = "write"
           /\ work' \in [Handler -> WorkRow]
           /\ work'[h].op \in {"reload", "signout"} /\ work'[h].user = u
           /\ \A g \in Handler : g # h => work'[g] = work[g]
           /\ raced' = raced
           /\ Together'
<1> DEFINE w == work[h]
           u == work[h].user
           op == IF w.status = "deleted" THEN "signout" ELSE "reload"
           row == [role |-> IF w.role # Keep /\ Exists(u) THEN w.role ELSE users[u].role,
                   status |-> IF w.status # Keep /\ Exists(u) THEN w.status ELSE users[u].status,
                   pwd |-> users[u].pwd]
<1>1. w.op = "write" /\ u \in User /\ users[u].status # "absent"
  BY DEF WriteUser, Shape
<1>2. users[u] \in [role : Role, status : Status, pwd : Nat]
      /\ w.role \in Role \cup {Keep} /\ w.status \in {Keep, "active", "barred", "deleted"}
  BY <1>1 DEF TypeOK
<1>3. row \in [role : Role, status : Status, pwd : Nat] /\ row.status # "absent"
  BY <1>1, <1>2 DEF Status, Keep
<1>4. users' = [users EXCEPT ![u] = row] /\ Goto(h, op)
  BY DEF WriteUser
<1>5. op \in {"reload", "signout"}
  OBVIOUS
<1>6. /\ users' \in [User -> [role : Role, status : Status, pwd : Nat]]
      /\ \A v \in User : v # u => users'[v] = users[v]
      /\ users'[u] = row
  BY <1>1, <1>3, <1>4 DEF TypeOK
<1>7. /\ work' \in [Handler -> WorkRow]
      /\ work'[h].op = op /\ work'[h].user = work[h].user
      /\ \A g \in Handler : g # h => work'[g] = work[g]
      /\ raced' = raced
      /\ Together'
  <2> HIDE DEF op
  <2> QED BY <1>4, <1>5, GotoFacts
<1>8. /\ users'[u].status # "absent"
      /\ (work[h].role = Keep \/ ~Exists(u)) => users'[u].role = users[u].role
      /\ (work[h].status = Keep \/ ~Exists(u)) => users'[u].status = users[u].status
      /\ (work[h].status # Keep /\ Exists(u)) => users'[u].status = work[h].status
  BY <1>3, <1>6
<1> QED BY <1>1, <1>5, <1>6, <1>7, <1>8

LEMMA ChangePasswordFacts ==
    ASSUME TypeOK, Together, Shape, NEW h \in Handler, ChangePassword(h)
    PROVE  /\ work[h].op = "change" /\ work[h].user \in User /\ SetPassword(work[h].user)
           /\ work' \in [Handler -> WorkRow]
           /\ work'[h].op = "signout" /\ work'[h].user = work[h].user
           /\ \A g \in Handler : g # h => work'[g] = work[g]
           /\ raced' = raced
           /\ Together'
<1>1. work[h].op = "change" /\ work[h].user \in User /\ SetPassword(work[h].user)
      /\ Goto(h, "signout")
  BY DEF ChangePassword, Shape
<1> QED BY <1>1, GotoFacts

LEMMA ResetPasswordFacts ==
    ASSUME TypeOK, Together, Shape, NEW h \in Handler, ResetPassword(h)
    PROVE  LET u == work[h].user
               r == work[h].doc
           IN
           /\ work[h].op = "reset" /\ u \in User /\ r \in Reset
           /\ users[u].status # "absent"
           /\ SetPassword(u) /\ RevokeAll(u)
           /\ resets' \in [Reset -> ResetRow] /\ resets'[r].status = "used"
           /\ resets'[r].user = u
           /\ \A q \in Reset : q # r => resets'[q] = resets[q] /\ uses'[q] = uses[q]
           /\ uses' \in [Reset -> Nat] /\ uses'[r] = uses[r] + 1
           /\ work' = [work EXCEPT ![h] = Idle]
           /\ raced' = RacedAfter(Handler \ {h}, u)
<1> DEFINE u == work[h].user
           r == work[h].doc
<1>1. work[h].op = "reset" /\ u \in User /\ r \in Reset /\ users[u].status # "absent"
  BY DEF ResetPassword, Shape
<1>2. resets' = [resets EXCEPT ![r] = [status |-> "used", user |-> u]]
      /\ uses' = [uses EXCEPT ![r] = uses[r] + 1]
  BY DEF ResetPassword
<1>3. [status |-> "used", user |-> u] \in ResetRow
  BY <1>1 DEF ResetRow
<1>4. resets' \in [Reset -> ResetRow] /\ resets'[r].status = "used" /\ resets'[r].user = u
      /\ \A q \in Reset : q # r => resets'[q] = resets[q]
  BY <1>1, <1>2, <1>3 DEF TypeOK
<1>5. uses' \in [Reset -> Nat] /\ uses'[r] = uses[r] + 1
      /\ \A q \in Reset : q # r => uses'[q] = uses[q]
  BY <1>1, <1>2 DEF TypeOK
<1> QED BY <1>1, <1>4, <1>5 DEF ResetPassword

LEMMA SignOutFacts ==
    ASSUME TypeOK, Together, Shape, NEW h \in Handler, SignOut(h)
    PROVE  LET u == work[h].user IN
           /\ u \in User /\ RevokeAll(u)
           /\ work[h].op \in {"reload", "signout"}
           /\ work' = [work EXCEPT ![h] = Idle]
           /\ raced' = RacedAfter(Handler \ {h}, u)
  BY DEF SignOut, Shape

LEMMA CountFacts ==
    ASSUME TypeOK, Together, NEW h \in Handler, CountAdmins(h)
    PROVE  /\ work[h].op = "count" /\ OtherAdmins(work[h].user) # {}
           /\ work' \in [Handler -> WorkRow]
           /\ work'[h].op = "write" /\ work'[h].user = work[h].user
           /\ \A g \in Handler : g # h => work'[g] = work[g]
           /\ raced' = raced
           /\ Together'
<1>1. work[h].op = "count" /\ OtherAdmins(work[h].user) # {} /\ Goto(h, "write")
      /\ Administers(h)
  BY DEF CountAdmins, Administers
<1> QED BY <1>1, GotoFacts

-----------------------------------------------------------------------------
(* Types, and who works on what.                                           *)
LEMMA TypeStep ==
    ASSUME Inv, [Next]_vars
    PROVE  TypeOK' /\ Together'
<1> USE DEF Inv
<1> DEFINE Typed == /\ work' \in [Handler -> WorkRow]
                    /\ raced' \in SUBSET Subject
                    /\ Together'
<1>0. TypeOK' <=>
        /\ users' \in [User -> [role : Role, status : Status, pwd : Nat]]
        /\ tokens' \in [Token -> TokenRow]
        /\ resets' \in [Reset -> ResetRow]
        /\ badges' \in SUBSET (User \X Role)
        /\ work' \in [Handler -> WorkRow]
        /\ raced' \in SUBSET Subject
        /\ cut' \in SUBSET User
        /\ closed' \in SUBSET Token
        /\ uses' \in [Reset -> Nat]
        /\ begun' \in Nat
  BY DEF TypeOK, WorkRow, Subject
<1>1. ASSUME NEW h \in Handler, NEW u \in User, Begun(h, u) PROVE TypeOK' /\ Together'
  BY <1>0, <1>1 DEF Begun, TypeOK
<1>2. ASSUME NEW h \in Handler, NEW u \in User, CheckLogin(h, u) PROVE TypeOK' /\ Together'
  BY <1>1, <1>2, CheckLoginFacts
<1>3. ASSUME NEW h \in Handler, NEW u \in User, CheckPassword(h, u) PROVE TypeOK' /\ Together'
  BY <1>1, <1>3, CheckPasswordFacts
<1>4. ASSUME NEW h \in Handler, NEW t \in Token, ReadToken(h, t) PROVE TypeOK' /\ Together'
  BY <1>1, <1>4, ReadTokenFacts
<1>5. ASSUME NEW h \in Handler, NEW r \in Reset, ReadReset(h, r) PROVE TypeOK' /\ Together'
  BY <1>1, <1>5, ReadResetFacts
<1>6. ASSUME NEW h \in Handler, NEW a \in User, NEW u \in User, NEW role \in Role \cup {Keep},
             NEW status \in {Keep, "active", "barred", "deleted"},
             LookUp(h, a, u, role, status)
      PROVE  TypeOK' /\ Together'
  BY <1>1, <1>6, LookUpFacts
<1>7. ASSUME NEW h \in Handler, NEW n \in Token, Login(h, n) PROVE TypeOK' /\ Together'
  <2>1. Finish(h) /\ UNCHANGED <<users, resets, cut, closed, uses, begun>>
    BY <1>7 DEF Login
  <2>2. Typed
    BY <2>1, FinishFacts DEF TypeOK, Subject
  <2>3. tokens' \in [Token -> TokenRow] /\ badges' \in SUBSET (User \X Role)
    BY <1>7, LoginFacts
  <2> QED BY <1>0, <2>1, <2>2, <2>3 DEF TypeOK
<1>8. ASSUME NEW h \in Handler, NEW n \in Token, Rotate(h, n) PROVE TypeOK' /\ Together'
  <2>1. Finish(h) /\ UNCHANGED <<users, resets, cut, closed, uses, begun>>
    BY <1>8 DEF Rotate
  <2>2. Typed
    BY <2>1, FinishFacts DEF TypeOK, Subject
  <2>3. tokens' \in [Token -> TokenRow] /\ badges' \in SUBSET (User \X Role)
    BY <1>8, RotateFacts
  <2> QED BY <1>0, <2>1, <2>2, <2>3 DEF TypeOK
<1>9. ASSUME NEW h \in Handler, ReadOwner(h) PROVE TypeOK' /\ Together'
  <2>1. Typed
    BY <1>9, ReadOwnerFacts DEF TypeOK, Subject
  <2> QED BY <1>0, <1>9, <2>1 DEF TypeOK, ReadOwner
<1>10. ASSUME NEW h \in Handler, ChangePassword(h) PROVE TypeOK' /\ Together'
  <2>1. Typed /\ users' \in [User -> [role : Role, status : Status, pwd : Nat]]
    BY <1>10, ChangePasswordFacts, SetPasswordFacts DEF TypeOK, Subject
  <2> QED BY <1>0, <1>10, <2>1 DEF TypeOK, ChangePassword
<1>11. ASSUME NEW h \in Handler, ResetPassword(h) PROVE TypeOK' /\ Together'
  <2>1. /\ work[h].user \in User /\ SetPassword(work[h].user) /\ RevokeAll(work[h].user)
        /\ resets' \in [Reset -> ResetRow] /\ uses' \in [Reset -> Nat]
        /\ work' = [work EXCEPT ![h] = Idle]
        /\ raced' = RacedAfter(Handler \ {h}, work[h].user)
    BY <1>11, ResetPasswordFacts
  <2>2. Typed
    BY <2>1, EndFacts
  <2>3. users' \in [User -> [role : Role, status : Status, pwd : Nat]]
    BY <2>1, SetPasswordFacts
  <2>4. tokens' \in [Token -> TokenRow] /\ closed' \in SUBSET Token /\ cut' \in SUBSET User
    BY <2>1, RevokeFacts
  <2> QED BY <1>0, <1>11, <2>1, <2>2, <2>3, <2>4 DEF TypeOK, ResetPassword
<1>12. ASSUME NEW h \in Handler, CountAdmins(h) PROVE TypeOK' /\ Together'
  <2>1. Typed
    BY <1>12, CountFacts DEF TypeOK, Subject
  <2> QED BY <1>0, <1>12, <2>1 DEF TypeOK, CountAdmins
<1>13. ASSUME NEW h \in Handler, WriteUser(h) PROVE TypeOK' /\ Together'
  <2>1. Typed /\ users' \in [User -> [role : Role, status : Status, pwd : Nat]]
    BY <1>13, WriteUserFacts DEF TypeOK, Subject
  <2> QED BY <1>0, <1>13, <2>1 DEF TypeOK, WriteUser
<1>14. ASSUME NEW h \in Handler, SignOut(h) PROVE TypeOK' /\ Together'
  <2>1. /\ work[h].user \in User /\ RevokeAll(work[h].user)
        /\ work' = [work EXCEPT ![h] = Idle]
        /\ raced' = RacedAfter(Handler \ {h}, work[h].user)
    BY <1>14, SignOutFacts
  <2>2. Typed
    BY <2>1, EndFacts
  <2>3. tokens' \in [Token -> TokenRow] /\ closed' \in SUBSET Token /\ cut' \in SUBSET User
    BY <2>1, RevokeFacts
  <2> QED BY <1>0, <1>14, <2>2, <2>3 DEF TypeOK, SignOut
<1>15. ASSUME NEW h \in Handler, GiveUp(h) PROVE TypeOK' /\ Together'
  <2>1. Finish(h) /\ work[h].op # "idle"
        /\ UNCHANGED <<users, tokens, resets, badges, closed, uses, begun>>
        /\ cut' = cut \cup (IF work[h].op \in {"reload", "signout"} THEN {work[h].user} ELSE {})
    BY <1>15 DEF GiveUp
  <2>2. Typed
    BY <2>1, FinishFacts DEF TypeOK, Subject
  <2>3. cut' \in SUBSET User
    BY <2>1 DEF Shape, TypeOK
  <2> QED BY <1>0, <2>1, <2>2, <2>3 DEF TypeOK
<1>16. ASSUME NEW u \in User, NEW n \in Token, Register(u, n) PROVE TypeOK' /\ Together'
  <2>1. Minted(n, u, n, "admin", 0) \in TokenRow /\ "admin" \in Role
    BY MintedRow DEF Role
  <2>2. tokens' \in [Token -> TokenRow] /\ badges' \in SUBSET (User \X Role)
    BY <1>16, <2>1 DEF TypeOK, Register, Mint
  <2>3. users' \in [User -> [role : Role, status : Status, pwd : Nat]]
    BY <1>16 DEF TypeOK, Register, Role, Status
  <2>4. UNCHANGED <<resets, work, raced, cut, closed, uses, begun>>
    BY <1>16 DEF Register
  <2>5. Together'
    BY <2>4 DEF Together, WorksOn, Administers
  <2> QED BY <1>0, <2>2, <2>3, <2>4, <2>5 DEF TypeOK, WorkRow, Subject
<1>17. ASSUME NEW t \in Token, Logout(t) PROVE TypeOK' /\ Together'
  <2>1. /\ Together' /\ raced' \in SUBSET Subject
        /\ tokens' \in [Token -> TokenRow] /\ closed' \in SUBSET Token
    BY <1>17, LogoutFacts DEF TypeOK
  <2>2. UNCHANGED <<users, resets, badges, work, cut, uses, begun>>
    BY <1>17 DEF Logout
  <2> QED BY <1>0, <2>1, <2>2 DEF TypeOK, WorkRow
<1>18. ASSUME NEW u \in User, LogoutAll(u) PROVE TypeOK' /\ Together'
  <2>1. RevokeAll(u) /\ Together' /\ raced' \in SUBSET Subject
    BY <1>18, LogoutAllFacts
  <2>2. tokens' \in [Token -> TokenRow] /\ closed' \in SUBSET Token /\ cut' \in SUBSET User
    BY <2>1, RevokeFacts
  <2>3. UNCHANGED <<users, resets, badges, work, uses, begun>>
    BY <1>18 DEF LogoutAll
  <2> QED BY <1>0, <2>1, <2>2, <2>3 DEF TypeOK, WorkRow
<1>19. ASSUME NEW r \in Reset, NEW u \in User, RequestPasswordReset(r, u) PROVE TypeOK' /\ Together'
  <2>1. resets' \in [Reset -> ResetRow]
    BY <1>19 DEF TypeOK, RequestPasswordReset, ResetRow
  <2>2. UNCHANGED <<users, tokens, badges, work, raced, cut, closed, uses, begun>>
    BY <1>19 DEF RequestPasswordReset
  <2>3. Together'
    BY <2>2 DEF Together, WorksOn, Administers
  <2> QED BY <1>0, <2>1, <2>2, <2>3 DEF TypeOK, WorkRow, Subject
<1>20. ASSUME NEW a \in User, NEW u \in User, NEW role \in Role, CreateUser(a, u, role)
       PROVE  TypeOK' /\ Together'
  <2>1. users' \in [User -> [role : Role, status : Status, pwd : Nat]]
    BY <1>20 DEF TypeOK, CreateUser, Status
  <2>2. UNCHANGED <<tokens, resets, badges, work, raced, cut, closed, uses, begun>>
    BY <1>20 DEF CreateUser
  <2>3. Together'
    BY <2>2 DEF Together, WorksOn, Administers
  <2> QED BY <1>0, <2>1, <2>2, <2>3 DEF TypeOK, WorkRow, Subject
<1>21. CASE UNCHANGED vars
  <2>1. Together'
    BY <1>21 DEF vars, Together, WorksOn, Administers
  <2> QED BY <1>0, <1>21, <2>1 DEF vars, TypeOK, WorkRow, Subject
<1> QED
  BY <1>2, <1>3, <1>4, <1>5, <1>6, <1>7, <1>8, <1>9, <1>10, <1>11, <1>12, <1>13, <1>14, <1>15,
     <1>16, <1>17, <1>18, <1>19, <1>20, <1>21 DEF Next, Serve

-----------------------------------------------------------------------------
(* Rows do not go away, and a token or a reset keeps its account.          *)
Persist ==
    /\ \A u \in User : users[u].status # "absent" => users'[u].status # "absent"
    /\ \A t \in Token : tokens[t].status # "absent" =>
         /\ tokens'[t].status # "absent"
         /\ tokens'[t].user = tokens[t].user /\ tokens'[t].root = tokens[t].root
         /\ tokens'[t].pwd = tokens[t].pwd
    /\ \A r \in Reset : resets[r].status # "absent" =>
         resets'[r].status # "absent" /\ resets'[r].user = resets[r].user

LEMMA RevokePersists ==
    ASSUME TypeOK, NEW u \in User, RevokeAll(u)
    PROVE  \A t \in Token : tokens[t].status # "absent" =>
             /\ tokens'[t].status # "absent"
             /\ tokens'[t].user = tokens[t].user /\ tokens'[t].root = tokens[t].root
             /\ tokens'[t].pwd = tokens[t].pwd
  BY RevokeFacts

LEMMA PersistStep ==
    ASSUME Inv, [Next]_vars
    PROVE  Persist
<1> USE DEF Inv
<1>1. CASE UNCHANGED <<users, tokens, resets>>
  BY <1>1 DEF Persist
<1>2. ASSUME NEW h \in Handler, NEW n \in Token, Login(h, n) PROVE Persist
  BY <1>2, LoginFacts DEF Persist, Login
<1>3. ASSUME NEW h \in Handler, NEW n \in Token, Rotate(h, n) PROVE Persist
  <2>1. /\ tokens[n].status = "absent" /\ work[h].doc \in Token /\ tokens[work[h].doc].status # "absent"
        /\ tokens'[work[h].doc] = Revoked(work[h].doc)
        /\ \A s \in Token : (s # n /\ s # work[h].doc) => tokens'[s] = tokens[s]
    BY <1>3, RotateFacts
  <2>2. users' = users /\ resets' = resets
    BY <1>3 DEF Rotate
  <2> QED BY <2>1, <2>2 DEF Persist, Revoked
<1>4. ASSUME NEW h \in Handler, ChangePassword(h) PROVE Persist
  BY <1>4, ChangePasswordFacts, SetPasswordFacts DEF Persist, ChangePassword
<1>5. ASSUME NEW h \in Handler, ResetPassword(h) PROVE Persist
  <2> DEFINE u == work[h].user
             r == work[h].doc
  <2>1. /\ u \in User /\ r \in Reset /\ SetPassword(u) /\ RevokeAll(u) /\ resets[r].user = u
        /\ resets'[r].status = "used" /\ resets'[r].user = u
        /\ \A q \in Reset : q # r => resets'[q] = resets[q]
    BY <1>5, ResetPasswordFacts DEF Shape
  <2> QED BY <2>1, SetPasswordFacts, RevokePersists DEF Persist
<1>6. ASSUME NEW h \in Handler, WriteUser(h) PROVE Persist
  BY <1>6, WriteUserFacts DEF Persist, WriteUser
<1>7. ASSUME NEW h \in Handler, SignOut(h) PROVE Persist
  BY <1>7, SignOutFacts, RevokePersists DEF Persist, SignOut
<1>8. ASSUME NEW u \in User, NEW n \in Token, Register(u, n) PROVE Persist
  <2>1. \A v \in User : users[v].status = "absent"
    BY <1>8 DEF Register
  <2>2. tokens[n].status = "absent" /\ resets' = resets
        /\ \A t \in Token : t # n => tokens'[t] = tokens[t]
    BY <1>8 DEF Register, Mint, TypeOK
  <2> QED BY <2>1, <2>2 DEF Persist
<1>9. ASSUME NEW t \in Token, Logout(t) PROVE Persist
  BY <1>9, LogoutFacts DEF Persist, Logout, Revoked
<1>10. ASSUME NEW u \in User, LogoutAll(u) PROVE Persist
  BY <1>10, LogoutAllFacts, RevokePersists DEF Persist, LogoutAll
<1>11. ASSUME NEW r \in Reset, NEW u \in User, RequestPasswordReset(r, u) PROVE Persist
  BY <1>11 DEF Persist, RequestPasswordReset, TypeOK
<1>12. ASSUME NEW a \in User, NEW u \in User, NEW role \in Role, CreateUser(a, u, role)
       PROVE  Persist
  BY <1>12 DEF Persist, CreateUser, TypeOK
<1>13. ASSUME NEW h \in Handler, ReadOwner(h) \/ CountAdmins(h) \/ GiveUp(h) PROVE Persist
  BY <1>1, <1>13 DEF ReadOwner, CountAdmins, GiveUp
<1>14. ASSUME NEW h \in Handler, NEW u \in User, CheckLogin(h, u) \/ CheckPassword(h, u)
       PROVE  Persist
  BY <1>1, <1>14 DEF CheckLogin, CheckPassword
<1>15. ASSUME NEW h \in Handler, NEW t \in Token, ReadToken(h, t) PROVE Persist
  BY <1>1, <1>15 DEF ReadToken
<1>16. ASSUME NEW h \in Handler, NEW r \in Reset, ReadReset(h, r) PROVE Persist
  BY <1>1, <1>16 DEF ReadReset
<1>17. ASSUME NEW h \in Handler, NEW a \in User, NEW u \in User, NEW role \in Role \cup {Keep},
              NEW status \in {Keep, "active", "barred", "deleted"},
              LookUp(h, a, u, role, status)
       PROVE  Persist
  BY <1>1, <1>17 DEF LookUp
<1>18. CASE UNCHANGED vars
  BY <1>1, <1>18 DEF vars
<1> QED
  BY <1>2, <1>3, <1>4, <1>5, <1>6, <1>7, <1>8, <1>9, <1>10, <1>11, <1>12, <1>13, <1>14, <1>15,
     <1>16, <1>17, <1>18 DEF Next, Serve

(* What one handler's part of Shape says.                                  *)
ShapeOf(h) ==
    /\ work[h].op # "idle" =>
         work[h].user \in User /\ users[work[h].user].status # "absent"
    /\ work[h].op \in {"login", "rotate"} => work[h].role \in Role
    /\ work[h].op \in {"refresh", "rotate"} =>
         /\ work[h].doc \in Token
         /\ tokens[work[h].doc].status # "absent"
         /\ tokens[work[h].doc].user = work[h].user
    /\ work[h].op = "reset" =>
         /\ work[h].doc \in Reset
         /\ resets[work[h].doc].status # "absent"
         /\ resets[work[h].doc].user = work[h].user

LEMMA ShapeStep ==
    ASSUME Inv, [Next]_vars
    PROVE  Shape'
<1> USE DEF Inv
<1>1. Persist
  BY PersistStep
<1>2. ASSUME NEW h \in Handler, work'[h] = work[h] PROVE ShapeOf(h)'
  <2>1. ShapeOf(h)
    BY DEF Shape, ShapeOf
  <2> QED BY <1>1, <1>2, <2>1 DEF Persist, ShapeOf
<1>3. ASSUME NEW h \in Handler, work'[h].op = "idle" PROVE ShapeOf(h)'
  BY <1>3 DEF ShapeOf
<1>4. ASSUME NEW h \in Handler, work[h].op # "idle", work'[h].user = work[h].user,
             work'[h].op \in {"write", "reload", "signout"}
      PROVE  ShapeOf(h)'
  <2>1. work[h].user \in User /\ users[work[h].user].status # "absent"
    BY <1>4 DEF Shape
  <2> QED BY <1>1, <1>4, <2>1 DEF Persist, ShapeOf
<1>5. CASE work' = work
  BY <1>2, <1>5 DEF Shape, ShapeOf
<1>6. ASSUME NEW h \in Handler, ShapeOf(h)', \A g \in Handler : g # h => work'[g] = work[g]
      PROVE  Shape'
  BY <1>2, <1>6 DEF Shape, ShapeOf
<1>7. ASSUME NEW h \in Handler, Finish(h) PROVE Shape'
  BY <1>3, <1>6, <1>7, FinishFacts
<1>8. ASSUME NEW h \in Handler, NEW n \in Token, Login(h, n) \/ Rotate(h, n) PROVE Shape'
  BY <1>7, <1>8 DEF Login, Rotate
<1>9. ASSUME NEW h \in Handler, GiveUp(h) PROVE Shape'
  BY <1>7, <1>9 DEF GiveUp
<1>10. ASSUME NEW h \in Handler, ChangePassword(h) PROVE Shape'
  BY <1>4, <1>6, <1>10, ChangePasswordFacts
<1>11. ASSUME NEW h \in Handler, CountAdmins(h) PROVE Shape'
  BY <1>4, <1>6, <1>11, CountFacts
<1>12. ASSUME NEW h \in Handler, WriteUser(h) PROVE Shape'
  BY <1>4, <1>6, <1>12, WriteUserFacts
<1>13. ASSUME NEW h \in Handler, ResetPassword(h) \/ SignOut(h) PROVE Shape'
  <2>1. /\ work[h].user \in User /\ work' = [work EXCEPT ![h] = Idle]
        /\ raced' = RacedAfter(Handler \ {h}, work[h].user)
    BY <1>13, ResetPasswordFacts, SignOutFacts
  <2>2. work'[h].op = "idle" /\ \A g \in Handler : g # h => work'[g] = work[g]
    BY <2>1, EndFacts
  <2> QED BY <1>3, <1>6, <2>2
<1>15. ASSUME NEW h \in Handler, ReadOwner(h) PROVE Shape'
  <2>1. /\ work[h].op = "refresh" /\ work[h].user \in User
        /\ users[work[h].user].role \in Role
        /\ work'[h].op = "rotate" /\ work'[h].user = work[h].user
        /\ work'[h].doc = work[h].doc /\ work'[h].role = users[work[h].user].role
        /\ \A g \in Handler : g # h => work'[g] = work[g]
        /\ users' = users /\ tokens' = tokens /\ resets' = resets
    BY <1>15, ReadOwnerFacts DEF TypeOK, ReadOwner
  <2>2. ShapeOf(h)
    BY DEF Shape, ShapeOf
  <2>3. ShapeOf(h)'
    BY <2>1, <2>2 DEF ShapeOf
  <2> QED BY <1>6, <2>1, <2>3
<1>16. ASSUME NEW h \in Handler, NEW u \in User, CheckLogin(h, u) PROVE Shape'
  <2>1. Begun(h, u) /\ CanLogin(u) /\ work'[h].op = "login" /\ work'[h].role = users[u].role
    BY <1>16, CheckLoginFacts
  <2>2. ShapeOf(h)'
    BY <2>1 DEF Begun, ShapeOf, CanLogin, TypeOK
  <2> QED BY <1>6, <2>1, <2>2 DEF Begun
<1>17. ASSUME NEW h \in Handler, NEW u \in User, CheckPassword(h, u) PROVE Shape'
  <2>1. Begun(h, u) /\ Exists(u) /\ work'[h].op = "change"
    BY <1>17, CheckPasswordFacts
  <2>2. ShapeOf(h)'
    BY <2>1 DEF Begun, ShapeOf, Exists
  <2> QED BY <1>6, <2>1, <2>2 DEF Begun
<1>18. ASSUME NEW h \in Handler, NEW t \in Token, ReadToken(h, t) PROVE Shape'
  <2>1. /\ Begun(h, tokens[t].user) /\ tokens[t].status = "live" /\ tokens[t].user \in User
        /\ work'[h].op = "refresh" /\ work'[h].doc = t
    BY <1>18, ReadTokenFacts
  <2>2. users[tokens[t].user].status # "absent"
    BY <2>1 DEF Owners
  <2>3. ShapeOf(h)'
    BY <2>1, <2>2 DEF Begun, ShapeOf
  <2> QED BY <1>6, <2>1, <2>3 DEF Begun
<1>19. ASSUME NEW h \in Handler, NEW r \in Reset, ReadReset(h, r) PROVE Shape'
  <2>1. /\ Begun(h, resets[r].user) /\ resets[r].status = "open" /\ resets[r].user \in User
        /\ work'[h].op = "reset" /\ work'[h].doc = r
    BY <1>19, ReadResetFacts
  <2>2. users[resets[r].user].status # "absent"
    BY <2>1 DEF Owners
  <2>3. ShapeOf(h)'
    BY <2>1, <2>2 DEF Begun, ShapeOf
  <2> QED BY <1>6, <2>1, <2>3 DEF Begun
<1>20. ASSUME NEW h \in Handler, NEW a \in User, NEW u \in User, NEW role \in Role \cup {Keep},
              NEW status \in {Keep, "active", "barred", "deleted"},
              LookUp(h, a, u, role, status)
       PROVE  Shape'
  <2>1. Begun(h, u) /\ Exists(u) /\ work'[h].op \in {"count", "write"}
    BY <1>20, LookUpFacts
  <2>2. ShapeOf(h)'
    BY <2>1 DEF Begun, ShapeOf, Exists
  <2> QED BY <1>6, <2>1, <2>2 DEF Begun
<1>21. ASSUME NEW u \in User, NEW n \in Token, Register(u, n) PROVE Shape'
  BY <1>5, <1>21 DEF Register
<1>22. ASSUME NEW t \in Token, Logout(t) PROVE Shape'
  BY <1>5, <1>22 DEF Logout
<1>23. ASSUME NEW u \in User, LogoutAll(u) PROVE Shape'
  BY <1>5, <1>23 DEF LogoutAll
<1>24. ASSUME NEW r \in Reset, NEW u \in User, RequestPasswordReset(r, u) PROVE Shape'
  BY <1>5, <1>24 DEF RequestPasswordReset
<1>25. ASSUME NEW a \in User, NEW u \in User, NEW role \in Role, CreateUser(a, u, role)
       PROVE  Shape'
  BY <1>5, <1>25 DEF CreateUser
<1>26. CASE UNCHANGED vars
  BY <1>5, <1>26 DEF vars
<1> QED
  BY <1>8, <1>9, <1>10, <1>11, <1>12, <1>13, <1>15, <1>16, <1>17, <1>18, <1>19, <1>20, <1>21,
     <1>22, <1>23, <1>24, <1>25, <1>26 DEF Next, Serve

LEMMA OwnersKept ==
    ASSUME Inv, Persist,
           \A t \in Token : tokens'[t].status # "absent" => tokens[t].status # "absent",
           \A r \in Reset : resets'[r].status # "absent" => resets[r].status # "absent",
           closed' \in SUBSET Token,
           \A c \in closed' \ closed : tokens[c].status # "absent"
    PROVE  Owners'
<1> USE DEF Inv
<1>1. \A t \in Token : tokens[t].status # "absent" =>
        tokens[t].user \in User /\ tokens[t].root \in Token
  BY LiveOwner
<1>2. \A r \in Reset : resets[r].status # "absent" => resets[r].user \in User
  BY ResetOwner
<1>3. \A t \in Token : tokens'[t].status # "absent" =>
        users'[tokens'[t].user].status # "absent" /\ tokens'[tokens'[t].root].status # "absent"
  BY <1>1 DEF Persist, Owners
<1>4. \A s, t \in Token :
        (/\ tokens'[s].status # "absent" /\ tokens'[t].status # "absent"
         /\ tokens'[s].root = tokens'[t].root) => tokens'[s].user = tokens'[t].user
  BY DEF Persist, Owners
<1>5. \A r \in Reset : resets'[r].status # "absent" => users'[resets'[r].user].status # "absent"
  BY <1>2 DEF Persist, Owners
<1>6. \A c \in closed' : tokens'[c].status # "absent"
  BY DEF Persist, Owners
<1> QED BY <1>3, <1>4, <1>5, <1>6 DEF Owners

(* A token is minted for an account that exists, in a chain of that        *)
(* account or in one of its own.                                           *)
LEMMA OwnersMinted ==
    ASSUME Inv, Persist, NEW n \in Token, NEW u \in User, NEW root \in Token,
           tokens[n].status = "absent", users'[u].status # "absent",
           tokens' \in [Token -> TokenRow],
           tokens'[n].status # "absent", tokens'[n].user = u, tokens'[n].root = root,
           \A t \in Token \ {n} : tokens'[t].status # "absent" => tokens[t].status # "absent",
           root = n \/ (tokens[root].status # "absent" /\
             \E t \in Token : tokens[t].status # "absent" /\ tokens[t].root = root /\ tokens[t].user = u),
           resets' = resets, closed' = closed
    PROVE  Owners'
<1> USE DEF Inv
<1>1. \A t \in Token : tokens[t].status # "absent" =>
        tokens[t].user \in User /\ tokens[t].root \in Token
  BY LiveOwner
<1>2. \A r \in Reset : resets[r].status # "absent" => resets[r].user \in User
  BY ResetOwner
<1>3. \A t \in Token \ {n} : tokens'[t].status # "absent" =>
        /\ tokens[t].status # "absent"
        /\ tokens'[t].user = tokens[t].user /\ tokens'[t].root = tokens[t].root
  BY DEF Persist
<1>4. \A t \in Token : tokens[t].status # "absent" => tokens'[t].status # "absent"
  BY DEF Persist
<1>5. tokens'[root].status # "absent"
  BY <1>4
<1>6. \A t \in Token : tokens'[t].status # "absent" =>
        users'[tokens'[t].user].status # "absent" /\ tokens'[tokens'[t].root].status # "absent"
  BY <1>1, <1>3, <1>4, <1>5 DEF Persist, Owners
<1>7. \A t \in Token \ {n} :
        (tokens[t].status # "absent" /\ tokens[t].root = root) => tokens[t].user = u
  <2>1. CASE root = n
    <3>1. \A t \in Token : tokens[t].status # "absent" => tokens[t].root # n
      BY DEF Owners
    <3> QED BY <2>1, <3>1
  <2>2. CASE root # n
    <3>1. PICK t \in Token : tokens[t].status # "absent" /\ tokens[t].root = root /\ tokens[t].user = u
      BY <2>2
    <3> QED BY <3>1 DEF Owners
  <2> QED BY <2>1, <2>2
<1>8. \A s, t \in Token :
        (/\ tokens'[s].status # "absent" /\ tokens'[t].status # "absent"
         /\ tokens'[s].root = tokens'[t].root) => tokens'[s].user = tokens'[t].user
  BY <1>3, <1>7 DEF Owners
<1>9. \A r \in Reset : resets'[r].status # "absent" => users'[resets'[r].user].status # "absent"
  BY <1>2 DEF Persist, Owners
<1>10. \A c \in closed' : tokens'[c].status # "absent"
  BY <1>4 DEF Owners, TypeOK
<1> QED BY <1>6, <1>8, <1>9, <1>10 DEF Owners

LEMMA OwnersStep ==
    ASSUME Inv, [Next]_vars
    PROVE  Owners'
<1> USE DEF Inv
<1>1. Persist
  BY PersistStep
<1>2. CASE tokens' = tokens /\ resets' = resets /\ closed' = closed
  BY <1>1, <1>2, OwnersKept DEF TypeOK
<1>3. ASSUME NEW u \in User, RevokeAll(u), \A r \in Reset : resets'[r].status # "absent" => resets[r].status # "absent"
      PROVE  Owners'
  <2>1. /\ \A t \in Token : tokens'[t].status # "absent" => tokens[t].status # "absent"
        /\ closed' \in SUBSET Token
        /\ \A c \in closed' \ closed : \E t \in Token : tokens[t].status = "live" /\ tokens[t].root = c
    BY <1>3, RevokeFacts
  <2>2. \A c \in closed' \ closed : tokens[c].status # "absent"
    BY <2>1 DEF Owners
  <2> QED BY <1>1, <1>3, <2>1, <2>2, OwnersKept
<1>4. ASSUME NEW h \in Handler, NEW n \in Token, Login(h, n) PROVE Owners'
  <2>1. /\ tokens[n].status = "absent" /\ work[h].user \in User
        /\ users[work[h].user].status # "absent"
        /\ tokens' \in [Token -> TokenRow]
        /\ tokens'[n] = Minted(n, work[h].user, n, work[h].role, work[h].pwd)
        /\ \A t \in Token : t # n => tokens'[t] = tokens[t]
    BY <1>4, LoginFacts
  <2>2. tokens'[n].status # "absent" /\ tokens'[n].user = work[h].user /\ tokens'[n].root = n
    BY <2>1 DEF Minted
  <2>3. users' = users /\ resets' = resets /\ closed' = closed
    BY <1>4 DEF Login
  <2> QED BY <1>1, <2>1, <2>2, <2>3, OwnersMinted
<1>5. ASSUME NEW h \in Handler, NEW n \in Token, Rotate(h, n) PROVE Owners'
  <2> DEFINE t == work[h].doc
             root == tokens[t].root
             u == work[h].user
  <2>1. /\ tokens[n].status = "absent" /\ t \in Token /\ t # n
        /\ tokens[t].status # "absent" /\ tokens[t].user = u
        /\ u \in User /\ users[u].status # "absent" /\ root \in Token
        /\ tokens' \in [Token -> TokenRow]
        /\ tokens'[n] = Minted(n, u, root, work[h].role, tokens[t].pwd)
        /\ \A s \in Token : (s # n /\ s # t) => tokens'[s] = tokens[s]
    BY <1>5, RotateFacts
  <2>2. tokens'[n].status # "absent" /\ tokens'[n].user = u /\ tokens'[n].root = root
    BY <2>1 DEF Minted
  <2>3. users' = users /\ resets' = resets /\ closed' = closed
    BY <1>5 DEF Rotate
  <2>4. tokens[root].status # "absent"
    BY <2>1 DEF Owners
  <2>5. \A s \in Token \ {n} : tokens'[s].status # "absent" => tokens[s].status # "absent"
    BY <2>1
  <2>6. \E s \in Token : tokens[s].status # "absent" /\ tokens[s].root = root /\ tokens[s].user = u
    BY <2>1
  <2> HIDE DEF u, root, t
  <2> QED BY <1>1, <2>1, <2>2, <2>3, <2>4, <2>5, <2>6, OwnersMinted
<1>6. ASSUME NEW u \in User, NEW n \in Token, Register(u, n) PROVE Owners'
  <2>1. /\ tokens[n].status = "absent"
        /\ tokens' = [tokens EXCEPT ![n] = Minted(n, u, n, "admin", 0)]
        /\ users'[u].status # "absent" /\ resets' = resets /\ closed' = closed
    BY <1>6 DEF Register, Mint, TypeOK
  <2>2. tokens'[n].status # "absent" /\ tokens'[n].user = u /\ tokens'[n].root = n
        /\ \A t \in Token \ {n} : tokens'[t] = tokens[t]
    BY <2>1 DEF Minted, TypeOK
  <2>3. tokens' \in [Token -> TokenRow]
    BY TypeStep DEF TypeOK
  <2> QED BY <1>1, <2>1, <2>2, <2>3, OwnersMinted
<1>7. ASSUME NEW t \in Token, Logout(t) PROVE Owners'
  <2>1. /\ tokens[t].status = "live" /\ tokens[t].root \in Token
        /\ \A s \in Token : s # t => tokens'[s] = tokens[s]
        /\ closed' = closed \cup {tokens[t].root} /\ resets' = resets
    BY <1>7, LogoutFacts DEF Logout
  <2>2. tokens[tokens[t].root].status # "absent"
    BY <2>1 DEF Owners
  <2>3. closed' \in SUBSET Token
    BY <2>1 DEF TypeOK
  <2> QED BY <1>1, <2>1, <2>2, <2>3, OwnersKept
<1>8. ASSUME NEW h \in Handler, ResetPassword(h) PROVE Owners'
  <2>1. /\ work[h].user \in User /\ RevokeAll(work[h].user)
        /\ \A q \in Reset : q # work[h].doc => resets'[q] = resets[q]
        /\ resets[work[h].doc].status # "absent"
    BY <1>8, ResetPasswordFacts DEF Shape
  <2> QED BY <1>3, <2>1
<1>9. ASSUME NEW h \in Handler, SignOut(h) PROVE Owners'
  <2>1. work[h].user \in User /\ RevokeAll(work[h].user) /\ resets' = resets
    BY <1>9, SignOutFacts DEF SignOut
  <2> QED BY <1>3, <2>1
<1>10. ASSUME NEW u \in User, LogoutAll(u) PROVE Owners'
  <2>1. RevokeAll(u) /\ resets' = resets
    BY <1>10 DEF LogoutAll
  <2> QED BY <1>3, <2>1
<1>11. ASSUME NEW r \in Reset, NEW u \in User, RequestPasswordReset(r, u) PROVE Owners'
  <2>1. /\ Exists(u) /\ users' = users /\ tokens' = tokens /\ closed' = closed
        /\ resets' = [resets EXCEPT ![r] = [status |-> "open", user |-> u]]
    BY <1>11 DEF RequestPasswordReset
  <2>2. resets'[r].user = u /\ \A q \in Reset : q # r => resets'[q] = resets[q]
    BY <2>1 DEF TypeOK
  <2>3. \A q \in Reset : resets'[q].status # "absent" => users'[resets'[q].user].status # "absent"
    BY <2>1, <2>2 DEF Exists, Owners
  <2> QED BY <2>1, <2>3 DEF Owners
<1>12. ASSUME NEW h \in Handler, ChangePassword(h) \/ WriteUser(h) \/ ReadOwner(h) \/ CountAdmins(h) \/ GiveUp(h)
       PROVE  Owners'
  BY <1>2, <1>12 DEF ChangePassword, WriteUser, ReadOwner, CountAdmins, GiveUp
<1>13. ASSUME NEW h \in Handler, NEW u \in User, CheckLogin(h, u) \/ CheckPassword(h, u)
       PROVE  Owners'
  BY <1>2, <1>13 DEF CheckLogin, CheckPassword
<1>14. ASSUME NEW h \in Handler, NEW t \in Token, ReadToken(h, t) PROVE Owners'
  BY <1>2, <1>14 DEF ReadToken
<1>15. ASSUME NEW h \in Handler, NEW r \in Reset, ReadReset(h, r) PROVE Owners'
  BY <1>2, <1>15 DEF ReadReset
<1>16. ASSUME NEW h \in Handler, NEW a \in User, NEW u \in User, NEW role \in Role \cup {Keep},
              NEW status \in {Keep, "active", "barred", "deleted"},
              LookUp(h, a, u, role, status)
       PROVE  Owners'
  BY <1>2, <1>16 DEF LookUp
<1>17. ASSUME NEW a \in User, NEW u \in User, NEW role \in Role, CreateUser(a, u, role)
       PROVE  Owners'
  BY <1>2, <1>17 DEF CreateUser
<1>18. CASE UNCHANGED vars
  BY <1>2, <1>18 DEF vars
<1> QED
  BY <1>4, <1>5, <1>6, <1>7, <1>8, <1>9, <1>10, <1>11, <1>12, <1>13, <1>14, <1>15, <1>16, <1>17,
     <1>18 DEF Next, Serve

LEMMA BadgedStep ==
    ASSUME Inv, [Next]_vars
    PROVE  Badged'
<1> USE DEF Inv
<1>1. Persist
  BY PersistStep
<1>2. CASE badges' = badges
  BY <1>1, <1>2 DEF Persist, Badged
<1>3. ASSUME NEW u \in User, NEW role \in Role, badges' = badges \cup {<<u, role>>},
             users'[u].status # "absent"
      PROVE  Badged'
  BY <1>1, <1>3 DEF Persist, Badged
<1>4. ASSUME NEW h \in Handler, NEW n \in Token, Login(h, n) \/ Rotate(h, n) PROVE Badged'
  <2>1. /\ work[h].user \in User /\ work[h].role \in Role /\ users[work[h].user].status # "absent"
        /\ badges' = badges \cup {<<work[h].user, work[h].role>>} /\ users' = users
    BY <1>4 DEF Login, Rotate, Mint, Shape
  <2> QED BY <1>3, <2>1
<1>5. ASSUME NEW u \in User, NEW n \in Token, Register(u, n) PROVE Badged'
  <2>1. /\ badges' = badges \cup {<<u, "admin">>} /\ users'[u].status # "absent"
        /\ "admin" \in Role
    BY <1>5 DEF Register, Mint, Role, TypeOK
  <2> QED BY <1>3, <2>1
<1>6. ASSUME NEW h \in Handler, ReadOwner(h) \/ ChangePassword(h) \/ ResetPassword(h) \/ CountAdmins(h)
               \/ WriteUser(h) \/ SignOut(h) \/ GiveUp(h)
      PROVE  badges' = badges
  BY <1>6 DEF ReadOwner, ChangePassword, ResetPassword, CountAdmins, WriteUser, SignOut, GiveUp
<1>7. ASSUME NEW h \in Handler, NEW u \in User, CheckLogin(h, u) \/ CheckPassword(h, u)
      PROVE  badges' = badges
  BY <1>7 DEF CheckLogin, CheckPassword
<1>8. ASSUME NEW h \in Handler, NEW t \in Token, ReadToken(h, t) PROVE badges' = badges
  BY <1>8 DEF ReadToken
<1>9. ASSUME NEW h \in Handler, NEW r \in Reset, ReadReset(h, r) PROVE badges' = badges
  BY <1>9 DEF ReadReset
<1>10. ASSUME NEW h \in Handler, NEW a \in User, NEW u \in User, NEW role \in Role \cup {Keep},
              NEW status \in {Keep, "active", "barred", "deleted"},
              LookUp(h, a, u, role, status)
       PROVE  badges' = badges
  BY <1>10 DEF LookUp
<1>11. ASSUME NEW t \in Token, Logout(t) PROVE badges' = badges
  BY <1>11 DEF Logout
<1>12. ASSUME NEW u \in User, LogoutAll(u) PROVE badges' = badges
  BY <1>12 DEF LogoutAll
<1>13. ASSUME NEW r \in Reset, NEW u \in User, RequestPasswordReset(r, u) PROVE badges' = badges
  BY <1>13 DEF RequestPasswordReset
<1>14. ASSUME NEW a \in User, NEW u \in User, NEW role \in Role, CreateUser(a, u, role)
       PROVE  badges' = badges
  BY <1>14 DEF CreateUser
<1>15. CASE UNCHANGED vars
  BY <1>2, <1>15 DEF vars
<1> QED
  BY <1>2, <1>4, <1>5, <1>6, <1>7, <1>8, <1>9, <1>10, <1>11, <1>12, <1>13, <1>14, <1>15
     DEF Next, Serve

-----------------------------------------------------------------------------
(* An admin remains.                                                       *)
LEMMA OrgIsNoAccount == Org \in Subject /\ Org \notin User
  BY KindsAssumption DEF Subject

LEMMA AdminsKept ==
    ASSUME Inv,
           \A v \in User : users'[v].role = users[v].role /\ users'[v].status = users[v].status,
           Org \in raced => Org \in raced',
           \A h \in Handler : work'[h].op = "write" =>
             \/ /\ work[h].op = "write" /\ work'[h].user = work[h].user
                /\ work'[h].role = work[h].role /\ work'[h].status = work[h].status
             \/ OtherAdmins(work'[h].user) # {}
             \/ ~MustCount(work'[h].user, work'[h].role, work'[h].status),
           Shape'
    PROVE  KeepsAdmin' /\ Counted'
<1> USE DEF Inv
<1>1. \A v \in User : CanLogin(v)' = CanLogin(v)
  BY DEF CanLogin
<1>2. KeepsAdmin'
  BY <1>1 DEF KeepsAdmin
<1>3. \A u : (OtherAdmins(u) # {}) => OtherAdmins(u)' # {}
  BY <1>1 DEF OtherAdmins
<1>4. ASSUME NEW h \in Handler, Org \notin raced', work'[h].op = "write"
      PROVE  \/ ~MustCount(work[h].user, work[h].role, work[h].status)'
             \/ (OtherAdmins(work[h].user) # {})'
  <2>1. work'[h].user \in User
    BY <1>4 DEF Shape
  <2>2. OtherAdmins(work'[h].user) # {} \/ ~MustCount(work'[h].user, work'[h].role, work'[h].status)
    BY <1>4 DEF Counted
  <2>3. CASE OtherAdmins(work'[h].user) # {}
    <3>1. PICK v \in User : v # work'[h].user /\ users[v].role = "admin" /\ CanLogin(v)
      BY <2>3 DEF OtherAdmins
    <3> QED BY <1>1, <3>1 DEF OtherAdmins
  <2>4. CASE ~MustCount(work'[h].user, work'[h].role, work'[h].status)
    BY <2>1, <2>4 DEF MustCount
  <2> QED BY <2>2, <2>3, <2>4
<1> QED BY <1>2, <1>4 DEF Counted

(* An account appears where none was; the others are as they were.         *)
LEMMA AdminsAdded ==
    ASSUME Inv, NEW u \in User, NEW role \in Role, users[u].status = "absent",
           users' = [users EXCEPT ![u] = [role |-> role, status |-> "active", pwd |-> 0]],
           raced' = raced, work' = work,
           role = "admin" \/ \E v \in User : users[v].status # "absent"
    PROVE  KeepsAdmin' /\ Counted'
<1> USE DEF Inv
<1>1. /\ users'[u].role = role /\ users'[u].status = "active"
      /\ \A v \in User : v # u => users'[v] = users[v]
  BY DEF TypeOK
<1>2. KeepsAdmin'
  <2>1. CASE role = "admin"
    BY <1>1, <2>1 DEF KeepsAdmin, CanLogin
  <2>2. CASE \E v \in User : users[v].status # "absent"
    BY <1>1, <2>2 DEF KeepsAdmin, CanLogin
  <2> QED BY <2>1, <2>2
<1>3. ASSUME NEW h \in Handler, Org \notin raced, work[h].op = "write"
      PROVE  \/ ~MustCount(work[h].user, work[h].role, work[h].status)'
             \/ (OtherAdmins(work[h].user) # {})'
  <2>1. work[h].user \in User /\ work[h].user # u
    BY <1>3 DEF Shape
  <2>2. users'[work[h].user] = users[work[h].user]
    BY <1>1, <2>1
  <2>3. CASE OtherAdmins(work[h].user) # {}
    <3>1. PICK v \in User : v # work[h].user /\ users[v].role = "admin" /\ users[v].status = "active"
      BY <2>3 DEF OtherAdmins, CanLogin
    <3>2. v # u
      BY <3>1
    <3>3. users'[v] = users[v]
      BY <1>1, <3>2
    <3> QED BY <3>1, <3>3 DEF OtherAdmins, CanLogin
  <2>4. CASE ~MustCount(work[h].user, work[h].role, work[h].status)
    BY <2>2, <2>4 DEF MustCount
  <2> QED BY <1>3, <2>3, <2>4 DEF Counted
<1> QED BY <1>2, <1>3 DEF Counted

LEMMA AdminsWritten ==
    ASSUME Inv, NEW h \in Handler, WriteUser(h)
    PROVE  KeepsAdmin' /\ Counted'
<1> USE DEF Inv
<1> DEFINE u == work[h].user
<1>1. /\ u \in User /\ users[u].status # "absent"
      /\ \A v \in User : v # u => users'[v] = users[v]
      /\ (work[h].role = Keep \/ ~Exists(u)) => users'[u].role = users[u].role
      /\ (work[h].status = Keep \/ ~Exists(u)) => users'[u].status = users[u].status
      /\ (work[h].status # Keep /\ Exists(u)) => users'[u].status = work[h].status
      /\ work[h].op = "write" /\ work'[h].op # "write"
      /\ \A g \in Handler : g # h => work'[g] = work[g]
      /\ raced' = raced
  BY WriteUserFacts
<1>2. KeepsAdmin'
  <2> SUFFICES ASSUME Org \notin raced
               PROVE  \E v \in User : users'[v].role = "admin" /\ users'[v].status = "active"
    BY <1>1 DEF KeepsAdmin, CanLogin
  <2>1. CASE OtherAdmins(u) # {}
    BY <1>1, <2>1 DEF OtherAdmins, CanLogin
  <2>2. CASE ~MustCount(u, work[h].role, work[h].status)
    <3>1. PICK v \in User : users[v].role = "admin" /\ users[v].status = "active"
      BY <1>1 DEF KeepsAdmin, CanLogin
    <3>2. CASE v # u
      BY <1>1, <3>1, <3>2
    <3>3. CASE v = u
      <4>1. work[h].role = Keep /\ work[h].status \in {Keep, "active"}
        BY <1>1, <2>2, <3>1, <3>3 DEF MustCount, TypeOK
      <4> QED BY <1>1, <3>1, <3>3, <4>1
    <3> QED BY <3>2, <3>3
  <2> QED BY <1>1, <2>1, <2>2 DEF Counted
<1>3. \A g \in Handler : (g # h /\ work[g].op = "write") => Org \in raced
  BY <1>1, OrgIsNoAccount DEF Together, WorksOn, Administers
<1>4. Counted'
  BY <1>1, <1>3 DEF Counted
<1> QED BY <1>2, <1>4

LEMMA AdminsStep ==
    ASSUME Inv, [Next]_vars
    PROVE  KeepsAdmin' /\ Counted'
<1> USE DEF Inv
<1> DEFINE Good == KeepsAdmin' /\ Counted'
<1>1. Shape'
  BY ShapeStep
<1>2. CASE users' = users /\ work' = work /\ (Org \in raced => Org \in raced')
  BY <1>1, <1>2, AdminsKept
<1>3. ASSUME NEW h \in Handler,
             \A v \in User : users'[v].role = users[v].role /\ users'[v].status = users[v].status,
             Org \in raced => Org \in raced',
             \A g \in Handler : g # h => work'[g] = work[g],
             work'[h].op = "write" => \/ OtherAdmins(work'[h].user) # {}
                                      \/ ~MustCount(work'[h].user, work'[h].role, work'[h].status)
      PROVE  Good
  BY <1>1, <1>3, AdminsKept
<1>4. ASSUME NEW h \in Handler, Finish(h), users' = users PROVE Good
  BY <1>3, <1>4, FinishFacts
<1>5. ASSUME NEW h \in Handler, NEW u \in User, Begun(h, u),
             work'[h].op = "write" => ~MustCount(work'[h].user, work'[h].role, work'[h].status)
      PROVE  Good
  BY <1>3, <1>5 DEF Begun
<1>6. ASSUME NEW h \in Handler, NEW n \in Token, Login(h, n) \/ Rotate(h, n) PROVE Good
  BY <1>4, <1>6 DEF Login, Rotate
<1>7. ASSUME NEW h \in Handler, GiveUp(h) PROVE Good
  BY <1>4, <1>7 DEF GiveUp
<1>8. ASSUME NEW h \in Handler, ReadOwner(h) PROVE Good
  <2>1. work'[h].op = "rotate" /\ raced' = raced /\ users' = users
        /\ \A g \in Handler : g # h => work'[g] = work[g]
    BY <1>8, ReadOwnerFacts DEF ReadOwner
  <2> QED BY <1>3, <2>1
<1>9. ASSUME NEW h \in Handler, ChangePassword(h) PROVE Good
  <2>1. /\ work[h].user \in User /\ SetPassword(work[h].user)
        /\ work'[h].op = "signout" /\ raced' = raced
        /\ \A g \in Handler : g # h => work'[g] = work[g]
    BY <1>9, ChangePasswordFacts
  <2>2. \A v \in User : users'[v].role = users[v].role /\ users'[v].status = users[v].status
    BY <2>1, SetPasswordFacts
  <2> QED BY <1>3, <2>1, <2>2
<1>10. ASSUME NEW h \in Handler, ResetPassword(h) \/ SignOut(h) PROVE Good
  <2>1. /\ work[h].user \in User /\ (SetPassword(work[h].user) \/ users' = users)
        /\ work' = [work EXCEPT ![h] = Idle]
        /\ raced' = RacedAfter(Handler \ {h}, work[h].user)
    BY <1>10, ResetPasswordFacts, SignOutFacts DEF SignOut
  <2>2. /\ work'[h].op = "idle" /\ \A g \in Handler : g # h => work'[g] = work[g]
        /\ \A s \in Subject : s # work[h].user => (s \in raced' <=> s \in raced)
    BY <2>1, EndFacts
  <2>3. \A v \in User : users'[v].role = users[v].role /\ users'[v].status = users[v].status
    BY <2>1, SetPasswordFacts
  <2> QED BY <1>3, <2>1, <2>2, <2>3, OrgIsNoAccount
<1>11. ASSUME NEW h \in Handler, CountAdmins(h) PROVE Good
  <2>1. /\ OtherAdmins(work[h].user) # {} /\ work'[h].user = work[h].user
        /\ raced' = raced /\ users' = users
        /\ \A g \in Handler : g # h => work'[g] = work[g]
    BY <1>11, CountFacts DEF CountAdmins
  <2> QED BY <1>3, <2>1
<1>12. ASSUME NEW h \in Handler, WriteUser(h) PROVE Good
  BY <1>12, AdminsWritten
<1>13. ASSUME NEW h \in Handler, NEW u \in User, CheckLogin(h, u) \/ CheckPassword(h, u)
       PROVE  Good
  BY <1>5, <1>13, CheckLoginFacts, CheckPasswordFacts
<1>14. ASSUME NEW h \in Handler, NEW t \in Token, ReadToken(h, t) PROVE Good
  BY <1>5, <1>14, ReadTokenFacts
<1>15. ASSUME NEW h \in Handler, NEW r \in Reset, ReadReset(h, r) PROVE Good
  BY <1>5, <1>15, ReadResetFacts
<1>16. ASSUME NEW h \in Handler, NEW a \in User, NEW u \in User, NEW role \in Role \cup {Keep},
              NEW status \in {Keep, "active", "barred", "deleted"},
              LookUp(h, a, u, role, status)
       PROVE  Good
  <2>1. /\ Begun(h, u) /\ work'[h].role = role /\ work'[h].status = status
        /\ work'[h].op = "write" => ~MustCount(u, role, status)
    BY <1>16, LookUpFacts
  <2>2. work'[h].user = u
    BY <2>1 DEF Begun
  <2> QED BY <1>5, <2>1, <2>2
<1>17. ASSUME NEW u \in User, NEW n \in Token, Register(u, n) PROVE Good
  BY <1>17, AdminsAdded DEF Register, Role
<1>18. ASSUME NEW a \in User, NEW u \in User, NEW role \in Role, CreateUser(a, u, role)
       PROVE  Good
  <2>1. \E v \in User : users[v].status # "absent"
    BY <1>18 DEF CreateUser, Admin, Badged, Role
  <2> QED BY <1>18, <2>1, AdminsAdded DEF CreateUser
<1>19. ASSUME NEW t \in Token, Logout(t) PROVE Good
  BY <1>2, <1>19, LogoutFacts DEF Logout
<1>20. ASSUME NEW u \in User, LogoutAll(u) PROVE Good
  BY <1>2, <1>20, LogoutAllFacts, OrgIsNoAccount DEF LogoutAll
<1>21. ASSUME NEW r \in Reset, NEW u \in User, RequestPasswordReset(r, u) PROVE Good
  BY <1>2, <1>21 DEF RequestPasswordReset
<1>22. CASE UNCHANGED vars
  BY <1>2, <1>22 DEF vars
<1> QED
  BY <1>6, <1>7, <1>8, <1>9, <1>10, <1>11, <1>12, <1>13, <1>14, <1>15, <1>16, <1>17, <1>18, <1>19,
     <1>20, <1>21, <1>22 DEF Next, Serve

-----------------------------------------------------------------------------
(* One session per login.                                                  *)
Refreshes(h) == work[h].op \in {"refresh", "rotate"}

(* No session is opened, and what is logged out was nobody's to refresh.   *)
LEMMA ChainKept ==
    ASSUME Inv, Persist,
           \A t \in Token : tokens'[t].status = "live" => tokens[t].status = "live",
           \A c \in closed' \ closed :
             /\ \A t \in Token :
                  (tokens'[t].status = "live" /\ tokens[t].root = c) => tokens[t].user \in raced'
             /\ \A h \in Handler :
                  (Refreshes(h) /\ work'[h] = work[h] /\ tokens[work[h].doc].root = c) =>
                    work[h].user \in raced',
           \A u \in (raced \ raced') \cap User :
             /\ \A t \in Token : tokens'[t].status = "live" => tokens[t].user # u
             /\ \A h \in Handler : Refreshes(h)' => work'[h].user # u,
           \A h \in Handler : Refreshes(h)' =>
             \/ work'[h] = work[h]
             \/ Refreshes(h) /\ work'[h].user = work[h].user /\ work'[h].doc = work[h].doc /\ closed' = closed
             \/ /\ work'[h].doc \in Token /\ tokens[work'[h].doc].status = "live"
                /\ tokens[work'[h].doc].user = work'[h].user /\ closed' = closed
    PROVE  OneSessionPerLogin' /\ Rotating'
<1> USE DEF Inv
<1>1. \A t \in Token : tokens'[t].status = "live" =>
        /\ tokens[t].status = "live" /\ tokens[t].user \in User
        /\ tokens'[t].user = tokens[t].user /\ tokens'[t].root = tokens[t].root
  BY LiveOwner DEF Persist
<1>2. OneSessionPerLogin'
  <2> SUFFICES ASSUME NEW t \in Token, tokens'[t].status = "live", tokens[t].user \notin raced'
               PROVE  /\ tokens[t].root \notin closed'
                      /\ \A s \in Token : (tokens'[s].status = "live" /\ tokens[s].root = tokens[t].root) => s = t
    BY <1>1 DEF OneSessionPerLogin
  <2>1. tokens[t].user \notin raced /\ tokens[t].status = "live"
    BY <1>1
  <2> QED BY <1>1, <2>1 DEF OneSessionPerLogin
<1>3. ASSUME NEW h \in Handler, Refreshes(h)', work'[h].user \notin raced'
      PROVE  LET root == tokens'[work'[h].doc].root IN
             /\ root \notin closed'
             /\ \A s \in Token :
                  (tokens'[s].status = "live" /\ tokens'[s].root = root) => s = work'[h].doc
  <2>1. CASE Refreshes(h) /\ work'[h].user = work[h].user /\ work'[h].doc = work[h].doc
    <3>1. /\ work[h].user \in User /\ work[h].doc \in Token
          /\ tokens[work[h].doc].status # "absent"
      BY <2>1 DEF Refreshes, Shape
    <3>2. tokens'[work[h].doc].root = tokens[work[h].doc].root
      BY <3>1 DEF Persist
    <3>3. work[h].user \notin raced
      BY <1>3, <2>1, <3>1
    <3>4. /\ tokens[work[h].doc].root \notin closed
          /\ \A s \in Token : (tokens[s].status = "live" /\ tokens[s].root = tokens[work[h].doc].root) => s = work[h].doc
      BY <2>1, <3>3 DEF Rotating, Refreshes
    <3>5. tokens[work[h].doc].root \notin closed'
      BY <1>3, <2>1, <3>4
    <3> QED BY <1>1, <2>1, <3>2, <3>4, <3>5
  <2>2. CASE /\ work'[h].doc \in Token /\ tokens[work'[h].doc].status = "live"
             /\ tokens[work'[h].doc].user = work'[h].user /\ closed' = closed
    <3>1. tokens[work'[h].doc].user \in User /\ tokens'[work'[h].doc].root = tokens[work'[h].doc].root
      BY <2>2, LiveOwner DEF Persist
    <3>2. work'[h].user \notin raced
      BY <1>3, <2>2, <3>1
    <3> QED BY <1>1, <2>2, <3>1, <3>2 DEF OneSessionPerLogin
  <2> QED BY <1>3, <2>1, <2>2 DEF Refreshes
<1> QED BY <1>2, <1>3 DEF Rotating, Refreshes

(* A session is opened, and it is the only one of its login.               *)
LEMMA ChainMinted ==
    ASSUME Inv, Persist, NEW n \in Token, NEW u \in User, NEW root \in Token,
           tokens[n].status = "absent", tokens'[n].user = u, tokens'[n].root = root,
           \A t \in Token \ {n} : tokens'[t].status = "live" => tokens[t].status = "live",
           closed' = closed, raced' = raced,
           u \notin raced => root \notin closed,
           \A t \in Token \ {n} :
             (u \notin raced /\ tokens'[t].status = "live") => tokens[t].root # root,
           \A t \in Token : (tokens[t].status # "absent" /\ tokens[t].root = root) => tokens[t].user = u,
           \A g \in Handler : Refreshes(g)' =>
             /\ work'[g] = work[g]
             /\ work[g].user \notin raced => tokens[work[g].doc].root # root
    PROVE  OneSessionPerLogin' /\ Rotating'
<1> USE DEF Inv
<1>1. \A t \in Token \ {n} : tokens'[t].status = "live" =>
        /\ tokens[t].status = "live" /\ tokens[t].user \in User
        /\ tokens'[t].user = tokens[t].user /\ tokens'[t].root = tokens[t].root
  BY LiveOwner DEF Persist
<1>2. ASSUME NEW t \in Token, tokens'[t].status = "live", tokens'[t].user \notin raced
      PROVE  /\ tokens'[t].root \notin closed
             /\ \A s \in Token : (tokens'[s].status = "live" /\ tokens'[s].root = tokens'[t].root) => s = t
  <2>1. CASE t = n
    BY <1>1, <1>2, <2>1
  <2>2. CASE t # n
    <3>1. /\ tokens[t].root \notin closed
          /\ \A s \in Token : (tokens[s].status = "live" /\ tokens[s].root = tokens[t].root) => s = t
      BY <1>1, <1>2, <2>2 DEF OneSessionPerLogin
    <3>2. tokens[t].root # root
      BY <1>1, <1>2, <2>2
    <3> QED BY <1>1, <1>2, <2>2, <3>1, <3>2
  <2> QED BY <2>1, <2>2
<1>3. ASSUME NEW h \in Handler, Refreshes(h)', work'[h].user \notin raced
      PROVE  LET r == tokens'[work'[h].doc].root IN
             /\ r \notin closed
             /\ \A s \in Token : (tokens'[s].status = "live" /\ tokens'[s].root = r) => s = work'[h].doc
  <2>1. work'[h] = work[h] /\ tokens[work[h].doc].root # root
    BY <1>3
  <2>2. work[h].doc \in Token /\ tokens[work[h].doc].status # "absent"
    BY <1>3, <2>1 DEF Refreshes, Shape
  <2>3. tokens'[work[h].doc].root = tokens[work[h].doc].root
    BY <2>2 DEF Persist
  <2>4. /\ tokens[work[h].doc].root \notin closed
        /\ \A s \in Token : (tokens[s].status = "live" /\ tokens[s].root = tokens[work[h].doc].root) => s = work[h].doc
    BY <1>3, <2>1 DEF Rotating, Refreshes
  <2> QED BY <1>1, <2>1, <2>3, <2>4
<1>4. OneSessionPerLogin'
  BY <1>2 DEF OneSessionPerLogin
<1> QED BY <1>3, <1>4 DEF Rotating, Refreshes

(* LogoutAll closes logins whose only sessions it revokes.                 *)
LEMMA ChainRevoked ==
    ASSUME Inv, Persist, NEW u \in User, RevokeAll(u),
           \A s \in Subject : s # u => (s \in raced' <=> s \in raced),
           \A h \in Handler : Refreshes(h)' => work'[h] = work[h],
           \A h \in Handler : (Refreshes(h)' /\ work'[h].user = u) => u \in raced'
    PROVE  OneSessionPerLogin' /\ Rotating'
<1> USE DEF Inv
<1>1. /\ \A t \in Token : tokens'[t].status = "live" => tokens[t].status = "live" /\ tokens[t].user # u
      /\ \A c \in closed' \ closed : \E t \in Token :
           tokens[t].status = "live" /\ tokens[t].user = u /\ tokens[t].root = c
  BY RevokeFacts
<1>2. ASSUME NEW c \in closed' \ closed, NEW t \in Token, tokens'[t].status = "live", tokens[t].root = c
      PROVE  tokens[t].user \in raced'
  BY <1>1, <1>2 DEF Owners
<1>3. ASSUME NEW c \in closed' \ closed, NEW h \in Handler,
             Refreshes(h), work'[h] = work[h], tokens[work[h].doc].root = c
      PROVE  work[h].user \in raced'
  <2>1. PICK t \in Token : tokens[t].status = "live" /\ tokens[t].user = u /\ tokens[t].root = c
    BY <1>1
  <2>2. /\ work[h].doc \in Token /\ tokens[work[h].doc].status # "absent"
        /\ tokens[work[h].doc].user = work[h].user
    BY <1>3 DEF Refreshes, Shape
  <2>3. work[h].user = u
    BY <1>3, <2>1, <2>2 DEF Owners
  <2> QED BY <1>3, <2>3 DEF Refreshes
<1>4. \A v \in (raced \ raced') \cap User : v = u
  BY DEF Subject
<1> QED BY <1>1, <1>2, <1>3, <1>4, ChainKept

LEMMA ChainStep ==
    ASSUME Inv, [Next]_vars
    PROVE  OneSessionPerLogin' /\ Rotating'
<1> USE DEF Inv
<1> DEFINE Good == OneSessionPerLogin' /\ Rotating'
<1>1. Persist
  BY PersistStep
<1>2. CASE tokens' = tokens /\ closed' = closed /\ work' = work /\ raced' = raced
  BY <1>1, <1>2, ChainKept
<1>3. ASSUME NEW h \in Handler, tokens' = tokens, closed' = closed, raced \subseteq raced',
             \A g \in Handler : g # h => work'[g] = work[g],
             Refreshes(h)' =>
               \/ Refreshes(h) /\ work'[h].user = work[h].user /\ work'[h].doc = work[h].doc
               \/ /\ work'[h].doc \in Token /\ tokens[work'[h].doc].status = "live"
                  /\ tokens[work'[h].doc].user = work'[h].user
      PROVE  Good
  <2>1. \A g \in Handler : Refreshes(g)' =>
          \/ work'[g] = work[g]
          \/ Refreshes(g) /\ work'[g].user = work[g].user /\ work'[g].doc = work[g].doc /\ closed' = closed
          \/ /\ work'[g].doc \in Token /\ tokens[work'[g].doc].status = "live"
             /\ tokens[work'[g].doc].user = work'[g].user /\ closed' = closed
    BY <1>3
  <2>2. raced \ raced' = {}
    BY <1>3
  <2> QED BY <1>1, <1>3, <2>1, <2>2, ChainKept
<1>4. ASSUME NEW h \in Handler, NEW u \in User, Begun(h, u), ~Refreshes(h)' PROVE Good
  BY <1>3, <1>4 DEF Begun
<1>5. ASSUME NEW h \in Handler, NEW u \in User, CheckLogin(h, u) PROVE Good
  BY <1>4, <1>5, CheckLoginFacts DEF Refreshes
<1>6. ASSUME NEW h \in Handler, NEW u \in User, CheckPassword(h, u) PROVE Good
  BY <1>4, <1>6, CheckPasswordFacts DEF Refreshes
<1>7. ASSUME NEW h \in Handler, NEW r \in Reset, ReadReset(h, r) PROVE Good
  BY <1>4, <1>7, ReadResetFacts DEF Refreshes
<1>8. ASSUME NEW h \in Handler, NEW a \in User, NEW u \in User, NEW role \in Role \cup {Keep},
             NEW status \in {Keep, "active", "barred", "deleted"},
             LookUp(h, a, u, role, status)
      PROVE  Good
  <2>1. Begun(h, u) /\ work'[h].op \in {"count", "write"}
    BY <1>8, LookUpFacts
  <2> QED BY <1>4, <2>1 DEF Refreshes
<1>9. ASSUME NEW h \in Handler, NEW t \in Token, ReadToken(h, t) PROVE Good
  <2>1. /\ Begun(h, tokens[t].user) /\ tokens[t].status = "live" /\ work'[h].doc = t
    BY <1>9, ReadTokenFacts
  <2> QED BY <1>3, <2>1 DEF Begun
<1>10. ASSUME NEW h \in Handler, ReadOwner(h) PROVE Good
  <2>1. /\ work[h].op = "refresh" /\ work'[h].user = work[h].user /\ work'[h].doc = work[h].doc
        /\ \A g \in Handler : g # h => work'[g] = work[g]
        /\ raced' = raced /\ tokens' = tokens /\ closed' = closed
    BY <1>10, ReadOwnerFacts DEF ReadOwner
  <2> QED BY <1>3, <2>1 DEF Refreshes
<1>11. ASSUME NEW h \in Handler, ChangePassword(h) PROVE Good
  <2>1. /\ work'[h].op = "signout" /\ raced' = raced
        /\ \A g \in Handler : g # h => work'[g] = work[g]
        /\ tokens' = tokens /\ closed' = closed
    BY <1>11, ChangePasswordFacts DEF ChangePassword
  <2> QED BY <1>3, <2>1 DEF Refreshes
<1>12. ASSUME NEW h \in Handler, CountAdmins(h) PROVE Good
  <2>1. /\ work'[h].op = "write" /\ raced' = raced
        /\ \A g \in Handler : g # h => work'[g] = work[g]
        /\ tokens' = tokens /\ closed' = closed
    BY <1>12, CountFacts DEF CountAdmins
  <2> QED BY <1>3, <2>1 DEF Refreshes
<1>13. ASSUME NEW h \in Handler, WriteUser(h) PROVE Good
  <2>1. /\ work'[h].op \in {"reload", "signout"} /\ raced' = raced
        /\ \A g \in Handler : g # h => work'[g] = work[g]
        /\ tokens' = tokens /\ closed' = closed
    BY <1>13, WriteUserFacts DEF WriteUser
  <2> QED BY <1>3, <2>1 DEF Refreshes
<1>14. ASSUME NEW h \in Handler, GiveUp(h) PROVE Good
  <2>1. /\ work'[h].op = "idle" /\ raced' = raced
        /\ \A g \in Handler : g # h => work'[g] = work[g]
        /\ tokens' = tokens /\ closed' = closed
    BY <1>14, FinishFacts DEF GiveUp
  <2> QED BY <1>3, <2>1 DEF Refreshes
<1>15. ASSUME NEW h \in Handler, ResetPassword(h) \/ SignOut(h) PROVE Good
  <2>1. /\ work[h].user \in User /\ RevokeAll(work[h].user)
        /\ work' = [work EXCEPT ![h] = Idle]
        /\ raced' = RacedAfter(Handler \ {h}, work[h].user)
    BY <1>15, ResetPasswordFacts, SignOutFacts
  <2>2. /\ work'[h].op = "idle" /\ \A g \in Handler : g # h => work'[g] = work[g]
        /\ \A s \in Subject : s # work[h].user => (s \in raced' <=> s \in raced)
        /\ \A g \in Handler : (g # h /\ work[g].user = work[h].user) => work[h].user \in raced'
    BY <2>1, EndFacts
  <2>3. \A g \in Handler : Refreshes(g)' => g # h /\ work'[g] = work[g]
    BY <2>2 DEF Refreshes
  <2>4. PICK u \in User : u = work[h].user
    BY <2>1
  <2>5. \A g \in Handler : (Refreshes(g)' /\ work'[g].user = u) => u \in raced'
    BY <2>2, <2>3, <2>4
  <2>6. RevokeAll(u) /\ \A s \in Subject : s # u => (s \in raced' <=> s \in raced)
    BY <2>1, <2>2, <2>4
  <2> QED BY <1>1, <2>3, <2>5, <2>6, ChainRevoked
<1>16. ASSUME NEW u \in User, LogoutAll(u) PROVE Good
  BY <1>1, <1>16, LogoutAllFacts, ChainRevoked
<1>17. ASSUME NEW t \in Token, Logout(t) PROVE Good
  <2>1. /\ tokens[t].status = "live" /\ tokens'[t] = Revoked(t)
        /\ \A s \in Token : s # t => tokens'[s] = tokens[s]
        /\ closed' = closed \cup {tokens[t].root} /\ raced \subseteq raced'
        /\ \A g \in Handler : work[g].user = tokens[t].user => tokens[t].user \in raced'
        /\ work' = work
    BY <1>17, LogoutFacts DEF Logout
  <2>2. \A s \in Token : tokens'[s].status = "live" => s # t /\ tokens[s].status = "live"
    BY <2>1 DEF Revoked
  <2>3. ASSUME NEW s \in Token, tokens'[s].status = "live", tokens[s].root = tokens[t].root
        PROVE  tokens[s].user \in raced'
    <3>1. tokens[s].user = tokens[t].user /\ s # t
      BY <2>1, <2>2, <2>3 DEF Owners
    <3>2. tokens[s].user \in raced
      BY <2>1, <2>2, <2>3, <3>1 DEF OneSessionPerLogin
    <3> QED BY <2>1, <3>2
  <2>4. ASSUME NEW g \in Handler, Refreshes(g), tokens[work[g].doc].root = tokens[t].root
        PROVE  work[g].user \in raced'
    <3>1. /\ work[g].doc \in Token /\ tokens[work[g].doc].status # "absent"
          /\ tokens[work[g].doc].user = work[g].user
      BY <2>4 DEF Refreshes, Shape
    <3>2. work[g].user = tokens[t].user
      BY <2>1, <2>4, <3>1 DEF Owners
    <3> QED BY <2>1, <3>2
  <2> QED BY <1>1, <2>1, <2>2, <2>3, <2>4, ChainKept
<1>18. ASSUME NEW h \in Handler, NEW n \in Token, Login(h, n) PROVE Good
  <2>1. /\ tokens[n].status = "absent" /\ work[h].user \in User
        /\ tokens'[n] = Minted(n, work[h].user, n, work[h].role, work[h].pwd)
        /\ \A t \in Token : t # n => tokens'[t] = tokens[t]
        /\ closed' = closed /\ Finish(h)
    BY <1>18, LoginFacts DEF Login
  <2>2. /\ work'[h].op = "idle" /\ \A g \in Handler : g # h => work'[g] = work[g]
        /\ raced' = raced
    BY <2>1, FinishFacts
  <2>3. n \notin closed /\ \A t \in Token : tokens[t].status # "absent" => tokens[t].root # n
    BY <2>1 DEF Owners
  <2>4. \A g \in Handler : Refreshes(g)' => work'[g] = work[g] /\ tokens[work[g].doc].root # n
    BY <2>2, <2>3 DEF Refreshes, Shape
  <2>5. tokens'[n].user = work[h].user /\ tokens'[n].root = n
    BY <2>1 DEF Minted
  <2> QED BY <1>1, <2>1, <2>2, <2>3, <2>4, <2>5, ChainMinted
<1>19. ASSUME NEW u \in User, NEW n \in Token, Register(u, n) PROVE Good
  <2>1. /\ tokens[n].status = "absent"
        /\ tokens' = [tokens EXCEPT ![n] = Minted(n, u, n, "admin", 0)]
        /\ closed' = closed /\ work' = work /\ raced' = raced
    BY <1>19 DEF Register, Mint
  <2>2. /\ tokens'[n].user = u /\ tokens'[n].root = n
        /\ \A t \in Token : t # n => tokens'[t] = tokens[t]
    BY <2>1 DEF Minted, TypeOK
  <2>3. n \notin closed /\ \A t \in Token : tokens[t].status # "absent" => tokens[t].root # n
    BY <2>1 DEF Owners
  <2>4. \A g \in Handler : Refreshes(g)' => work'[g] = work[g] /\ tokens[work[g].doc].root # n
    BY <2>1, <2>3 DEF Refreshes, Shape
  <2> QED BY <1>1, <2>1, <2>2, <2>3, <2>4, ChainMinted
<1>20. ASSUME NEW h \in Handler, NEW n \in Token, Rotate(h, n) PROVE Good
  <2> DEFINE t == work[h].doc
             root == tokens[t].root
             u == work[h].user
  <2>1. /\ tokens[n].status = "absent" /\ t \in Token /\ t # n
        /\ tokens[t].status # "absent" /\ tokens[t].user = u
        /\ u \in User /\ root \in Token
        /\ tokens'[n] = Minted(n, u, root, work[h].role, tokens[t].pwd)
        /\ tokens'[t] = Revoked(t)
        /\ \A s \in Token : (s # n /\ s # t) => tokens'[s] = tokens[s]
        /\ closed' = closed /\ Finish(h) /\ Refreshes(h)
    BY <1>20, RotateFacts DEF Rotate, Refreshes
  <2>2. /\ work'[h].op = "idle" /\ \A g \in Handler : g # h => work'[g] = work[g]
        /\ raced' = raced
    BY <2>1, FinishFacts
  <2>3. \A s \in Token \ {n} : tokens'[s].status = "live" => s # t /\ tokens[s].status = "live"
    BY <2>1 DEF Revoked
  <2>4. \A s \in Token : (tokens[s].status # "absent" /\ tokens[s].root = root) => tokens[s].user = u
    BY <2>1 DEF Owners
  <2>5. u \notin raced =>
          root \notin closed /\ \A s \in Token : (tokens[s].status = "live" /\ tokens[s].root = root) => s = t
    BY <2>1 DEF Rotating, Refreshes
  <2>6. ASSUME NEW g \in Handler, Refreshes(g)'
        PROVE  /\ work'[g] = work[g]
               /\ work[g].user \notin raced => tokens[work[g].doc].root # root
    <3>1. g # h /\ work'[g] = work[g] /\ Refreshes(g)
      BY <2>2, <2>6 DEF Refreshes
    <3>2. /\ work[g].doc \in Token /\ tokens[work[g].doc].status # "absent"
          /\ tokens[work[g].doc].user = work[g].user
      BY <3>1 DEF Refreshes, Shape
    <3>3. work[g].user = u => u \in raced
      BY <2>1, <3>1 DEF Together, WorksOn, Subject
    <3> QED BY <2>4, <3>1, <3>2, <3>3
  <2>7. tokens'[n].user = u /\ tokens'[n].root = root
    BY <2>1 DEF Minted
  <2>8. \A s \in Token \ {n} : tokens'[s].status = "live" => tokens[s].status = "live"
    BY <2>3
  <2>9. \A s \in Token \ {n} : (u \notin raced /\ tokens'[s].status = "live") => tokens[s].root # root
    BY <2>3, <2>5
  <2> HIDE DEF t, root, u
  <2>10. /\ u \in User /\ root \in Token /\ tokens[n].status = "absent"
         /\ closed' = closed /\ raced' = raced
    BY <2>1, <2>2
  <2>11. u \notin raced => root \notin closed
    BY <2>5
  <2> QED BY <1>1, <2>10, <2>11, <2>4, <2>6, <2>7, <2>8, <2>9, ChainMinted
<1>21. ASSUME NEW r \in Reset, NEW u \in User, RequestPasswordReset(r, u) PROVE Good
  BY <1>2, <1>21 DEF RequestPasswordReset
<1>22. ASSUME NEW a \in User, NEW u \in User, NEW role \in Role, CreateUser(a, u, role)
       PROVE  Good
  BY <1>2, <1>22 DEF CreateUser
<1>23. CASE UNCHANGED vars
  BY <1>2, <1>23 DEF vars
<1> QED
  BY <1>5, <1>6, <1>7, <1>8, <1>9, <1>10, <1>11, <1>12, <1>13, <1>14, <1>15, <1>16, <1>17, <1>18,
     <1>19, <1>20, <1>21, <1>22, <1>23 DEF Next, Serve

-----------------------------------------------------------------------------
(* Sessions follow the account.                                            *)
Signing(h) == work[h].op \in {"reload", "signout"}
Unsettled == raced \cup cut \cup {work[h].user : h \in {g \in Handler : Signing(g)}}

LEMMA SignedOutSays ==
    ASSUME SignedOut, NEW t \in Token, tokens[t].status = "live", tokens[t].user \notin Unsettled
    PROVE  LET u == tokens[t].user IN
           users[u].status = "active" /\ tokens[t].role = users[u].role /\ tokens[t].pwd = users[u].pwd
  BY DEF SignedOut, Unsettled, Signing, CanLogin

(* No session is opened, and an account that changes is unsettled or has   *)
(* no session.                                                             *)
LEMMA SignedKept ==
    ASSUME Inv, Persist,
           \A t \in Token : tokens'[t].status = "live" =>
             tokens[t].status = "live" /\ tokens'[t].role = tokens[t].role,
           \A u \in User :
             \/ users'[u] = users[u] /\ (u \in Unsettled => u \in Unsettled')
             \/ u \in Unsettled'
             \/ \A t \in Token : tokens'[t].status = "live" => tokens[t].user # u
    PROVE  SignedOut'
<1> USE DEF Inv
<1>1. ASSUME NEW t \in Token, tokens'[t].status = "live", tokens'[t].user \notin Unsettled'
      PROVE  LET u == tokens'[t].user IN
             users'[u].status = "active" /\ tokens'[t].role = users'[u].role /\ tokens'[t].pwd = users'[u].pwd
  <2>1. /\ tokens[t].status = "live" /\ tokens[t].user \in User
        /\ tokens'[t].user = tokens[t].user /\ tokens'[t].pwd = tokens[t].pwd
        /\ tokens'[t].role = tokens[t].role
    BY <1>1, LiveOwner DEF Persist
  <2>2. users'[tokens[t].user] = users[tokens[t].user] /\ tokens[t].user \notin Unsettled
    BY <1>1, <2>1
  <2> QED BY <2>1, <2>2, SignedOutSays
<1> QED BY <1>1 DEF SignedOut, Unsettled, Signing, CanLogin

(* One session is opened, with what the account says.                      *)
LEMMA SignedMinted ==
    ASSUME Inv, Persist, NEW n \in Token, NEW u \in User,
           \A t \in Token \ {n} : tokens'[t].status = "live" => tokens'[t] = tokens[t],
           tokens'[n].user = u,
           u \notin Unsettled' => /\ users'[u].status = "active"
                             /\ tokens'[n].role = users'[u].role /\ tokens'[n].pwd = users'[u].pwd,
           \A v \in User : (v \in Unsettled => v \in Unsettled') /\ (users'[v] = users[v] \/ users[v].status = "absent")
    PROVE  SignedOut'
<1> USE DEF Inv
<1>1. ASSUME NEW t \in Token \ {n}, tokens'[t].status = "live", tokens'[t].user \notin Unsettled'
      PROVE  LET v == tokens'[t].user IN
             users'[v].status = "active" /\ tokens'[t].role = users'[v].role /\ tokens'[t].pwd = users'[v].pwd
  <2>1. tokens'[t] = tokens[t] /\ tokens[t].status = "live" /\ tokens[t].user \in User
        /\ users[tokens[t].user].status # "absent"
    BY <1>1, LiveOwner DEF Owners
  <2>2. users'[tokens[t].user] = users[tokens[t].user] /\ tokens[t].user \notin Unsettled
    BY <1>1, <2>1
  <2> QED BY <2>1, <2>2, SignedOutSays
<1>2. ASSUME NEW t \in Token, tokens'[t].status = "live", tokens'[t].user \notin Unsettled'
      PROVE  LET v == tokens'[t].user IN
             users'[v].status = "active" /\ tokens'[t].role = users'[v].role /\ tokens'[t].pwd = users'[v].pwd
  <2>1. CASE t = n
    BY <1>2, <2>1
  <2>2. CASE t # n
    BY <1>1, <1>2, <2>2
  <2> QED BY <2>1, <2>2
<1> QED BY <1>2 DEF SignedOut, Unsettled, Signing, CanLogin

(* One handler's part of Reading.                                          *)
ReadingOf(h) ==
    work[h].user \notin raced =>
      /\ work[h].op \in {"login", "rotate"} =>
           CanLogin(work[h].user) /\ users[work[h].user].role = work[h].role
      /\ work[h].op = "login" => users[work[h].user].pwd = work[h].pwd
      /\ (Refreshes(h) /\ work[h].user \notin cut) =>
           users[work[h].user].pwd = tokens[work[h].doc].pwd

Uses(h) == work[h].op \in {"login", "refresh", "rotate"}

LEMMA ReadingFold == (\A h \in Handler : ReadingOf(h)) => Reading
  BY DEF Reading, ReadingOf, Refreshes

LEMMA ReadingHas == ASSUME Reading, NEW h \in Handler PROVE ReadingOf(h)
  BY DEF Reading, ReadingOf, Refreshes

LEMMA ReadingUnused == ASSUME NEW h \in Handler, ~Uses(h)' PROVE ReadingOf(h)'
  BY DEF ReadingOf, Uses, Refreshes

LEMMA ReadingSame ==
    ASSUME Inv, Persist, NEW h \in Handler, work'[h] = work[h],
           (Uses(h) /\ work[h].user \notin raced') =>
             /\ work[h].user \notin raced
             /\ users'[work[h].user] = users[work[h].user]
             /\ work[h].user \in cut => work[h].user \in cut'
    PROVE  ReadingOf(h)'
<1> USE DEF Inv
<1>1. CASE ~Uses(h)
  <2>1. ~Uses(h)'
    BY <1>1 DEF Uses
  <2> QED BY <2>1, ReadingUnused
<1>2. CASE Uses(h) /\ work[h].user \notin raced'
  <2>1. ReadingOf(h)
    BY ReadingHas
  <2>2. Refreshes(h) => tokens'[work[h].doc].pwd = tokens[work[h].doc].pwd
    BY DEF Refreshes, Shape, Persist
  <2>3. Refreshes(h)' = Refreshes(h) /\ CanLogin(work[h].user)' = CanLogin(work[h].user)
    BY <1>2 DEF Refreshes, CanLogin
  <2> QED BY <1>2, <2>1, <2>2, <2>3 DEF ReadingOf
<1>3. CASE work[h].user \in raced'
  BY <1>3 DEF ReadingOf
<1> QED BY <1>1, <1>2, <1>3

(* A step of one handler, or of none, that leaves alone the accounts of    *)
(* handlers that are not raced.                                            *)
LEMMA ReadingKept ==
    ASSUME Inv, Persist,
           \A h \in Handler : work'[h] = work[h] \/ ReadingOf(h)',
           \A h \in Handler : (Uses(h) /\ work'[h] = work[h] /\ work[h].user \notin raced') =>
             /\ work[h].user \notin raced
             /\ users'[work[h].user] = users[work[h].user]
             /\ work[h].user \in cut => work[h].user \in cut'
    PROVE  Reading'
<1>1. \A h \in Handler : ReadingOf(h)'
  BY ReadingSame
<1> QED BY <1>1, ReadingFold DEF Reading, ReadingOf, Refreshes

LEMMA UnsettledKept ==
    ASSUME raced \subseteq raced', cut \subseteq cut',
           \A g \in Handler : Signing(g) =>
             work[g].user \in cut' \/ (Signing(g)' /\ work'[g].user = work[g].user)
    PROVE  Unsettled \subseteq Unsettled'
  BY DEF Unsettled

LEMMA SessionStep ==
    ASSUME Inv, [Next]_vars
    PROVE  SignedOut' /\ Reading'
<1> USE DEF Inv
<1> DEFINE Good == SignedOut' /\ Reading'
<1>1. Persist
  BY PersistStep
<1>2. ASSUME \A t \in Token : tokens'[t].status = "live" => tokens'[t] = tokens[t],
             \A v \in User : users'[v] = users[v] \/ users[v].status = "absent",
             raced \subseteq raced', cut' = cut, work' = work
      PROVE  Good
  <2>1. Unsettled \subseteq Unsettled'
    BY <1>2 DEF Unsettled, Signing
  <2>2. \A v \in User : \/ users'[v] = users[v]
                        \/ \A t \in Token : tokens'[t].status = "live" => tokens[t].user # v
    BY <1>2 DEF Owners
  <2>3. SignedOut'
    BY <1>1, <1>2, <2>1, <2>2, SignedKept
  <2>4. \A h \in Handler : Uses(h) => users'[work[h].user] = users[work[h].user]
    BY <1>2 DEF Uses, Shape
  <2>5. Reading'
    BY <1>1, <1>2, <2>4, ReadingKept
  <2> QED BY <2>3, <2>5
<1>3. ASSUME NEW h \in Handler, tokens' = tokens, users' = users, cut' = cut, raced \subseteq raced',
             \A g \in Handler : g # h => work'[g] = work[g],
             ReadingOf(h)', ~Signing(h)
      PROVE  Good
  <2>1. Unsettled \subseteq Unsettled'
    BY <1>3, UnsettledKept DEF Signing
  <2>2. SignedOut'
    BY <1>1, <1>3, <2>1, SignedKept
  <2>3. Reading'
    BY <1>1, <1>3, ReadingKept
  <2> QED BY <2>2, <2>3
<1>4. ASSUME NEW h \in Handler, NEW u \in User, Begun(h, u), ~Uses(h)' PROVE Good
  BY <1>3, <1>4, ReadingUnused DEF Begun, Signing
<1>5. ASSUME NEW h \in Handler, NEW u \in User, CheckLogin(h, u) PROVE Good
  <2>1. /\ Begun(h, u) /\ CanLogin(u) /\ work'[h].op = "login"
        /\ work'[h].role = users[u].role /\ work'[h].pwd = users[u].pwd
    BY <1>5, CheckLoginFacts
  <2>2. ReadingOf(h)'
    BY <2>1 DEF Begun, ReadingOf, Refreshes, CanLogin
  <2> QED BY <1>3, <2>1, <2>2 DEF Begun, Signing
<1>6. ASSUME NEW h \in Handler, NEW u \in User, CheckPassword(h, u) PROVE Good
  BY <1>4, <1>6, CheckPasswordFacts DEF Uses
<1>7. ASSUME NEW h \in Handler, NEW r \in Reset, ReadReset(h, r) PROVE Good
  BY <1>4, <1>7, ReadResetFacts DEF Uses
<1>8. ASSUME NEW h \in Handler, NEW a \in User, NEW u \in User, NEW role \in Role \cup {Keep},
             NEW status \in {Keep, "active", "barred", "deleted"},
             LookUp(h, a, u, role, status)
      PROVE  Good
  <2>1. Begun(h, u) /\ work'[h].op \in {"count", "write"}
    BY <1>8, LookUpFacts
  <2> QED BY <1>4, <2>1 DEF Uses
<1>9. ASSUME NEW h \in Handler, NEW t \in Token, ReadToken(h, t) PROVE Good
  <2> DEFINE u == tokens[t].user
  <2>1. /\ Begun(h, u) /\ tokens[t].status = "live" /\ u \in User
        /\ work'[h].op = "refresh" /\ work'[h].doc = t
    BY <1>9, ReadTokenFacts
  <2>2. (u \notin raced' /\ u \notin cut) => u \notin Unsettled
    <3>1. \A g \in Handler : (Signing(g) /\ work[g].user = u) => g # h
      BY <2>1 DEF Begun, Signing
    <3> QED BY <2>1, <3>1 DEF Begun, Unsettled
  <2>3. (u \notin raced' /\ u \notin cut) => users[u].pwd = tokens[t].pwd
    BY <2>1, <2>2, SignedOutSays
  <2>4. ReadingOf(h)'
    BY <2>1, <2>3 DEF Begun, ReadingOf, Refreshes
  <2> QED BY <1>3, <2>1, <2>4 DEF Begun, Signing
<1>10. ASSUME NEW h \in Handler, ReadOwner(h) PROVE Good
  <2>1. /\ work[h].op = "refresh" /\ work[h].user \in User /\ CanLogin(work[h].user)
        /\ work'[h].op = "rotate" /\ work'[h].user = work[h].user
        /\ work'[h].doc = work[h].doc /\ work'[h].role = users[work[h].user].role
        /\ \A g \in Handler : g # h => work'[g] = work[g]
        /\ raced' = raced /\ tokens' = tokens /\ users' = users /\ cut' = cut
    BY <1>10, ReadOwnerFacts DEF ReadOwner
  <2>2. ReadingOf(h)
    BY ReadingHas
  <2>3. ReadingOf(h)'
    BY <2>1, <2>2 DEF ReadingOf, Refreshes, CanLogin
  <2> QED BY <1>3, <2>1, <2>3 DEF Signing
<1>11. ASSUME NEW h \in Handler, ChangePassword(h) \/ WriteUser(h) PROVE Good
  <2> DEFINE u == work[h].user
  <2>1. /\ u \in User /\ work[h].op \in {"change", "write"}
        /\ work'[h].op \in {"signout", "reload"} /\ work'[h].user = u
        /\ \A g \in Handler : g # h => work'[g] = work[g]
        /\ raced' = raced /\ \A v \in User : v # u => users'[v] = users[v]
    BY <1>11, ChangePasswordFacts, SetPasswordFacts, WriteUserFacts
  <2>2. tokens' = tokens /\ cut' = cut
    BY <1>11 DEF ChangePassword, WriteUser
  <2>3. Unsettled \subseteq Unsettled' /\ u \in Unsettled'
    <3>1. Unsettled \subseteq Unsettled'
      BY <2>1, <2>2, UnsettledKept DEF Signing
    <3>2. u \in Unsettled'
      BY <2>1 DEF Unsettled, Signing
    <3> QED BY <3>1, <3>2
  <2>4. SignedOut'
    BY <1>1, <2>1, <2>2, <2>3, SignedKept
  <2>5. ReadingOf(h)'
    BY <2>1, ReadingUnused DEF Uses
  <2>6. ASSUME NEW g \in Handler, Uses(g), work[g].user \notin raced'
        PROVE  users'[work[g].user] = users[work[g].user]
    <3>1. g # h /\ work[g].user \in User
      BY <2>1, <2>6 DEF Uses, Shape
    <3>2. work[g].user # u
      BY <2>1, <2>6, <3>1 DEF Together, WorksOn, Subject
    <3> QED BY <2>1, <3>1, <3>2
  <2>7. Reading'
    BY <1>1, <2>1, <2>2, <2>5, <2>6, ReadingKept
  <2> QED BY <2>4, <2>7
<1>12. ASSUME NEW h \in Handler, CountAdmins(h) PROVE Good
  <2>1. /\ work[h].op = "count" /\ work'[h].op = "write" /\ raced' = raced
        /\ \A g \in Handler : g # h => work'[g] = work[g]
        /\ tokens' = tokens /\ users' = users /\ cut' = cut
    BY <1>12, CountFacts DEF CountAdmins
  <2>2. ReadingOf(h)'
    BY <2>1, ReadingUnused DEF Uses
  <2> QED BY <1>3, <2>1, <2>2 DEF Signing
<1>13. ASSUME NEW h \in Handler, GiveUp(h) PROVE Good
  <2>1. /\ work'[h].op = "idle" /\ raced' = raced
        /\ \A g \in Handler : g # h => work'[g] = work[g]
        /\ tokens' = tokens /\ users' = users
        /\ cut' = cut \cup (IF Signing(h) THEN {work[h].user} ELSE {})
    BY <1>13, FinishFacts DEF GiveUp, Signing
  <2>2. Unsettled \subseteq Unsettled'
    BY <2>1, UnsettledKept DEF Signing
  <2>3. SignedOut'
    BY <1>1, <2>1, <2>2, SignedKept
  <2>4. ReadingOf(h)'
    BY <2>1, ReadingUnused DEF Uses
  <2>5. Reading'
    BY <1>1, <2>1, <2>4, ReadingKept
  <2> QED BY <2>3, <2>5
<1>14. ASSUME NEW u \in User, RevokeAll(u),
              \A v \in User : v # u => users'[v] = users[v] /\ (v \in Unsettled => v \in Unsettled'),
              \A h \in Handler : work'[h] = work[h] \/ ~Uses(h)',
              \A h \in Handler : (Uses(h) /\ work'[h] = work[h] /\ work[h].user = u) => u \in raced',
              \A s \in Subject : s # u => (s \in raced' <=> s \in raced)
       PROVE  Good
  <2>1. /\ \A t \in Token : tokens'[t].status = "live" =>
             tokens[t].status = "live" /\ tokens[t].user # u /\ tokens'[t].role = tokens[t].role
        /\ cut' = cut \ {u}
    BY <1>14, RevokeFacts
  <2>2. SignedOut'
    BY <1>1, <1>14, <2>1, SignedKept
  <2>3. ASSUME NEW h \in Handler, Uses(h), work'[h] = work[h], work[h].user \notin raced'
        PROVE  /\ work[h].user \notin raced /\ users'[work[h].user] = users[work[h].user]
               /\ work[h].user \in cut => work[h].user \in cut'
    <3>1. work[h].user \in User /\ work[h].user # u
      BY <1>14, <2>3 DEF Uses, Shape
    <3> QED BY <1>14, <2>1, <2>3, <3>1 DEF Subject
  <2>4. Reading'
    BY <1>1, <1>14, <2>3, ReadingUnused, ReadingKept
  <2> QED BY <2>2, <2>4
<1>15. ASSUME NEW h \in Handler, ResetPassword(h) \/ SignOut(h) PROVE Good
  <2> DEFINE u == work[h].user
  <2>1. /\ u \in User /\ RevokeAll(u) /\ (SetPassword(u) \/ users' = users)
        /\ work' = [work EXCEPT ![h] = Idle]
        /\ raced' = RacedAfter(Handler \ {h}, u)
    BY <1>15, ResetPasswordFacts, SignOutFacts DEF SignOut
  <2>2. /\ work'[h].op = "idle" /\ \A g \in Handler : g # h => work'[g] = work[g]
        /\ \A s \in Subject : s # u => (s \in raced' <=> s \in raced)
        /\ \A g \in Handler : (g # h /\ work[g].user = u) => u \in raced'
    BY <2>1, EndFacts
  <2>3. \A v \in User : v # u => users'[v] = users[v]
    BY <2>1, SetPasswordFacts
  <2>4. ~Uses(h)'
    BY <2>2 DEF Uses
  <2>5. \A v \in User : v # u => (v \in Unsettled => v \in Unsettled')
    <3>1. cut' = cut \ {u}
      BY <2>1 DEF RevokeAll
    <3>2. \A g \in Handler : (Signing(g) /\ work[g].user # u) => Signing(g)' /\ work'[g].user = work[g].user
      BY <2>2 DEF Signing
    <3> QED BY <2>2, <3>1, <3>2 DEF Unsettled, Subject
  <2>6. \A g \in Handler : (Uses(g) /\ work'[g] = work[g] /\ work[g].user = u) => u \in raced'
    BY <2>2 DEF Uses
  <2> QED BY <1>14, <2>1, <2>2, <2>3, <2>4, <2>5, <2>6
<1>16. ASSUME NEW u \in User, LogoutAll(u) PROVE Good
  <2>1. /\ RevokeAll(u) /\ work' = work /\ users' = users
        /\ \A s \in Subject : s # u => (s \in raced' <=> s \in raced)
        /\ \A h \in Handler : work[h].user = u => u \in raced'
    BY <1>16, LogoutAllFacts DEF LogoutAll
  <2>2. \A v \in User : v # u => (v \in Unsettled => v \in Unsettled')
    <3>1. cut' = cut \ {u}
      BY <2>1 DEF RevokeAll
    <3> QED BY <2>1, <3>1 DEF Unsettled, Signing, Subject
  <2> QED BY <1>14, <2>1, <2>2
<1>17. ASSUME NEW t \in Token, Logout(t) PROVE Good
  <2>1. /\ tokens'[t] = Revoked(t) /\ \A s \in Token : s # t => tokens'[s] = tokens[s]
        /\ raced \subseteq raced' /\ users' = users /\ cut' = cut /\ work' = work
    BY <1>17, LogoutFacts DEF Logout
  <2>2. \A s \in Token : tokens'[s].status = "live" => tokens'[s] = tokens[s]
    BY <2>1 DEF Revoked
  <2> QED BY <1>2, <2>1, <2>2
<1>18. ASSUME NEW h \in Handler, NEW n \in Token, NEW pwd \in Nat, Finish(h), Uses(h),
              users' = users, cut' = cut,
              \A t \in Token \ {n} : tokens'[t].status = "live" => tokens'[t] = tokens[t],
              tokens'[n].user = work[h].user, tokens'[n].role = work[h].role, tokens'[n].pwd = pwd,
              work[h].user \in User,
              work[h].user \notin raced \cup cut =>
                /\ users[work[h].user].status = "active"
                /\ users[work[h].user].role = work[h].role /\ users[work[h].user].pwd = pwd
       PROVE  Good
  <2>1. /\ work'[h].op = "idle" /\ raced' = raced
        /\ \A g \in Handler : g # h => work'[g] = work[g]
    BY <1>18, FinishFacts
  <2>2. Unsettled \subseteq Unsettled' /\ raced \cup cut \subseteq Unsettled'
    <3>1. Unsettled \subseteq Unsettled'
      BY <1>18, <2>1, UnsettledKept DEF Signing, Uses
    <3> QED BY <3>1 DEF Unsettled
  <2>3. SignedOut'
    BY <1>1, <1>18, <2>1, <2>2, SignedMinted
  <2>4. ReadingOf(h)'
    BY <2>1, ReadingUnused DEF Uses
  <2>5. Reading'
    BY <1>1, <1>18, <2>1, <2>4, ReadingKept
  <2> QED BY <2>3, <2>5
<1>19. ASSUME NEW h \in Handler, NEW n \in Token, Login(h, n) PROVE Good
  <2>1. /\ work[h].user \in User /\ work[h].op = "login" /\ work[h].pwd \in Nat
        /\ tokens'[n] = Minted(n, work[h].user, n, work[h].role, work[h].pwd)
        /\ \A t \in Token : t # n => tokens'[t] = tokens[t]
        /\ Finish(h) /\ users' = users /\ cut' = cut
    BY <1>19, LoginFacts DEF Login, TypeOK
  <2>2. ReadingOf(h)
    BY ReadingHas
  <2>3. work[h].user \notin raced \cup cut =>
                /\ users[work[h].user].status = "active"
                /\ users[work[h].user].role = work[h].role /\ users[work[h].user].pwd = work[h].pwd
    BY <2>1, <2>2 DEF ReadingOf, CanLogin
  <2>4. tokens'[n].user = work[h].user /\ tokens'[n].role = work[h].role /\ tokens'[n].pwd = work[h].pwd
    BY <2>1 DEF Minted
  <2>5. Uses(h)
    BY <2>1 DEF Uses
  <2> QED BY <1>18, <2>1, <2>3, <2>4, <2>5
<1>20. ASSUME NEW h \in Handler, NEW n \in Token, Rotate(h, n) PROVE Good
  <2> DEFINE t == work[h].doc
  <2>1. /\ work[h].user \in User /\ work[h].op = "rotate" /\ t \in Token /\ tokens[t].status # "absent"
        /\ tokens'[n] = Minted(n, work[h].user, tokens[t].root, work[h].role, tokens[t].pwd)
        /\ tokens'[t] = Revoked(t)
        /\ \A s \in Token : (s # n /\ s # t) => tokens'[s] = tokens[s]
        /\ Finish(h) /\ users' = users /\ cut' = cut
    BY <1>20, RotateFacts DEF Rotate
  <2>2. ReadingOf(h)
    BY ReadingHas
  <2>3. work[h].user \notin raced \cup cut =>
                /\ users[work[h].user].status = "active"
                /\ users[work[h].user].role = work[h].role /\ users[work[h].user].pwd = tokens[t].pwd
    BY <2>1, <2>2 DEF ReadingOf, CanLogin, Refreshes
  <2>4. tokens'[n].user = work[h].user /\ tokens'[n].role = work[h].role /\ tokens'[n].pwd = tokens[t].pwd
    BY <2>1 DEF Minted
  <2>5. Uses(h) /\ tokens[t].pwd \in Nat
    BY <2>1, LiveOwner DEF Uses
  <2>6. \A s \in Token \ {n} : tokens'[s].status = "live" => tokens'[s] = tokens[s]
    BY <2>1 DEF Revoked
  <2> HIDE DEF t
  <2> QED BY <1>18, <2>1, <2>3, <2>4, <2>5, <2>6
<1>21. ASSUME NEW u \in User, NEW n \in Token, Register(u, n) PROVE Good
  <2>1. /\ \A v \in User : users[v].status = "absent"
        /\ tokens' = [tokens EXCEPT ![n] = Minted(n, u, n, "admin", 0)]
        /\ users' = [users EXCEPT ![u] = [role |-> "admin", status |-> "active", pwd |-> 0]]
        /\ cut' = cut /\ work' = work /\ raced' = raced
    BY <1>21 DEF Register
  <2>2. /\ tokens'[n].user = u /\ tokens'[n].role = "admin" /\ tokens'[n].pwd = 0
        /\ \A t \in Token : t # n => tokens'[t] = tokens[t]
        /\ users'[u].status = "active" /\ users'[u].role = "admin" /\ users'[u].pwd = 0
    BY <2>1 DEF Minted, TypeOK
  <2>3. Unsettled \subseteq Unsettled'
    BY <2>1 DEF Unsettled, Signing
  <2>4. SignedOut'
    BY <1>1, <2>1, <2>2, <2>3, SignedMinted
  <2>5. \A h \in Handler : ~Uses(h)
    BY <2>1 DEF Uses, Shape
  <2>6. Reading'
    BY <1>1, <2>1, <2>5, ReadingKept
  <2> QED BY <2>4, <2>6
<1>22. ASSUME NEW r \in Reset, NEW u \in User, RequestPasswordReset(r, u) PROVE Good
  BY <1>2, <1>22 DEF RequestPasswordReset
<1>23. ASSUME NEW a \in User, NEW u \in User, NEW role \in Role, CreateUser(a, u, role)
       PROVE  Good
  <2>1. /\ users[u].status = "absent" /\ \A v \in User : v # u => users'[v] = users[v]
        /\ UNCHANGED <<tokens, work, raced, cut>>
    BY <1>23 DEF CreateUser, TypeOK
  <2> QED BY <1>2, <2>1
<1>24. CASE UNCHANGED vars
  BY <1>2, <1>24 DEF vars
<1> QED
  BY <1>5, <1>6, <1>7, <1>8, <1>9, <1>10, <1>11, <1>12, <1>13, <1>15, <1>16, <1>17,
     <1>19, <1>20, <1>21, <1>22, <1>23, <1>24 DEF Next, Serve

-----------------------------------------------------------------------------
(* A reset sets a password once.                                           *)
LEMMA ResetIsNoAccount == Reset \cap User = {} /\ Reset \subseteq Subject
  BY KindsAssumption DEF Subject

LEMMA OnceKept ==
    ASSUME Inv, resets' = resets, uses' = uses,
           \A r \in Reset : r \in raced => r \in raced',
           \A h \in Handler : work'[h].op = "reset" =>
             \/ work[h].op = "reset" /\ work'[h].doc = work[h].doc
             \/ resets[work'[h].doc].status = "open"
    PROVE  ResetOnce' /\ Resetting'
<1> USE DEF Inv
<1>1. ResetOnce'
  BY DEF ResetOnce
<1>2. \A h \in Handler : work[h].op = "reset" => work[h].doc \in Reset
  BY DEF Shape
<1>3. Resetting'
  BY <1>2 DEF Resetting
<1> QED BY <1>1, <1>3

LEMMA OnceStep ==
    ASSUME Inv, [Next]_vars
    PROVE  ResetOnce' /\ Resetting'
<1> USE DEF Inv
<1> DEFINE Good == ResetOnce' /\ Resetting'
<1>1. CASE resets' = resets /\ uses' = uses /\ work' = work /\ \A r \in Reset : r \in raced => r \in raced'
  BY <1>1, OnceKept
<1>2. ASSUME NEW h \in Handler, resets' = resets, uses' = uses,
             \A r \in Reset : r \in raced => r \in raced',
             \A g \in Handler : g # h => work'[g] = work[g],
             work'[h].op = "reset" => resets[work'[h].doc].status = "open"
      PROVE  Good
  BY <1>2, OnceKept
<1>3. ASSUME NEW h \in Handler, NEW u \in User, Begun(h, u),
             work'[h].op = "reset" => resets[work'[h].doc].status = "open"
      PROVE  Good
  BY <1>2, <1>3 DEF Begun
<1>4. ASSUME NEW h \in Handler, Finish(h), resets' = resets, uses' = uses PROVE Good
  BY <1>2, <1>4, FinishFacts
<1>5. ASSUME NEW h \in Handler, NEW n \in Token, Login(h, n) \/ Rotate(h, n) PROVE Good
  BY <1>4, <1>5 DEF Login, Rotate
<1>6. ASSUME NEW h \in Handler, GiveUp(h) PROVE Good
  BY <1>4, <1>6 DEF GiveUp
<1>7. ASSUME NEW h \in Handler, ReadOwner(h) PROVE Good
  BY <1>2, <1>7, ReadOwnerFacts DEF ReadOwner
<1>8. ASSUME NEW h \in Handler, ChangePassword(h) PROVE Good
  BY <1>2, <1>8, ChangePasswordFacts DEF ChangePassword
<1>9. ASSUME NEW h \in Handler, CountAdmins(h) PROVE Good
  BY <1>2, <1>9, CountFacts DEF CountAdmins
<1>10. ASSUME NEW h \in Handler, WriteUser(h) PROVE Good
  BY <1>2, <1>10, WriteUserFacts DEF WriteUser
<1>11. ASSUME NEW h \in Handler, NEW u \in User, CheckLogin(h, u) PROVE Good
  BY <1>3, <1>11, CheckLoginFacts
<1>12. ASSUME NEW h \in Handler, NEW u \in User, CheckPassword(h, u) PROVE Good
  BY <1>3, <1>12, CheckPasswordFacts
<1>13. ASSUME NEW h \in Handler, NEW t \in Token, ReadToken(h, t) PROVE Good
  BY <1>3, <1>13, ReadTokenFacts
<1>14. ASSUME NEW h \in Handler, NEW r \in Reset, ReadReset(h, r) PROVE Good
  BY <1>3, <1>14, ReadResetFacts
<1>15. ASSUME NEW h \in Handler, NEW a \in User, NEW u \in User, NEW role \in Role \cup {Keep},
              NEW status \in {Keep, "active", "barred", "deleted"},
              LookUp(h, a, u, role, status)
       PROVE  Good
  BY <1>3, <1>15, LookUpFacts
<1>16. ASSUME NEW h \in Handler, SignOut(h) PROVE Good
  <2>1. /\ work[h].user \in User /\ work' = [work EXCEPT ![h] = Idle]
        /\ raced' = RacedAfter(Handler \ {h}, work[h].user)
        /\ resets' = resets /\ uses' = uses
    BY <1>16, SignOutFacts DEF SignOut
  <2>2. /\ work'[h].op = "idle" /\ \A g \in Handler : g # h => work'[g] = work[g]
        /\ \A s \in Subject : s # work[h].user => (s \in raced' <=> s \in raced)
    BY <2>1, EndFacts
  <2> QED BY <1>2, <2>1, <2>2, ResetIsNoAccount
<1>17. ASSUME NEW h \in Handler, ResetPassword(h) PROVE Good
  <2> DEFINE u == work[h].user
             r == work[h].doc
  <2>1. /\ u \in User /\ r \in Reset /\ work[h].op = "reset"
        /\ resets'[r].status = "used" /\ uses'[r] = uses[r] + 1
        /\ \A q \in Reset : q # r => resets'[q] = resets[q] /\ uses'[q] = uses[q]
        /\ work' = [work EXCEPT ![h] = Idle]
        /\ raced' = RacedAfter(Handler \ {h}, u)
    BY <1>17, ResetPasswordFacts
  <2>2. /\ work'[h].op = "idle" /\ \A g \in Handler : g # h => work'[g] = work[g]
        /\ \A s \in Subject : s # u => (s \in raced' <=> s \in raced)
    BY <2>1, EndFacts
  <2>3. \A q \in Reset : q \in raced' <=> q \in raced
    BY <2>1, <2>2, ResetIsNoAccount
  <2>4. r \notin raced => uses[r] = 0
    <3>1. r \notin raced => resets[r].status = "open"
      BY <2>1 DEF Resetting
    <3> QED BY <2>1, <3>1 DEF ResetOnce
  <2>5. ResetOnce'
    <3>1. ASSUME NEW q \in Reset, q \notin raced'
          PROVE  uses'[q] = IF resets'[q].status = "used" THEN 1 ELSE 0
      <4>1. CASE q = r
        <5>1. uses[r] = 0
          BY <2>1, <2>3, <2>4, <3>1, <4>1
        <5>2. resets'[r].status = "used" /\ uses'[r] = 1
          BY <2>1, <5>1
        <5> QED BY <4>1, <5>2
      <4>2. CASE q # r
        <5>1. uses'[q] = uses[q] /\ resets'[q] = resets[q] /\ q \notin raced
          BY <2>1, <2>3, <3>1, <4>2
        <5> QED BY <5>1 DEF ResetOnce
      <4> QED BY <4>1, <4>2
    <3> QED BY <3>1 DEF ResetOnce
  <2>6. ASSUME NEW g \in Handler, work'[g].op = "reset", work'[g].doc \notin raced'
        PROVE  resets'[work'[g].doc].status = "open"
    <3>1. g # h /\ work'[g] = work[g] /\ work[g].doc \in Reset
      BY <2>2, <2>6 DEF Shape
    <3>2. work[g].doc \notin raced
      BY <2>3, <2>6, <3>1
    <3>3. work[g].doc # r
      BY <2>1, <3>1, <3>2, ResetIsNoAccount DEF Together, WorksOn
    <3> QED BY <2>1, <2>6, <3>1, <3>2, <3>3 DEF Resetting
  <2>7. Resetting'
    BY <2>6 DEF Resetting
  <2> QED BY <2>5, <2>7
<1>18. ASSUME NEW r \in Reset, NEW u \in User, RequestPasswordReset(r, u) PROVE Good
  <2>1. /\ resets[r].status = "absent" /\ resets'[r].status = "open"
        /\ \A q \in Reset : q # r => resets'[q] = resets[q]
        /\ uses' = uses /\ raced' = raced /\ work' = work
    BY <1>18 DEF RequestPasswordReset, TypeOK
  <2>2. ResetOnce'
    BY <2>1 DEF ResetOnce
  <2>3. ASSUME NEW g \in Handler, work[g].op = "reset", work[g].doc \notin raced
        PROVE  resets'[work[g].doc].status = "open"
    <3>1. work[g].doc \in Reset
      BY <2>3 DEF Shape
    <3> QED BY <2>1, <2>3, <3>1 DEF Resetting
  <2>4. Resetting'
    BY <2>1, <2>3 DEF Resetting
  <2> QED BY <2>2, <2>4
<1>19. ASSUME NEW u \in User, NEW n \in Token, Register(u, n) PROVE Good
  BY <1>1, <1>19 DEF Register
<1>20. ASSUME NEW t \in Token, Logout(t) PROVE Good
  BY <1>1, <1>20, LogoutFacts DEF Logout
<1>21. ASSUME NEW u \in User, LogoutAll(u) PROVE Good
  <2>1. /\ resets' = resets /\ uses' = uses /\ work' = work
        /\ \A s \in Subject : s # u => (s \in raced' <=> s \in raced)
    BY <1>21, LogoutAllFacts DEF LogoutAll
  <2> QED BY <1>1, <2>1, ResetIsNoAccount
<1>22. ASSUME NEW a \in User, NEW u \in User, NEW role \in Role, CreateUser(a, u, role)
       PROVE  Good
  BY <1>1, <1>22 DEF CreateUser
<1>23. CASE UNCHANGED vars
  BY <1>1, <1>23 DEF vars
<1> QED
  BY <1>5, <1>6, <1>7, <1>8, <1>9, <1>10, <1>11, <1>12, <1>13, <1>14, <1>15, <1>16, <1>17,
     <1>18, <1>19, <1>20, <1>21, <1>22, <1>23 DEF Next, Serve

-----------------------------------------------------------------------------
LEMMA InitInv == Init => Inv
<1> SUFFICES ASSUME Init PROVE Inv
  OBVIOUS
<1>1. TypeOK
  BY BoundAssumption DEF Init, TypeOK, Idle, Op, Role, Status, Keep, TokenRow, ResetRow
<1>2. \A u \in User : users[u].status = "absent"
  BY DEF Init
<1>3. \A t \in Token : tokens[t].status = "absent"
  BY DEF Init
<1>4. \A r \in Reset : resets[r].status = "absent" /\ uses[r] = 0
  BY DEF Init
<1>5. \A h \in Handler : work[h].op = "idle" /\ work[h].user = Nobody /\ work[h].doc = Nobody
  BY DEF Init, Idle
<1>6. badges = {} /\ closed = {}
  BY DEF Init
<1>7. Together
  BY <1>5, NobodyIsNoSubject DEF Together, WorksOn, Administers
<1>8. Shape /\ Counted /\ Rotating /\ Reading /\ Resetting
  BY <1>5 DEF Shape, Counted, Rotating, Reading, Resetting
<1>9. Owners /\ Badged /\ KeepsAdmin /\ OneSessionPerLogin /\ SignedOut /\ ResetOnce
  BY <1>2, <1>3, <1>4, <1>6 DEF Owners, Badged, KeepsAdmin, OneSessionPerLogin, SignedOut, ResetOnce
<1> QED BY <1>1, <1>7, <1>8, <1>9 DEF Inv

LEMMA Invariance == Spec => []Inv
<1>1. ASSUME Inv, [Next]_vars PROVE Inv'
  BY <1>1, TypeStep, ShapeStep, OwnersStep, BadgedStep, AdminsStep, ChainStep, SessionStep, OnceStep
     DEF Inv
<1> QED BY <1>1, InitInv, PTL DEF Spec

(* Every variable keeps its type: a handler works on accounts and          *)
(* documents that exist, and a minted session has an owner.                *)
THEOREM TypeCorrect == Spec => []TypeOK
<1>1. Inv => TypeOK
  BY DEF Inv
<1> QED BY <1>1, Invariance, PTL

(* assertNotLastAdmin does its work in an organization of any size, as     *)
(* long as requests that administer users do not overlap.                  *)
THEOREM AdminRemains == Spec => []KeepsAdmin
<1>1. Inv => KeepsAdmin
  BY DEF Inv
<1> QED BY <1>1, Invariance, PTL

(* However often a session is rotated and whoever else is at work, a login *)
(* has one live session at most, none once it was logged out.              *)
THEOREM SessionsSingle == Spec => []OneSessionPerLogin
<1>1. Inv => OneSessionPerLogin
  BY DEF Inv
<1> QED BY <1>1, Invariance, PTL

(* No live session of an account nobody is at work on was opened under     *)
(* another password, role or status than the account has.                  *)
THEOREM SessionsFollowAccount == Spec => []SignedOut
<1>1. Inv => SignedOut
  BY DEF Inv
<1> QED BY <1>1, Invariance, PTL

(* A reset that was not presented by two requests at once set a password   *)
(* once if it is marked used, and never if it is not.                      *)
THEOREM ResetsUsedOnce == Spec => []ResetOnce
<1>1. Inv => ResetOnce
  BY DEF Inv
<1> QED BY <1>1, Invariance, PTL

-----------------------------------------------------------------------------
(* What has ended.                                                         *)
TokenKept(t) ==
    /\ tokens[t].status = "revoked" => tokens'[t].status = "revoked"
    /\ tokens[t].status # "absent" =>
         /\ tokens'[t].user = tokens[t].user
         /\ tokens'[t].root = tokens[t].root
         /\ tokens'[t].pwd = tokens[t].pwd

ResetKept(r) ==
    resets[r].status = "used" =>
      resets'[r].status = "used" /\ resets'[r].user = resets[r].user

AccountKept(u) ==
    users[u].status = "deleted" =>
      /\ users'[u].status = "deleted"
      /\ users'[u].role = users[u].role
      /\ users'[u].pwd = users[u].pwd

EndedKept ==
    /\ \A t \in Token : TokenKept(t)
    /\ \A r \in Reset : ResetKept(r)
    /\ \A u \in User : AccountKept(u)

(* Revoking all sessions of an account revives none.                       *)
LEMMA RevokeKeeps ==
    ASSUME TypeOK, NEW u \in User, RevokeAll(u)
    PROVE  \A t \in Token : TokenKept(t)
<1> SUFFICES ASSUME NEW t \in Token PROVE TokenKept(t)
  OBVIOUS
<1>1. /\ tokens'[t] \in TokenRow
      /\ tokens'[t].user = tokens[t].user /\ tokens'[t].root = tokens[t].root
      /\ tokens'[t].pwd = tokens[t].pwd
      /\ tokens'[t].status = "absent" <=> tokens[t].status = "absent"
      /\ tokens'[t].status = "live" => tokens[t].status = "live"
  BY RevokeFacts
<1>2. tokens'[t].status \in {"absent", "live", "revoked"}
  BY <1>1 DEF TokenRow
<1> QED BY <1>1, <1>2 DEF TokenKept

(* A password is set for an account that exists, and for no other.         *)
LEMMA PasswordKeeps ==
    ASSUME TypeOK, NEW u \in User, SetPassword(u)
    PROVE  \A v \in User : AccountKept(v)
<1>1. ASSUME NEW v \in User, v # u PROVE AccountKept(v)
  BY <1>1, SetPasswordFacts DEF AccountKept
<1>2. AccountKept(u)
  <2>1. users[u].status = "deleted" => ~Exists(u)
    BY DEF Exists
  <2>2. /\ users'[u].role = users[u].role /\ users'[u].status = users[u].status
        /\ ~Exists(u) => users'[u].pwd = users[u].pwd
    BY DEF SetPassword, TypeOK
  <2> QED BY <2>1, <2>2 DEF AccountKept
<1> QED BY <1>1, <1>2

(* The steps that leave sessions, resets and accounts alone.               *)
LEMMA NothingEnds ==
    ASSUME UNCHANGED <<users, tokens, resets>>
    PROVE  EndedKept
  BY DEF EndedKept, TokenKept, ResetKept, AccountKept

LEMMA EndedStep ==
    ASSUME Inv, [Next]_vars
    PROVE  EndedKept
<1> USE DEF Inv
<1>1. ASSUME tokens' = tokens, NEW t \in Token PROVE TokenKept(t)
  BY <1>1 DEF TokenKept
<1>2. ASSUME resets' = resets, NEW r \in Reset PROVE ResetKept(r)
  BY <1>2 DEF ResetKept
<1>3. ASSUME users' = users, NEW u \in User PROVE AccountKept(u)
  BY <1>3 DEF AccountKept
<1>4. ASSUME NEW h \in Handler, NEW n \in Token, Login(h, n) PROVE EndedKept
  <2>1. users' = users /\ resets' = resets
    BY <1>4 DEF Login
  <2>2. \A t \in Token : TokenKept(t)
    BY <1>4, LoginFacts DEF TokenKept
  <2> QED BY <1>2, <1>3, <2>1, <2>2 DEF EndedKept
<1>5. ASSUME NEW h \in Handler, NEW n \in Token, Rotate(h, n) PROVE EndedKept
  <2>1. users' = users /\ resets' = resets
    BY <1>5 DEF Rotate
  <2>2. /\ tokens[n].status = "absent" /\ work[h].doc \in Token
        /\ tokens'[work[h].doc] = Revoked(work[h].doc)
        /\ \A s \in Token : (s # n /\ s # work[h].doc) => tokens'[s] = tokens[s]
    BY <1>5, RotateFacts
  <2>3. \A t \in Token : TokenKept(t)
    BY <2>2 DEF TokenKept, Revoked
  <2> QED BY <1>2, <1>3, <2>1, <2>3 DEF EndedKept
<1>6. ASSUME NEW h \in Handler, ChangePassword(h) PROVE EndedKept
  <2>1. tokens' = tokens /\ resets' = resets
    BY <1>6 DEF ChangePassword
  <2>2. \A u \in User : AccountKept(u)
    BY <1>6, ChangePasswordFacts, PasswordKeeps
  <2> QED BY <1>1, <1>2, <2>1, <2>2 DEF EndedKept
<1>7. ASSUME NEW h \in Handler, ResetPassword(h) PROVE EndedKept
  <2> DEFINE u == work[h].user
             r == work[h].doc
  <2>1. /\ u \in User /\ r \in Reset /\ SetPassword(u) /\ RevokeAll(u) /\ resets[r].user = u
        /\ resets'[r].status = "used" /\ resets'[r].user = u
        /\ \A q \in Reset : q # r => resets'[q] = resets[q]
    BY <1>7, ResetPasswordFacts DEF Shape
  <2>2. \A q \in Reset : ResetKept(q)
    BY <2>1 DEF ResetKept
  <2>3. (\A t \in Token : TokenKept(t)) /\ (\A v \in User : AccountKept(v))
    BY <2>1, RevokeKeeps, PasswordKeeps
  <2> QED BY <2>2, <2>3 DEF EndedKept
<1>8. ASSUME NEW h \in Handler, WriteUser(h) PROVE EndedKept
  <2> DEFINE u == work[h].user
  <2>1. tokens' = tokens /\ resets' = resets
    BY <1>8 DEF WriteUser
  <2>2. /\ u \in User
        /\ \A v \in User : v # u => users'[v] = users[v]
        /\ ~Exists(u) => users'[u].role = users[u].role /\ users'[u].status = users[u].status
    BY <1>8, WriteUserFacts
  <2>3. users'[u].pwd = users[u].pwd
    BY <1>8, <2>2 DEF WriteUser, TypeOK
  <2>4. ASSUME NEW v \in User PROVE AccountKept(v)
    BY <2>2, <2>3 DEF AccountKept, Exists
  <2> QED BY <1>1, <1>2, <2>1, <2>4 DEF EndedKept
<1>9. ASSUME NEW h \in Handler, SignOut(h) PROVE EndedKept
  <2>1. users' = users /\ resets' = resets
    BY <1>9 DEF SignOut
  <2> QED BY <1>2, <1>3, <1>9, <2>1, SignOutFacts, RevokeKeeps DEF EndedKept
<1>10. ASSUME NEW u \in User, NEW n \in Token, Register(u, n) PROVE EndedKept
  <2>1. \A v \in User : users[v].status = "absent"
    BY <1>10 DEF Register
  <2>2. /\ tokens[n].status = "absent" /\ resets' = resets
        /\ \A t \in Token : t # n => tokens'[t] = tokens[t]
    BY <1>10 DEF Register, Mint, TypeOK
  <2>3. (\A t \in Token : TokenKept(t)) /\ (\A v \in User : AccountKept(v))
    BY <2>1, <2>2 DEF TokenKept, AccountKept
  <2> QED BY <1>2, <2>2, <2>3 DEF EndedKept
<1>11. ASSUME NEW t \in Token, Logout(t) PROVE EndedKept
  <2>1. users' = users /\ resets' = resets
    BY <1>11 DEF Logout
  <2>2. tokens'[t] = Revoked(t) /\ \A s \in Token : s # t => tokens'[s] = tokens[s]
    BY <1>11, LogoutFacts
  <2>3. \A s \in Token : TokenKept(s)
    BY <2>2 DEF TokenKept, Revoked
  <2> QED BY <1>2, <1>3, <2>1, <2>3 DEF EndedKept
<1>12. ASSUME NEW u \in User, LogoutAll(u) PROVE EndedKept
  <2>1. users' = users /\ resets' = resets
    BY <1>12 DEF LogoutAll
  <2> QED BY <1>2, <1>3, <1>12, <2>1, LogoutAllFacts, RevokeKeeps DEF EndedKept
<1>13. ASSUME NEW r \in Reset, NEW u \in User, RequestPasswordReset(r, u) PROVE EndedKept
  <2>1. users' = users /\ tokens' = tokens
    BY <1>13 DEF RequestPasswordReset
  <2>2. resets[r].status = "absent" /\ \A q \in Reset : q # r => resets'[q] = resets[q]
    BY <1>13 DEF RequestPasswordReset, TypeOK
  <2>3. \A q \in Reset : ResetKept(q)
    BY <2>2 DEF ResetKept
  <2> QED BY <1>1, <1>3, <2>1, <2>3 DEF EndedKept
<1>14. ASSUME NEW a \in User, NEW u \in User, NEW role \in Role, CreateUser(a, u, role)
       PROVE  EndedKept
  <2>1. tokens' = tokens /\ resets' = resets
    BY <1>14 DEF CreateUser
  <2>2. users[u].status = "absent" /\ \A v \in User : v # u => users'[v] = users[v]
    BY <1>14 DEF CreateUser, TypeOK
  <2>3. \A v \in User : AccountKept(v)
    BY <2>2 DEF AccountKept
  <2> QED BY <1>1, <1>2, <2>1, <2>3 DEF EndedKept
<1>15. ASSUME NEW h \in Handler, ReadOwner(h) \/ CountAdmins(h) \/ GiveUp(h) PROVE EndedKept
  BY <1>15, NothingEnds DEF ReadOwner, CountAdmins, GiveUp
<1>16. ASSUME NEW h \in Handler, NEW u \in User, CheckLogin(h, u) \/ CheckPassword(h, u)
       PROVE  EndedKept
  BY <1>16, NothingEnds DEF CheckLogin, CheckPassword
<1>17. ASSUME NEW h \in Handler, NEW t \in Token, ReadToken(h, t) PROVE EndedKept
  BY <1>17, NothingEnds DEF ReadToken
<1>18. ASSUME NEW h \in Handler, NEW r \in Reset, ReadReset(h, r) PROVE EndedKept
  BY <1>18, NothingEnds DEF ReadReset
<1>19. ASSUME NEW h \in Handler, NEW a \in User, NEW u \in User, NEW role \in Role \cup {Keep},
              NEW status \in {Keep, "active", "barred", "deleted"},
              LookUp(h, a, u, role, status)
       PROVE  EndedKept
  BY <1>19, NothingEnds DEF LookUp
<1>20. CASE UNCHANGED vars
  BY <1>20, NothingEnds DEF vars
<1> QED
  BY <1>4, <1>5, <1>6, <1>7, <1>8, <1>9, <1>10, <1>11, <1>12, <1>13, <1>14, <1>15, <1>16,
     <1>17, <1>18, <1>19, <1>20 DEF Next, Serve

(* However requests overlap, nothing brings back a revoked session, a used *)
(* reset or a deleted account: a rotation, a reset or an update that was   *)
(* decided on an outdated read can end things twice, not undo their end.   *)
THEOREM EndsAreFinal == Spec => WhatEndedStays
<1>1. Inv /\ [Next]_vars => [EndedKept]_vars
  BY EndedStep
<1>2. Spec => [][EndedKept]_vars
  BY <1>1, Invariance, PTL DEF Spec
<1> QED BY <1>2 DEF WhatEndedStays, EndedKept, TokenKept, ResetKept, AccountKept
=============================================================================
