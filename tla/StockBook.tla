----------------------------- MODULE StockBook -----------------------------
(***************************************************************************)
(* What the ledger promises, with no transactions, locks or statements:    *)
(* every stock coordinate has a book of movements that only ever grows,    *)
(* the entries of a book follow on from one another starting at zero, the  *)
(* balance is what the last entry says, no balance is negative, and an     *)
(* idempotency key is on at most one entry of all the books.               *)
(* (ledger.go:18-21: "Every quantity change in the system funnels through  *)
(* Ledger.Apply ..., which is what keeps stock_items and stock_movements   *)
(* in agreement".)                                                         *)
(***************************************************************************)
EXTENDS Integers, Sequences

CONSTANTS
    Coord,      \* stock coordinates: product, variant, warehouse, location, batch
    NoKey       \* the key of a movement that carries no client_request_id

VARIABLES
    book,       \* book[c]: the movements of c, oldest first
    balance     \* balance[c]: the on-hand quantity of c

vars == <<book, balance>>

(* The entries of b follow on from one another, from quantity x to y.      *)
Chain(b, x, y) ==
    /\ \A i \in 1..Len(b) :
         /\ b[i].before = (IF i = 1 THEN x ELSE b[i-1].after)
         /\ b[i].after = b[i].before + b[i].delta
         /\ b[i].after >= 0
    /\ y = (IF Len(b) = 0 THEN x ELSE b[Len(b)].after)

(* No key is on two entries of the books bk.                               *)
KeysOnce(bk) ==
    \A c, d \in Coord : \A i \in 1..Len(bk[c]), j \in 1..Len(bk[d]) :
        (bk[c][i].key = bk[d][j].key /\ bk[c][i].key # NoKey) => (c = d /\ i = j)

(* t is s with zero or more entries added at the end.                      *)
Extends(s, t) ==
    /\ Len(s) <= Len(t)
    /\ \A i \in 1..Len(s) : t[i] = s[i]

Sound(bk, bal) ==
    /\ \A c \in Coord : Chain(bk[c], 0, bal[c])
    /\ KeysOnce(bk)

Init == Sound(book, balance)

(* One committed transaction: books grow at the end and stay sound.        *)
Post ==
    /\ \A c \in Coord : Extends(book[c], book'[c])
    /\ Sound(book', balance')

Spec == Init /\ [][Post]_vars
=============================================================================
