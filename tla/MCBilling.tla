----------------------------- MODULE MCBilling -----------------------------
(* One shipped order of one line, billed and returned by two handlers.     *)
(* Its total is two stored units; payments are given in thirds of a unit,  *)
(* so that some round up, some round down and some vanish.                 *)
EXTENDS Billing, TLC

CONSTANTS h1, h2, o1, i1, i2, r1, l1

MCShipped == [o \in SalesOrder |-> (l1 :> 1)]
MCGrandTotal == [o \in SalesOrder |-> 2]
MCAmounts == {-4, 1, 4, 5}
MCSymmetry == Permutations({h1, h2}) \cup Permutations({i1, i2})
=============================================================================
