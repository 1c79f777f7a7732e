--------------------------- MODULE MCSalesOrders ---------------------------
(* Instances of SalesOrders for TLC: two orders of one product, stock in   *)
(* the warehouse-level row and in a bin, of one age, two handlers.         *)
EXTENDS SalesOrders, TLC

CONSTANTS o1, o2, h1, h2

MCWanted == (o1 :> 1) @@ (o2 :> 2)
MCServedBy == (h1 :> {o1}) @@ (h2 :> {o2})
MCAge == <<1, 1>>
MCOpening == <<1, 1>>

(* Stock that a goods receipt has put into a bin.                          *)
MCBinOnly == <<0, 2>>
=============================================================================
