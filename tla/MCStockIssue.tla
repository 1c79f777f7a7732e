---------------------------- MODULE MCStockIssue ----------------------------
(* Instances of StockIssue for TLC: three rows of a product and two cost   *)
(* layers.  The first row is of a batch with no expiry date, and is as old *)
(* as the second, which is of none: they are tied, and p2 is handed them   *)
(* in the other order.                                                     *)
EXTENDS StockIssue, TLC

CONSTANTS r1, r2, r3, l1, l2, b1, k1, k2, p1, p2, p3

MCPlace == (r1 :> 1) @@ (r2 :> 1) @@ (r3 :> 2)
MCRank ==
    [p \in {p1, p2, p3} |-> IF p = p2 THEN (r1 :> 2) @@ (r2 :> 1) @@ (r3 :> 3)
                                      ELSE (r1 :> 1) @@ (r2 :> 2) @@ (r3 :> 3)]
MCBatchOf == (r1 :> b1) @@ (r2 :> NoBatch) @@ (r3 :> NoBatch)
MCOpening == (r1 :> 2) @@ (r2 :> 2) @@ (r3 :> 0)
MCReserved == (r1 :> 0) @@ (r2 :> 1) @@ (r3 :> 0)
MCLayers ==
    (l1 :> [total |-> 2, left |-> 2, cost |-> 1, age |-> 1, batch |-> NoBatch]) @@
    (l2 :> [total |-> 2, left |-> 2, cost |-> 5, age |-> 2, batch |-> b1])

J(kind, r, q, k, s) ==
    [kind |-> kind, row |-> r, qty |-> q, key |-> k, cost |-> 3, age |-> 0, scan |-> s]

(* An issue that two requests may send under one key, a larger one, a draw *)
(* from a named bin, a receipt with an old date, and an entry of a sync    *)
(* with no key.                                                            *)
MCJobs ==
    { J("issue", r1, 2, k1, TRUE), J("issue", r1, 3, NoKey, FALSE),
      J("draw", r3, 1, k2, FALSE), J("receive", r3, 1, NoKey, FALSE),
      J("draw", r3, 1, NoKey, TRUE) }
=============================================================================
