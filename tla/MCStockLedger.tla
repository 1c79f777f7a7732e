--------------------------- MODULE MCStockLedger ---------------------------
(* An instance of StockLedger for TLC: coordinates c1 and c2 share a cost  *)
(* pool, c3 is a coordinate of another product and has no row yet, and c4  *)
(* is a coordinate of a tracked product without its batch.                 *)
EXTENDS StockLedger, TLC

CONSTANTS c1, c2, c3, c4, k1, p1, p2, p3

L(x, n, k) == [coord |-> x, delta |-> n, key |-> k]

MCPoolOf == (c1 :> "AB") @@ (c2 :> "AB") @@ (c3 :> "C") @@ (c4 :> "C")
MCOpening == (c1 :> 2) @@ (c2 :> 1) @@ (c3 :> 0) @@ (c4 :> 0)

(* Fewer layers than stock, as for goods seeded before costing             *)
(* (ledger.go:419-422): two issues compete for one layer.                  *)
MCLayers == ("AB" :> 1) @@ ("C" :> 0)

(* Documents of two lines that meet in opposite orders, whose later lines  *)
(* may be refused, and one that touches a coordinate twice; an offline     *)
(* scan that several requests may retry under one key; an adjustment by    *)
(* zero, and one that the batch policy refuses.                            *)
MCJobs ==
    { <<L(c1, -1, NoKey), L(c3, 1, NoKey)>>,
      <<L(c3, 1, NoKey), L(c1, -2, NoKey)>>,
      <<L(c2, -1, NoKey), L(c2, 2, NoKey)>>,
      <<L(c1, -1, k1)>>,
      <<L(c1, 0, NoKey)>>,
      <<L(c4, 1, NoKey)>> }
=============================================================================
