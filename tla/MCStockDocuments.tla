-------------------------- MODULE MCStockDocuments --------------------------
(* One product in two warehouses, one bin in each: a transfer and a count  *)
(* whose handlers may overlap, while other movements go on.                *)
EXTENDS StockDocuments, TLC

CONSTANTS h1, h2, t1, d1, item, w1, w2, bin

MCOpening == [c \in Coord |-> IF c = <<item, w1, NoBin>> THEN 2
                              ELSE IF c = <<item, w1, bin>> THEN 1 ELSE 0]
MCReserved == [c \in Coord |-> IF c = <<item, w1, bin>> THEN 1 ELSE 0]
MCOthers == {[coord |-> <<item, w1, NoBin>>, delta |-> x] : x \in {-1, 1}}
MCSymmetry == Permutations({h1, h2})
=============================================================================
