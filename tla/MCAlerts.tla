------------------------------ MODULE MCAlerts ------------------------------
(* An instance of Alerts for TLC: a product in a warehouse, a batch, and   *)
(* an order that is decided, all three for one user.                       *)
EXTENDS Alerts, TLC

CONSTANTS a1, k1, w1, b1, order, product, batch, decision, m1

MCAlertOf == (w1 :> product) @@ (b1 :> batch) @@ (order :> decision)
MCTold == (product :> {m1}) @@ (batch :> {m1}) @@ (decision :> {m1})
=============================================================================
