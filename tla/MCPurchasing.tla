---------------------------- MODULE MCPurchasing ----------------------------
(* Instances of Purchasing for TLC: an order of two lines, two handlers, a *)
(* manager and an admin.                                                   *)
EXTENDS Purchasing, TLC

CONSTANTS x1, h1, h2, manager, admin

MCOrdered == (x1 :> <<2, 1>>)
=============================================================================
