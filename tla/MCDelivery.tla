----------------------------- MODULE MCDelivery -----------------------------
(* An instance of Delivery for TLC: two users who share two devices, and a *)
(* mail and a push for one of them.                                        *)
EXTENDS Delivery, TLC

CONSTANTS u1, u2, d1, d2, c1, c2, k1, mail, push1

MCFor == (mail :> u1) @@ (push1 :> u1)
=============================================================================
