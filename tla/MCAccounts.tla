----------------------------- MODULE MCAccounts -----------------------------
(* Two accounts, the sessions of up to three logins and rotations, one     *)
(* password reset, and two handlers.                                       *)
EXTENDS Accounts, TLC

CONSTANTS h1, h2, u1, u2, t1, t2, t3

MCSymmetry ==
    Permutations({h1, h2}) \cup Permutations({u1, u2}) \cup Permutations({t1, t2, t3})
=============================================================================
