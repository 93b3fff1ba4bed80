----------------------------- MODULE MCServices -----------------------------
(* Small instances of Services for TLC. *)
EXTENDS Services, TLC

CONSTANTS g1, g2, i1, i2, p1, p2, v1, d1, d2

MCHostOf == (p1 :> i1) @@ (p2 :> i1)
=============================================================================
