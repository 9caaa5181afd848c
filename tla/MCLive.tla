------------------------------- MODULE MCLive -------------------------------
(* Instances of Live for TLC. *)
EXTENDS Live, TLC

CONSTANTS s1, s2, f1, f2
=============================================================================
