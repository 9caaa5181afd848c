------------------------------ MODULE MCLedger ------------------------------
(* Instances of Ledger for TLC. *)
EXTENDS Ledger, TLC

CONSTANTS a, b, c, hab, hc, old

\* The sources a and b have the same truncated hash.
CollidingHash == a :> hab @@ b :> hab @@ c :> hc
=============================================================================
