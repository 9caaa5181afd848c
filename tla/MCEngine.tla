------------------------------ MODULE MCEngine ------------------------------
(* Instances of Engine for TLC. *)
EXTENDS EngineLedger, TLC

CONSTANTS a, b, c, ha, hb, old

\* Two texts; `old` is the hash of a text that is no longer anywhere.
DistinctHash == [s \in Source |-> IF s = a THEN ha ELSE hb]

\* Three texts, of which a and b have the same truncated hash.
CollidingHash == [s \in Source |-> IF s = c THEN hb ELSE ha]

MCSymmetry == Permutations(Entry)
=============================================================================
