------------------------------ MODULE MCMonitor ------------------------------
(* The instance of Monitor for TLC. *)
EXTENDS Monitor

CONSTANTS root, documents, odd
=============================================================================
