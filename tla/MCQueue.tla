------------------------------ MODULE MCQueue ------------------------------
(* Small instances of module Queue for TLC. *)
EXTENDS Queue
=============================================================================
