----------------------------- MODULE MCRecovery -----------------------------
(* One process at a time that may die, and an operator who comes back. *)
EXTENDS Recovery
=============================================================================
