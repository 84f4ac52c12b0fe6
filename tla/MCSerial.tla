------------------------------ MODULE MCSerial ------------------------------
(* One process at a time: the shell, or one command after another. *)
EXTENDS Patchrail
=============================================================================
