------------------------------- MODULE MCRace -------------------------------
(* Several processes on one store; they are interchangeable. *)
EXTENDS Patchrail, TLC

Symmetry == Permutations(Procs)
=============================================================================
