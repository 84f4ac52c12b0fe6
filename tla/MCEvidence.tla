----------------------------- MODULE MCEvidence -----------------------------
(* Overlapping runs of one task, verifications and a reader. *)
EXTENDS Evidence, TLC

Symmetry == Permutations(Procs)

(* A reader is followed up to its first read.  It changes nothing that     *)
(* others see, so this loses no behaviour of the files.                    *)
Unread == view = Nothing
=============================================================================
