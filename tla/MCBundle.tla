------------------------------ MODULE MCBundle ------------------------------
(* Two runs, the runner of one of which has left a process behind. *)
EXTENDS Bundle

CONSTANTS r1, r2, t1, t2

MCRuns == {r1, r2}
MCLingering == {r1}
MCNames == 1..2
MCTexts == {t1, t2}
MCLeft == {[n \in MCNames |-> t2]}
=============================================================================
