------------------------------ MODULE Archive ------------------------------
(***************************************************************************)
(* What the artifact store promises those who read it: a bundle is there   *)
(* as a whole or not at all, and once there neither goes nor changes; a    *)
(* run is recorded only when its bundle is there; and a list of the        *)
(* bundles, if it is answered, has all that were there when it was asked   *)
(* for, and each as it is.                                                 *)
(***************************************************************************)
CONSTANT Runs

VARIABLES
    kept,         \* the bundle of each run that has one
    filed,        \* the runs that are recorded
    phase,        \* of the list: idle, asked, answered or failed
    floor,        \* the runs whose bundle was there when it was asked for
    answer        \* what it says: for each run it names, its bundle

archive == <<kept, filed, phase, floor, answer>>

Init ==
    /\ kept = [r \in {} |-> {}]
    /\ filed = {}
    /\ phase = "idle"
    /\ floor = {}
    /\ answer = [r \in {} |-> {}]

(* What the new bundle holds is up to its run. *)
Keep(r) ==
    /\ r \notin DOMAIN kept
    /\ DOMAIN kept' = DOMAIN kept \cup {r}
    /\ \A s \in DOMAIN kept : kept'[s] = kept[s]
    /\ UNCHANGED <<filed, phase, floor, answer>>

File(r) ==
    /\ r \in DOMAIN kept
    /\ filed' = filed \cup {r}
    /\ UNCHANGED <<kept, phase, floor, answer>>

Ask ==
    /\ phase = "idle"
    /\ phase' = "asked"
    /\ floor' = DOMAIN kept
    /\ UNCHANGED <<kept, filed, answer>>

(* Of the bundles kept since it was asked for, the answer may have some.   *)
Tell ==
    /\ phase = "asked"
    /\ phase' = "answered"
    /\ \E named \in SUBSET DOMAIN kept :
          /\ floor \subseteq named
          /\ answer' = [r \in named |-> kept[r]]
    /\ UNCHANGED <<kept, filed, floor>>

Fail ==
    /\ phase = "asked"
    /\ phase' = "failed"
    /\ UNCHANGED <<kept, filed, floor, answer>>

Next ==
    \/ \E r \in Runs : Keep(r) \/ File(r)
    \/ Ask \/ Tell \/ Fail

Spec == Init /\ [][Next]_archive
=============================================================================
