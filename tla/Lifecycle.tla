----------------------------- MODULE Lifecycle -----------------------------
(***************************************************************************)
(* What Patchrail promises about a task, whatever happens to the processes *)
(* that work on it: its state only moves along ALLOWED_TRANSITIONS, and it *)
(* reaches a final state only by a human decision that is already in the   *)
(* approval ledger and was put there while the task awaited approval.      *)
(***************************************************************************)
CONSTANT Tasks

VARIABLES
    stage,     \* the state of each task, "none" before it exists
    verdicts   \* the decisions the approval ledger holds for each task

lifecycle == <<stage, verdicts>>

Successor == [none    |-> "created",
              created |-> "planned",
              planned |-> "running",
              running |-> "review_pending",
              review_pending |-> "awaiting_approval"]

Init ==
    /\ stage = [t \in Tasks |-> "none"]
    /\ verdicts = [t \in Tasks |-> {}]

Advance(t) ==
    /\ stage[t] \in DOMAIN Successor
    /\ stage' = [stage EXCEPT ![t] = Successor[stage[t]]]
    /\ UNCHANGED verdicts

(* A human decision reaches the ledger; one that was interrupted before    *)
(* the task was closed may be followed by another.                         *)
Decide(t, d) ==
    /\ stage[t] = "awaiting_approval"
    /\ verdicts' = [verdicts EXCEPT ![t] = @ \cup {d}]
    /\ UNCHANGED stage

Close(t, d) ==
    /\ stage[t] = "awaiting_approval"
    /\ d \in verdicts[t]
    /\ stage' = [stage EXCEPT ![t] = d]
    /\ UNCHANGED verdicts

Next == \E t \in Tasks :
            \/ Advance(t)
            \/ \E d \in {"approved", "rejected"} : Decide(t, d) \/ Close(t, d)

Spec == Init /\ [][Next]_lifecycle
=============================================================================
