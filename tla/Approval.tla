------------------------------ MODULE Approval ------------------------------
(***************************************************************************)
(* _finalize_task and ApprovalService.record_decision: approve and reject. *)
(***************************************************************************)
EXTENDS Store

(* Wrong variant: a review is enough, the state is not required. *)
LoadForDecisionInAnyState(p, t, d) ==
    /\ pc[p] = "idle"
    /\ tasks[t] # None
    /\ tasks[t].review # None
    /\ Goto(p, "approval_save", [Loaded(t) EXCEPT !.decision = d])
    /\ UNCHANGED <<files, crashes>>

LoadForDecision(p, t, d) ==
    /\ pc[p] = "idle"
    /\ tasks[t] # None
    /\ tasks[t].review # None
    /\ tasks[t].state = "awaiting_approval"
    /\ Goto(p, "approval_save", [Loaded(t) EXCEPT !.decision = d])
    /\ UNCHANGED <<files, crashes>>

(* Wrong variant: the ledger line is left for after the task file. *)
SaveApprovalWithoutLedger(p) ==
    /\ pc[p] = "approval_save"
    /\ HasFresh(approvals)
    /\ LET new == FreshId(approvals) IN
       /\ approvals' = [approvals EXCEPT ![new] =
                          [task |-> frame[p].task,
                           review |-> frame[p].copy.review,
                           decision |-> frame[p].decision]]
       /\ Goto(p, "approval_link", [frame[p] EXCEPT !.new = new])
    /\ UNCHANGED <<tasks, briefs, evidence, approvalLedger, fallbacks, crashes>>

SaveApproval(p) ==
    /\ pc[p] = "approval_save"
    /\ HasFresh(approvals)
    /\ LET new == FreshId(approvals) IN
       /\ approvals' = [approvals EXCEPT ![new] =
                          [task |-> frame[p].task,
                           review |-> frame[p].copy.review,
                           decision |-> frame[p].decision]]
       /\ Goto(p, "approval_ledger", [frame[p] EXCEPT !.new = new])
    /\ UNCHANGED <<tasks, briefs, evidence, approvalLedger, fallbacks, crashes>>

(* The ledger line is appended before the task file says anything. *)
LedgerApproval(p) ==
    /\ pc[p] = "approval_ledger"
    /\ approvalLedger' = approvalLedger \cup {frame[p].new}
    /\ Goto(p, "approval_link", frame[p])
    /\ UNCHANGED <<tasks, briefs, evidence, approvals, fallbacks, crashes>>

LinkApproval(p) ==
    /\ pc[p] = "approval_link"
    /\ CanTransition(frame[p].copy, frame[p].decision)
    /\ SaveTask(p, [frame[p].copy EXCEPT !.state = frame[p].decision,
                                         !.approval = frame[p].new])
    /\ Return(p)
    /\ UNCHANGED <<briefs, evidence, decisions, fallbacks, crashes>>
=============================================================================
