---------------------------- MODULE FallbackGate ----------------------------
(***************************************************************************)
(* _require_assignment and the fallback approval service.                  *)
(*                                                                         *)
(* A role is resolved to Direct (the first candidate, or one that needs no *)
(* approval) or to an alternate that needs a human's approval.  Policy and *)
(* readiness are the environment: any resolution may come up at any time.  *)
(***************************************************************************)
EXTENDS Store

(* Wrong variant: the request may be for another role. *)
MatchesAnyRole(t, copy, role, alt) ==
    /\ copy.request # None
    /\ requests[copy.request].task = t
    /\ requests[copy.request].alt = alt

(* _matching_fallback_request looks only at the latest request of the      *)
(* record the command loaded.                                              *)
Matches(t, copy, role, alt) ==
    /\ copy.request # None
    /\ requests[copy.request].task = t
    /\ requests[copy.request].role = role
    /\ requests[copy.request].alt = alt

(* What a role may resolve to.  The bound RequestIds: an alternate that    *)
(* would need a new request is offered while an id is left.                *)
Resolutions(t, copy, role) ==
    {Direct} \cup {alt \in Alternates :
                     HasFresh(requests) \/ Matches(t, copy, role, alt)}

(* Where each role's handler continues once it has its assignment. *)
AfterGate == [planner  |-> "plan_generate",
              executor |-> "run_execute",
              reviewer |-> "review_generate"]

GateMatches(p) ==
    Matches(frame[p].task, frame[p].copy, frame[p].role, frame[p].alt)

GateStatus(p) == requests[frame[p].copy.request].status

(* Wrong variant: a matching request is enough, whatever its status. *)
PassGateUndecided(p) ==
    /\ pc[p] = "gate"
    /\ frame[p].alt # Direct => GateMatches(p)
    /\ Goto(p, AfterGate[frame[p].role], frame[p])
    /\ UNCHANGED <<files, crashes>>

PassGate(p) ==
    /\ pc[p] = "gate"
    /\ frame[p].alt # Direct => GateMatches(p) /\ GateStatus(p) = "approved"
    /\ Goto(p, AfterGate[frame[p].role], frame[p])
    /\ UNCHANGED <<files, crashes>>

(* A matching request that is pending or rejected blocks the command. *)
BlockAtGate(p) ==
    /\ pc[p] = "gate"
    /\ frame[p].alt # Direct
    /\ GateMatches(p)
    /\ GateStatus(p) # "approved"
    /\ Return(p)
    /\ UNCHANGED <<files, crashes>>

(* Wrong variant: the request is written to the ledger only. *)
SaveRequestNowhere(p) ==
    /\ pc[p] = "gate"
    /\ frame[p].alt # Direct
    /\ ~GateMatches(p)
    /\ HasFresh(requests)
    /\ Goto(p, "request_ledger", [frame[p] EXCEPT !.new = FreshId(requests)])
    /\ UNCHANGED <<files, crashes>>

(* Without a matching request, create_request saves a new one ... *)
SaveRequest(p) ==
    /\ pc[p] = "gate"
    /\ frame[p].alt # Direct
    /\ ~GateMatches(p)
    /\ HasFresh(requests)
    /\ LET new == FreshId(requests) IN
       /\ requests' = [requests EXCEPT ![new] =
                         [task |-> frame[p].task, role |-> frame[p].role,
                          alt |-> frame[p].alt, status |-> "pending"]]
       /\ Goto(p, "request_ledger", [frame[p] EXCEPT !.new = new])
    /\ UNCHANGED <<tasks, briefs, evidence, decisions, fallbackLedger, crashes>>

(* ... appends it to the ledger ... *)
LedgerRequest(p) ==
    /\ pc[p] = "request_ledger"
    /\ fallbackLedger' = fallbackLedger \cup
         {[request |-> frame[p].new, status |-> "pending"]}
    /\ Goto(p, "request_link", frame[p])
    /\ UNCHANGED <<tasks, briefs, evidence, decisions, requests, crashes>>

(* Wrong variant: the task never learns of its request. *)
LinkNoRequest(p) ==
    /\ pc[p] = "request_link"
    /\ Return(p)
    /\ UNCHANGED <<files, crashes>>

(* ... and makes it the task's latest; the command then ends with an error *)
(* that asks for the approval.                                             *)
LinkRequest(p) ==
    /\ pc[p] = "request_link"
    /\ SaveTask(p, [frame[p].copy EXCEPT !.request = frame[p].new])
    /\ Return(p)
    /\ UNCHANGED <<briefs, evidence, decisions, fallbacks, crashes>>

-----------------------------------------------------------------------------
(* approve-fallback and reject-fallback: record_decision. *)

LoadForFallback(p, t, d) ==
    /\ pc[p] = "idle"
    /\ tasks[t] # None
    /\ tasks[t].request # None
    /\ Goto(p, "fallback_load", [Loaded(t) EXCEPT !.decision = d])
    /\ UNCHANGED <<files, crashes>>

(* Wrong variant: the status of the request is not looked at. *)
LoadAnyRequest(p) ==
    /\ pc[p] = "fallback_load"
    /\ Goto(p, "fallback_save", frame[p])
    /\ UNCHANGED <<files, crashes>>

(* Only a pending request can be decided. *)
LoadRequest(p) ==
    /\ pc[p] = "fallback_load"
    /\ IF GateStatus(p) = "pending"
       THEN Goto(p, "fallback_save", frame[p])
       ELSE Return(p)
    /\ UNCHANGED <<files, crashes>>

(* Wrong variant: the decision does not go to the ledger. *)
SaveDecisionWithoutLedger(p) ==
    /\ pc[p] = "fallback_save"
    /\ requests' = [requests EXCEPT
                      ![frame[p].copy.request].status = frame[p].decision]
    /\ Goto(p, "fallback_touch", frame[p])
    /\ UNCHANGED <<tasks, briefs, evidence, decisions, fallbackLedger, crashes>>

SaveFallbackDecision(p) ==
    /\ pc[p] = "fallback_save"
    /\ requests' = [requests EXCEPT
                      ![frame[p].copy.request].status = frame[p].decision]
    /\ Goto(p, "fallback_ledger", frame[p])
    /\ UNCHANGED <<tasks, briefs, evidence, decisions, fallbackLedger, crashes>>

LedgerFallbackDecision(p) ==
    /\ pc[p] = "fallback_ledger"
    /\ fallbackLedger' = fallbackLedger \cup
         {[request |-> frame[p].copy.request, status |-> frame[p].decision]}
    /\ Goto(p, "fallback_touch", frame[p])
    /\ UNCHANGED <<tasks, briefs, evidence, decisions, requests, crashes>>

(* The task is saved again for its updated_at: the whole record, as it was *)
(* when the command loaded it.                                             *)
TouchTask(p) ==
    /\ pc[p] = "fallback_touch"
    /\ SaveTask(p, frame[p].copy)
    /\ Return(p)
    /\ UNCHANGED <<briefs, evidence, decisions, fallbacks, crashes>>
=============================================================================
