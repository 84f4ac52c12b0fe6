------------------------------ MODULE Planning ------------------------------
(***************************************************************************)
(* create_plan: a plan that snapshots the task's briefs.                   *)
(***************************************************************************)
EXTENDS Intake, FallbackGate

LoadForPlan(p, t) ==
    /\ pc[p] = "idle"
    /\ tasks[t] # None
    /\ tasks[t].state = "created"
    /\ Goto(p, "plan_list", Loaded(t))
    /\ UNCHANGED <<files, crashes>>

(* The briefs of the task are listed, then the planner is resolved. *)
ListBriefs(p) ==
    /\ pc[p] = "plan_list"
    /\ \E alt \in Resolutions(frame[p].task, frame[p].copy, "planner") :
         Goto(p, "gate", [frame[p] EXCEPT !.role = "planner", !.alt = alt,
                                          !.todo = BriefsOf(frame[p].task)])
    /\ UNCHANGED <<files, crashes>>

(* No planner candidate is ready, or plan generation fails under --auto. *)
PlanRaises(p) ==
    /\ pc[p] \in {"plan_list", "plan_generate"}
    /\ Return(p)
    /\ UNCHANGED <<files, crashes>>

(* Wrong variant: the snapshot leaves out briefs attached before. *)
SavePlanOfUnattached(p) ==
    /\ pc[p] = "plan_generate"
    /\ HasFresh(plans)
    /\ LET new == FreshId(plans) IN
       /\ plans' = [plans EXCEPT ![new] =
                      [task |-> frame[p].task, alt |-> frame[p].alt,
                       briefs |-> {b \in frame[p].todo : briefs[b].plan = None}]]
       /\ Goto(p, "plan_attach", [frame[p] EXCEPT !.new = new])
    /\ UNCHANGED <<tasks, briefs, bundles, runs, reviews, decisions, fallbacks,
                   crashes>>

SavePlan(p) ==
    /\ pc[p] = "plan_generate"
    /\ HasFresh(plans)
    /\ LET new == FreshId(plans) IN
       /\ plans' = [plans EXCEPT ![new] =
                      [task |-> frame[p].task, alt |-> frame[p].alt,
                       briefs |-> frame[p].todo]]
       /\ Goto(p, "plan_attach", [frame[p] EXCEPT !.new = new])
    /\ UNCHANGED <<tasks, briefs, bundles, runs, reviews, decisions, fallbacks,
                   crashes>>

(* Wrong variant: a brief attached before keeps its old plan. *)
AttachBriefOnce(p) ==
    /\ pc[p] = "plan_attach"
    /\ \E b \in frame[p].todo :
         /\ briefs' = [briefs EXCEPT ![b].plan =
                         IF @ = None THEN frame[p].new ELSE @]
         /\ Goto(p, "plan_attach", [frame[p] EXCEPT !.todo = @ \ {b}])
    /\ UNCHANGED <<tasks, evidence, decisions, fallbacks, crashes>>

(* Each listed brief is written back with the plan it is attached to. *)
AttachBrief(p) ==
    /\ pc[p] = "plan_attach"
    /\ \E b \in frame[p].todo :
         /\ briefs' = [briefs EXCEPT ![b].plan = frame[p].new]
         /\ Goto(p, "plan_attach", [frame[p] EXCEPT !.todo = @ \ {b}])
    /\ UNCHANGED <<tasks, evidence, decisions, fallbacks, crashes>>

LinkPlan(p) ==
    /\ pc[p] = "plan_attach"
    /\ frame[p].todo = {}
    /\ CanTransition(frame[p].copy, "planned")
    /\ SaveTask(p, [frame[p].copy EXCEPT !.state = "planned",
                                         !.plan = frame[p].new])
    /\ Return(p)
    /\ UNCHANGED <<briefs, evidence, decisions, fallbacks, crashes>>
=============================================================================
