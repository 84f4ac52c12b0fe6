------------------------------- MODULE Intake -------------------------------
(***************************************************************************)
(* create_task and create_brief: what exists before a plan.                *)
(***************************************************************************)
EXTENDS Store

BriefsOf(t) == {b \in BriefIds : briefs[b] # None /\ briefs[b].task = t}

(* create_task writes one new file that nobody else can know of. *)
CreateTask(t) ==
    /\ tasks[t] = None
    /\ tasks' = [tasks EXCEPT ![t] = NewTask]
    /\ UNCHANGED <<briefs, evidence, decisions, fallbacks, pc, frame, crashes>>

(* create_brief, first read: the task must not have its plan yet. *)
LoadForBrief(p, t, k) ==
    /\ pc[p] = "idle"
    /\ tasks[t] # None
    /\ tasks[t].plan = None
    /\ Goto(p, "brief_list", [Loaded(t) EXCEPT !.kind = k])
    /\ UNCHANGED <<files, crashes>>

(* Wrong variant: a brief attached to some plan no longer counts. *)
SameKindUnattached(t, k) ==
    {b \in BriefsOf(t) : briefs[b].kind = k /\ briefs[b].plan = None}

SameKind(t, k) == {b \in BriefsOf(t) : briefs[b].kind = k}

(* Second read: no brief of that kind may exist for the task. *)
ListSameKind(p) ==
    /\ pc[p] = "brief_list"
    /\ IF SameKind(frame[p].task, frame[p].kind) = {}
       THEN Goto(p, "brief_save", frame[p])
       ELSE Return(p)
    /\ UNCHANGED <<files, crashes>>

(* The source file may be missing: the command ends with an error. *)
BriefSourceMissing(p) ==
    /\ pc[p] = "brief_save"
    /\ Return(p)
    /\ UNCHANGED <<files, crashes>>

SaveBrief(p) ==
    /\ pc[p] = "brief_save"
    /\ HasFresh(briefs)
    /\ briefs' = [briefs EXCEPT ![FreshId(briefs)] =
                    [task |-> frame[p].task, kind |-> frame[p].kind,
                     plan |-> frame[p].copy.plan]]
    /\ Return(p)
    /\ UNCHANGED <<tasks, evidence, decisions, fallbacks, crashes>>
=============================================================================
