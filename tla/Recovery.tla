------------------------------ MODULE Recovery ------------------------------
(***************************************************************************)
(* Can a task be brought to an end when commands die?                      *)
(*                                                                         *)
(* To the crashes between two writes this module adds those within one:    *)
(* write_text has emptied the file and the process dies before it has      *)
(* written the text.  What is left is no JSON, so a command that reads it  *)
(* ends with JSONDecodeError, and a listing reads every file of its        *)
(* directory.  The records keep their last whole content beside "torn",    *)
(* which says whose file has lost it.                                      *)
(*                                                                         *)
(* A new plan, run, review, approval or request whose file is torn is as   *)
(* good as unwritten: nothing leads to it, and no handler modelled here    *)
(* lists its directory.  A new brief is listed.                            *)
(***************************************************************************)
EXTENDS Patchrail

ASSUME IdsApart == \A A, B \in {Tasks, BriefIds, RequestIds} :
                       A = B \/ A \cap B = {}

VARIABLES
    torn,       \* the tasks, briefs and requests whose file is torn
    litter      \* whether a torn file of a brief never recorded is left

recoveryVars == <<vars, torn, litter>>

RecoveryInit == Init /\ torn = {} /\ litter = FALSE

TaskWrites == {"run_execute", "run_link", "request_link", "review_link",
               "approval_link", "fallback_touch"}

(* The records that the next write of p replaces. *)
Rewrites(p) ==
    CASE pc[p] = "plan_attach" /\ frame[p].todo # {} -> frame[p].todo
      [] pc[p] = "plan_attach" /\ frame[p].todo = {} -> {frame[p].task}
      [] pc[p] = "fallback_save" -> {frame[p].copy.request}
      [] pc[p] \in TaskWrites -> {frame[p].task}
      [] OTHER -> {}

DiesWriting(p) ==
    /\ Crash(p)
    /\ \/ /\ \E id \in Rewrites(p) : torn' = torn \cup {id}
          /\ UNCHANGED litter
       \/ /\ pc[p] = "brief_save"
          /\ litter' = TRUE
          /\ UNCHANGED torn

-----------------------------------------------------------------------------
(* Reading. *)

BriefsUnreadable == litter \/ torn \cap BriefIds # {}

(* list_planning_briefs reads the briefs of all tasks; the gate reads the  *)
(* latest request only when an alternate was resolved.                     *)
ReadsTorn(p) ==
    \/ pc[p] \in {"brief_list", "plan_list"} /\ BriefsUnreadable
    \/ pc[p] = "gate" /\ frame[p].alt # Direct /\ frame[p].copy.request \in torn
    \/ pc[p] = "fallback_load" /\ frame[p].copy.request \in torn

(* A command whose task cannot be read has ended before it began. *)
Begins(p) ==
    /\ Start(p)
    /\ frame'[p].task \notin torn
    /\ UNCHANGED <<torn, litter>>

(* A whole write makes a file whole again. *)
Proceeds(p) ==
    /\ ~ReadsTorn(p)
    /\ Continue(p)
    /\ torn' = torn \ IF pc[p] = "plan_attach" /\ frame[p].todo # {}
                      THEN frame[p].todo \ frame'[p].todo
                      ELSE Rewrites(p)
    /\ UNCHANGED litter

MeetsTorn(p) ==
    /\ ReadsTorn(p)
    /\ Return(p)
    /\ UNCHANGED <<files, crashes, torn, litter>>

RecoveryNext ==
    \/ (\E t \in Tasks : CreateTask(t)) /\ UNCHANGED <<torn, litter>>
    \/ \E p \in Procs :
         \/ Begins(p) \/ Proceeds(p) \/ MeetsTorn(p) \/ DiesWriting(p)
         \/ (Raise(p) \/ Crash(p)) /\ UNCHANGED <<torn, litter>>

RecoverySpec == RecoveryInit /\ [][RecoveryNext]_recoveryVars

-----------------------------------------------------------------------------
(* An operator who comes back to a task, and tools that do not fail        *)
(* forever: used only to ask whether a task can be brought to an end.      *)
(* What the roles keep resolving to is the worst the constants allow:      *)
(* always an alternate, when there is one.                                 *)
Usual == IF Alternates = {} THEN {Direct} ELSE Alternates

(* The command that the state of task t calls for. *)
NextCommand(p, t) ==
    \/ LoadForPlan(p, t)
    \/ \E alt \in Usual : LoadForRun(p, t, alt)
    \/ \E alt \in Usual : /\ tasks[t].state = "review_pending"
                           /\ LoadForReview(p, tasks[t].run, alt)
    \/ \E d \in Decisions : LoadForDecision(p, t, d)

ResolvePlanner(p) == ListBriefs(p) /\ frame'[p].alt \in Usual
ToolSucceeds(p) == SavePlan(p) \/ RunnerReturns(p) \/ SaveReview(p)

OperatorFairness ==
    \A p \in Procs :
        /\ WF_recoveryVars(Proceeds(p) \/ MeetsTorn(p))
        /\ \A t \in Tasks :
             /\ SF_recoveryVars(tasks[t] # None /\ NextCommand(p, t) /\ Begins(p))
             /\ SF_recoveryVars(LoadForFallback(p, t, "approved") /\ Begins(p))
        /\ SF_recoveryVars(ResolvePlanner(p) /\ Proceeds(p))
        /\ SF_recoveryVars(ToolSucceeds(p) /\ Proceeds(p))

OperatedSpec == RecoverySpec /\ OperatorFairness

(* What can keep a task from its end for good: it was left running, its    *)
(* file or that of its latest fallback request is torn, that request was   *)
(* rejected, or it has no plan and some task's brief cannot be read.       *)
Stranded(t) ==
    \/ Stage[t] = "running"
    \/ t \in torn
    \/ Stage[t] = "created" /\ BriefsUnreadable
    \/ /\ tasks[t].request # None
       /\ \/ tasks[t].request \in torn
          \/ requests[tasks[t].request].status = "rejected"

(* Wherever a command dies, also within a write, an operator who comes     *)
(* back can bring every task to a final state from the files alone,        *)
(* through the fallback approvals if need be, and it stays there, unless   *)
(* the task was stranded in one of these ways.  In particular a half-made  *)
(* plan, a review, a request or an approval that nothing leads to yet      *)
(* strands no task (core/service.py:428-436, review/service.py:45,         *)
(* approval/fallback_service.py:37-42, approval/service.py:35-41).         *)
EndedOrStranded ==
    \A t \in Tasks :
        <>[](tasks[t] # None => Stage[t] \in Terminal \/ Stranded(t))
=============================================================================
