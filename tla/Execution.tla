----------------------------- MODULE Execution -----------------------------
(***************************************************************************)
(* run_task: an executor run and its evidence bundle.                      *)
(***************************************************************************)
EXTENDS FallbackGate

(* The plan never changes once written, and is read with the task. *)
LoadForRun(p, t, alt) ==
    /\ pc[p] = "idle"
    /\ tasks[t] # None
    /\ tasks[t].state = "planned"
    /\ tasks[t].plan # None
    /\ alt \in Resolutions(t, tasks[t], "executor")
    /\ Goto(p, "gate", [Loaded(t) EXCEPT !.role = "executor", !.alt = alt])
    /\ UNCHANGED <<files, crashes>>

(* The runner fails: nothing is recorded and the task stays planned. *)
RunnerRaises(p) ==
    /\ pc[p] = "run_execute"
    /\ Return(p)
    /\ UNCHANGED <<files, crashes>>

(* The task is saved as running once the runner has returned. *)
RunnerReturns(p) ==
    /\ pc[p] = "run_execute"
    /\ CanTransition(frame[p].copy, "running")
    /\ LET copy == [frame[p].copy EXCEPT !.state = "running"] IN
       /\ SaveTask(p, copy)
       /\ Goto(p, "run_bundle", [frame[p] EXCEPT !.copy = copy])
    /\ UNCHANGED <<briefs, evidence, decisions, fallbacks, crashes>>

(* create_bundle copies files and may fail: the command ends with the task *)
(* still saved as running.                                                 *)
BundleRaises(p) ==
    /\ pc[p] = "run_bundle"
    /\ Return(p)
    /\ UNCHANGED <<files, crashes>>

CreateBundle(p) ==
    /\ pc[p] = "run_bundle"
    /\ bundles # RunIds
    /\ LET new == CHOOSE r \in RunIds : r \notin bundles IN
       /\ bundles' = bundles \cup {new}
       /\ Goto(p, "run_save", [frame[p] EXCEPT !.new = new])
    /\ UNCHANGED <<tasks, briefs, plans, runs, reviews, decisions, fallbacks,
                   crashes>>

(* Wrong variant: the run is filed under the latest run, not the plan. *)
SaveRunWithoutPlan(p) ==
    /\ pc[p] = "run_save"
    /\ runs' = [runs EXCEPT ![frame[p].new] =
                  [task |-> frame[p].task, plan |-> frame[p].copy.run,
                   alt |-> frame[p].alt]]
    /\ Goto(p, "run_link", frame[p])
    /\ UNCHANGED <<tasks, briefs, plans, bundles, reviews, decisions, fallbacks,
                   crashes>>

(* Wrong variant: the record of the run is not stored. *)
SaveRunNowhere(p) ==
    /\ pc[p] = "run_save"
    /\ Goto(p, "run_link", frame[p])
    /\ UNCHANGED <<files, crashes>>

SaveRun(p) ==
    /\ pc[p] = "run_save"
    /\ runs' = [runs EXCEPT ![frame[p].new] =
                  [task |-> frame[p].task, plan |-> frame[p].copy.plan,
                   alt |-> frame[p].alt]]
    /\ Goto(p, "run_link", frame[p])
    /\ UNCHANGED <<tasks, briefs, plans, bundles, reviews, decisions, fallbacks,
                   crashes>>

LinkRun(p) ==
    /\ pc[p] = "run_link"
    /\ CanTransition(frame[p].copy, "review_pending")
    /\ SaveTask(p, [frame[p].copy EXCEPT !.state = "review_pending",
                                         !.run = frame[p].new])
    /\ Return(p)
    /\ UNCHANGED <<briefs, evidence, decisions, fallbacks, crashes>>
=============================================================================
