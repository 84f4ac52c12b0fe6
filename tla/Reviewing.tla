----------------------------- MODULE Reviewing -----------------------------
(***************************************************************************)
(* review_run and ReviewService.create_review.                             *)
(***************************************************************************)
EXTENDS FallbackGate

(* Wrong variant: any run of the task can be reviewed. *)
LoadForReviewOfAnyRun(p, r, alt) ==
    /\ pc[p] = "idle"
    /\ runs[r] # None
    /\ LET t == runs[r].task IN
       /\ alt \in Resolutions(t, tasks[t], "reviewer")
       /\ Goto(p, "gate", [Loaded(t) EXCEPT !.role = "reviewer", !.alt = alt,
                                            !.new = r])
    /\ UNCHANGED <<files, crashes>>

(* Only the latest run of its task can be reviewed.  The state of the task *)
(* is not looked at before the gate.                                       *)
LoadForReview(p, r, alt) ==
    /\ pc[p] = "idle"
    /\ runs[r] # None
    /\ LET t == runs[r].task IN
       /\ tasks[t].run = r
       /\ alt \in Resolutions(t, tasks[t], "reviewer")
       /\ Goto(p, "gate", [Loaded(t) EXCEPT !.role = "reviewer", !.alt = alt,
                                            !.new = r])
    /\ UNCHANGED <<files, crashes>>

Reviewable(task) == task.state = "review_pending" /\ task.review = None

(* create_review refuses a task in another state or with a review; under   *)
(* --auto, generating the review may fail.                                 *)
RefuseReview(p) ==
    /\ pc[p] = "review_generate"
    /\ ~Reviewable(frame[p].copy)
    /\ Return(p)
    /\ UNCHANGED <<files, crashes>>

ReviewRaises(p) ==
    /\ pc[p] = "review_generate"
    /\ Reviewable(frame[p].copy)
    /\ Return(p)
    /\ UNCHANGED <<files, crashes>>

SaveReview(p) ==
    /\ pc[p] = "review_generate"
    /\ Reviewable(frame[p].copy)
    /\ HasFresh(reviews)
    /\ LET new == FreshId(reviews) IN
       /\ reviews' = [reviews EXCEPT ![new] =
                        [task |-> frame[p].task, run |-> frame[p].new,
                         alt |-> frame[p].alt]]
       /\ Goto(p, "review_link", [frame[p] EXCEPT !.new = new])
    /\ UNCHANGED <<tasks, briefs, plans, bundles, runs, decisions, fallbacks,
                   crashes>>

(* Wrong variant: the task moves on without its latest_review_id. *)
LinkReviewWithoutPointer(p) ==
    /\ pc[p] = "review_link"
    /\ CanTransition(frame[p].copy, "awaiting_approval")
    /\ SaveTask(p, [frame[p].copy EXCEPT !.state = "awaiting_approval"])
    /\ Return(p)
    /\ UNCHANGED <<briefs, evidence, decisions, fallbacks, crashes>>

LinkReview(p) ==
    /\ pc[p] = "review_link"
    /\ CanTransition(frame[p].copy, "awaiting_approval")
    /\ SaveTask(p, [frame[p].copy EXCEPT !.state = "awaiting_approval",
                                         !.review = frame[p].new])
    /\ Return(p)
    /\ UNCHANGED <<briefs, evidence, decisions, fallbacks, crashes>>
=============================================================================
