----------------------------- MODULE Patchrail -----------------------------
(***************************************************************************)
(* The control plane: processes that run Patchrail's commands on one       *)
(* store.  With one process (the shell, or one command after another) this *)
(* is serial use; with more, commands overlap.                             *)
(***************************************************************************)
EXTENDS FiniteSets, Planning, Execution, Reviewing, Approval

Init == StoreInit

(* execute: a command begins by loading the records it was given. *)
Start(p) ==
    \/ \E t \in Tasks :
         \/ \E k \in Kinds : LoadForBrief(p, t, k)
         \/ LoadForPlan(p, t)
         \/ \E alt \in Assignments : LoadForRun(p, t, alt)
         \/ \E d \in Decisions : LoadForDecision(p, t, d)
         \/ \E d \in Decisions : LoadForFallback(p, t, d)
    \/ \E r \in RunIds, alt \in Assignments : LoadForReview(p, r, alt)

(* A command goes on. *)
Continue(p) ==
    \/ ListSameKind(p) \/ SaveBrief(p)
    \/ ListBriefs(p) \/ SavePlan(p) \/ AttachBrief(p) \/ LinkPlan(p)
    \/ PassGate(p) \/ BlockAtGate(p)
    \/ SaveRequest(p) \/ LedgerRequest(p) \/ LinkRequest(p)
    \/ RunnerReturns(p) \/ CreateBundle(p) \/ SaveRun(p) \/ LinkRun(p)
    \/ RefuseReview(p) \/ SaveReview(p) \/ LinkReview(p)
    \/ SaveApproval(p) \/ LedgerApproval(p) \/ LinkApproval(p)
    \/ LoadRequest(p) \/ SaveFallbackDecision(p)
    \/ LedgerFallbackDecision(p) \/ TouchTask(p)

(* A command meets an error that it does not handle but main() reports. *)
Raise(p) == BriefSourceMissing(p) \/ PlanRaises(p) \/ RunnerRaises(p)
                \/ BundleRaises(p) \/ ReviewRaises(p)

Next ==
    \/ \E t \in Tasks : CreateTask(t)
    \/ \E p \in Procs : Start(p) \/ Continue(p) \/ Raise(p) \/ Crash(p)

Spec == Init /\ [][Next]_vars

(* A process that is alive goes on with its command: no handler waits for  *)
(* another process.                                                        *)
CommandFairness == \A p \in Procs : WF_vars(Continue(p))

FairSpec == Spec /\ CommandFairness

-----------------------------------------------------------------------------
(* Safety, whatever the number of processes and wherever they crash.       *)

Executed == {"review_pending", "awaiting_approval"} \cup Terminal
Reviewed == {"awaiting_approval"} \cup Terminal

(* The state in a task file and the records the file points at agree: no   *)
(* interleaving of whole-record writes can leave a task that is, say,      *)
(* awaiting approval without a review, or approved without its approval.   *)
Shaped(task) ==
    /\ task.plan # None <=> task.state # "created"
    /\ task.run # None <=> task.state \in Executed
    /\ task.review # None <=> task.state \in Reviewed
    /\ task.approval # None <=> task.state \in Terminal

StateMatchesPointers == \A t \in Tasks : tasks[t] # None => Shaped(tasks[t])

(* The pointers of a task record lead to records that were written before  *)
(* it, belong to it and to each other: approval -> review -> run (with its *)
(* bundle) -> plan.  This is the evidence an approval packet shows.        *)
Chained(t, task) ==
    /\ task.plan # None => plans[task.plan] # None /\ plans[task.plan].task = t
    /\ task.run # None =>
         /\ task.run \in bundles
         /\ runs[task.run] # None
         /\ runs[task.run].task = t
         /\ runs[task.run].plan = task.plan
    /\ task.review # None =>
         /\ reviews[task.review] # None
         /\ reviews[task.review].task = t
         /\ reviews[task.review].run = task.run
    /\ task.approval # None =>
         /\ approvals[task.approval] # None
         /\ approvals[task.approval].task = t
         /\ approvals[task.approval].review = task.review
    /\ task.request # None =>
         requests[task.request] # None /\ requests[task.request].task = t

EvidenceChain == \A t \in Tasks : tasks[t] # None => Chained(t, tasks[t])

(* A task file says approved or rejected only if its approval record says  *)
(* the same and has its line in the approval ledger.                       *)
Ledgered(task) ==
    task.state \in Terminal => /\ task.approval \in approvalLedger
                               /\ approvals[task.approval].decision = task.state

DecisionLedgered == \A t \in Tasks : tasks[t] # None => Ledgered(tasks[t])

(* An alternate was used for a plan, a run or a review only after a human  *)
(* had decided a request for that task, role and alternate.                *)
Decided(t, role, alt, status) ==
    \E r \in RequestIds :
        /\ requests[r] # None
        /\ requests[r].task = t /\ requests[r].role = role
        /\ requests[r].alt = alt
        /\ requests[r].status \in status

AlternatesUsed(status) ==
    LET Used(file, role) ==
            \A i \in DOMAIN file :
                file[i] # None /\ file[i].alt # Direct =>
                    Decided(file[i].task, role, file[i].alt, status)
    IN Used(plans, "planner") /\ Used(runs, "executor") /\ Used(reviews, "reviewer")

FallbackDecided == AlternatesUsed(Decisions)

(* The fallback ledger keeps up with the requests.  What a task points at  *)
(* has its line, also after a crash; and the status of every request has   *)
(* one or is about to get it from a command under way, whichever of two    *)
(* overlapping decisions came last: a command that dies between a request  *)
(* and its line loses that one line and no other.                          *)
Line(r) == [request |-> r, status |-> requests[r].status]

LineUnderWay(r) ==
    \E p \in Procs :
        \/ pc[p] = "request_ledger" /\ frame[p].new = r
        \/ /\ pc[p] = "fallback_ledger"
           /\ frame[p].copy.request = r
           /\ frame[p].decision = requests[r].status

Unledgered ==
    {r \in RequestIds : /\ requests[r] # None
                        /\ Line(r) \notin fallbackLedger
                        /\ ~LineUnderWay(r)}

FallbackLedgered ==
    /\ \A t \in Tasks :
         tasks[t] # None /\ tasks[t].request # None =>
             [request |-> tasks[t].request, status |-> "pending"]
                 \in fallbackLedger
    /\ Cardinality(Unledgered) <= crashes

(* A brief that says it is attached to a plan is in that plan's snapshot.  *)
AttachedInSnapshot ==
    \A b \in BriefIds :
        briefs[b] # None /\ briefs[b].plan # None =>
            /\ plans[briefs[b].plan] # None
            /\ plans[briefs[b].plan].task = briefs[b].task
            /\ b \in plans[briefs[b].plan].briefs

-----------------------------------------------------------------------------
(* Safety of serial use, with crashes. *)

(* The fallback gate in full: the request was approved, not just decided,  *)
(* and stays approved.                                                     *)
FallbackApproved == AlternatesUsed({"approved"})

(* A decided fallback request is never decided again.                      *)
DecidedRequestsFinal ==
    [][\A r \in RequestIds :
         requests[r] # None /\ requests[r].status # "pending" =>
             requests'[r] = requests[r]]_vars

(* At most one brief of each kind exists for a task.                       *)
OneBriefPerKind ==
    \A b, c \in BriefIds :
        /\ briefs[b] # None /\ briefs[c] # None
        /\ briefs[b].task = briefs[c].task /\ briefs[b].kind = briefs[c].kind
        => b = c

(* Once a task has its plan, its briefs are exactly the ones the plan      *)
(* snapshots, and each of them is attached to that plan, also when an      *)
(* earlier planning command died after attaching some of them elsewhere.   *)
PlanSnapshotsBriefs ==
    \A t \in Tasks :
        tasks[t] # None /\ tasks[t].plan # None =>
            /\ BriefsOf(t) = plans[tasks[t].plan].briefs
            /\ \A b \in BriefsOf(t) : briefs[b].plan = tasks[t].plan

(* Serial use implements the abstract lifecycle. *)
Stage == [t \in Tasks |-> IF tasks[t] = None THEN "none" ELSE tasks[t].state]
Verdicts == [t \in Tasks |->
               {approvals[a].decision :
                  a \in {l \in approvalLedger : approvals[l].task = t}}]

L == INSTANCE Lifecycle WITH stage <- Stage, verdicts <- Verdicts

LifecycleSpec == L!Spec

-----------------------------------------------------------------------------
(* What the documents say and overlapping or interrupted commands break.   *)

(* approve or reject "moves the task to its final state": the state of a   *)
(* decided task does not change any more.                                  *)
FinalStateIsFinal ==
    [][\A t \in Tasks : tasks[t] # None /\ tasks[t].state \in Terminal =>
         tasks'[t].state = tasks[t].state]_vars

(* run "moves the task to review_pending": a task seen running gets there. *)
RunCompletes ==
    \A t \in Tasks : Stage[t] = "running" ~> Stage[t] = "review_pending"
=============================================================================
