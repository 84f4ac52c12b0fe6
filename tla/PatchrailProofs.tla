--------------------------- MODULE PatchrailProofs ---------------------------
(***************************************************************************)
(* Safety of overlapping commands, for any set of processes, any number of *)
(* records and any number of crashes.                                      *)
(*                                                                         *)
(* The argument.  A command checks the task it loaded, and much later      *)
(* writes the whole record back.  Nothing protects the file in between, so *)
(* no invariant can relate a task file to the commands that are working on *)
(* it.  What saves the evidence is that records are written once and only  *)
(* gain facts (Grow): whatever was true of the copy in memory when it was  *)
(* loaded is still true when it is written back, over whatever other       *)
(* commands have put there.  The inductive invariant therefore says of     *)
(* every copy in memory what it says of every task file.                   *)
(***************************************************************************)
EXTENDS Patchrail, TLAPS

-----------------------------------------------------------------------------
(* The inductive invariant. *)

(* What holds of a record of task t, in its file or in memory. *)
Good(t, task) == Shaped(task) /\ Chained(t, task) /\ Ledgered(task)

TasksGood == \A t \in Tasks : tasks[t] # None => Good(t, tasks[t])

OfTask(t, bs) == \A b \in bs : briefs[b] # None /\ briefs[b].task = t

(* An alternate has passed the gate. *)
Cleared(f) == f.alt # Direct => Decided(f.task, f.role, f.alt, Decisions)

(* What a command with frame f works towards, by its role. *)
IsPlanning(f) == f.role = "planner" /\ f.copy.state = "created"
                    /\ OfTask(f.task, f.todo)
IsExecuting(f) == f.role = "executor" /\ f.copy.state = "planned"
IsReviewing(f) == f.role = "reviewer" /\ f.new \in RunIds /\ f.copy.run = f.new

(* What each step of a command may rely on.                                *)
SoundAtGate(s, f) ==
    /\ s = "gate" => IsPlanning(f) \/ IsExecuting(f) \/ IsReviewing(f)
    /\ s \in {"request_ledger", "request_link"} =>
         /\ f.new \in RequestIds
         /\ requests[f.new] # None
         /\ requests[f.new].task = f.task
    /\ s \in {"fallback_load", "fallback_save", "fallback_ledger",
              "fallback_touch"} =>
         f.copy.request # None /\ f.decision \in Decisions

SoundPlanning(s, f) ==
    /\ s \in {"brief_list", "brief_save"} =>
         f.kind \in Kinds /\ f.copy.plan = None
    /\ s = "plan_list" => f.copy.state = "created"
    /\ s = "plan_generate" => IsPlanning(f) /\ Cleared(f)
    /\ s = "plan_attach" =>
         /\ f.copy.state = "created"
         /\ f.new \in PlanIds
         /\ plans[f.new] # None
         /\ plans[f.new].task = f.task
         /\ f.todo \subseteq plans[f.new].briefs
         /\ OfTask(f.task, f.todo)

SoundExecution(s, f) ==
    /\ s = "run_execute" => IsExecuting(f) /\ Cleared(f)
    /\ s \in {"run_bundle", "run_save"} =>
         f.role = "executor" /\ f.copy.state = "running" /\ Cleared(f)
    /\ s \in {"run_save", "run_link"} => f.new \in bundles
    /\ s = "run_link" =>
         /\ f.copy.state = "running"
         /\ runs[f.new] # None
         /\ runs[f.new].task = f.task
         /\ runs[f.new].plan = f.copy.plan

SoundReview(s, f) ==
    /\ s = "review_generate" => IsReviewing(f) /\ Cleared(f)
    /\ s = "review_link" =>
         /\ Reviewable(f.copy)
         /\ f.new \in ReviewIds
         /\ reviews[f.new] # None
         /\ reviews[f.new].task = f.task
         /\ reviews[f.new].run = f.copy.run
    /\ s \in {"approval_save", "approval_ledger", "approval_link"} =>
         f.copy.state = "awaiting_approval" /\ f.decision \in Decisions
    /\ s \in {"approval_ledger", "approval_link"} =>
         /\ f.new \in ApprovalIds
         /\ approvals[f.new] # None
         /\ approvals[f.new].task = f.task
         /\ approvals[f.new].review = f.copy.review
         /\ approvals[f.new].decision = f.decision
    /\ s = "approval_link" => f.new \in approvalLedger

Sound(s, f) ==
    s # "idle" =>
      /\ f.task \in Tasks
      /\ tasks[f.task] # None
      /\ Good(f.task, f.copy)
      /\ SoundAtGate(s, f)
      /\ SoundPlanning(s, f)
      /\ SoundExecution(s, f)
      /\ SoundReview(s, f)

FramesSound == \A p \in Procs : Sound(pc[p], frame[p])

(* A run id is handed out together with its bundle, to one command; its    *)
(* record comes later, for a task that exists.                             *)
RunsOwned ==
    /\ \A r \in RunIds : runs[r] # None => /\ r \in bundles
                                          /\ tasks[runs[r].task] # None
    /\ \A p \in Procs : pc[p] = "run_save" =>
         /\ runs[frame[p].new] = None
         /\ \A q \in Procs : pc[q] = "run_save" /\ frame[q].new = frame[p].new
                               => q = p

IInv == /\ TypeOK
        /\ TasksGood
        /\ FramesSound
        /\ RunsOwned
        /\ FallbackDecided
        /\ AttachedInSnapshot

-----------------------------------------------------------------------------
(* Initial states. *)

LEMMA InitIInv == Init => IInv
<1> SUFFICES ASSUME Init PROVE IInv
  OBVIOUS
<1> USE DEF Init, StoreInit
<1>1. IdleFrame \in Frame
  BY DEF IdleFrame, Frame, NewTask, TaskRecord, TaskStates, Maybe, Assignments
<1>2. TypeOK
  BY <1>1, CrashAssumption DEF TypeOK, Maybe, Steps
<1>3. TasksGood /\ FramesSound /\ RunsOwned /\ AttachedInSnapshot
  BY DEF TasksGood, FramesSound, Sound, RunsOwned, AttachedInSnapshot
<1>4. FallbackDecided
  BY DEF FallbackDecided, AlternatesUsed
<1> QED
  BY <1>2, <1>3, <1>4 DEF IInv

-----------------------------------------------------------------------------
(* Every step lets the store grow: files stay, and what evidence and       *)
(* requests say is not taken back.                                         *)

Kept(file, later) == \A i \in DOMAIN file : file[i] # None => later[i] = file[i]

RequestKept(old, new) ==
    /\ new # None
    /\ new.task = old.task /\ new.role = old.role /\ new.alt = old.alt
    /\ old.status \in Decisions => new.status \in Decisions

Grow ==
    /\ \A t \in Tasks : tasks[t] # None => tasks'[t] # None
    /\ \A b \in BriefIds : briefs[b] # None =>
         briefs'[b] # None /\ briefs'[b].task = briefs[b].task
    /\ Kept(plans, plans') /\ Kept(runs, runs')
    /\ Kept(reviews, reviews') /\ Kept(approvals, approvals')
    /\ bundles \subseteq bundles'
    /\ approvalLedger \subseteq approvalLedger'
    /\ \A r \in RequestIds : requests[r] # None =>
         RequestKept(requests[r], requests'[r])

LEMMA GoodGrows ==
  ASSUME TypeOK, Grow, NEW t, NEW task \in TaskRecord, Good(t, task)
  PROVE  Good(t, task)'
<1> USE DEF Good, TypeOK, TaskRecord, Maybe
<1>1. Shaped(task)'
  BY DEF Shaped
<1>2. task.approval # None =>
        /\ approvals'[task.approval] = approvals[task.approval]
        /\ approvals[task.approval] # None
  BY DEF Grow, Kept, Chained
<1>3. Ledgered(task)'
  BY <1>2 DEF Grow, Ledgered, Shaped
<1>4. task.plan # None =>
        plans'[task.plan] = plans[task.plan] /\ plans[task.plan] # None
  BY DEF Grow, Kept, Chained
<1>5. task.run # None =>
        /\ runs'[task.run] = runs[task.run] /\ runs[task.run] # None
        /\ task.run \in bundles'
  BY DEF Grow, Kept, Chained
<1>6. task.review # None =>
        reviews'[task.review] = reviews[task.review] /\ reviews[task.review] # None
  BY DEF Grow, Kept, Chained
<1>7. task.request # None =>
        /\ requests'[task.request] # None
        /\ requests'[task.request].task = requests[task.request].task
  BY DEF Grow, RequestKept, Chained
<1>8. Chained(t, task)'
  BY <1>2, <1>4, <1>5, <1>6, <1>7 DEF Chained
<1> QED
  BY <1>1, <1>3, <1>8

LEMMA DecidedGrows ==
  ASSUME TypeOK, Grow, NEW t, NEW role, NEW alt,
         Decided(t, role, alt, Decisions)
  PROVE  Decided(t, role, alt, Decisions)'
BY DEF Decided, Grow, RequestKept

LEMMA OfTaskGrows ==
  ASSUME Grow, NEW t, NEW bs \in SUBSET BriefIds, OfTask(t, bs)
  PROVE  OfTask(t, bs)'
BY DEF OfTask, Grow

LEMMA ClearedGrows ==
  ASSUME TypeOK, Grow, NEW f, Cleared(f)
  PROVE  Cleared(f)'
BY DecidedGrows DEF Cleared

LEMMA IsPlanningGrows ==
  ASSUME Grow, NEW f \in Frame, IsPlanning(f)
  PROVE  IsPlanning(f)'
BY OfTaskGrows DEF IsPlanning, Frame

(* What a command relies on stays true while others work. *)
LEMMA SoundGrows ==
  ASSUME TypeOK, Grow, NEW s, NEW f \in Frame, Sound(s, f)
  PROVE  Sound(s, f)'
<1> SUFFICES ASSUME s # "idle" PROVE Sound(s, f)'
  BY DEF Sound
<1>1. f.task \in Tasks /\ tasks'[f.task] # None /\ Good(f.task, f.copy)'
  BY GoodGrows DEF Sound, Grow, Frame
<1>2. SoundAtGate(s, f)'
  BY IsPlanningGrows DEF Sound, SoundAtGate, IsExecuting, IsReviewing, Grow,
                         RequestKept
<1>3. SoundPlanning(s, f)'
  <2>1. s = "plan_attach" => plans'[f.new] = plans[f.new]
    BY DEF Sound, SoundPlanning, Grow, Kept, TypeOK
  <2> QED
    BY <2>1, IsPlanningGrows, ClearedGrows, OfTaskGrows
       DEF Sound, SoundPlanning, Frame
<1>4. SoundExecution(s, f)'
  <2>1. s = "run_link" => runs'[f.new] = runs[f.new]
    BY DEF Sound, SoundExecution, Grow, Kept, TypeOK
  <2> QED
    BY <2>1, ClearedGrows DEF Sound, SoundExecution, IsExecuting, Grow
<1>5. SoundReview(s, f)'
  <2>1. s = "review_link" => reviews'[f.new] = reviews[f.new]
    BY DEF Sound, SoundReview, Grow, Kept, TypeOK
  <2>2. s \in {"approval_ledger", "approval_link"} =>
          approvals'[f.new] = approvals[f.new]
    BY DEF Sound, SoundReview, Grow, Kept, TypeOK
  <2> QED
    BY <2>1, <2>2, ClearedGrows
       DEF Sound, SoundReview, IsReviewing, Reviewable, Grow
<1> QED
  BY <1>1, <1>2, <1>3, <1>4, <1>5 DEF Sound

-----------------------------------------------------------------------------
(* What the invariant needs of one step of a command.                      *)

LEMMA FramesStep ==
  ASSUME TypeOK, FramesSound, Grow,
         NEW p \in Procs, NEW s, NEW f \in Frame, Goto(p, s, f), Sound(s, f)'
  PROVE  FramesSound'
<1> SUFFICES ASSUME NEW q \in Procs PROVE Sound(pc[q], frame[q])'
  BY DEF FramesSound
<1>1. CASE q = p
  <2>1. pc'[q] = s /\ frame'[q] = f
    BY <1>1 DEF Goto, TypeOK
  <2> QED
    BY <2>1
<1>2. CASE q # p
  <2> PICK r \in Steps, g \in Frame : r = pc[q] /\ g = frame[q]
    BY DEF TypeOK
  <2>1. pc'[q] = r /\ frame'[q] = g
    BY <1>2 DEF Goto, TypeOK
  <2>2. Sound(r, g)'
    BY SoundGrows DEF FramesSound
  <2> QED
    BY <2>1, <2>2
<1> QED
  BY <1>1, <1>2

LEMMA TasksStep ==
  ASSUME TypeOK, TasksGood, Grow,
         NEW t \in Tasks, NEW copy \in TaskRecord, Good(t, copy)',
         tasks' = [tasks EXCEPT ![t] = copy]
  PROVE  TasksGood'
<1> SUFFICES ASSUME NEW u \in Tasks, tasks'[u] # None
             PROVE  Good(u, tasks[u])'
  BY DEF TasksGood
<1>1. CASE u = t
  <2>1. tasks'[u] = copy
    BY <1>1 DEF TypeOK
  <2> QED
    BY <1>1, <2>1
<1>2. CASE u # t
  <2> PICK old \in TaskRecord : old = tasks[u]
    BY <1>2 DEF TypeOK, Maybe
  <2>1. tasks'[u] = old
    BY <1>2 DEF TypeOK
  <2>2. Good(u, old)'
    BY NullRecordAssumption, GoodGrows DEF TasksGood
  <2> QED
    BY <2>1, <2>2
<1> QED
  BY <1>1, <1>2

LEMMA TasksKept ==
  ASSUME TypeOK, TasksGood, Grow, UNCHANGED tasks
  PROVE  TasksGood'
<1> SUFFICES ASSUME NEW u \in Tasks, tasks'[u] # None
             PROVE  Good(u, tasks[u])'
  BY DEF TasksGood
<1> PICK old \in TaskRecord : old = tasks[u]
  BY DEF TypeOK, Maybe
<1>1. tasks'[u] = old
  OBVIOUS
<1>2. Good(u, old)'
  BY NullRecordAssumption, GoodGrows DEF TasksGood
<1> QED
  BY <1>1, <1>2

LEMMA RunsOwnedKept ==
  ASSUME TypeOK, RunsOwned, Grow, UNCHANGED <<bundles, runs>>,
         NEW p \in Procs, NEW s, NEW f, Goto(p, s, f), s # "run_save"
  PROVE  RunsOwned'
BY DEF RunsOwned, Goto, TypeOK, Grow, RunRecord, Maybe

LEMMA FallbackDecidedKept ==
  ASSUME TypeOK, FallbackDecided, Grow, UNCHANGED <<plans, runs, reviews>>
  PROVE  FallbackDecided'
BY DecidedGrows DEF FallbackDecided, AlternatesUsed

LEMMA AttachedKept ==
  ASSUME TypeOK, AttachedInSnapshot, Grow, UNCHANGED briefs
  PROVE  AttachedInSnapshot'
<1> SUFFICES ASSUME NEW b \in BriefIds, briefs[b] # None, briefs[b].plan # None
             PROVE  /\ plans'[briefs[b].plan] # None
                    /\ plans'[briefs[b].plan].task = briefs[b].task
                    /\ b \in plans'[briefs[b].plan].briefs
  BY DEF AttachedInSnapshot
<1>1. briefs[b].plan \in PlanIds
  BY DEF TypeOK, BriefRecord, Maybe
<1>2. plans'[briefs[b].plan] = plans[briefs[b].plan]
  BY <1>1 DEF TypeOK, Grow, Kept, AttachedInSnapshot
<1> QED
  BY <1>2 DEF AttachedInSnapshot

LEMMA TypeGoto ==
  ASSUME TypeOK, NEW p \in Procs, NEW s \in Steps, NEW f \in Frame, Goto(p, s, f)
  PROVE  pc' \in [Procs -> Steps] /\ frame' \in [Procs -> Frame]
BY DEF TypeOK, Goto

LEMMA IdleIsSound ==
  /\ IdleFrame \in Frame
  /\ "idle" \in Steps
  /\ \A f : Sound("idle", f)
BY DEF IdleFrame, Frame, NewTask, TaskRecord, TaskStates, Maybe, Assignments,
       Steps, Sound

(* A step of a command that writes no file. *)
LEMMA ReadStep ==
  ASSUME IInv, NEW p \in Procs, NEW s \in Steps, NEW f \in Frame, Goto(p, s, f),
         Sound(s, f), s # "run_save", UNCHANGED files, crashes' \in Nat
  PROVE  IInv'
<1> USE DEF IInv, files, evidence, decisions, fallbacks
<1>1. Grow
  BY DEF Grow, Kept, RequestKept
<1>2. TypeOK'
  BY TypeGoto DEF TypeOK
<1>3. FramesSound'
  BY <1>1, SoundGrows, FramesStep
<1> QED
  BY <1>1, <1>2, <1>3, TasksKept, RunsOwnedKept, FallbackDecidedKept, AttachedKept

(* A step of a command that writes the file of its task. *)
LEMMA SaveStep ==
  ASSUME IInv, NEW p \in Procs, NEW s \in Steps, NEW f \in Frame, Goto(p, s, f),
         Sound(s, f), s # "run_save",
         NEW copy \in TaskRecord, pc[p] # "idle", SaveTask(p, copy),
         Good(frame[p].task, copy),
         UNCHANGED <<briefs, evidence, decisions, fallbacks, crashes>>
  PROVE  IInv'
<1> USE DEF IInv, evidence, decisions, fallbacks
<1> PICK t \in Tasks : t = frame[p].task
  BY DEF FramesSound, Sound
<1>1. tasks' = [tasks EXCEPT ![t] = copy]
  BY DEF SaveTask
<1>2. Grow
  BY <1>1, NullRecordAssumption DEF TypeOK, Grow, Kept, RequestKept
<1>3. TypeOK'
  BY <1>1, TypeGoto DEF TypeOK, Maybe
<1>4. FramesSound'
  BY <1>2, SoundGrows, FramesStep
<1>5. Good(t, copy)'
  BY <1>2, GoodGrows
<1>6. TasksGood'
  BY <1>1, <1>2, <1>5, TasksStep
<1> QED
  BY <1>2, <1>3, <1>4, <1>6, RunsOwnedKept, FallbackDecidedKept, AttachedKept

LEMMA ReturnStep ==
  ASSUME IInv, NEW p \in Procs, Return(p), UNCHANGED files, crashes' \in Nat
  PROVE  IInv'
BY IdleIsSound, ReadStep DEF Return

LEMMA LoadedFrame ==
  ASSUME IInv, NEW t \in Tasks, tasks[t] # None
  PROVE  /\ Loaded(t) \in Frame
         /\ tasks[t] \in TaskRecord
         /\ Loaded(t).task = t
         /\ Loaded(t).copy = tasks[t]
         /\ Good(t, tasks[t])
BY DEF IInv, TypeOK, TasksGood, Loaded, IdleFrame, Frame, Maybe, Assignments

-----------------------------------------------------------------------------
(* Commands begin. *)

LEMMA LoadForBriefStep ==
  ASSUME IInv, NEW p \in Procs, NEW t \in Tasks, NEW k \in Kinds,
         LoadForBrief(p, t, k)
  PROVE  IInv'
<1> USE DEF LoadForBrief
<1> DEFINE f == [Loaded(t) EXCEPT !.kind = k]
<1>1. f \in Frame /\ f.task = t /\ f.copy = tasks[t] /\ f.kind = k
  BY LoadedFrame DEF Frame, Maybe
<1>2. Sound("brief_list", f)
  BY <1>1, LoadedFrame
     DEF Sound, SoundAtGate, SoundPlanning, SoundExecution, SoundReview
<1> QED
  BY <1>1, <1>2, ReadStep DEF Steps, IInv, TypeOK

LEMMA LoadForPlanStep ==
  ASSUME IInv, NEW p \in Procs, NEW t \in Tasks, LoadForPlan(p, t)
  PROVE  IInv'
<1> USE DEF LoadForPlan
<1>1. Sound("plan_list", Loaded(t))
  BY LoadedFrame
     DEF Sound, SoundAtGate, SoundPlanning, SoundExecution, SoundReview
<1> QED
  BY <1>1, LoadedFrame, ReadStep DEF Steps, IInv, TypeOK

LEMMA LoadForRunStep ==
  ASSUME IInv, NEW p \in Procs, NEW t \in Tasks, NEW alt \in Assignments,
         LoadForRun(p, t, alt)
  PROVE  IInv'
<1> USE DEF LoadForRun
<1> DEFINE f == [Loaded(t) EXCEPT !.role = "executor", !.alt = alt]
<1>1. f \in Frame /\ f.task = t /\ f.copy = tasks[t] /\ f.role = "executor"
  <2>1. /\ Loaded(t) \in Frame
        /\ Loaded(t).task = t /\ Loaded(t).copy = tasks[t]
    BY LoadedFrame
  <2>2. "executor" \in Maybe(Roles)
    BY DEF Maybe, Roles
  <2> QED
    BY <2>1, <2>2 DEF Frame
<1>2. Sound("gate", f)
  BY <1>1, LoadedFrame
     DEF Sound, SoundAtGate, SoundPlanning, SoundExecution, SoundReview,
         IsExecuting
<1> QED
  BY <1>1, <1>2, ReadStep DEF Steps, IInv, TypeOK

(* Only a run that a task points at is reviewed, so the task exists. *)
LEMMA LoadForReviewStep ==
  ASSUME IInv, NEW p \in Procs, NEW r \in RunIds, NEW alt \in Assignments,
         LoadForReview(p, r, alt)
  PROVE  IInv'
<1> USE DEF LoadForReview
<1> PICK t \in Tasks : t = runs[r].task
  BY DEF IInv, TypeOK, RunRecord, Maybe
<1> DEFINE f == [Loaded(t) EXCEPT !.role = "reviewer", !.alt = alt, !.new = r]
<1>1. tasks[t] # None
  BY DEF IInv, RunsOwned
<1>2. /\ f \in Frame /\ f.task = t /\ f.copy = tasks[t]
      /\ f.role = "reviewer" /\ f.new = r
  <2>1. Loaded(t) \in Frame /\ Loaded(t).task = t /\ Loaded(t).copy = tasks[t]
    BY <1>1, LoadedFrame
  <2>2. r \in Maybe(PlanIds \cup RunIds \cup ReviewIds \cup ApprovalIds
                    \cup RequestIds)
    BY DEF Maybe
  <2>3. "reviewer" \in Maybe(Roles)
    BY DEF Maybe, Roles
  <2> QED
    BY <2>1, <2>2, <2>3 DEF Frame
<1>3. Sound("gate", f)
  BY <1>1, <1>2, LoadedFrame
     DEF Sound, SoundAtGate, SoundPlanning, SoundExecution, SoundReview,
         IsReviewing
<1> QED
  BY <1>2, <1>3, ReadStep DEF Steps, IInv, TypeOK

LEMMA LoadForDecisionStep ==
  ASSUME IInv, NEW p \in Procs, NEW t \in Tasks, NEW d \in Decisions,
         LoadForDecision(p, t, d)
  PROVE  IInv'
<1> USE DEF LoadForDecision
<1> DEFINE f == [Loaded(t) EXCEPT !.decision = d]
<1>1. f \in Frame /\ f.task = t /\ f.copy = tasks[t] /\ f.decision = d
  BY LoadedFrame DEF Frame, Maybe
<1>2. Sound("approval_save", f)
  BY <1>1, LoadedFrame
     DEF Sound, SoundAtGate, SoundPlanning, SoundExecution, SoundReview
<1> QED
  BY <1>1, <1>2, ReadStep DEF Steps, IInv, TypeOK

LEMMA LoadForFallbackStep ==
  ASSUME IInv, NEW p \in Procs, NEW t \in Tasks, NEW d \in Decisions,
         LoadForFallback(p, t, d)
  PROVE  IInv'
<1> USE DEF LoadForFallback
<1> DEFINE f == [Loaded(t) EXCEPT !.decision = d]
<1>1. f \in Frame /\ f.task = t /\ f.copy = tasks[t] /\ f.decision = d
  BY LoadedFrame DEF Frame, Maybe
<1>2. Sound("fallback_load", f)
  BY <1>1, LoadedFrame
     DEF Sound, SoundAtGate, SoundPlanning, SoundExecution, SoundReview
<1> QED
  BY <1>1, <1>2, ReadStep DEF Steps, IInv, TypeOK

LEMMA StartStep ==
  ASSUME IInv, NEW p \in Procs, Start(p)
  PROVE  IInv'
BY LoadForBriefStep, LoadForPlanStep, LoadForRunStep, LoadForReviewStep,
   LoadForDecisionStep, LoadForFallbackStep DEF Start

-----------------------------------------------------------------------------
(* create_task and create_brief. *)

LEMMA CreateTaskStep ==
  ASSUME IInv, NEW t \in Tasks, CreateTask(t)
  PROVE  IInv'
<1> USE DEF IInv, CreateTask, evidence, decisions, fallbacks
<1>1. NewTask \in TaskRecord /\ Good(t, NewTask)'
  BY DEF NewTask, TaskRecord, TaskStates, Maybe, Good, Shaped, Chained,
         Ledgered, Terminal, Executed, Reviewed
<1>2. Grow
  BY <1>1, NullRecordAssumption DEF TypeOK, Grow, Kept, RequestKept
<1>3. TypeOK'
  BY <1>1 DEF TypeOK, Maybe
<1>4. TasksGood'
  BY <1>1, <1>2, TasksStep
<1>5. FramesSound'
  <2> SUFFICES ASSUME NEW p \in Procs PROVE Sound(pc[p], frame[p])'
    BY DEF FramesSound
  <2> PICK s \in Steps, f \in Frame : s = pc[p] /\ f = frame[p]
    BY DEF TypeOK
  <2>1. Sound(s, f)'
    BY <1>2, SoundGrows DEF FramesSound
  <2> QED
    BY <2>1
<1>6. RunsOwned'
  BY <1>2 DEF RunsOwned, Grow, TypeOK, RunRecord, Maybe
<1> QED
  BY <1>2, <1>3, <1>4, <1>5, <1>6, FallbackDecidedKept, AttachedKept

(* The frame of a process, as a constant of the step. *)
LEMMA FrameOf ==
  ASSUME IInv, NEW p \in Procs
  PROVE  \E s \in Steps, f \in Frame : s = pc[p] /\ f = frame[p] /\ Sound(s, f)
BY DEF IInv, TypeOK, FramesSound

LEMMA ListSameKindStep ==
  ASSUME IInv, NEW p \in Procs, ListSameKind(p)
  PROVE  IInv'
<1> USE DEF ListSameKind
<1> PICK s \in Steps, f \in Frame : s = pc[p] /\ f = frame[p] /\ Sound(s, f)
  BY FrameOf
<1>1. crashes' \in Nat /\ UNCHANGED files
  BY DEF IInv, TypeOK
<1>2. CASE SameKind(f.task, f.kind) = {}
  <2>1. Sound("brief_save", f)
    BY DEF Sound, SoundAtGate, SoundPlanning, SoundExecution, SoundReview
  <2> QED
    BY <1>1, <1>2, <2>1, ReadStep DEF Steps
<1> QED
  BY <1>1, <1>2, ReturnStep

LEMMA SaveBriefStep ==
  ASSUME IInv, NEW p \in Procs, SaveBrief(p)
  PROVE  IInv'
<1> USE DEF IInv, evidence, decisions, fallbacks
<1> PICK s \in Steps, f \in Frame : s = pc[p] /\ f = frame[p] /\ Sound(s, f)
  BY FrameOf
<1> PICK b \in BriefIds : b = FreshId(briefs) /\ briefs[b] = None
  BY DEF SaveBrief, HasFresh, FreshId, TypeOK
<1> DEFINE brief == [task |-> f.task, kind |-> f.kind, plan |-> None]
<1>1. brief \in BriefRecord /\ f.copy.plan = None
  BY DEF SaveBrief, Sound, SoundPlanning, BriefRecord, Maybe
<1>2. briefs' = [briefs EXCEPT ![b] = brief]
  BY <1>1 DEF SaveBrief
<1>3. UNCHANGED <<tasks, plans, bundles, runs, reviews, approvals,
                  approvalLedger, requests, fallbackLedger, crashes>>
      /\ Goto(p, "idle", IdleFrame)
  BY DEF SaveBrief, Return
<1>4. Grow
  BY <1>1, <1>2, <1>3, NullRecordAssumption DEF TypeOK, Grow, Kept, RequestKept
<1>5. TypeOK'
  BY <1>1, <1>2, <1>3, IdleIsSound, TypeGoto DEF TypeOK, Maybe
<1>6. FramesSound'
  BY <1>3, <1>4, IdleIsSound, SoundGrows, FramesStep
<1>7. AttachedInSnapshot'
  BY <1>1, <1>2, <1>3 DEF AttachedInSnapshot, TypeOK
<1> QED
  BY <1>3, <1>4, <1>5, <1>6, <1>7, TasksKept, RunsOwnedKept, FallbackDecidedKept

-----------------------------------------------------------------------------
(* create_plan. *)

LEMMA ListBriefsStep ==
  ASSUME IInv, NEW p \in Procs, ListBriefs(p)
  PROVE  IInv'
<1> PICK s \in Steps, f \in Frame : s = pc[p] /\ f = frame[p] /\ Sound(s, f)
  BY FrameOf
<1> PICK alt \in Resolutions(f.task, f.copy, "planner") :
      Goto(p, "gate", [f EXCEPT !.role = "planner", !.alt = alt,
                                !.todo = BriefsOf(f.task)])
  BY DEF ListBriefs
<1> DEFINE g == [f EXCEPT !.role = "planner", !.alt = alt,
                          !.todo = BriefsOf(f.task)]
<1>1. alt \in Assignments /\ BriefsOf(f.task) \in SUBSET BriefIds
  BY DEF Resolutions, Assignments, BriefsOf
<1>2. /\ g \in Frame /\ g.task = f.task /\ g.copy = f.copy
      /\ g.role = "planner" /\ g.todo = BriefsOf(f.task)
  BY <1>1 DEF Frame, Maybe, Roles
<1>3. Sound("gate", g)
  BY <1>2 DEF ListBriefs, Sound, SoundAtGate, SoundPlanning, SoundExecution,
              SoundReview, IsPlanning, OfTask, BriefsOf
<1> QED
  BY <1>2, <1>3, ReadStep DEF ListBriefs, Steps, IInv, TypeOK

LEMMA SavePlanStep ==
  ASSUME IInv, NEW p \in Procs, SavePlan(p)
  PROVE  IInv'
<1> USE DEF IInv, decisions, fallbacks
<1> PICK s \in Steps, f \in Frame : s = pc[p] /\ f = frame[p] /\ Sound(s, f)
  BY FrameOf
<1> PICK i \in PlanIds : i = FreshId(plans) /\ plans[i] = None
  BY DEF SavePlan, HasFresh, FreshId, TypeOK
<1> DEFINE plan == [task |-> f.task, alt |-> f.alt, briefs |-> f.todo]
           g == [f EXCEPT !.new = i]
<1>1. plan \in PlanRecord /\ s = "plan_generate"
  BY DEF SavePlan, Sound, PlanRecord, Frame
<1>2. /\ plans' = [plans EXCEPT ![i] = plan]
      /\ Goto(p, "plan_attach", g)
      /\ UNCHANGED <<tasks, briefs, bundles, runs, reviews, approvals,
                     approvalLedger, requests, fallbackLedger, crashes>>
  BY DEF SavePlan
<1>3. /\ g \in Frame /\ g.task = f.task /\ g.copy = f.copy /\ g.new = i
      /\ g.todo = f.todo
  BY DEF Frame, Maybe
<1>4. Grow
  BY <1>1, <1>2, NullRecordAssumption DEF TypeOK, Grow, Kept, RequestKept
<1>5. TypeOK'
  BY <1>1, <1>2, <1>3, TypeGoto DEF TypeOK, Maybe, Steps
<1>6. Sound(s, f)'
  BY <1>4, SoundGrows
<1>7. Sound("plan_attach", g)'
  <2>1. plans'[i] = plan /\ plan # None
    BY <1>1, <1>2, NullRecordAssumption DEF TypeOK
  <2> QED
    BY <1>1, <1>3, <1>6, <2>1
       DEF Sound, SoundAtGate, SoundPlanning, SoundExecution, SoundReview,
           IsPlanning
<1>8. FramesSound'
  BY <1>2, <1>3, <1>4, <1>7, FramesStep
<1>9. FallbackDecided'
  <2>1. plan.alt # Direct => Decided(plan.task, "planner", plan.alt, Decisions)'
    BY <1>1, DecidedGrows, <1>4 DEF Sound, SoundPlanning, IsPlanning, Cleared
  <2>2. \A j \in PlanIds : plans'[j] = IF j = i THEN plan ELSE plans[j]
    BY <1>2 DEF TypeOK
  <2> QED
    BY <1>2, <1>4, <2>1, <2>2, DecidedGrows
       DEF FallbackDecided, AlternatesUsed, TypeOK
<1> QED
  BY <1>2, <1>4, <1>5, <1>8, <1>9, TasksKept, RunsOwnedKept, AttachedKept

LEMMA AttachBriefStep ==
  ASSUME IInv, NEW p \in Procs, AttachBrief(p)
  PROVE  IInv'
<1> USE DEF IInv, evidence, decisions, fallbacks
<1> PICK s \in Steps, f \in Frame : s = pc[p] /\ f = frame[p] /\ Sound(s, f)
  BY FrameOf
<1> PICK b \in f.todo :
      /\ briefs' = [briefs EXCEPT ![b].plan = f.new]
      /\ Goto(p, "plan_attach", [f EXCEPT !.todo = @ \ {b}])
  BY DEF AttachBrief
<1> DEFINE g == [f EXCEPT !.todo = @ \ {b}]
<1>1. UNCHANGED <<tasks, plans, bundles, runs, reviews, approvals,
                  approvalLedger, requests, fallbackLedger, crashes>>
      /\ s = "plan_attach"
  BY DEF AttachBrief
<1>2. /\ b \in BriefIds /\ briefs[b] # None /\ briefs[b].task = f.task
      /\ f.new \in PlanIds /\ plans[f.new] # None /\ plans[f.new].task = f.task
      /\ b \in plans[f.new].briefs
  BY <1>1 DEF Sound, SoundPlanning, OfTask, Frame
<1>3. briefs[b] \in BriefRecord
  BY <1>2 DEF TypeOK, Maybe
<1>4. /\ briefs'[b] \in BriefRecord /\ briefs'[b].task = f.task
      /\ briefs'[b].plan = f.new
      /\ \A c \in BriefIds \ {b} : briefs'[c] = briefs[c]
  BY <1>2, <1>3 DEF TypeOK, BriefRecord, Maybe
<1>5. Grow
  BY <1>1, <1>2, <1>4, NullRecordAssumption DEF Grow, Kept, RequestKept
<1>6. /\ g \in Frame /\ g.task = f.task /\ g.copy = f.copy /\ g.new = f.new
      /\ g.todo \subseteq f.todo
  BY DEF Frame
<1>7. TypeOK'
  <2>1. briefs' \in [BriefIds -> Maybe(BriefRecord)]
    BY <1>2, <1>4 DEF TypeOK, Maybe
  <2> QED
    BY <1>1, <1>6, <2>1, TypeGoto DEF TypeOK, Steps
<1>8. Sound("plan_attach", g)'
  <2>1. Sound(s, f)'
    BY <1>5, SoundGrows
  <2>2. SoundPlanning("plan_attach", g)'
    BY <1>1, <1>6, <2>1 DEF Sound, SoundPlanning, OfTask
  <2> QED
    BY <1>1, <1>6, <2>1, <2>2
       DEF Sound, SoundAtGate, SoundExecution, SoundReview
<1>9. FramesSound'
  BY <1>5, <1>6, <1>8, FramesStep
<1>10. AttachedInSnapshot'
  BY <1>1, <1>2, <1>4 DEF AttachedInSnapshot
<1> QED
  BY <1>1, <1>5, <1>7, <1>9, <1>10, TasksKept, RunsOwnedKept, FallbackDecidedKept

LEMMA LinkPlanStep ==
  ASSUME IInv, NEW p \in Procs, LinkPlan(p)
  PROVE  IInv'
<1> PICK s \in Steps, f \in Frame : s = pc[p] /\ f = frame[p] /\ Sound(s, f)
  BY FrameOf
<1> DEFINE copy == [f.copy EXCEPT !.state = "planned", !.plan = f.new]
<1>1. f.copy \in TaskRecord /\ f.new \in PlanIds /\ s = "plan_attach"
  BY DEF LinkPlan, Sound, SoundPlanning, Frame
<1>2. copy \in TaskRecord
  BY <1>1 DEF TaskRecord, TaskStates, Maybe
<1>3. Good(f.task, copy)
  BY <1>1, NullAssumption
     DEF Sound, SoundPlanning, Good, Shaped, Chained, Ledgered, TaskRecord,
         Terminal, Executed, Reviewed
<1> QED
  BY <1>1, <1>2, <1>3, IdleIsSound, SaveStep DEF LinkPlan, Return

-----------------------------------------------------------------------------
(* The fallback gate. *)

LEMMA PassGateStep ==
  ASSUME IInv, NEW p \in Procs, PassGate(p)
  PROVE  IInv'
<1> PICK s \in Steps, f \in Frame : s = pc[p] /\ f = frame[p] /\ Sound(s, f)
  BY FrameOf
<1> DEFINE next == AfterGate[f.role]
<1>1. /\ s = "gate" /\ Goto(p, next, f) /\ UNCHANGED <<files, crashes>>
      /\ f.alt # Direct => GateMatches(p) /\ GateStatus(p) = "approved"
  BY DEF PassGate
<1>2. Cleared(f)
  <2> SUFFICES ASSUME f.alt # Direct
               PROVE  \E r \in RequestIds :
                        /\ requests[r] # None
                        /\ requests[r].task = f.task
                        /\ requests[r].role = f.role
                        /\ requests[r].alt = f.alt
                        /\ requests[r].status \in Decisions
    BY DEF Cleared, Decided
  <2> PICK r \in RequestIds : r = f.copy.request /\ requests[r] # None
    BY <1>1 DEF GateMatches, Matches, Sound, Good, Chained, Frame, TaskRecord,
                Maybe
  <2> WITNESS r \in RequestIds
  <2> QED
    BY <1>1 DEF GateMatches, Matches, GateStatus, Decisions
<1>3. CASE IsPlanning(f)
  <2>1. next = "plan_generate"
    BY <1>3 DEF IsPlanning, AfterGate
  <2>2. Sound("plan_generate", f)
    BY <1>1, <1>2, <1>3
       DEF Sound, SoundAtGate, SoundPlanning, SoundExecution, SoundReview
  <2> QED
    BY <1>1, <2>1, <2>2, ReadStep DEF Steps, IInv, TypeOK
<1>4. CASE IsExecuting(f)
  <2>1. next = "run_execute"
    BY <1>4 DEF IsExecuting, AfterGate
  <2>2. Sound("run_execute", f)
    BY <1>1, <1>2, <1>4
       DEF Sound, SoundAtGate, SoundPlanning, SoundExecution, SoundReview
  <2> QED
    BY <1>1, <2>1, <2>2, ReadStep DEF Steps, IInv, TypeOK
<1>5. CASE IsReviewing(f)
  <2>1. next = "review_generate"
    BY <1>5 DEF IsReviewing, AfterGate
  <2>2. Sound("review_generate", f)
    BY <1>1, <1>2, <1>5
       DEF Sound, SoundAtGate, SoundPlanning, SoundExecution, SoundReview
  <2> QED
    BY <1>1, <2>1, <2>2, ReadStep DEF Steps, IInv, TypeOK
<1> QED
  BY <1>1, <1>3, <1>4, <1>5 DEF Sound, SoundAtGate

LEMMA SaveRequestStep ==
  ASSUME IInv, NEW p \in Procs, SaveRequest(p)
  PROVE  IInv'
<1> USE DEF IInv, evidence, decisions
<1> PICK s \in Steps, f \in Frame : s = pc[p] /\ f = frame[p] /\ Sound(s, f)
  BY FrameOf
<1> PICK r \in RequestIds : r = FreshId(requests) /\ requests[r] = None
  BY DEF SaveRequest, HasFresh, FreshId, TypeOK
<1> DEFINE request == [task |-> f.task, role |-> f.role, alt |-> f.alt,
                       status |-> "pending"]
           g == [f EXCEPT !.new = r]
<1>1. request \in RequestRecord /\ s = "gate"
  BY DEF SaveRequest, Sound, SoundAtGate, IsPlanning, IsExecuting, IsReviewing,
         RequestRecord, RequestStates, Frame, Assignments, Roles
<1>2. /\ requests' = [requests EXCEPT ![r] = request]
      /\ Goto(p, "request_ledger", g)
      /\ UNCHANGED <<tasks, briefs, plans, bundles, runs, reviews, approvals,
                     approvalLedger, fallbackLedger, crashes>>
  BY DEF SaveRequest
<1>3. g \in Frame /\ g.task = f.task /\ g.copy = f.copy /\ g.new = r
  BY DEF Frame, Maybe
<1>4. Grow
  BY <1>1, <1>2, NullRecordAssumption DEF TypeOK, Grow, Kept, RequestKept
<1>5. TypeOK'
  BY <1>1, <1>2, <1>3, TypeGoto DEF TypeOK, Maybe, Steps
<1>6. Sound("request_ledger", g)'
  <2>1. Sound(s, f)'
    BY <1>4, SoundGrows
  <2>2. requests'[r] = request /\ request # None
    BY <1>1, <1>2, NullRecordAssumption DEF TypeOK
  <2> QED
    BY <1>1, <1>3, <2>1, <2>2
       DEF Sound, SoundAtGate, SoundPlanning, SoundExecution, SoundReview
<1>7. FramesSound'
  BY <1>2, <1>3, <1>4, <1>6, FramesStep
<1> QED
  BY <1>2, <1>4, <1>5, <1>7, TasksKept, RunsOwnedKept, FallbackDecidedKept,
     AttachedKept

(* A step of a command that appends to the fallback ledger only. *)
LEMMA FallbackLedgerStep ==
  ASSUME IInv, NEW p \in Procs, NEW s \in Steps, NEW f \in Frame, Goto(p, s, f),
         Sound(s, f), s # "run_save",
         fallbackLedger' \subseteq [request: RequestIds, status: RequestStates],
         UNCHANGED <<tasks, briefs, evidence, decisions, requests, crashes>>
  PROVE  IInv'
<1> USE DEF IInv, evidence, decisions
<1>1. Grow
  BY DEF Grow, Kept, RequestKept
<1>2. TypeOK'
  BY TypeGoto DEF TypeOK
<1>3. FramesSound'
  BY <1>1, SoundGrows, FramesStep
<1> QED
  BY <1>1, <1>2, <1>3, TasksKept, RunsOwnedKept, FallbackDecidedKept, AttachedKept

LEMMA LedgerRequestStep ==
  ASSUME IInv, NEW p \in Procs, LedgerRequest(p)
  PROVE  IInv'
<1> PICK s \in Steps, f \in Frame : s = pc[p] /\ f = frame[p] /\ Sound(s, f)
  BY FrameOf
<1>1. s = "request_ledger" /\ f.new \in RequestIds
  BY DEF LedgerRequest, Sound, SoundAtGate
<1>2. fallbackLedger' \subseteq [request: RequestIds, status: RequestStates]
  BY <1>1 DEF LedgerRequest, IInv, TypeOK, RequestStates
<1>3. Sound("request_link", f)
  BY <1>1 DEF Sound, SoundAtGate, SoundPlanning, SoundExecution, SoundReview
<1> QED
  BY <1>2, <1>3, FallbackLedgerStep DEF LedgerRequest, Steps

LEMMA LinkRequestStep ==
  ASSUME IInv, NEW p \in Procs, LinkRequest(p)
  PROVE  IInv'
<1> PICK s \in Steps, f \in Frame : s = pc[p] /\ f = frame[p] /\ Sound(s, f)
  BY FrameOf
<1> DEFINE copy == [f.copy EXCEPT !.request = f.new]
<1>1. f.copy \in TaskRecord /\ f.new \in RequestIds /\ s = "request_link"
  BY DEF LinkRequest, Sound, SoundAtGate, Frame
<1>2. copy \in TaskRecord
  BY <1>1 DEF TaskRecord, Maybe
<1>3. Good(f.task, copy)
  BY <1>1 DEF Sound, SoundAtGate, Good, Shaped, Chained, Ledgered, TaskRecord
<1> QED
  BY <1>1, <1>2, <1>3, IdleIsSound, SaveStep DEF LinkRequest, Return

LEMMA LoadRequestStep ==
  ASSUME IInv, NEW p \in Procs, LoadRequest(p)
  PROVE  IInv'
<1> PICK s \in Steps, f \in Frame : s = pc[p] /\ f = frame[p] /\ Sound(s, f)
  BY FrameOf
<1>1. crashes' \in Nat /\ UNCHANGED files /\ s = "fallback_load"
  BY DEF LoadRequest, IInv, TypeOK
<1>2. CASE GateStatus(p) = "pending"
  <2>1. Sound("fallback_save", f)
    BY <1>1 DEF Sound, SoundAtGate, SoundPlanning, SoundExecution, SoundReview
  <2> QED
    BY <1>1, <1>2, <2>1, ReadStep DEF LoadRequest, Steps
<1> QED
  BY <1>1, <1>2, ReturnStep DEF LoadRequest

LEMMA SaveFallbackDecisionStep ==
  ASSUME IInv, NEW p \in Procs, SaveFallbackDecision(p)
  PROVE  IInv'
<1> USE DEF IInv, evidence, decisions
<1> PICK s \in Steps, f \in Frame : s = pc[p] /\ f = frame[p] /\ Sound(s, f)
  BY FrameOf
<1> PICK r \in RequestIds : r = f.copy.request /\ requests[r] # None
  BY DEF SaveFallbackDecision, Sound, SoundAtGate, Good, Chained, Frame,
         TaskRecord, Maybe
<1>1. /\ requests' = [requests EXCEPT ![r].status = f.decision]
      /\ Goto(p, "fallback_ledger", f) /\ s = "fallback_save"
      /\ UNCHANGED <<tasks, briefs, plans, bundles, runs, reviews, approvals,
                     approvalLedger, fallbackLedger, crashes>>
  BY DEF SaveFallbackDecision
<1>2. requests[r] \in RequestRecord /\ f.decision \in Decisions
  BY <1>1 DEF TypeOK, Maybe, Sound, SoundAtGate
<1>3. /\ requests'[r] \in RequestRecord
      /\ RequestKept(requests[r], requests'[r])
      /\ \A q \in RequestIds \ {r} : requests'[q] = requests[q]
  BY <1>1, <1>2, NullRecordAssumption
     DEF TypeOK, RequestRecord, RequestStates, RequestKept
<1>4. Grow
  BY <1>1, <1>3 DEF Grow, Kept, RequestKept
<1>5. TypeOK'
  <2>1. requests' \in [RequestIds -> Maybe(RequestRecord)]
    BY <1>1, <1>3 DEF TypeOK, Maybe
  <2> QED
    BY <1>1, <2>1, TypeGoto DEF TypeOK, Steps
<1>6. Sound("fallback_ledger", f)
  BY <1>1 DEF Sound, SoundAtGate, SoundPlanning, SoundExecution, SoundReview
<1>7. FramesSound'
  BY <1>1, <1>4, <1>6, SoundGrows, FramesStep
<1> QED
  BY <1>1, <1>4, <1>5, <1>7, TasksKept, RunsOwnedKept, FallbackDecidedKept,
     AttachedKept

LEMMA LedgerFallbackDecisionStep ==
  ASSUME IInv, NEW p \in Procs, LedgerFallbackDecision(p)
  PROVE  IInv'
<1> PICK s \in Steps, f \in Frame : s = pc[p] /\ f = frame[p] /\ Sound(s, f)
  BY FrameOf
<1>1. s = "fallback_ledger" /\ f.copy.request \in RequestIds
        /\ f.decision \in Decisions
  BY DEF LedgerFallbackDecision, Sound, SoundAtGate, Frame, TaskRecord, Maybe
<1>2. fallbackLedger' \subseteq [request: RequestIds, status: RequestStates]
  BY <1>1 DEF LedgerFallbackDecision, IInv, TypeOK, RequestStates
<1>3. Sound("fallback_touch", f)
  BY <1>1 DEF Sound, SoundAtGate, SoundPlanning, SoundExecution, SoundReview
<1> QED
  BY <1>2, <1>3, FallbackLedgerStep DEF LedgerFallbackDecision, Steps

LEMMA TouchTaskStep ==
  ASSUME IInv, NEW p \in Procs, TouchTask(p)
  PROVE  IInv'
<1> PICK s \in Steps, f \in Frame : s = pc[p] /\ f = frame[p] /\ Sound(s, f)
  BY FrameOf
<1>1. f.copy \in TaskRecord /\ Good(f.task, f.copy) /\ pc[p] # "idle"
  BY DEF TouchTask, Sound, Frame
<1> QED
  BY <1>1, IdleIsSound, SaveStep DEF TouchTask, Return

-----------------------------------------------------------------------------
(* run_task. *)

LEMMA RunnerReturnsStep ==
  ASSUME IInv, NEW p \in Procs, RunnerReturns(p)
  PROVE  IInv'
<1> PICK s \in Steps, f \in Frame : s = pc[p] /\ f = frame[p] /\ Sound(s, f)
  BY FrameOf
<1> DEFINE copy == [f.copy EXCEPT !.state = "running"]
           g == [f EXCEPT !.copy = copy]
<1>1. f.copy \in TaskRecord /\ s = "run_execute" /\ f.copy.state = "planned"
  BY DEF RunnerReturns, Sound, SoundExecution, IsExecuting, Frame
<1>2. copy \in TaskRecord
  BY <1>1 DEF TaskRecord, TaskStates
<1>3. Good(f.task, copy)
  BY <1>1, <1>2 DEF Sound, Good, Shaped, Chained, Ledgered, TaskRecord, Terminal,
              Executed, Reviewed
<1>4. /\ g \in Frame /\ g.task = f.task /\ g.role = f.role /\ g.alt = f.alt
      /\ g.copy = copy /\ copy.state = "running"
  BY <1>1, <1>2 DEF Frame, TaskRecord
<1>5. Sound("run_bundle", g)
  BY <1>1, <1>3, <1>4
     DEF Sound, SoundAtGate, SoundPlanning, SoundExecution, SoundReview,
         IsExecuting, Cleared
<1> QED
  BY <1>1, <1>2, <1>3, <1>4, <1>5, SaveStep DEF RunnerReturns, Steps

LEMMA CreateBundleStep ==
  ASSUME IInv, NEW p \in Procs, CreateBundle(p)
  PROVE  IInv'
<1> USE DEF IInv, decisions, fallbacks
<1> PICK s \in Steps, f \in Frame : s = pc[p] /\ f = frame[p] /\ Sound(s, f)
  BY FrameOf
<1> PICK r \in RunIds : r = CHOOSE i \in RunIds : i \notin bundles
  BY DEF CreateBundle, TypeOK
<1> DEFINE g == [f EXCEPT !.new = r]
<1>1. r \notin bundles /\ runs[r] = None
  BY DEF CreateBundle, TypeOK, RunsOwned
<1>2. /\ bundles' = bundles \cup {r} /\ s = "run_bundle"
      /\ Goto(p, "run_save", g)
      /\ UNCHANGED <<tasks, briefs, plans, runs, reviews, approvals,
                     approvalLedger, requests, fallbackLedger, crashes>>
  BY DEF CreateBundle
<1>3. /\ g \in Frame /\ g.task = f.task /\ g.copy = f.copy /\ g.new = r
      /\ g.role = f.role /\ g.alt = f.alt
  BY <1>1 DEF Frame, Maybe
<1>4. Grow
  BY <1>2 DEF Grow, Kept, RequestKept
<1>5. TypeOK'
  BY <1>1, <1>2, <1>3, TypeGoto DEF TypeOK, Steps
<1>6. Sound("run_save", g)'
  <2>1. Sound(s, f)'
    BY <1>4, SoundGrows
  <2>2. Cleared(f)' => Cleared(g)'
    BY <1>3 DEF Cleared
  <2>3. SoundExecution("run_save", g)'
    BY <1>2, <1>3, <2>1, <2>2 DEF Sound, SoundExecution
  <2> QED
    BY <1>2, <1>3, <2>1, <2>3 DEF Sound, SoundAtGate, SoundPlanning, SoundReview
<1>7. FramesSound'
  BY <1>2, <1>3, <1>4, <1>6, FramesStep
<1>8. RunsOwned'
  <2>1. \A q \in Procs : pc[q] = "run_save" => frame[q].new \in bundles
    BY DEF FramesSound, Sound, SoundExecution
  <2>2. \A q \in Procs : IF q = p THEN pc'[q] = "run_save" /\ frame'[q].new = r
                          ELSE pc'[q] = pc[q] /\ frame'[q] = frame[q]
    BY <1>2, <1>3 DEF Goto, TypeOK
  <2>3. \A i \in RunIds : runs'[i] # None =>
          i \in bundles' /\ tasks'[runs'[i].task] # None
    BY <1>2 DEF RunsOwned
  <2>4. ASSUME NEW q \in Procs, pc'[q] = "run_save"
        PROVE  /\ runs'[frame'[q].new] = None
               /\ \A o \in Procs : pc'[o] = "run_save" /\
                     frame'[o].new = frame'[q].new => o = q
    BY <1>1, <1>2, <2>1, <2>2, <2>4 DEF RunsOwned
  <2> QED
    BY <2>3, <2>4 DEF RunsOwned
<1> QED
  BY <1>2, <1>4, <1>5, <1>7, <1>8, TasksKept, FallbackDecidedKept, AttachedKept

LEMMA SaveRunStep ==
  ASSUME IInv, NEW p \in Procs, SaveRun(p)
  PROVE  IInv'
<1> USE DEF IInv, decisions, fallbacks
<1> PICK s \in Steps, f \in Frame : s = pc[p] /\ f = frame[p] /\ Sound(s, f)
  BY FrameOf
<1> DEFINE run == [task |-> f.task, plan |-> f.copy.plan, alt |-> f.alt]
<1>1. /\ s = "run_save" /\ f.role = "executor" /\ f.copy.state = "running"
      /\ Cleared(f) /\ f.new \in bundles /\ f.copy \in TaskRecord
      /\ f.task \in Tasks /\ tasks[f.task] # None /\ Shaped(f.copy)
  BY DEF SaveRun, Sound, SoundExecution, Frame, Good
<1> PICK r \in RunIds : r = f.new /\ runs[r] = None
  BY <1>1 DEF RunsOwned, TypeOK
<1>2. run \in RunRecord
  BY <1>1 DEF RunRecord, Shaped, TaskRecord, Maybe, Frame
<1>3. /\ runs' = [runs EXCEPT ![r] = run]
      /\ Goto(p, "run_link", f)
      /\ UNCHANGED <<tasks, briefs, plans, bundles, reviews, approvals,
                     approvalLedger, requests, fallbackLedger, crashes>>
  BY DEF SaveRun
<1>4. /\ run # None
      /\ \A i \in RunIds : runs'[i] = IF i = r THEN run ELSE runs[i]
  BY <1>2, <1>3, NullRecordAssumption DEF TypeOK
<1>5. Grow
  BY <1>3, <1>4 DEF TypeOK, Grow, Kept, RequestKept
<1>6. TypeOK'
  BY <1>2, <1>3, TypeGoto DEF TypeOK, Maybe, Steps
<1>7. Sound("run_link", f)'
  <2>1. Sound(s, f)'
    BY <1>5, SoundGrows
  <2> QED
    BY <1>1, <1>3, <1>4, <2>1
       DEF Sound, SoundAtGate, SoundPlanning, SoundExecution, SoundReview
<1>8. FramesSound'
  BY <1>3, <1>5, <1>7, FramesStep
<1>9. RunsOwned'
  <2>1. /\ pc'[p] = "run_link"
        /\ \A q \in Procs \ {p} : pc'[q] = pc[q]
        /\ \A q \in Procs : frame'[q] = frame[q]
    BY <1>3 DEF Goto, TypeOK
  <2>2. \A q \in Procs \ {p} : pc[q] = "run_save" => frame[q].new # r
    BY <1>1 DEF RunsOwned
  <2>3. \A q \in Procs : pc'[q] = "run_save" => runs'[frame'[q].new] = None
    <3> SUFFICES ASSUME NEW q \in Procs, pc'[q] = "run_save"
                 PROVE  runs'[frame[q].new] = None
      BY <2>1
    <3>1. q # p /\ pc[q] = "run_save"
      BY <2>1
    <3>2. frame[q].new \in RunIds
      BY <3>1 DEF FramesSound, Sound, SoundExecution, TypeOK
    <3> QED
      BY <1>4, <2>2, <3>1, <3>2 DEF RunsOwned
  <2>4. \A i \in RunIds : runs'[i] # None =>
          i \in bundles' /\ tasks'[runs'[i].task] # None
    BY <1>1, <1>3, <1>4 DEF RunsOwned
  <2> QED
    BY <2>1, <2>3, <2>4 DEF RunsOwned
<1>10. FallbackDecided'
  <2>1. run.alt # Direct => Decided(run.task, "executor", run.alt, Decisions)'
    BY <1>1, <1>5, DecidedGrows DEF Cleared
  <2> QED
    BY <1>3, <1>4, <1>5, <2>1, DecidedGrows
       DEF FallbackDecided, AlternatesUsed, TypeOK
<1> QED
  BY <1>3, <1>5, <1>6, <1>8, <1>9, <1>10, TasksKept, AttachedKept

LEMMA LinkRunStep ==
  ASSUME IInv, NEW p \in Procs, LinkRun(p)
  PROVE  IInv'
<1> PICK s \in Steps, f \in Frame : s = pc[p] /\ f = frame[p] /\ Sound(s, f)
  BY FrameOf
<1> DEFINE copy == [f.copy EXCEPT !.state = "review_pending", !.run = f.new]
<1>1. f.copy \in TaskRecord /\ f.new \in RunIds /\ s = "run_link"
  BY DEF LinkRun, Sound, SoundExecution, Frame, IInv, TypeOK
<1>2. copy \in TaskRecord
  BY <1>1 DEF TaskRecord, TaskStates, Maybe
<1>3. Good(f.task, copy)
  BY <1>1, NullAssumption
     DEF Sound, SoundExecution, Good, Shaped, Chained, Ledgered, TaskRecord,
         Terminal, Executed, Reviewed
<1> QED
  BY <1>1, <1>2, <1>3, IdleIsSound, SaveStep DEF LinkRun, Return

-----------------------------------------------------------------------------
(* review_run. *)

LEMMA SaveReviewStep ==
  ASSUME IInv, NEW p \in Procs, SaveReview(p)
  PROVE  IInv'
<1> USE DEF IInv, decisions, fallbacks
<1> PICK s \in Steps, f \in Frame : s = pc[p] /\ f = frame[p] /\ Sound(s, f)
  BY FrameOf
<1> PICK v \in ReviewIds : v = FreshId(reviews) /\ reviews[v] = None
  BY DEF SaveReview, HasFresh, FreshId, TypeOK
<1> DEFINE review == [task |-> f.task, run |-> f.new, alt |-> f.alt]
           g == [f EXCEPT !.new = v]
<1>1. /\ s = "review_generate" /\ IsReviewing(f) /\ Cleared(f)
      /\ Reviewable(f.copy) /\ f.task \in Tasks
  BY DEF SaveReview, Sound, SoundReview
<1>2. review \in ReviewRecord
  BY <1>1 DEF ReviewRecord, IsReviewing, Frame
<1>3. /\ reviews' = [reviews EXCEPT ![v] = review]
      /\ Goto(p, "review_link", g)
      /\ UNCHANGED <<tasks, briefs, plans, bundles, runs, approvals,
                     approvalLedger, requests, fallbackLedger, crashes>>
  BY DEF SaveReview
<1>4. g \in Frame /\ g.task = f.task /\ g.copy = f.copy /\ g.new = v
  BY DEF Frame, Maybe
<1>5. /\ review # None
      /\ \A i \in ReviewIds : reviews'[i] = IF i = v THEN review ELSE reviews[i]
  BY <1>2, <1>3, NullRecordAssumption DEF TypeOK
<1>6. Grow
  BY <1>3, <1>5 DEF TypeOK, Grow, Kept, RequestKept
<1>7. TypeOK'
  BY <1>2, <1>3, <1>4, TypeGoto DEF TypeOK, Maybe, Steps
<1>8. Sound("review_link", g)'
  <2>1. Sound(s, f)'
    BY <1>6, SoundGrows
  <2>2. SoundReview("review_link", g)'
    BY <1>1, <1>4, <1>5 DEF SoundReview, IsReviewing, Reviewable
  <2> QED
    BY <1>1, <1>4, <2>1, <2>2
       DEF Sound, SoundAtGate, SoundPlanning, SoundExecution
<1>9. FramesSound'
  BY <1>3, <1>4, <1>6, <1>8, FramesStep
<1>10. FallbackDecided'
  <2>1. review.alt # Direct =>
          Decided(review.task, "reviewer", review.alt, Decisions)'
    BY <1>1, <1>6, DecidedGrows DEF Cleared, IsReviewing
  <2> QED
    BY <1>3, <1>5, <1>6, <2>1, DecidedGrows
       DEF FallbackDecided, AlternatesUsed, TypeOK
<1> QED
  BY <1>3, <1>6, <1>7, <1>9, <1>10, TasksKept, RunsOwnedKept, AttachedKept

LEMMA LinkReviewStep ==
  ASSUME IInv, NEW p \in Procs, LinkReview(p)
  PROVE  IInv'
<1> PICK s \in Steps, f \in Frame : s = pc[p] /\ f = frame[p] /\ Sound(s, f)
  BY FrameOf
<1> DEFINE copy == [f.copy EXCEPT !.state = "awaiting_approval", !.review = f.new]
<1>1. f.copy \in TaskRecord /\ f.new \in ReviewIds /\ s = "review_link"
  BY DEF LinkReview, Sound, SoundReview, Frame
<1>2. copy \in TaskRecord
  BY <1>1 DEF TaskRecord, TaskStates, Maybe
<1>3. Good(f.task, copy)
  BY <1>1, NullAssumption
     DEF Sound, SoundReview, Reviewable, Good, Shaped, Chained, Ledgered,
         TaskRecord, Terminal, Executed, Reviewed
<1> QED
  BY <1>1, <1>2, <1>3, IdleIsSound, SaveStep DEF LinkReview, Return

-----------------------------------------------------------------------------
(* approve and reject. *)

LEMMA SaveApprovalStep ==
  ASSUME IInv, NEW p \in Procs, SaveApproval(p)
  PROVE  IInv'
<1> USE DEF IInv, evidence, fallbacks
<1> PICK s \in Steps, f \in Frame : s = pc[p] /\ f = frame[p] /\ Sound(s, f)
  BY FrameOf
<1> PICK a \in ApprovalIds : a = FreshId(approvals) /\ approvals[a] = None
  BY DEF SaveApproval, HasFresh, FreshId, TypeOK
<1> DEFINE approval == [task |-> f.task, review |-> f.copy.review,
                        decision |-> f.decision]
           g == [f EXCEPT !.new = a]
<1>1. /\ s = "approval_save" /\ f.decision \in Decisions
      /\ f.copy.state = "awaiting_approval" /\ f.task \in Tasks
  BY DEF SaveApproval, Sound, SoundReview
<1>2. approval \in ApprovalRecord
  BY <1>1 DEF ApprovalRecord, Sound, Good, Shaped, Reviewed, Frame, TaskRecord,
              Maybe
<1>3. /\ approvals' = [approvals EXCEPT ![a] = approval]
      /\ Goto(p, "approval_ledger", g)
      /\ UNCHANGED <<tasks, briefs, plans, bundles, runs, reviews,
                     approvalLedger, requests, fallbackLedger, crashes>>
  BY DEF SaveApproval
<1>4. /\ g \in Frame /\ g.task = f.task /\ g.copy = f.copy /\ g.new = a
      /\ g.decision = f.decision
  BY DEF Frame, Maybe
<1>5. approval # None /\ approvals'[a] = approval
  BY <1>2, <1>3, NullRecordAssumption DEF TypeOK
<1>6. Grow
  BY <1>3, <1>5 DEF TypeOK, Grow, Kept, RequestKept
<1>7. TypeOK'
  BY <1>2, <1>3, <1>4, TypeGoto DEF TypeOK, Maybe, Steps
<1>8. Sound("approval_ledger", g)'
  <2>1. Sound(s, f)'
    BY <1>6, SoundGrows
  <2>2. SoundReview("approval_ledger", g)'
    BY <1>1, <1>4, <1>5 DEF SoundReview
  <2> QED
    BY <1>1, <1>4, <2>1, <2>2
       DEF Sound, SoundAtGate, SoundPlanning, SoundExecution
<1>9. FramesSound'
  BY <1>3, <1>4, <1>6, <1>8, FramesStep
<1> QED
  BY <1>3, <1>6, <1>7, <1>9, TasksKept, RunsOwnedKept, FallbackDecidedKept,
     AttachedKept

LEMMA LedgerApprovalStep ==
  ASSUME IInv, NEW p \in Procs, LedgerApproval(p)
  PROVE  IInv'
<1> USE DEF IInv, evidence, fallbacks
<1> PICK s \in Steps, f \in Frame : s = pc[p] /\ f = frame[p] /\ Sound(s, f)
  BY FrameOf
<1>1. /\ s = "approval_ledger" /\ f.new \in ApprovalIds
      /\ approvalLedger' = approvalLedger \cup {f.new}
      /\ Goto(p, "approval_link", f)
      /\ UNCHANGED <<tasks, briefs, plans, bundles, runs, reviews, approvals,
                     requests, fallbackLedger, crashes>>
  BY DEF LedgerApproval, Sound, SoundReview
<1>2. Grow
  BY <1>1 DEF TypeOK, Grow, Kept, RequestKept
<1>3. TypeOK'
  BY <1>1, TypeGoto DEF TypeOK, Steps
<1>4. Sound("approval_link", f)'
  <2>1. Sound(s, f)'
    BY <1>2, SoundGrows
  <2> QED
    BY <1>1, <2>1
       DEF Sound, SoundAtGate, SoundPlanning, SoundExecution, SoundReview
<1>5. FramesSound'
  BY <1>1, <1>2, <1>4, FramesStep
<1> QED
  BY <1>1, <1>2, <1>3, <1>5, TasksKept, RunsOwnedKept, FallbackDecidedKept,
     AttachedKept

LEMMA LinkApprovalStep ==
  ASSUME IInv, NEW p \in Procs, LinkApproval(p)
  PROVE  IInv'
<1> PICK s \in Steps, f \in Frame : s = pc[p] /\ f = frame[p] /\ Sound(s, f)
  BY FrameOf
<1> DEFINE copy == [f.copy EXCEPT !.state = f.decision, !.approval = f.new]
<1>1. /\ f.copy \in TaskRecord /\ f.new \in ApprovalIds /\ s = "approval_link"
      /\ f.decision \in Decisions
  BY DEF LinkApproval, Sound, SoundReview, Frame
<1>2. copy \in TaskRecord
  <2>1. f.decision \in TaskStates /\ f.new \in Maybe(ApprovalIds)
    BY <1>1 DEF TaskStates, Decisions, Maybe
  <2> QED
    BY <1>1, <2>1 DEF TaskRecord
<1>3. Good(f.task, copy)
  BY <1>1, NullAssumption
     DEF Sound, SoundReview, Good, Shaped, Chained, Ledgered, TaskRecord,
         Decisions, Terminal, Executed, Reviewed
<1> QED
  BY <1>1, <1>2, <1>3, IdleIsSound, SaveStep DEF LinkApproval, Return

-----------------------------------------------------------------------------
(* The theorems. *)

LEMMA ContinueStep ==
  ASSUME IInv, NEW p \in Procs, Continue(p)
  PROVE  IInv'
<1>1. CASE BlockAtGate(p) \/ RefuseReview(p)
  BY <1>1, ReturnStep DEF BlockAtGate, RefuseReview, IInv, TypeOK
<1> QED
  BY <1>1, ListSameKindStep, SaveBriefStep, ListBriefsStep, SavePlanStep,
     AttachBriefStep, LinkPlanStep, PassGateStep, SaveRequestStep,
     LedgerRequestStep, LinkRequestStep, RunnerReturnsStep, CreateBundleStep,
     SaveRunStep, LinkRunStep, SaveReviewStep, LinkReviewStep,
     SaveApprovalStep, LedgerApprovalStep, LinkApprovalStep, LoadRequestStep,
     SaveFallbackDecisionStep, LedgerFallbackDecisionStep, TouchTaskStep
     DEF Continue

LEMMA RaiseStep ==
  ASSUME IInv, NEW p \in Procs, Raise(p) \/ Crash(p)
  PROVE  IInv'
<1>1. Return(p) /\ UNCHANGED files /\ crashes' \in Nat
  BY DEF Raise, BriefSourceMissing, PlanRaises, RunnerRaises, BundleRaises,
         ReviewRaises, Crash, IInv, TypeOK
<1> QED
  BY <1>1, ReturnStep

LEMMA StutterStep ==
  ASSUME IInv, UNCHANGED vars
  PROVE  IInv'
<1> USE DEF IInv, vars, files, evidence, decisions, fallbacks
<1>1. TypeOK' /\ RunsOwned' /\ AttachedInSnapshot'
  BY DEF TypeOK, RunsOwned, AttachedInSnapshot
<1>2. TasksGood'
  BY DEF TasksGood, Good, Shaped, Chained, Ledgered
<1>3. FallbackDecided'
  BY DEF FallbackDecided, AlternatesUsed, Decided
<1>4. FramesSound'
  <2> SUFFICES ASSUME NEW p \in Procs PROVE Sound(pc[p], frame[p])'
    BY DEF FramesSound
  <2>1. Sound(pc[p], frame[p])
    BY DEF FramesSound
  <2>2. Grow
    BY DEF Grow, Kept, RequestKept
  <2>3. pc[p] \in Steps /\ frame[p] \in Frame
    BY DEF TypeOK
  <2> QED
    BY <2>1, <2>2, <2>3, SoundGrows
<1> QED
  BY <1>1, <1>2, <1>3, <1>4

(* The invariant holds of every behaviour, with or without fairness.       *)
THEOREM Invariance == Spec => []IInv
<1>1. IInv /\ [Next]_vars => IInv'
  BY CreateTaskStep, StartStep, ContinueStep, RaiseStep, StutterStep DEF Next
<1> QED
  BY InitIInv, <1>1, PTL DEF Spec

(* Every file and every local variable keeps its type: in particular no    *)
(* record is ever filed under a null plan, run or review id.               *)
THEOREM TypeCorrect == Spec => []TypeOK
<1>1. IInv => TypeOK
  BY DEF IInv
<1> QED
  BY <1>1, Invariance, PTL

(* Overlapping and interrupted commands never leave a task file whose      *)
(* state and pointers disagree.                                            *)
THEOREM StateAndPointersAgree == Spec => []StateMatchesPointers
<1>1. IInv => StateMatchesPointers
  BY DEF IInv, TasksGood, Good, StateMatchesPointers
<1> QED
  BY <1>1, Invariance, PTL

(* The evidence behind a task is complete and its own, at every moment.    *)
THEOREM EvidenceIsChained == Spec => []EvidenceChain
<1>1. IInv => EvidenceChain
  BY DEF IInv, TasksGood, Good, EvidenceChain
<1> QED
  BY <1>1, Invariance, PTL

(* No task file says approved or rejected without its line in the approval *)
(* ledger.                                                                 *)
THEOREM DecisionsAreLedgered == Spec => []DecisionLedgered
<1>1. IInv => DecisionLedgered
  BY DEF IInv, TasksGood, Good, DecisionLedgered
<1> QED
  BY <1>1, Invariance, PTL

(* No alternate works for a task before a human has looked at a request    *)
(* for it.                                                                 *)
THEOREM FallbacksAreDecided == Spec => []FallbackDecided
<1>1. IInv => FallbackDecided
  BY DEF IInv
<1> QED
  BY <1>1, Invariance, PTL

(* A brief never claims a plan that does not list it.                      *)
THEOREM AttachedBriefsAreListed == Spec => []AttachedInSnapshot
<1>1. IInv => AttachedInSnapshot
  BY DEF IInv
<1> QED
  BY <1>1, Invariance, PTL

-----------------------------------------------------------------------------
(* What one step may do to the store: records are added, and what evidence *)
(* and requests say is not taken back.  Each lemma is about the actions    *)
(* that write one kind of file.                                            *)

LEMMA NothingWritten ==
  ASSUME UNCHANGED files
  PROVE  Grow
BY DEF files, evidence, decisions, fallbacks, Grow, Kept, RequestKept

-----------------------------------------------------------------------------
(* The task file: a whole record is written over another one.              *)

LEMMA TaskWritten ==
  ASSUME IInv, NEW p \in Procs, pc[p] # "idle",
         NEW copy \in TaskRecord, SaveTask(p, copy),
         UNCHANGED <<briefs, evidence, decisions, fallbacks>>
  PROVE  Grow
<1> PICK t \in Tasks : t = frame[p].task
  BY DEF IInv, FramesSound, Sound
<1>1. tasks' = [tasks EXCEPT ![t] = copy]
  BY DEF SaveTask
<1> QED
  BY <1>1, NullRecordAssumption
     DEF IInv, TypeOK, Grow, Kept, RequestKept, evidence, decisions, fallbacks

LEMMA EditedCopy ==
  ASSUME NEW copy \in TaskRecord
  PROVE  /\ \A new \in PlanIds :
              [copy EXCEPT !.state = "planned", !.plan = new] \in TaskRecord
         /\ \A new \in RequestIds : [copy EXCEPT !.request = new] \in TaskRecord
         /\ [copy EXCEPT !.state = "running"] \in TaskRecord
         /\ \A new \in RunIds :
              [copy EXCEPT !.state = "review_pending", !.run = new] \in TaskRecord
         /\ \A new \in ReviewIds :
              [copy EXCEPT !.state = "awaiting_approval", !.review = new]
                \in TaskRecord
         /\ \A new \in ApprovalIds, d \in Decisions :
              [copy EXCEPT !.state = d, !.approval = new] \in TaskRecord
<1> USE DEF TaskRecord, TaskStates, Maybe
<1>1. \A new \in PlanIds :
        [copy EXCEPT !.state = "planned", !.plan = new] \in TaskRecord
  OBVIOUS
<1>2. \A new \in RequestIds : [copy EXCEPT !.request = new] \in TaskRecord
  OBVIOUS
<1>3. [copy EXCEPT !.state = "running"] \in TaskRecord
  OBVIOUS
<1>4. \A new \in RunIds :
        [copy EXCEPT !.state = "review_pending", !.run = new] \in TaskRecord
  OBVIOUS
<1>5. \A new \in ReviewIds :
        [copy EXCEPT !.state = "awaiting_approval", !.review = new] \in TaskRecord
  OBVIOUS
<1>6. \A new \in ApprovalIds, d \in Decisions :
        [copy EXCEPT !.state = d, !.approval = new] \in TaskRecord
  BY DEF Decisions
<1> HIDE DEF TaskRecord, TaskStates, Maybe
<1> QED
  BY <1>1, <1>2, <1>3, <1>4, <1>5, <1>6

LEMMA TaskSteps ==
  ASSUME IInv, NEW p \in Procs,
         \/ LinkPlan(p) \/ LinkRequest(p) \/ RunnerReturns(p) \/ LinkRun(p)
         \/ LinkReview(p) \/ LinkApproval(p) \/ TouchTask(p)
  PROVE  Grow
<1> PICK s \in Steps, f \in Frame : s = pc[p] /\ f = frame[p] /\ Sound(s, f)
  BY FrameOf
<1>1. f.copy \in TaskRecord
  BY DEF Frame
<1>2. CASE LinkPlan(p)
  <2>1. f.new \in PlanIds
    BY <1>2 DEF LinkPlan, Sound, SoundPlanning
  <2> QED
    BY <1>1, <1>2, <2>1, EditedCopy, TaskWritten DEF LinkPlan
<1>3. CASE LinkRequest(p)
  <2>1. f.new \in RequestIds
    BY <1>3 DEF LinkRequest, Sound, SoundAtGate
  <2> QED
    BY <1>1, <1>3, <2>1, EditedCopy, TaskWritten DEF LinkRequest
<1>4. CASE RunnerReturns(p)
  BY <1>1, <1>4, EditedCopy, TaskWritten DEF RunnerReturns
<1>5. CASE LinkRun(p)
  <2>1. f.new \in RunIds
    BY <1>5 DEF LinkRun, Sound, SoundExecution, IInv, TypeOK
  <2> QED
    BY <1>1, <1>5, <2>1, EditedCopy, TaskWritten DEF LinkRun
<1>6. CASE LinkReview(p)
  <2>1. f.new \in ReviewIds
    BY <1>6 DEF LinkReview, Sound, SoundReview
  <2> QED
    BY <1>1, <1>6, <2>1, EditedCopy, TaskWritten DEF LinkReview
<1>7. CASE LinkApproval(p)
  <2>1. f.decision \in Decisions /\ f.new \in ApprovalIds
    BY <1>7 DEF LinkApproval, Sound, SoundReview
  <2> QED
    BY <1>1, <1>7, <2>1, EditedCopy, TaskWritten DEF LinkApproval
<1>8. CASE TouchTask(p)
  BY <1>1, <1>8, TaskWritten DEF TouchTask
<1> QED
  BY <1>2, <1>3, <1>4, <1>5, <1>6, <1>7, <1>8

-----------------------------------------------------------------------------
(* New records: each is written where there was none.                      *)

LEMMA FreshIsNew ==
  ASSUME NEW file, HasFresh(file)
  PROVE  FreshId(file) \in DOMAIN file /\ file[FreshId(file)] = None
BY DEF HasFresh, FreshId

LEMMA NewRecordSteps ==
  ASSUME IInv, NEW p \in Procs,
         \/ SaveBrief(p) \/ SavePlan(p) \/ SaveRequest(p) \/ SaveReview(p)
         \/ SaveApproval(p)
  PROVE  Grow
<1> USE DEF evidence, decisions, fallbacks, IInv, TypeOK, Grow, Kept, RequestKept
<1>1. CASE SaveBrief(p)
  BY <1>1, FreshIsNew DEF SaveBrief
<1>2. CASE SavePlan(p)
  BY <1>2, FreshIsNew DEF SavePlan
<1>3. CASE SaveRequest(p)
  BY <1>3, FreshIsNew DEF SaveRequest
<1>4. CASE SaveReview(p)
  BY <1>4, FreshIsNew DEF SaveReview
<1>5. CASE SaveApproval(p)
  BY <1>5, FreshIsNew DEF SaveApproval
<1> QED
  BY <1>1, <1>2, <1>3, <1>4, <1>5

-----------------------------------------------------------------------------
(* What is added to, or written back with one field changed.               *)

LEMMA AttachBriefGrows ==
  ASSUME IInv, NEW p \in Procs, AttachBrief(p)
  PROVE  Grow
<1> PICK b \in frame[p].todo :
      briefs' = [briefs EXCEPT ![b].plan = frame[p].new]
  BY DEF AttachBrief
<1>1. b \in BriefIds /\ briefs[b] # None
  BY DEF AttachBrief, IInv, TypeOK, Frame, FramesSound, Sound, SoundPlanning,
         OfTask
<1>2. briefs[b] \in BriefRecord
  BY <1>1 DEF IInv, TypeOK, Maybe
<1>3. /\ briefs'[b] # None /\ briefs'[b].task = briefs[b].task
      /\ \A c \in BriefIds \ {b} : briefs'[c] = briefs[c]
  <2>1. PICK brief \in BriefRecord : brief = briefs[b]
    BY <1>2
  <2>2. briefs'[b] = [brief EXCEPT !.plan = frame[p].new]
    BY <1>1, <2>1 DEF IInv, TypeOK
  <2>3. frame[p].new \in PlanIds
    BY DEF AttachBrief, IInv, FramesSound, Sound, SoundPlanning
  <2>4. briefs'[b] \in BriefRecord /\ briefs'[b].task = brief.task
    BY <2>2, <2>3 DEF BriefRecord, Maybe
  <2> QED
    BY <1>1, <2>1, <2>4, NullRecordAssumption DEF IInv, TypeOK
<1> QED
  BY <1>3 DEF AttachBrief, evidence, decisions, fallbacks, IInv, TypeOK, Grow,
              Kept, RequestKept

LEMMA SaveFallbackDecisionGrows ==
  ASSUME IInv, NEW p \in Procs, SaveFallbackDecision(p)
  PROVE  /\ frame[p].copy.request \in RequestIds
         /\ requests[frame[p].copy.request] # None
         /\ frame[p].decision \in Decisions
         /\ RequestKept(requests[frame[p].copy.request],
                        requests'[frame[p].copy.request])
         /\ requests'[frame[p].copy.request].status = frame[p].decision
         /\ \A r \in RequestIds \ {frame[p].copy.request} :
              requests'[r] = requests[r]
         /\ Grow
<1> PICK s \in Steps, f \in Frame : s = pc[p] /\ f = frame[p] /\ Sound(s, f)
  BY FrameOf
<1> PICK r \in RequestIds : r = f.copy.request /\ requests[r] # None
  BY DEF SaveFallbackDecision, Sound, SoundAtGate, Good, Chained, Frame,
         TaskRecord, Maybe
<1>1. /\ requests' = [requests EXCEPT ![r].status = f.decision]
      /\ f.decision \in Decisions
  BY DEF SaveFallbackDecision, Sound, SoundAtGate
<1>2. PICK old \in RequestRecord : old = requests[r]
  BY DEF IInv, TypeOK, Maybe
<1>3. requests'[r] = [old EXCEPT !.status = f.decision]
  BY <1>1, <1>2 DEF IInv, TypeOK
<1>4. /\ requests'[r] \in RequestRecord
      /\ requests'[r].task = old.task /\ requests'[r].role = old.role
      /\ requests'[r].alt = old.alt /\ requests'[r].status = f.decision
  <2> DEFINE new == [old EXCEPT !.status = f.decision]
  <2>1. f.decision \in RequestStates
    BY <1>1 DEF RequestStates
  <2>2. /\ new \in RequestRecord
        /\ new.task = old.task /\ new.role = old.role
        /\ new.alt = old.alt /\ new.status = f.decision
    BY <2>1 DEF RequestRecord
  <2> HIDE DEF new
  <2>3. requests'[r] = new
    BY <1>3 DEF new
  <2> QED
    BY <2>2, <2>3
<1>5. RequestKept(old, requests'[r])
  BY <1>1, <1>4, NullRecordAssumption DEF RequestKept
<1>6. \A q \in RequestIds \ {r} : requests'[q] = requests[q]
  BY <1>1 DEF IInv, TypeOK
<1>7. Grow
  BY <1>2, <1>5, <1>6
     DEF SaveFallbackDecision, evidence, decisions, IInv, TypeOK, Grow, Kept,
         RequestKept
<1> QED
  BY <1>1, <1>2, <1>4, <1>5, <1>6, <1>7

LEMMA AddingSteps ==
  ASSUME IInv, NEW p \in Procs,
         \/ CreateBundle(p) \/ SaveRun(p) \/ LedgerApproval(p)
         \/ LedgerRequest(p) \/ LedgerFallbackDecision(p)
  PROVE  Grow
<1> USE DEF evidence, decisions, fallbacks, IInv, TypeOK, Grow, Kept, RequestKept
<1>1. CASE CreateBundle(p)
  BY <1>1 DEF CreateBundle
<1>2. CASE SaveRun(p)
  BY <1>2 DEF SaveRun, RunsOwned
<1>3. CASE LedgerApproval(p)
  BY <1>3 DEF LedgerApproval
<1>4. CASE LedgerRequest(p) \/ LedgerFallbackDecision(p)
  BY <1>4 DEF LedgerRequest, LedgerFallbackDecision
<1> QED
  BY <1>1, <1>2, <1>3, <1>4

-----------------------------------------------------------------------------
(* Every step.                                                             *)

LEMMA ReadingSteps ==
  ASSUME NEW p \in Procs,
         \/ Start(p) \/ Raise(p) \/ Crash(p) \/ ListSameKind(p) \/ ListBriefs(p)
         \/ PassGate(p) \/ BlockAtGate(p) \/ RefuseReview(p) \/ LoadRequest(p)
  PROVE  UNCHANGED files
<1>1. CASE Start(p)
  BY <1>1 DEF Start, LoadForBrief, LoadForPlan, LoadForRun, LoadForReview,
              LoadForDecision, LoadForFallback
<1>2. CASE Raise(p) \/ Crash(p)
  BY <1>2 DEF Raise, Crash, BriefSourceMissing, PlanRaises, RunnerRaises,
              BundleRaises, ReviewRaises
<1> QED
  BY <1>1, <1>2 DEF ListSameKind, ListBriefs, PassGate, BlockAtGate,
                    RefuseReview, LoadRequest

LEMMA GrowStep ==
  ASSUME IInv, [Next]_vars
  PROVE  Grow
<1>1. ASSUME NEW t \in Tasks, CreateTask(t)
      PROVE  Grow
  <2>1. NewTask \in TaskRecord
    BY DEF NewTask, TaskRecord, TaskStates, Maybe
  <2> QED
    BY <1>1, <2>1, NullRecordAssumption
       DEF CreateTask, evidence, decisions, fallbacks, IInv, TypeOK, Grow, Kept,
           RequestKept
<1>2. ASSUME NEW p \in Procs, Continue(p)
      PROVE  Grow
  BY <1>2, ReadingSteps, NothingWritten, TaskSteps, NewRecordSteps,
     AttachBriefGrows, SaveFallbackDecisionGrows, AddingSteps DEF Continue
<1>3. CASE UNCHANGED vars
  BY <1>3, NothingWritten DEF vars
<1> QED
  BY <1>1, <1>2, <1>3, ReadingSteps, NothingWritten DEF Next

(* Whatever overlaps: a plan, run, review or approval never changes, a     *)
(* bundle and a ledger line stay, a request keeps its task, role and       *)
(* alternate and never becomes undecided again.                            *)
THEOREM RecordsAreKept == Spec => [][Grow]_vars
<1>1. IInv /\ [Next]_vars => [Grow]_vars
  BY GrowStep
<1> QED
  BY <1>1, Invariance, PTL DEF Spec
=============================================================================
