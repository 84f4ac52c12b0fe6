---------------------------- MODULE SerialProofs ----------------------------
(***************************************************************************)
(* Serial use of each task: any number of commands may overlap and die     *)
(* anywhere, but no two of them work on the same task.  Then the copy of   *)
(* its task that a command holds is the file, and everything that          *)
(* overlapping commands spoil can be proved.  One shell, or one operator   *)
(* who waits for each command, is a case of this (OneAtATime).             *)
(***************************************************************************)
EXTENDS PatchrailProofs

Apart ==
    \A p, q \in Procs :
        p # q /\ pc[p] # "idle" /\ pc[q] # "idle" =>
            frame[p].task # frame[q].task

-----------------------------------------------------------------------------
(* What a command keeps of its frame while it goes on.                     *)

Stays(old, new) ==
    /\ new.task = old.task /\ new.copy = old.copy
    /\ new.kind = old.kind /\ new.decision = old.decision

SameRole(old, new) == new.role = old.role /\ new.alt = old.alt

(* A command goes on without writing its task.                             *)
GoesOn(p) ==
    \/ ListSameKind(p) \/ SaveBrief(p) \/ ListBriefs(p) \/ SavePlan(p)
    \/ AttachBrief(p) \/ PassGate(p) \/ BlockAtGate(p) \/ SaveRequest(p)
    \/ LedgerRequest(p) \/ CreateBundle(p) \/ SaveRun(p) \/ RefuseReview(p)
    \/ SaveReview(p) \/ SaveApproval(p) \/ LedgerApproval(p) \/ LoadRequest(p)
    \/ SaveFallbackDecision(p) \/ LedgerFallbackDecision(p)

(* A command writes its task and ends.                                     *)
Links(p) ==
    \/ LinkPlan(p) \/ LinkRequest(p) \/ LinkRun(p) \/ LinkReview(p)
    \/ LinkApproval(p) \/ TouchTask(p)

LEMMA ContinueKinds ==
  ASSUME NEW p \in Procs, Continue(p)
  PROVE  GoesOn(p) \/ Links(p) \/ RunnerReturns(p)
BY DEF Continue, GoesOn, Links

LEMMA Arrives ==
  ASSUME TypeOK, NEW p \in Procs, NEW s, NEW f, Goto(p, s, f)
  PROVE  pc'[p] = s /\ frame'[p] = f
BY DEF TypeOK, Goto

LEMMA ListBriefsFrame ==
  ASSUME IInv, NEW p \in Procs, ListBriefs(p)
  PROVE  /\ pc'[p] = "gate" /\ Stays(frame[p], frame'[p])
         /\ frame'[p].todo = BriefsOf(frame[p].task)
<1> PICK f \in Frame : f = frame[p]
  BY DEF IInv, TypeOK
<1> PICK alt : Goto(p, "gate", [f EXCEPT !.role = "planner", !.alt = alt,
                                          !.todo = BriefsOf(f.task)])
  BY DEF ListBriefs
<1> DEFINE g == [f EXCEPT !.role = "planner", !.alt = alt,
                          !.todo = BriefsOf(f.task)]
<1>1. Stays(f, g) /\ g.todo = BriefsOf(f.task)
  BY DEF Frame, Stays, SameRole
<1> HIDE DEF g
<1>2. Goto(p, "gate", g)
  BY DEF g
<1>3. pc'[p] = "gate" /\ frame'[p] = g
  BY <1>2, Arrives DEF IInv
<1> QED
  BY <1>1, <1>3

WithNew(p, s) == \E new : Goto(p, s, [frame[p] EXCEPT !.new = new])

LEMMA WithNewFrame ==
  ASSUME IInv, NEW p \in Procs, NEW s, WithNew(p, s)
  PROVE  /\ Stays(frame[p], frame'[p]) /\ SameRole(frame[p], frame'[p])
         /\ frame'[p].todo = frame[p].todo
<1> PICK f \in Frame : f = frame[p]
  BY DEF IInv, TypeOK
<1> PICK new : Goto(p, s, [f EXCEPT !.new = new])
  BY DEF WithNew
<1> DEFINE g == [f EXCEPT !.new = new]
<1>1. Stays(f, g) /\ SameRole(f, g) /\ g.todo = f.todo
  BY DEF Frame, Stays, SameRole
<1> HIDE DEF g
<1>2. Goto(p, s, g)
  BY DEF g
<1>3. frame'[p] = g
  BY <1>2, Arrives DEF IInv
<1> QED
  BY <1>1, <1>3

LEMMA AttachBriefFrame ==
  ASSUME IInv, NEW p \in Procs, AttachBrief(p)
  PROVE  pc'[p] = "plan_attach" /\ \E b \in frame[p].todo :
           /\ briefs' = [briefs EXCEPT ![b].plan = frame[p].new]
           /\ frame'[p].todo = frame[p].todo \ {b}
           /\ frame'[p].new = frame[p].new
           /\ Stays(frame[p], frame'[p]) /\ SameRole(frame[p], frame'[p])
<1> PICK f \in Frame : f = frame[p]
  BY DEF IInv, TypeOK
<1> PICK b \in f.todo :
      /\ briefs' = [briefs EXCEPT ![b].plan = f.new]
      /\ Goto(p, "plan_attach", [f EXCEPT !.todo = f.todo \ {b}])
  BY DEF AttachBrief
<1> DEFINE g == [f EXCEPT !.todo = f.todo \ {b}]
<1>1. Stays(f, g) /\ SameRole(f, g) /\ g.new = f.new /\ g.todo = f.todo \ {b}
  BY DEF Frame, Stays, SameRole
<1> HIDE DEF g
<1>2. Goto(p, "plan_attach", g)
  BY DEF g
<1>3. pc'[p] = "plan_attach" /\ frame'[p] = g
  BY <1>2, Arrives DEF IInv
<1> QED
  BY <1>1, <1>3

LEMMA GoesOnStays ==
  ASSUME IInv, NEW p \in Procs, GoesOn(p)
  PROVE  /\ pc[p] # "idle"
         /\ pc'[p] = "idle" \/ Stays(frame[p], frame'[p])
         /\ \/ pc'[p] = "idle" \/ ListBriefs(p)
            \/ SameRole(frame[p], frame'[p])
         /\ UNCHANGED tasks
<1> USE DEF files, evidence, decisions, fallbacks
<1>1. /\ \A f : Stays(f, f) /\ SameRole(f, f)
      /\ TypeOK
  BY DEF Stays, SameRole, IInv
<1>2. UNCHANGED tasks /\ pc[p] # "idle"
  BY DEF GoesOn, ListSameKind, SaveBrief, ListBriefs, SavePlan, AttachBrief,
         PassGate, BlockAtGate, SaveRequest, LedgerRequest, CreateBundle,
         SaveRun, RefuseReview, SaveReview, SaveApproval, LedgerApproval,
         LoadRequest, SaveFallbackDecision, LedgerFallbackDecision
<1>3. CASE ListSameKind(p) \/ SaveBrief(p) \/ BlockAtGate(p) \/ RefuseReview(p)
             \/ LoadRequest(p)
  BY <1>1, <1>2, <1>3, Arrives
     DEF ListSameKind, SaveBrief, BlockAtGate, RefuseReview, LoadRequest, Return
<1>4. CASE PassGate(p) \/ LedgerRequest(p) \/ SaveRun(p) \/ LedgerApproval(p)
             \/ SaveFallbackDecision(p) \/ LedgerFallbackDecision(p)
  BY <1>1, <1>2, <1>4, Arrives
     DEF PassGate, LedgerRequest, SaveRun, LedgerApproval, SaveFallbackDecision,
         LedgerFallbackDecision
<1>5. CASE SavePlan(p) \/ SaveRequest(p) \/ CreateBundle(p) \/ SaveReview(p)
             \/ SaveApproval(p)
  <2>1. \E s : WithNew(p, s)
    BY <1>5 DEF SavePlan, SaveRequest, CreateBundle, SaveReview, SaveApproval,
                WithNew
  <2> QED
    BY <1>2, <2>1, WithNewFrame
<1>6. CASE ListBriefs(p)
  BY <1>2, <1>6, ListBriefsFrame
<1>7. CASE AttachBrief(p)
  BY <1>2, <1>7, AttachBriefFrame
<1> QED
  BY <1>3, <1>4, <1>5, <1>6, <1>7 DEF GoesOn

LEMMA RunnerReturnsFrame ==
  ASSUME IInv, NEW p \in Procs, RunnerReturns(p)
  PROVE  \E copy \in TaskRecord :
           /\ copy = [frame[p].copy EXCEPT !.state = "running"]
           /\ frame'[p].copy = copy /\ frame'[p].task = frame[p].task
           /\ SameRole(frame[p], frame'[p])
           /\ pc'[p] = "run_bundle" /\ SaveTask(p, copy)
<1> PICK f \in Frame : f = frame[p]
  BY DEF IInv, TypeOK
<1>1. PICK copy \in TaskRecord : copy = [f.copy EXCEPT !.state = "running"]
  BY EditedCopy DEF Frame
<1> DEFINE g == [f EXCEPT !.copy = copy]
<1>2. SameRole(f, g) /\ g.task = f.task /\ g.copy = copy
  BY DEF Frame, Stays, SameRole
<1> HIDE DEF g
<1>3. Goto(p, "run_bundle", g) /\ SaveTask(p, copy)
  BY <1>1 DEF RunnerReturns, g
<1>4. pc'[p] = "run_bundle" /\ frame'[p] = g
  BY <1>3, Arrives DEF IInv
<1> QED
  BY <1>1, <1>2, <1>3, <1>4

LEMMA LinksEnds ==
  ASSUME IInv, NEW p \in Procs, Links(p)
  PROVE  pc[p] # "idle" /\ pc'[p] = "idle"
BY Arrives DEF IInv, Links, LinkPlan, LinkRequest, LinkRun, LinkReview,
               LinkApproval, TouchTask, Return

-----------------------------------------------------------------------------
(* The steps there are, and what each leads to.                            *)

(* A command begins with the task as it is in its file. *)
LEMMA Starts ==
  ASSUME IInv, NEW p \in Procs, Start(p)
  PROVE  /\ UNCHANGED files
         /\ frame'[p].copy = tasks[frame'[p].task]
         /\ \/ pc'[p] \in {"brief_list", "plan_list", "approval_save",
                           "fallback_load"}
            \/ pc'[p] = "gate" /\ frame'[p].role # "planner"
<1> USE DEF IInv
<1>1. UNCHANGED files
  BY ReadingSteps
<1>2. ASSUME NEW t \in Tasks, NEW k \in Kinds, LoadForBrief(p, t, k)
      PROVE  pc'[p] = "brief_list" /\ frame'[p].copy = tasks[frame'[p].task]
  <2> DEFINE g == [Loaded(t) EXCEPT !.kind = k]
  <2>1. g.task = t /\ g.copy = tasks[t]
    BY DEF Loaded, IdleFrame
  <2> HIDE DEF g
  <2>2. Goto(p, "brief_list", g)
    BY <1>2 DEF LoadForBrief, g
  <2> QED
    BY <2>1, <2>2, Arrives
<1>3. ASSUME NEW t \in Tasks, LoadForPlan(p, t)
      PROVE  pc'[p] = "plan_list" /\ frame'[p].copy = tasks[frame'[p].task]
  <2> DEFINE g == Loaded(t)
  <2>1. g.task = t /\ g.copy = tasks[t]
    BY DEF Loaded, IdleFrame
  <2> HIDE DEF g
  <2>2. Goto(p, "plan_list", g)
    BY <1>3 DEF LoadForPlan, g
  <2> QED
    BY <2>1, <2>2, Arrives
<1>4. ASSUME NEW t \in Tasks, NEW alt \in Assignments, LoadForRun(p, t, alt)
      PROVE  /\ pc'[p] = "gate" /\ frame'[p].role # "planner"
             /\ frame'[p].copy = tasks[frame'[p].task]
  <2> DEFINE g == [Loaded(t) EXCEPT !.role = "executor", !.alt = alt]
  <2>1. g.task = t /\ g.copy = tasks[t] /\ g.role = "executor"
    BY DEF Loaded, IdleFrame
  <2> HIDE DEF g
  <2>2. Goto(p, "gate", g)
    BY <1>4 DEF LoadForRun, g
  <2> QED
    BY <2>1, <2>2, Arrives
<1>5. ASSUME NEW t \in Tasks, NEW d \in Decisions,
             LoadForDecision(p, t, d) \/ LoadForFallback(p, t, d)
      PROVE  /\ pc'[p] \in {"approval_save", "fallback_load"}
             /\ frame'[p].copy = tasks[frame'[p].task]
  <2> DEFINE g == [Loaded(t) EXCEPT !.decision = d]
  <2>1. g.task = t /\ g.copy = tasks[t]
    BY DEF Loaded, IdleFrame
  <2> HIDE DEF g
  <2>2. Goto(p, "approval_save", g) \/ Goto(p, "fallback_load", g)
    BY <1>5 DEF LoadForDecision, LoadForFallback, g
  <2> QED
    BY <2>1, <2>2, Arrives
<1>6. ASSUME NEW r \in RunIds, NEW alt \in Assignments, LoadForReview(p, r, alt)
      PROVE  /\ pc'[p] = "gate" /\ frame'[p].role # "planner"
             /\ frame'[p].copy = tasks[frame'[p].task]
  <2> PICK t : t = runs[r].task
    OBVIOUS
  <2> DEFINE g == [Loaded(t) EXCEPT !.role = "reviewer", !.alt = alt, !.new = r]
  <2>1. g.task = t /\ g.copy = tasks[t] /\ g.role = "reviewer"
    BY DEF Loaded, IdleFrame
  <2> HIDE DEF g
  <2>2. Goto(p, "gate", g)
    BY <1>6 DEF LoadForReview, g
  <2> QED
    BY <2>1, <2>2, Arrives
<1> QED
  BY <1>1, <1>2, <1>3, <1>4, <1>5, <1>6 DEF Start

(* The step before each step of a command. *)
LEMMA ComesFrom ==
  ASSUME IInv, NEW p \in Procs, Continue(p)
  PROVE  /\ pc'[p] = "brief_save" => ListSameKind(p)
         /\ pc'[p] = "gate" => ListBriefs(p)
         /\ pc'[p] \in {"plan_generate", "run_execute", "review_generate"} =>
              PassGate(p) /\ pc'[p] = AfterGate[frame[p].role]
                /\ frame[p].role \in Roles
         /\ pc'[p] = "plan_attach" => SavePlan(p) \/ AttachBrief(p)
         /\ pc'[p] = "run_bundle" => RunnerReturns(p)
         /\ pc'[p] = "run_save" => CreateBundle(p)
         /\ pc'[p] = "fallback_save" => LoadRequest(p)
<1> USE DEF IInv
<1>1. CASE ListSameKind(p) \/ LoadRequest(p)
  BY <1>1, Arrives DEF ListSameKind, LoadRequest, Return
<1>2. CASE SaveBrief(p) \/ BlockAtGate(p) \/ RefuseReview(p)
  BY <1>2, Arrives DEF SaveBrief, BlockAtGate, RefuseReview, Return
<1>3. CASE Links(p)
  BY <1>3, LinksEnds
<1>4. CASE RunnerReturns(p)
  BY <1>4, RunnerReturnsFrame
<1>5. CASE ListBriefs(p) \/ AttachBrief(p)
  BY <1>5, ListBriefsFrame, AttachBriefFrame
<1>6. CASE SavePlan(p) \/ SaveRequest(p) \/ CreateBundle(p)
  BY <1>6, Arrives DEF SavePlan, SaveRequest, CreateBundle
<1>7. CASE SaveReview(p) \/ SaveApproval(p)
  BY <1>7, Arrives DEF SaveReview, SaveApproval
<1>8. CASE LedgerRequest(p) \/ SaveRun(p) \/ LedgerApproval(p)
             \/ SaveFallbackDecision(p) \/ LedgerFallbackDecision(p)
  BY <1>8, Arrives DEF LedgerRequest, SaveRun, LedgerApproval,
                       SaveFallbackDecision, LedgerFallbackDecision
<1>9. CASE PassGate(p)
  <2>1. frame[p].role \in Roles
    BY <1>9 DEF PassGate, FramesSound, Sound, SoundAtGate, IsPlanning,
                IsExecuting, IsReviewing, Roles
  <2>2. pc'[p] = AfterGate[frame[p].role]
    BY <1>9, Arrives DEF PassGate
  <2> QED
    BY <1>9, <2>1, <2>2 DEF AfterGate, Roles
<1> QED
  BY <1>1, <1>2, <1>3, <1>4, <1>5, <1>6, <1>7, <1>8, <1>9, ContinueKinds
     DEF GoesOn

-----------------------------------------------------------------------------
(* What a step changes of a task.                                          *)

LEMMA LinksSave ==
  ASSUME NEW p \in Procs, Links(p)
  PROVE  (\E copy : SaveTask(p, copy)) /\ UNCHANGED <<briefs, requests>>
BY DEF Links, LinkPlan, LinkRequest, LinkRun, LinkReview, LinkApproval, TouchTask,
       fallbacks

LEMMA BriefSteps ==
  ASSUME NEW p \in Procs, Continue(p)
  PROVE  UNCHANGED briefs \/ SaveBrief(p) \/ AttachBrief(p)
<1> USE DEF files
<1>1. CASE Links(p) \/ RunnerReturns(p)
  BY <1>1, LinksSave DEF RunnerReturns
<1>2. CASE GoesOn(p)
  BY <1>2 DEF GoesOn, ListSameKind, ListBriefs, SavePlan, PassGate,
              BlockAtGate, SaveRequest, LedgerRequest, CreateBundle, SaveRun,
              RefuseReview, SaveReview, SaveApproval, LedgerApproval,
              LoadRequest, SaveFallbackDecision, LedgerFallbackDecision
<1> QED
  BY <1>1, <1>2, ContinueKinds

LEMMA BriefWriters ==
  ASSUME [Next]_vars
  PROVE  UNCHANGED briefs \/ \E p \in Procs : SaveBrief(p) \/ AttachBrief(p)
<1>1. CASE UNCHANGED vars
  BY <1>1 DEF vars, files
<1> QED
  BY <1>1, BriefSteps, ReadingSteps DEF Next, CreateTask, files

LEMMA SaveBriefEffect ==
  ASSUME IInv, NEW p \in Procs, SaveBrief(p)
  PROVE  \E new \in BriefIds :
           /\ briefs[new] = None /\ briefs'[new] # None
           /\ briefs'[new].task = frame[p].task
           /\ briefs'[new].kind = frame[p].kind
           /\ \A b \in BriefIds \ {new} : briefs'[b] = briefs[b]
<1> PICK f \in Frame : f = frame[p] /\ f.task \in Tasks /\ f.kind \in Kinds
  BY DEF SaveBrief, IInv, TypeOK, FramesSound, Sound, SoundPlanning
<1> DEFINE record == [task |-> f.task, kind |-> f.kind, plan |-> f.copy.plan]
<1>1. record # None /\ record.task = f.task /\ record.kind = f.kind
  BY NullRecordAssumption DEF BriefRecord, Frame, TaskRecord
<1> HIDE DEF record
<1>2. PICK new \in BriefIds :
        briefs[new] = None /\ briefs' = [briefs EXCEPT ![new] = record]
  BY FreshIsNew DEF SaveBrief, IInv, TypeOK, record
<1> QED
  BY <1>1, <1>2 DEF IInv, TypeOK

LEMMA AttachBriefEffect ==
  ASSUME IInv, NEW p \in Procs, AttachBrief(p)
  PROVE  \E b \in frame[p].todo :
           /\ b \in BriefIds
           /\ briefs[b] # None /\ briefs[b].task = frame[p].task
           /\ briefs'[b] # None
           /\ briefs'[b].task = briefs[b].task
           /\ briefs'[b].kind = briefs[b].kind
           /\ briefs'[b].plan = frame[p].new
           /\ \A c \in BriefIds \ {b} : briefs'[c] = briefs[c]
           /\ frame'[p].todo = frame[p].todo \ {b}
<1>1. PICK b \in frame[p].todo :
        /\ briefs' = [briefs EXCEPT ![b].plan = frame[p].new]
        /\ frame'[p].todo = frame[p].todo \ {b}
  BY AttachBriefFrame
<1>2. /\ b \in BriefIds /\ briefs[b] # None
      /\ briefs[b].task = frame[p].task /\ frame[p].new \in PlanIds
  BY DEF AttachBrief, IInv, TypeOK, Frame, FramesSound, Sound, SoundPlanning,
         OfTask
<1>3. PICK brief \in BriefRecord : brief = briefs[b]
  BY <1>2 DEF IInv, TypeOK, Maybe
<1> DEFINE new == [brief EXCEPT !.plan = frame[p].new]
<1>4. /\ new \in BriefRecord
      /\ new.task = brief.task /\ new.kind = brief.kind
      /\ new.plan = frame[p].new
  BY <1>2 DEF BriefRecord, Maybe
<1>5. briefs'[b] = new /\ \A c \in BriefIds \ {b} : briefs'[c] = briefs[c]
  BY <1>1, <1>2, <1>3 DEF IInv, TypeOK
<1> HIDE DEF new
<1> QED
  BY <1>1, <1>2, <1>3, <1>4, <1>5, NullRecordAssumption

LEMMA RequestSteps ==
  ASSUME NEW p \in Procs, Continue(p)
  PROVE  UNCHANGED requests \/ SaveRequest(p) \/ SaveFallbackDecision(p)
<1> USE DEF files, fallbacks
<1>1. CASE Links(p) \/ RunnerReturns(p)
  BY <1>1, LinksSave DEF RunnerReturns
<1>2. CASE GoesOn(p)
  BY <1>2 DEF GoesOn, ListSameKind, SaveBrief, ListBriefs, SavePlan,
              AttachBrief, PassGate, BlockAtGate, LedgerRequest, CreateBundle,
              SaveRun, RefuseReview, SaveReview, SaveApproval, LedgerApproval,
              LoadRequest, LedgerFallbackDecision
<1> QED
  BY <1>1, <1>2, ContinueKinds

LEMMA RequestWriters ==
  ASSUME [Next]_vars
  PROVE  \/ UNCHANGED requests
         \/ \E p \in Procs : SaveRequest(p) \/ SaveFallbackDecision(p)
<1>1. CASE UNCHANGED vars
  BY <1>1 DEF vars, files, fallbacks
<1> QED
  BY <1>1, RequestSteps, ReadingSteps DEF Next, CreateTask, files, fallbacks

(* The records of task t stay as they are: its file, its briefs, and the   *)
(* requests made for it.                                                   *)
Untouched(t) ==
    /\ tasks'[t] = tasks[t]
    /\ BriefsOf(t)' = BriefsOf(t)
    /\ \A b \in BriefsOf(t) : briefs'[b] = briefs[b]
    /\ \A r \in RequestIds :
         requests[r] # None /\ requests[r].task = t => requests'[r] = requests[r]

LEMMA SaveRequestTouches ==
  ASSUME IInv, NEW p \in Procs, SaveRequest(p),
         NEW r \in RequestIds, requests[r] # None
  PROVE  requests'[r] = requests[r]
<1>1. FreshId(requests) \in RequestIds /\ requests[FreshId(requests)] = None
  BY FreshIsNew DEF SaveRequest, IInv, TypeOK
<1> QED
  BY <1>1 DEF SaveRequest, IInv, TypeOK

LEMMA SaveDecisionTouches ==
  ASSUME IInv, NEW p \in Procs, SaveFallbackDecision(p),
         NEW r \in RequestIds, requests[r] # None,
         requests[r].task # frame[p].task
  PROVE  requests'[r] = requests[r]
<1>1. /\ pc[p] = "fallback_save" /\ frame[p].copy.request # None
      /\ requests[frame[p].copy.request].task = frame[p].task
  BY DEF SaveFallbackDecision, IInv, FramesSound, Sound, SoundAtGate, Good, Chained
<1>2. r # frame[p].copy.request
  BY <1>1
<1> QED
  BY <1>2, SaveFallbackDecisionGrows

(* A command writes records of its own task only.                          *)
LEMMA OwnTaskOnly ==
  ASSUME IInv, NEW p \in Procs, Continue(p), NEW t \in Tasks, t # frame[p].task
  PROVE  Untouched(t)
<1>1. tasks'[t] = tasks[t]
  <2>1. UNCHANGED tasks \/ \E copy : SaveTask(p, copy)
    BY ContinueKinds, GoesOnStays, LinksSave, RunnerReturnsFrame
  <2> QED
    BY <2>1 DEF SaveTask, IInv, TypeOK
<1>2. BriefsOf(t)' = BriefsOf(t) /\ \A b \in BriefsOf(t) : briefs'[b] = briefs[b]
  <2>1. CASE SaveBrief(p)
    BY <2>1, SaveBriefEffect DEF BriefsOf
  <2>2. CASE AttachBrief(p)
    BY <2>2, AttachBriefEffect DEF BriefsOf
  <2> QED
    BY <2>1, <2>2, BriefSteps DEF BriefsOf
<1>3. \A r \in RequestIds :
        requests[r] # None /\ requests[r].task = t => requests'[r] = requests[r]
  BY RequestSteps, SaveRequestTouches, SaveDecisionTouches
<1> QED
  BY <1>1, <1>2, <1>3 DEF Untouched

LEMMA KeptUntouched ==
  ASSUME UNCHANGED files, NEW t
  PROVE  Untouched(t)
BY DEF files, fallbacks, Untouched, BriefsOf

LEMMA CreateTaskTouches ==
  ASSUME IInv, NEW u \in Tasks, CreateTask(u), NEW t \in Tasks, tasks[t] # None
  PROVE  Untouched(t)
BY DEF CreateTask, Untouched, BriefsOf, fallbacks, IInv, TypeOK

(* A command's step is a step of nobody else.                              *)
LEMMA OwnFrameOnly ==
  ASSUME IInv, NEW p \in Procs, NEW q \in Procs, p # q,
         Continue(q) \/ Start(q) \/ Raise(q) \/ Crash(q)
  PROVE  pc'[p] = pc[p] /\ frame'[p] = frame[p]
<1> SUFFICES \E s, f : Goto(q, s, f)
  BY DEF Goto, IInv, TypeOK
<1>1. CASE Start(q)
  BY <1>1 DEF Start, LoadForBrief, LoadForPlan, LoadForRun, LoadForReview,
              LoadForDecision, LoadForFallback
<1>2. CASE Raise(q) \/ Crash(q)
  BY <1>2 DEF Raise, Crash, BriefSourceMissing, PlanRaises, RunnerRaises,
              BundleRaises, ReviewRaises, Return
<1>3. CASE Links(q) \/ RunnerReturns(q)
  BY <1>3 DEF Links, LinkPlan, LinkRequest, LinkRun, LinkReview, LinkApproval,
              TouchTask, RunnerReturns, Return
<1>4. CASE ListSameKind(q) \/ SaveBrief(q) \/ ListBriefs(q) \/ SavePlan(q)
             \/ AttachBrief(q) \/ PassGate(q) \/ BlockAtGate(q)
             \/ SaveRequest(q) \/ LedgerRequest(q)
  BY <1>4 DEF ListSameKind, SaveBrief, ListBriefs, SavePlan, AttachBrief,
              PassGate, BlockAtGate, SaveRequest, LedgerRequest, Return
<1>5. CASE CreateBundle(q) \/ SaveRun(q) \/ RefuseReview(q) \/ SaveReview(q)
             \/ SaveApproval(q) \/ LedgerApproval(q) \/ LoadRequest(q)
             \/ SaveFallbackDecision(q) \/ LedgerFallbackDecision(q)
  BY <1>5 DEF CreateBundle, SaveRun, RefuseReview, SaveReview, SaveApproval,
              LedgerApproval, LoadRequest, SaveFallbackDecision,
              LedgerFallbackDecision, Return
<1> QED
  BY <1>1, <1>2, <1>3, <1>4, <1>5, ContinueKinds DEF GoesOn

(* Others leave a command and its task alone. *)
Waits(p) ==
    /\ pc'[p] = pc[p] /\ frame'[p] = frame[p]
    /\ Untouched(frame[p].task)

LEMMA StepKinds ==
  ASSUME Apart, IInv, [Next]_vars, NEW p \in Procs, pc'[p] # "idle"
  PROVE  Continue(p) \/ Start(p) \/ Waits(p)
<1>1. CASE Raise(p) \/ Crash(p)
  <2>1. Return(p)
    BY <1>1 DEF Raise, Crash, BriefSourceMissing, PlanRaises, RunnerRaises,
                BundleRaises, ReviewRaises
  <2> QED
    BY <2>1, Arrives DEF Return, IInv
<1>2. ASSUME pc[p] # "idle"
      PROVE  frame[p].task \in Tasks /\ tasks[frame[p].task] # None
  BY <1>2 DEF IInv, FramesSound, Sound
<1>3. ASSUME NEW t \in Tasks, CreateTask(t)
      PROVE  Waits(p)
  <2>1. pc'[p] = pc[p] /\ frame'[p] = frame[p]
    BY <1>3 DEF CreateTask
  <2> QED
    BY <1>2, <1>3, <2>1, CreateTaskTouches DEF Waits
<1>4. ASSUME NEW q \in Procs, p # q,
             Continue(q) \/ Start(q) \/ Raise(q) \/ Crash(q)
      PROVE  Waits(p)
  <2>1. pc'[p] = pc[p] /\ frame'[p] = frame[p]
    BY <1>4, OwnFrameOnly
  <2>2. CASE Continue(q)
    <3>1. pc[q] # "idle"
      BY <2>2, ContinueKinds, GoesOnStays, LinksEnds DEF RunnerReturns
    <3> QED
      BY <1>2, <1>4, <2>1, <2>2, <3>1, OwnTaskOnly DEF Apart, Waits
  <2>3. CASE Start(q) \/ Raise(q) \/ Crash(q)
    BY <2>1, <2>3, ReadingSteps, KeptUntouched DEF Waits
  <2> QED
    BY <1>4, <2>2, <2>3
<1>5. CASE UNCHANGED vars
  BY <1>5, KeptUntouched DEF vars, Waits
<1> QED
  BY <1>1, <1>3, <1>4, <1>5 DEF Next

-----------------------------------------------------------------------------
(* The copy a command holds is the file.                                   *)

CopyIsFile ==
    \A p \in Procs : pc[p] # "idle" => tasks[frame[p].task] = frame[p].copy

LEMMA CopyIsFileStep ==
  ASSUME Apart, IInv, CopyIsFile, [Next]_vars
  PROVE  CopyIsFile'
<1> SUFFICES ASSUME NEW p \in Procs, pc'[p] # "idle"
             PROVE  tasks'[frame'[p].task] = frame'[p].copy
  BY DEF CopyIsFile
<1>1. CASE Continue(p)
  <2>1. CASE GoesOn(p)
    BY <2>1, GoesOnStays DEF CopyIsFile, Stays
  <2>2. CASE Links(p)
    BY <2>2, LinksEnds
  <2>3. CASE RunnerReturns(p)
    <3>1. PICK copy \in TaskRecord :
            /\ frame'[p].copy = copy /\ frame'[p].task = frame[p].task
            /\ SaveTask(p, copy)
      BY <2>3, RunnerReturnsFrame
    <3>2. frame[p].task \in Tasks
      BY <2>3 DEF RunnerReturns, IInv, FramesSound, Sound
    <3> QED
      BY <3>1, <3>2 DEF SaveTask, IInv, TypeOK
  <2> QED
    BY <1>1, <2>1, <2>2, <2>3, ContinueKinds
<1>2. CASE Start(p)
  BY <1>2, Starts DEF files
<1>3. CASE Waits(p)
  BY <1>3 DEF Waits, Untouched, CopyIsFile
<1> QED
  BY <1>1, <1>2, <1>3, StepKinds

-----------------------------------------------------------------------------
(* A decided request is not decided again, and what it cleared stays so.   *)

PendingAtSave ==
    \A p \in Procs :
        pc[p] = "fallback_save" =>
            requests[frame[p].copy.request].status = "pending"

LEMMA PendingAtSaveStep ==
  ASSUME Apart, IInv, PendingAtSave, [Next]_vars
  PROVE  PendingAtSave'
<1> SUFFICES ASSUME NEW p \in Procs, pc'[p] = "fallback_save"
             PROVE  requests'[frame'[p].copy.request].status = "pending"
  BY DEF PendingAtSave
<1> USE DEF files, fallbacks
<1>1. CASE Continue(p)
  <2>1. LoadRequest(p)
    BY <1>1, ComesFrom
  <2> QED
    BY <2>1, Arrives DEF LoadRequest, GateStatus, Return, IInv
<1>2. CASE Waits(p)
  <2>1. /\ frame[p].copy.request \in RequestIds
        /\ requests[frame[p].copy.request] # None
        /\ requests[frame[p].copy.request].task = frame[p].task
    BY <1>2 DEF Waits, IInv, TypeOK, FramesSound, Sound, SoundAtGate, Good, Chained,
                Frame, TaskRecord, Maybe
  <2> QED
    BY <1>2, <2>1 DEF Waits, Untouched, PendingAtSave
<1> QED
  BY <1>1, <1>2, StepKinds, Starts

RequestsFinal ==
    \A r \in RequestIds :
        requests[r] # None /\ requests[r].status # "pending" =>
            requests'[r] = requests[r]

LEMMA RequestsFinalStep ==
  ASSUME IInv, PendingAtSave, [Next]_vars
  PROVE  RequestsFinal
<1>1. ASSUME NEW p \in Procs, SaveRequest(p)
      PROVE  RequestsFinal
  BY <1>1, FreshIsNew DEF SaveRequest, RequestsFinal, IInv, TypeOK
<1>2. ASSUME NEW p \in Procs, SaveFallbackDecision(p)
      PROVE  RequestsFinal
  <2>1. pc[p] = "fallback_save"
    BY <1>2 DEF SaveFallbackDecision
  <2> QED
    BY <1>2, <2>1, SaveFallbackDecisionGrows DEF PendingAtSave, RequestsFinal
<1> QED
  BY <1>1, <1>2, RequestWriters DEF RequestsFinal

Approved(f) == f.alt # Direct => Decided(f.task, f.role, f.alt, {"approved"})

LEMMA ApprovedStays ==
  ASSUME RequestsFinal, NEW t, NEW role, NEW alt,
         Decided(t, role, alt, {"approved"})
  PROVE  Decided(t, role, alt, {"approved"})'
BY DEF RequestsFinal, Decided

AtWork == {"plan_generate", "run_execute", "run_bundle", "run_save",
           "review_generate"}

ApprovedAtWork == \A p \in Procs : pc[p] \in AtWork => Approved(frame[p])

LEMMA SameApproved ==
  ASSUME RequestsFinal, NEW f, NEW g, Approved(f), SameRole(f, g),
         g.task = f.task
  PROVE  Approved(g)'
BY ApprovedStays DEF Approved, SameRole

LEMMA ApprovedAtWorkStep ==
  ASSUME Apart, IInv, ApprovedAtWork, RequestsFinal, [Next]_vars
  PROVE  ApprovedAtWork'
<1> SUFFICES ASSUME NEW p \in Procs, pc'[p] \in AtWork
             PROVE  Approved(frame[p])'
  BY DEF ApprovedAtWork
<1> PICK f : f = frame[p]
  OBVIOUS
<1> PICK g : g = frame'[p]
  OBVIOUS
<1> SUFFICES Approved(g)'
  BY DEF Approved
<1>1. CASE PassGate(p)
  <2>1. g = f /\ Approved(f)
    <3>1. f.alt # Direct => /\ GateMatches(p) /\ GateStatus(p) = "approved"
                            /\ f.copy.request \in RequestIds
                            /\ requests[f.copy.request] # None
      BY <1>1 DEF PassGate, GateMatches, Matches, IInv, TypeOK, FramesSound,
                  Sound, Good, Chained, Frame, TaskRecord, Maybe
    <3>2. g = f
      BY <1>1, Arrives DEF PassGate, IInv
    <3> QED
      BY <3>1, <3>2 DEF Approved, Decided, GateMatches, GateStatus, Matches
  <2> QED
    BY <2>1, SameApproved DEF SameRole
<1>2. CASE RunnerReturns(p)
  <2>1. SameRole(f, g) /\ g.task = f.task /\ Approved(f)
    BY <1>2, RunnerReturnsFrame DEF RunnerReturns, ApprovedAtWork, AtWork
  <2> QED
    BY <2>1, SameApproved
<1>3. CASE CreateBundle(p)
  <2>1. Approved(f)
    BY <1>3 DEF CreateBundle, ApprovedAtWork, AtWork
  <2>2. SameRole(f, g) /\ g.task = f.task
    BY <1>3, WithNewFrame DEF CreateBundle, WithNew, Stays
  <2> QED
    BY <2>1, <2>2, SameApproved
<1>4. CASE Waits(p)
  <2>1. g = f /\ Approved(f)
    BY <1>4 DEF Waits, ApprovedAtWork
  <2> QED
    BY <2>1, SameApproved DEF SameRole
<1> QED
  BY <1>1, <1>2, <1>3, <1>4, StepKinds, Starts, ComesFrom DEF AtWork

-----------------------------------------------------------------------------
(* Alternates are used under an approved request.                          *)

PlansApproved ==
    \A i \in PlanIds : plans[i] # None /\ plans[i].alt # Direct =>
        Decided(plans[i].task, "planner", plans[i].alt, {"approved"})

RunsApproved ==
    \A i \in RunIds : runs[i] # None /\ runs[i].alt # Direct =>
        Decided(runs[i].task, "executor", runs[i].alt, {"approved"})

ReviewsApproved ==
    \A i \in ReviewIds : reviews[i] # None /\ reviews[i].alt # Direct =>
        Decided(reviews[i].task, "reviewer", reviews[i].alt, {"approved"})

AllApproved == PlansApproved /\ RunsApproved /\ ReviewsApproved

LEMMA EvidenceWriters ==
  ASSUME [Next]_vars
  PROVE  \/ UNCHANGED <<plans, runs, reviews>>
         \/ \E p \in Procs : SavePlan(p) \/ SaveRun(p) \/ SaveReview(p)
<1> USE DEF files, evidence
<1>1. ASSUME NEW p \in Procs, Continue(p)
      PROVE  \/ UNCHANGED <<plans, runs, reviews>>
             \/ SavePlan(p) \/ SaveRun(p) \/ SaveReview(p)
  <2>1. CASE Links(p) \/ RunnerReturns(p)
    BY <2>1 DEF Links, LinkPlan, LinkRequest, LinkRun, LinkReview, LinkApproval,
                TouchTask, RunnerReturns
  <2>2. CASE GoesOn(p)
    BY <2>2 DEF GoesOn, ListSameKind, SaveBrief, ListBriefs, AttachBrief,
                PassGate, BlockAtGate, SaveRequest, LedgerRequest, CreateBundle,
                RefuseReview, SaveApproval, LedgerApproval, LoadRequest,
                SaveFallbackDecision, LedgerFallbackDecision
  <2> QED
    BY <1>1, <2>1, <2>2, ContinueKinds
<1>2. ASSUME NEW t \in Tasks, CreateTask(t)
      PROVE  UNCHANGED <<plans, runs, reviews>>
  BY <1>2 DEF CreateTask
<1>3. CASE UNCHANGED vars
  BY <1>3 DEF vars
<1> QED
  BY <1>1, <1>2, <1>3, ReadingSteps DEF Next

LEMMA AllApprovedStep ==
  ASSUME IInv, ApprovedAtWork, AllApproved, RequestsFinal, [Next]_vars
  PROVE  AllApproved'
<1>1. UNCHANGED plans => PlansApproved'
  BY ApprovedStays DEF AllApproved, PlansApproved
<1>2. UNCHANGED runs => RunsApproved'
  BY ApprovedStays DEF AllApproved, RunsApproved
<1>3. UNCHANGED reviews => ReviewsApproved'
  BY ApprovedStays DEF AllApproved, ReviewsApproved
<1>4. ASSUME NEW p \in Procs, SavePlan(p)
      PROVE  PlansApproved'
  <2> PICK f \in Frame : f = frame[p] /\ IsPlanning(f) /\ Approved(f)
    BY <1>4 DEF SavePlan, IInv, TypeOK, FramesSound, Sound, SoundPlanning,
                ApprovedAtWork, AtWork
  <2>1. PICK new \in PlanIds :
          plans' = [plans EXCEPT ![new] =
                      [task |-> f.task, alt |-> f.alt, briefs |-> f.todo]]
    BY <1>4, FreshIsNew DEF SavePlan, IInv, TypeOK
  <2>2. f.alt # Direct => Decided(f.task, "planner", f.alt, {"approved"})'
    BY ApprovedStays DEF Approved, IsPlanning
  <2> QED
    BY <2>1, <2>2, ApprovedStays DEF AllApproved, PlansApproved, IInv, TypeOK
<1>5. ASSUME NEW p \in Procs, SaveRun(p)
      PROVE  RunsApproved'
  <2> PICK f \in Frame : f = frame[p] /\ f.role = "executor" /\ Approved(f)
    BY <1>5 DEF SaveRun, IInv, TypeOK, FramesSound, Sound, SoundExecution,
                ApprovedAtWork, AtWork
  <2>1. runs' = [runs EXCEPT ![f.new] =
                   [task |-> f.task, plan |-> f.copy.plan, alt |-> f.alt]]
    BY <1>5 DEF SaveRun
  <2>2. f.alt # Direct => Decided(f.task, "executor", f.alt, {"approved"})'
    BY ApprovedStays DEF Approved
  <2> QED
    BY <2>1, <2>2, ApprovedStays DEF AllApproved, RunsApproved, IInv, TypeOK
<1>6. ASSUME NEW p \in Procs, SaveReview(p)
      PROVE  ReviewsApproved'
  <2> PICK f \in Frame : f = frame[p] /\ IsReviewing(f) /\ Approved(f)
    BY <1>6 DEF SaveReview, IInv, TypeOK, FramesSound, Sound, SoundReview,
                ApprovedAtWork, AtWork
  <2>1. PICK new \in ReviewIds :
          reviews' = [reviews EXCEPT ![new] =
                        [task |-> f.task, run |-> f.new, alt |-> f.alt]]
    BY <1>6, FreshIsNew DEF SaveReview, IInv, TypeOK
  <2>2. f.alt # Direct => Decided(f.task, "reviewer", f.alt, {"approved"})'
    BY ApprovedStays DEF Approved, IsReviewing
  <2> QED
    BY <2>1, <2>2, ApprovedStays DEF AllApproved, ReviewsApproved, IInv, TypeOK
<1>7. ASSUME NEW p \in Procs, SavePlan(p) \/ SaveRun(p) \/ SaveReview(p)
      PROVE  AllApproved'
  BY <1>1, <1>2, <1>3, <1>4, <1>5, <1>6, <1>7
     DEF AllApproved, SavePlan, SaveRun, SaveReview
<1> QED
  BY <1>1, <1>2, <1>3, <1>7, EvidenceWriters DEF AllApproved

-----------------------------------------------------------------------------
(* Briefs: at most one of each kind, and all of them in the plan.          *)

NoneOfKind ==
    \A p \in Procs :
        pc[p] = "brief_save" => SameKind(frame[p].task, frame[p].kind) = {}

LEMMA NoneOfKindStep ==
  ASSUME Apart, IInv, NoneOfKind, [Next]_vars
  PROVE  NoneOfKind'
<1> SUFFICES ASSUME NEW p \in Procs, pc'[p] = "brief_save"
             PROVE  SameKind(frame[p].task, frame[p].kind)' = {}
  BY DEF NoneOfKind
<1> USE DEF files, SameKind, BriefsOf
<1>1. CASE Continue(p)
  <2>1. ListSameKind(p)
    BY <1>1, ComesFrom
  <2> QED
    BY <2>1, Arrives DEF ListSameKind, Return, IInv
<1>2. CASE Waits(p)
  BY <1>2 DEF Waits, Untouched, NoneOfKind
<1> QED
  BY <1>1, <1>2, StepKinds, Starts

LEMMA OneBriefPerKindStep ==
  ASSUME IInv, NoneOfKind, OneBriefPerKind, [Next]_vars
  PROVE  OneBriefPerKind'
<1>1. ASSUME NEW p \in Procs, SaveBrief(p)
      PROVE  OneBriefPerKind'
  <2>1. SameKind(frame[p].task, frame[p].kind) = {}
    BY <1>1 DEF NoneOfKind, SaveBrief
  <2> QED
    BY <1>1, <2>1, SaveBriefEffect DEF OneBriefPerKind, SameKind, BriefsOf
<1>2. ASSUME NEW p \in Procs, AttachBrief(p)
      PROVE  OneBriefPerKind'
  BY <1>2, AttachBriefEffect DEF OneBriefPerKind
<1> QED
  BY <1>1, <1>2, BriefWriters DEF OneBriefPerKind

(* The list a planning command works from is still complete. *)
ListedBriefs ==
    \A p \in Procs :
        (pc[p] = "gate" /\ frame[p].role = "planner") \/ pc[p] = "plan_generate" =>
            frame[p].todo = BriefsOf(frame[p].task)

LEMMA ListedBriefsStep ==
  ASSUME Apart, IInv, ListedBriefs, [Next]_vars
  PROVE  ListedBriefs'
<1> SUFFICES ASSUME NEW p \in Procs,
                    \/ pc'[p] = "plan_generate"
                    \/ pc'[p] = "gate" /\ frame'[p].role = "planner"
             PROVE  frame'[p].todo = BriefsOf(frame[p].task)'
  BY DEF ListedBriefs
<1> USE DEF files, BriefsOf
<1>1. CASE Continue(p)
  <2>1. CASE ListBriefs(p)
    BY <2>1, ListBriefsFrame DEF ListBriefs, Stays
  <2>2. CASE PassGate(p) /\ AfterGate[frame[p].role] = "plan_generate"
               /\ frame[p].role \in Roles
    <3>1. frame[p].role = "planner"
      BY <2>2 DEF AfterGate, Roles
    <3> QED
      BY <2>2, <3>1, Arrives DEF PassGate, ListedBriefs, IInv
  <2> QED
    BY <1>1, <2>1, <2>2, ComesFrom
<1>2. CASE Waits(p)
  <2>1. frame[p].todo = BriefsOf(frame[p].task)
    BY <1>2 DEF Waits, ListedBriefs
  <2> QED
    BY <1>2, <2>1 DEF Waits, Untouched
<1> QED
  BY <1>1, <1>2, StepKinds, Starts

Attached(f) ==
    /\ plans[f.new].briefs = BriefsOf(f.task)
    /\ \A b \in BriefsOf(f.task) \ f.todo : briefs[b].plan = f.new

AttachedBriefs ==
    \A p \in Procs : pc[p] = "plan_attach" => Attached(frame[p])

LEMMA AttachedBriefsStep ==
  ASSUME Apart, IInv, ListedBriefs, AttachedBriefs, [Next]_vars
  PROVE  AttachedBriefs'
<1> SUFFICES ASSUME NEW p \in Procs, pc'[p] = "plan_attach"
             PROVE  Attached(frame[p])'
  BY DEF AttachedBriefs
<1> PICK f \in Frame : f = frame[p]
  BY DEF IInv, TypeOK
<1>1. CASE SavePlan(p)
  <2> PICK new \in PlanIds :
        /\ plans' = [plans EXCEPT ![new] =
                       [task |-> f.task, alt |-> f.alt, briefs |-> f.todo]]
        /\ Goto(p, "plan_attach", [f EXCEPT !.new = new])
    BY <1>1, FreshIsNew DEF SavePlan, IInv, TypeOK
  <2> DEFINE g == [f EXCEPT !.new = new]
  <2>1. g.task = f.task /\ g.todo = f.todo /\ g.new = new
    BY DEF Frame
  <2> HIDE DEF g
  <2>2. Goto(p, "plan_attach", g)
    BY DEF g
  <2>3. frame'[p] = g
    BY <2>2, Arrives DEF IInv
  <2>4. plans'[new].briefs = f.todo
    BY DEF IInv, TypeOK
  <2>5. f.todo = BriefsOf(f.task) /\ UNCHANGED briefs
    BY <1>1 DEF SavePlan, ListedBriefs
  <2>6. BriefsOf(f.task)' = BriefsOf(f.task)
    BY <2>5 DEF BriefsOf
  <2> QED
    BY <2>1, <2>3, <2>4, <2>5, <2>6 DEF Attached, BriefsOf
<1>2. CASE AttachBrief(p)
  <2>1. Attached(f) /\ UNCHANGED plans
    BY <1>2 DEF AttachBrief, AttachedBriefs, evidence
  <2>2. /\ frame'[p].new = f.new /\ frame'[p].task = f.task
    BY <1>2, AttachBriefFrame DEF Stays
  <2> QED
    BY <1>2, <2>1, <2>2, AttachBriefEffect DEF Attached, BriefsOf
<1>3. CASE Waits(p)
  <2>1. pc[p] = "plan_attach" /\ frame'[p] = f /\ Untouched(f.task) /\ Attached(f)
    BY <1>3 DEF Waits, AttachedBriefs
  <2>2. f.new \in PlanIds /\ plans[f.new] # None
    BY <2>1 DEF IInv, FramesSound, Sound, SoundPlanning
  <2>3. plans'[f.new] = plans[f.new]
    BY <2>2, GrowStep DEF Grow, Kept, IInv, TypeOK
  <2> QED
    BY <2>1, <2>3 DEF Attached, Untouched
<1> QED
  BY <1>1, <1>2, <1>3, StepKinds, Starts, ComesFrom

-----------------------------------------------------------------------------
(* Task files: what each write changes, the copy being the file.           *)

(* Task t moves from one state to another and keeps its plan, if it had    *)
(* one; the other tasks stay as they are.                                  *)
Moves(t, from, to) ==
    /\ t \in Tasks /\ tasks[t] # None /\ tasks[t].state = from
    /\ \E copy \in TaskRecord :
         /\ tasks' = [tasks EXCEPT ![t] = copy]
         /\ copy.state = to
         /\ from # "created" \/ to = from => copy.plan = tasks[t].plan

LEMMA TaskMoves ==
  ASSUME IInv, CopyIsFile, NEW p \in Procs
  PROVE  /\ RunnerReturns(p) => Moves(frame[p].task, "planned", "running")
         /\ LinkPlan(p) => Moves(frame[p].task, "created", "planned")
         /\ LinkRun(p) => Moves(frame[p].task, "running", "review_pending")
         /\ LinkReview(p) =>
              Moves(frame[p].task, "review_pending", "awaiting_approval")
         /\ LinkApproval(p) =>
              Moves(frame[p].task, "awaiting_approval", frame[p].decision)
         /\ LinkRequest(p) \/ TouchTask(p) =>
              Moves(frame[p].task, frame[p].copy.state, frame[p].copy.state)
<1> PICK s \in Steps, f \in Frame : s = pc[p] /\ f = frame[p] /\ Sound(s, f)
  BY FrameOf
<1> PICK copy \in TaskRecord : copy = f.copy
  BY DEF Frame
<1>1. s # "idle" => /\ f.task \in Tasks
                    /\ tasks[f.task] = copy /\ tasks[f.task] # None
  BY DEF Sound, CopyIsFile
<1>2. ASSUME RunnerReturns(p)
      PROVE  Moves(f.task, "planned", "running")
  <2> DEFINE new == [copy EXCEPT !.state = "running"]
  <2>1. new \in TaskRecord /\ new.state = "running" /\ new.plan = copy.plan
    BY EditedCopy DEF TaskRecord
  <2>2. tasks' = [tasks EXCEPT ![f.task] = new] /\ copy.state = "planned"
    BY <1>2 DEF RunnerReturns, SaveTask, Sound, SoundExecution, IsExecuting
  <2> HIDE DEF new
  <2> QED
    BY <1>1, <1>2, <2>1, <2>2 DEF Moves, RunnerReturns
<1>3. ASSUME LinkPlan(p)
      PROVE  Moves(f.task, "created", "planned")
  <2> DEFINE new == [copy EXCEPT !.state = "planned", !.plan = f.new]
  <2>1. f.new \in PlanIds /\ copy.state = "created"
    BY <1>3 DEF LinkPlan, Sound, SoundPlanning
  <2>2. new \in TaskRecord /\ new.state = "planned"
    BY <2>1, EditedCopy DEF TaskRecord
  <2>3. tasks' = [tasks EXCEPT ![f.task] = new]
    BY <1>3 DEF LinkPlan, SaveTask
  <2> HIDE DEF new
  <2> QED
    BY <1>1, <1>3, <2>1, <2>2, <2>3 DEF Moves, LinkPlan
<1>4. ASSUME LinkRun(p)
      PROVE  Moves(f.task, "running", "review_pending")
  <2> DEFINE new == [copy EXCEPT !.state = "review_pending", !.run = f.new]
  <2>1. f.new \in RunIds /\ copy.state = "running"
    BY <1>4 DEF LinkRun, Sound, SoundExecution, IInv, TypeOK
  <2>2. /\ new \in TaskRecord
        /\ new.state = "review_pending" /\ new.plan = copy.plan
    BY <2>1, EditedCopy DEF TaskRecord
  <2>3. tasks' = [tasks EXCEPT ![f.task] = new]
    BY <1>4 DEF LinkRun, SaveTask
  <2> HIDE DEF new
  <2> QED
    BY <1>1, <1>4, <2>1, <2>2, <2>3 DEF Moves, LinkRun
<1>5. ASSUME LinkReview(p)
      PROVE  Moves(f.task, "review_pending", "awaiting_approval")
  <2> DEFINE new == [copy EXCEPT !.state = "awaiting_approval", !.review = f.new]
  <2>1. f.new \in ReviewIds /\ copy.state = "review_pending"
    BY <1>5 DEF LinkReview, Sound, SoundReview, Reviewable
  <2>2. /\ new \in TaskRecord
        /\ new.state = "awaiting_approval" /\ new.plan = copy.plan
    BY <2>1, EditedCopy DEF TaskRecord
  <2>3. tasks' = [tasks EXCEPT ![f.task] = new]
    BY <1>5 DEF LinkReview, SaveTask
  <2> HIDE DEF new
  <2> QED
    BY <1>1, <1>5, <2>1, <2>2, <2>3 DEF Moves, LinkReview
<1>6. ASSUME LinkApproval(p)
      PROVE  Moves(f.task, "awaiting_approval", f.decision)
  <2> DEFINE new == [copy EXCEPT !.state = f.decision, !.approval = f.new]
  <2>1. /\ f.new \in ApprovalIds /\ f.decision \in Decisions
        /\ copy.state = "awaiting_approval"
    BY <1>6 DEF LinkApproval, Sound, SoundReview
  <2>2. /\ new \in TaskRecord
        /\ new.state = f.decision /\ new.plan = copy.plan
    BY <2>1, EditedCopy DEF TaskRecord
  <2>3. tasks' = [tasks EXCEPT ![f.task] = new]
    BY <1>6 DEF LinkApproval, SaveTask
  <2> HIDE DEF new
  <2> QED
    BY <1>1, <1>6, <2>1, <2>2, <2>3 DEF Moves, LinkApproval
<1>7. ASSUME LinkRequest(p)
      PROVE  Moves(f.task, copy.state, copy.state)
  <2> DEFINE new == [copy EXCEPT !.request = f.new]
  <2>1. f.new \in RequestIds
    BY <1>7 DEF LinkRequest, Sound, SoundAtGate
  <2>2. new \in TaskRecord /\ new.state = copy.state /\ new.plan = copy.plan
    BY <2>1, EditedCopy DEF TaskRecord
  <2>3. tasks' = [tasks EXCEPT ![f.task] = new]
    BY <1>7 DEF LinkRequest, SaveTask
  <2> HIDE DEF new
  <2> QED
    BY <1>1, <1>7, <2>1, <2>2, <2>3 DEF Moves, LinkRequest
<1>8. ASSUME TouchTask(p)
      PROVE  Moves(f.task, copy.state, copy.state)
  <2>1. tasks' = [tasks EXCEPT ![f.task] = copy]
    BY <1>8 DEF TouchTask, SaveTask
  <2> QED
    BY <1>1, <1>8, <2>1 DEF Moves, TouchTask
<1> QED
  BY <1>2, <1>3, <1>4, <1>5, <1>6, <1>7, <1>8

LEMMA TaskWriters ==
  ASSUME IInv, [Next]_vars
  PROVE  \/ UNCHANGED tasks
         \/ \E t \in Tasks : CreateTask(t)
         \/ \E p \in Procs : Links(p) \/ RunnerReturns(p)
<1>1. ASSUME NEW p \in Procs, Continue(p)
      PROVE  UNCHANGED tasks \/ Links(p) \/ RunnerReturns(p)
  BY <1>1, ContinueKinds, GoesOnStays
<1>2. CASE UNCHANGED vars
  BY <1>2 DEF vars, files
<1> QED
  BY <1>1, <1>2, ReadingSteps DEF Next, files

LEMMA PlanWriters ==
  ASSUME IInv, CopyIsFile, [Next]_vars,
         NEW t \in Tasks, tasks'[t] # None, tasks'[t].plan # None
  PROVE  \/ tasks[t] # None /\ tasks'[t].plan = tasks[t].plan
         \/ \E p \in Procs : LinkPlan(p) /\ frame[p].task = t
<1>1. ASSUME NEW u \in Tasks, CreateTask(u)
      PROVE  tasks[t] # None /\ tasks'[t].plan = tasks[t].plan
  BY <1>1 DEF CreateTask, NewTask, IInv, TypeOK
<1>2. ASSUME NEW u, NEW from, NEW to, Moves(u, from, to),
             from # "created" \/ to = from \/ u # t
      PROVE  tasks[t] # None /\ tasks'[t].plan = tasks[t].plan
  BY <1>2 DEF Moves, IInv, TypeOK
<1>3. ASSUME NEW p \in Procs, RunnerReturns(p) \/ LinkRun(p) \/ LinkReview(p)
                                 \/ LinkApproval(p)
      PROVE  tasks[t] # None /\ tasks'[t].plan = tasks[t].plan
  BY <1>2, <1>3, TaskMoves
<1>4. ASSUME NEW p \in Procs, LinkRequest(p) \/ TouchTask(p)
      PROVE  tasks[t] # None /\ tasks'[t].plan = tasks[t].plan
  BY <1>2, <1>4, TaskMoves
<1>5. ASSUME NEW p \in Procs, LinkPlan(p), frame[p].task # t
      PROVE  tasks[t] # None /\ tasks'[t].plan = tasks[t].plan
  BY <1>2, <1>5, TaskMoves
<1> QED
  BY <1>1, <1>3, <1>4, <1>5, TaskWriters DEF Links

(* The briefs of a planned task are left alone. *)
LEMMA BriefsUntouched ==
  ASSUME IInv, CopyIsFile, [Next]_vars,
         NEW t \in Tasks, tasks[t] # None, tasks[t].plan # None
  PROVE  /\ BriefsOf(t)' = BriefsOf(t)
         /\ \A b \in BriefsOf(t) : briefs'[b] = briefs[b]
<1>1. ASSUME NEW p \in Procs, SaveBrief(p) \/ AttachBrief(p)
      PROVE  frame[p].task # t
  <2>1. frame[p].copy.plan = None /\ tasks[frame[p].task] = frame[p].copy
    BY <1>1 DEF SaveBrief, AttachBrief, IInv, FramesSound, Sound, SoundPlanning,
                Good, Shaped, CopyIsFile
  <2> QED
    BY <2>1
<1>2. ASSUME NEW p \in Procs, SaveBrief(p)
      PROVE  /\ BriefsOf(t)' = BriefsOf(t)
             /\ \A b \in BriefsOf(t) : briefs'[b] = briefs[b]
  BY <1>1, <1>2, SaveBriefEffect DEF BriefsOf
<1>3. ASSUME NEW p \in Procs, AttachBrief(p)
      PROVE  /\ BriefsOf(t)' = BriefsOf(t)
             /\ \A b \in BriefsOf(t) : briefs'[b] = briefs[b]
  BY <1>1, <1>3, AttachBriefEffect DEF BriefsOf
<1> QED
  BY <1>2, <1>3, BriefWriters DEF BriefsOf

LEMMA PlanSnapshotsStep ==
  ASSUME IInv, CopyIsFile, AttachedBriefs, PlanSnapshotsBriefs, [Next]_vars
  PROVE  PlanSnapshotsBriefs'
<1> SUFFICES ASSUME NEW t \in Tasks, tasks'[t] # None, tasks'[t].plan # None
             PROVE  /\ BriefsOf(t)' = plans'[tasks'[t].plan].briefs
                    /\ \A b \in BriefsOf(t)' : briefs'[b].plan = tasks'[t].plan
  BY DEF PlanSnapshotsBriefs
<1>1. CASE tasks[t] # None /\ tasks'[t].plan = tasks[t].plan
  <2>1. plans'[tasks[t].plan] = plans[tasks[t].plan]
    <3>1. tasks[t].plan \in PlanIds /\ plans[tasks[t].plan] # None
      BY <1>1 DEF IInv, TasksGood, Good, Chained, TypeOK, TaskRecord, Maybe
    <3> QED
      BY <3>1, GrowStep DEF Grow, Kept, IInv, TypeOK
  <2> QED
    BY <1>1, <2>1, BriefsUntouched DEF PlanSnapshotsBriefs
<1>2. ASSUME NEW p \in Procs, LinkPlan(p), frame[p].task = t
      PROVE  /\ BriefsOf(t)' = plans'[tasks'[t].plan].briefs
             /\ \A b \in BriefsOf(t)' : briefs'[b].plan = tasks'[t].plan
  <2>1. Attached(frame[p]) /\ frame[p].todo = {} /\ UNCHANGED <<briefs, plans>>
    BY <1>2 DEF LinkPlan, AttachedBriefs, evidence
  <2>2. tasks'[t].plan = frame[p].new
    <3> PICK f \in Frame : f = frame[p]
      BY DEF IInv, TypeOK
    <3> PICK copy \in TaskRecord : copy = f.copy
      BY DEF Frame
    <3> DEFINE new == [copy EXCEPT !.state = "planned", !.plan = f.new]
    <3>1. new.plan = f.new
      BY DEF TaskRecord
    <3> HIDE DEF new
    <3>2. tasks' = [tasks EXCEPT ![t] = new]
      BY <1>2 DEF LinkPlan, SaveTask, new
    <3> QED
      BY <3>1, <3>2 DEF IInv, TypeOK
  <2> QED
    BY <1>2, <2>1, <2>2 DEF Attached, BriefsOf
<1> QED
  BY <1>1, <1>2, PlanWriters

-----------------------------------------------------------------------------
(* The abstract lifecycle. *)

(* A line of the approval ledger comes after its approval. *)
LedgerKnown == \A a \in approvalLedger : approvals[a] # None

LEMMA LedgerWriters ==
  ASSUME [Next]_vars
  PROVE  UNCHANGED approvalLedger \/ \E p \in Procs : LedgerApproval(p)
<1> USE DEF files, decisions
<1>1. ASSUME NEW p \in Procs, Continue(p)
      PROVE  UNCHANGED approvalLedger \/ LedgerApproval(p)
  <2>1. CASE Links(p) \/ RunnerReturns(p)
    BY <2>1 DEF Links, LinkPlan, LinkRequest, LinkRun, LinkReview, LinkApproval,
                TouchTask, RunnerReturns
  <2>2. CASE GoesOn(p)
    BY <2>2 DEF GoesOn, ListSameKind, SaveBrief, ListBriefs, SavePlan,
                AttachBrief, PassGate, BlockAtGate, SaveRequest, LedgerRequest,
                CreateBundle, SaveRun, RefuseReview, SaveReview, SaveApproval,
                LoadRequest, SaveFallbackDecision, LedgerFallbackDecision
  <2> QED
    BY <1>1, <2>1, <2>2, ContinueKinds
<1>2. ASSUME NEW t \in Tasks, CreateTask(t)
      PROVE  UNCHANGED approvalLedger
  BY <1>2 DEF CreateTask
<1>3. CASE UNCHANGED vars
  BY <1>3 DEF vars
<1> QED
  BY <1>1, <1>2, <1>3, ReadingSteps DEF Next

(* An approval about to be ledgered, or just ledgered. *)
LEMMA LedgeredFrame ==
  ASSUME IInv, CopyIsFile, NEW p \in Procs,
         pc[p] \in {"approval_ledger", "approval_link"}
  PROVE  /\ frame[p].task \in Tasks
         /\ tasks[frame[p].task] # None
         /\ tasks[frame[p].task].state = "awaiting_approval"
         /\ frame[p].decision \in Decisions
         /\ frame[p].new \in ApprovalIds
         /\ approvals[frame[p].new] # None
         /\ approvals[frame[p].new].task = frame[p].task
         /\ approvals[frame[p].new].decision = frame[p].decision
BY DEF IInv, FramesSound, Sound, SoundReview, CopyIsFile

LEMMA LedgerKnownStep ==
  ASSUME IInv, CopyIsFile, LedgerKnown, [Next]_vars
  PROVE  LedgerKnown'
<1>1. ASSUME NEW p \in Procs, LedgerApproval(p)
      PROVE  LedgerKnown'
  <2>1. approvals[frame[p].new] # None
    BY <1>1, LedgeredFrame DEF LedgerApproval
  <2> QED
    BY <1>1, <2>1 DEF LedgerApproval, LedgerKnown
<1>2. CASE UNCHANGED approvalLedger
  BY <1>2, GrowStep DEF LedgerKnown, Grow, Kept, IInv, TypeOK
<1> QED
  BY <1>1, <1>2, LedgerWriters

LEMMA SameVerdicts ==
  ASSUME IInv, LedgerKnown, Grow, UNCHANGED approvalLedger
  PROVE  UNCHANGED Verdicts
<1>1. \A a \in approvalLedger : approvals'[a] = approvals[a]
  BY DEF LedgerKnown, Grow, Kept, IInv, TypeOK
<1> QED
  BY <1>1 DEF Verdicts

LEMMA LedgerApprovalDecides ==
  ASSUME IInv, CopyIsFile, NEW p \in Procs, LedgerApproval(p)
  PROVE  L!Decide(frame[p].task, frame[p].decision)
<1> PICK t \in Tasks, a \in ApprovalIds, d \in Decisions :
      /\ t = frame[p].task /\ a = frame[p].new /\ d = frame[p].decision
      /\ tasks[t] # None /\ tasks[t].state = "awaiting_approval"
      /\ approvals[a].task = t /\ approvals[a].decision = d
  BY LedgeredFrame DEF LedgerApproval
<1>1. approvalLedger' = approvalLedger \cup {a} /\ UNCHANGED <<tasks, approvals>>
  BY DEF LedgerApproval
<1>2. Stage' = Stage /\ Stage[t] = "awaiting_approval"
  BY <1>1 DEF Stage
<1>3. Verdicts' = [Verdicts EXCEPT ![t] = @ \cup {d}]
  <2>1. Verdicts'[t] = Verdicts[t] \cup {d}
    BY <1>1 DEF Verdicts
  <2>2. \A u \in Tasks \ {t} : Verdicts'[u] = Verdicts[u]
    BY <1>1 DEF Verdicts
  <2> QED
    BY <2>1, <2>2 DEF Verdicts
<1> QED
  BY <1>2, <1>3 DEF L!Decide

LEMMA StageMoves ==
  ASSUME IInv, NEW t, NEW from, NEW to, Moves(t, from, to)
  PROVE  /\ t \in Tasks /\ Stage[t] = from
         /\ Stage' = [Stage EXCEPT ![t] = to]
BY NullRecordAssumption DEF Moves, Stage, IInv, TypeOK

LEMMA AbstractStep ==
  ASSUME IInv, CopyIsFile, LedgerKnown, [Next]_vars
  PROVE  [L!Next]_<<Stage, Verdicts>>
<1>1. UNCHANGED approvalLedger => UNCHANGED Verdicts
  BY SameVerdicts, GrowStep
<1>2. ASSUME NEW p \in Procs, LedgerApproval(p)
      PROVE  L!Next
  BY <1>2, LedgerApprovalDecides, LedgeredFrame
     DEF LedgerApproval, L!Next, Decisions
<1>3. ASSUME NEW t \in Tasks, CreateTask(t), UNCHANGED Verdicts
      PROVE  L!Next
  <2>1. NewTask # None /\ NewTask.state = "created"
    BY NullRecordAssumption DEF NewTask, TaskRecord, TaskStates, Maybe
  <2>2. tasks[t] = None /\ tasks' = [tasks EXCEPT ![t] = NewTask]
    BY <1>3 DEF CreateTask
  <2>3. Stage[t] = "none" /\ Stage' = [Stage EXCEPT ![t] = "created"]
    BY <2>1, <2>2 DEF Stage, IInv, TypeOK
  <2>4. L!Advance(t)
    BY <1>3, <2>3 DEF L!Advance, L!Successor
  <2> QED
    BY <2>4 DEF L!Next
<1>4. ASSUME NEW p \in Procs, UNCHANGED Verdicts,
             RunnerReturns(p) \/ LinkPlan(p) \/ LinkRun(p) \/ LinkReview(p)
      PROVE  L!Next
  <2>1. PICK t, from, to : Moves(t, from, to) /\ <<from, to>> \in
          {<<"created", "planned">>, <<"planned", "running">>,
           <<"running", "review_pending">>,
           <<"review_pending", "awaiting_approval">>}
    BY <1>4, TaskMoves
  <2>2. t \in Tasks /\ Stage[t] = from /\ Stage' = [Stage EXCEPT ![t] = to]
    BY <2>1, StageMoves
  <2>3. from \in DOMAIN L!Successor /\ to = L!Successor[from]
    BY <2>1 DEF L!Successor
  <2>4. L!Advance(t)
    BY <1>4, <2>2, <2>3 DEF L!Advance
  <2> QED
    BY <2>2, <2>4 DEF L!Next
<1>5. ASSUME NEW p \in Procs, UNCHANGED Verdicts, LinkApproval(p)
      PROVE  L!Next
  <2> PICK t, d : t = frame[p].task /\ d = frame[p].decision
    OBVIOUS
  <2>1. /\ t \in Tasks /\ Stage[t] = "awaiting_approval"
        /\ Stage' = [Stage EXCEPT ![t] = d]
    BY <1>5, TaskMoves, StageMoves
  <2>2. d \in {"approved", "rejected"} /\ d \in Verdicts[t]
    <3>1. frame[p].new \in approvalLedger
      BY <1>5 DEF LinkApproval, IInv, FramesSound, Sound, SoundReview
    <3> QED
      BY <1>5, <2>1, <3>1, LedgeredFrame DEF LinkApproval, Verdicts, Decisions
  <2> QED
    BY <1>5, <2>1, <2>2 DEF L!Next, L!Close
<1>6. ASSUME NEW p \in Procs, LinkRequest(p) \/ TouchTask(p)
      PROVE  UNCHANGED Stage
  <2>1. PICK t, s : Moves(t, s, s)
    BY <1>6, TaskMoves
  <2> QED
    BY <2>1, NullRecordAssumption DEF Moves, Stage, IInv, TypeOK
<1>7. UNCHANGED tasks => UNCHANGED Stage
  BY DEF Stage
<1> QED
  BY <1>1, <1>2, <1>3, <1>4, <1>5, <1>6, <1>7, TaskWriters, LedgerWriters
     DEF Links

-----------------------------------------------------------------------------
(* The theorems. *)

SInv == /\ CopyIsFile /\ PendingAtSave
        /\ ApprovedAtWork /\ AllApproved
        /\ NoneOfKind /\ OneBriefPerKind
        /\ ListedBriefs /\ AttachedBriefs /\ PlanSnapshotsBriefs
        /\ LedgerKnown

LEMMA InitSInv == Init => SInv
BY DEF Init, StoreInit, SInv, CopyIsFile, PendingAtSave, ApprovedAtWork, AtWork,
       AllApproved, PlansApproved, RunsApproved, ReviewsApproved, NoneOfKind,
       OneBriefPerKind, ListedBriefs, AttachedBriefs, PlanSnapshotsBriefs,
       LedgerKnown

LEMMA SInvStep ==
  ASSUME Apart, IInv, SInv, [Next]_vars
  PROVE  SInv'
<1> USE DEF SInv
<1>1. RequestsFinal
  BY RequestsFinalStep
<1>2. CopyIsFile' /\ PendingAtSave' /\ LedgerKnown'
  BY CopyIsFileStep, PendingAtSaveStep, LedgerKnownStep
<1>3. ApprovedAtWork' /\ AllApproved'
  BY <1>1, ApprovedAtWorkStep, AllApprovedStep
<1>4. NoneOfKind' /\ OneBriefPerKind'
  BY NoneOfKindStep, OneBriefPerKindStep
<1>5. ListedBriefs' /\ AttachedBriefs' /\ PlanSnapshotsBriefs'
  BY ListedBriefsStep, AttachedBriefsStep, PlanSnapshotsStep
<1> QED
  BY <1>2, <1>3, <1>4, <1>5

(* While no two commands work on the same task, wherever they die: the     *)
(* invariant above.                                                        *)
THEOREM SerialInvariance == Spec /\ []Apart => []SInv
<1>1. IInv /\ Apart /\ SInv /\ [Next]_vars => SInv'
  BY SInvStep
<1> QED
  BY InitSInv, <1>1, Invariance, PTL DEF Spec

(* One process, in the shell or command after command, is serial use.      *)
THEOREM OneAtATime ==
  ASSUME \A p, q \in Procs : p = q
  PROVE  Spec => []SInv
<1>1. Apart
  BY DEF Apart
<1> QED
  BY <1>1, SerialInvariance, PTL

(* The fallback gate in full: every alternate in a plan, a run or a review *)
(* was and stays approved for that task and role.                          *)
THEOREM FallbacksAreApproved == Spec /\ []Apart => []FallbackApproved
<1>1. IInv /\ SInv => FallbackApproved
  BY DEF IInv, TypeOK, SInv, AllApproved, PlansApproved, RunsApproved,
         ReviewsApproved, FallbackApproved, AlternatesUsed
<1> QED
  BY <1>1, Invariance, SerialInvariance, PTL

(* approve-fallback and reject-fallback never change a decided request.    *)
THEOREM DecisionsAreFinal == Spec /\ []Apart => DecidedRequestsFinal
<1>1. IInv /\ SInv /\ [Next]_vars =>
        [\A r \in RequestIds :
           requests[r] # None /\ requests[r].status # "pending" =>
               requests'[r] = requests[r]]_vars
  BY RequestsFinalStep DEF SInv, RequestsFinal
<1> QED
  BY <1>1, Invariance, SerialInvariance, PTL DEF Spec, DecidedRequestsFinal

(* create_brief never makes a second brief of a kind for a task.           *)
THEOREM BriefKindsAreUnique == Spec /\ []Apart => []OneBriefPerKind
<1>1. SInv => OneBriefPerKind
  BY DEF SInv
<1> QED
  BY <1>1, SerialInvariance, PTL

(* The briefs of a planned task are the ones in its plan's snapshot, all   *)
(* attached to that plan, also when earlier planning commands died.        *)
THEOREM PlansHaveAllBriefs == Spec /\ []Apart => []PlanSnapshotsBriefs
<1>1. SInv => PlanSnapshotsBriefs
  BY DEF SInv
<1> QED
  BY <1>1, SerialInvariance, PTL

(* Serial use of tasks implements the abstract lifecycle: every step       *)
(* advances one task along ALLOWED_TRANSITIONS, puts a decision into the   *)
(* ledger, closes a task by a decision that is there, or changes neither.  *)
THEOREM ImplementsLifecycle == Spec /\ []Apart => LifecycleSpec
<1>1. Init => L!Init
  BY DEF Init, StoreInit, L!Init, Stage, Verdicts
<1>2. IInv /\ SInv /\ [Next]_vars => [L!Next]_<<Stage, Verdicts>>
  BY AbstractStep DEF SInv
<1> QED
  BY <1>1, <1>2, Invariance, SerialInvariance, PTL
     DEF Spec, LifecycleSpec, L!Spec, L!lifecycle

LEMMA FinalStateStep ==
  ASSUME IInv, CopyIsFile, [Next]_vars,
         NEW t \in Tasks, tasks[t] # None, tasks[t].state \in Terminal
  PROVE  tasks'[t].state = tasks[t].state
<1>1. ASSUME NEW u, NEW from, NEW to, Moves(u, from, to),
             from \notin Terminal \/ to = from
      PROVE  tasks'[t].state = tasks[t].state
  <2> PICK copy \in TaskRecord : tasks' = [tasks EXCEPT ![u] = copy] /\ copy.state = to
    BY <1>1 DEF Moves
  <2>1. u = t => from = tasks[t].state
    BY <1>1 DEF Moves
  <2> QED
    BY <1>1, <2>1 DEF IInv, TypeOK
<1>2. ASSUME NEW p \in Procs, Links(p) \/ RunnerReturns(p)
      PROVE  tasks'[t].state = tasks[t].state
  BY <1>1, <1>2, TaskMoves DEF Links, Terminal
<1>3. ASSUME NEW u \in Tasks, CreateTask(u)
      PROVE  tasks'[t].state = tasks[t].state
  BY <1>3 DEF CreateTask, IInv, TypeOK
<1> QED
  BY <1>2, <1>3, TaskWriters

(* Where overlapping commands may take an approved task back to running    *)
(* (FinalStateIsFinal is violated for Spec alone), in serial use of tasks  *)
(* a decided task stays decided.                                           *)
THEOREM FinalStatesAreFinal == Spec /\ []Apart => FinalStateIsFinal
<1>1. IInv /\ SInv /\ [Next]_vars =>
        [\A t \in Tasks : tasks[t] # None /\ tasks[t].state \in Terminal =>
           tasks'[t].state = tasks[t].state]_vars
  BY FinalStateStep DEF SInv
<1> QED
  BY <1>1, Invariance, SerialInvariance, PTL DEF Spec, FinalStateIsFinal
=============================================================================
