---------------------------- MODULE LedgerProofs ----------------------------
(***************************************************************************)
(* The fallback ledger keeps up with the requests, for any number of       *)
(* processes.  A request is saved before its line is written, and two      *)
(* commands may decide it at once; what orders them is that nobody can     *)
(* decide a request before a task points at it, and that a task does so    *)
(* only when the request has its first line.                               *)
(***************************************************************************)
EXTENDS PatchrailProofs, FiniteSetTheorems

(* Request r has the line of its creation. *)
Opened(r) == [request |-> r, status |-> "pending"] \in fallbackLedger

PointerOpened(task) == task.request # None => Opened(task.request)

TasksOpened == \A t \in Tasks : tasks[t] # None => PointerOpened(tasks[t])
CopiesOpened == \A p \in Procs : pc[p] # "idle" => PointerOpened(frame[p].copy)

LinesOfRequests == \A line \in fallbackLedger : requests[line.request] # None

(* Between a new request and its line there is one command. *)
Opening ==
    \A p \in Procs :
        /\ pc[p] = "request_ledger" =>
             /\ ~Opened(frame[p].new)
             /\ \A q \in Procs :
                  pc[q] = "request_ledger" /\ frame[q].new = frame[p].new => q = p
        /\ pc[p] = "request_link" => Opened(frame[p].new)

UndecidedBefore ==
    \A r \in RequestIds :
        requests[r] # None /\ ~Opened(r) => requests[r].status = "pending"

Followed == IsFiniteSet(Unledgered) /\ Cardinality(Unledgered) <= crashes

LInv == /\ TasksOpened /\ CopiesOpened
        /\ LinesOfRequests /\ Opening /\ UndecidedBefore /\ Followed

LEMMA InitLInv == Init => LInv
<1> SUFFICES ASSUME Init PROVE LInv
  OBVIOUS
<1>1. Unledgered = {} /\ crashes = 0
  BY DEF Init, StoreInit, Unledgered
<1>2. Followed
  BY <1>1, FS_EmptySet DEF Followed
<1> QED
  BY <1>2 DEF Init, StoreInit, LInv, TasksOpened, CopiesOpened,
              LinesOfRequests, Opening, UndecidedBefore

-----------------------------------------------------------------------------
(* How the lines that are missing are counted.                             *)

(* A step that loses no line ... *)
LEMMA NoLineLost ==
  ASSUME IInv, LInv, UNCHANGED crashes, Unledgered' \subseteq Unledgered
  PROVE  Followed'
<1>1. /\ IsFiniteSet(Unledgered') /\ Cardinality(Unledgered') \in Nat
      /\ Cardinality(Unledgered') <= Cardinality(Unledgered)
      /\ Cardinality(Unledgered) \in Nat /\ Cardinality(Unledgered) <= crashes
  BY FS_Subset, FS_CardinalityType DEF LInv, Followed
<1>2. Cardinality(Unledgered') <= crashes'
  BY <1>1 DEF IInv, TypeOK
<1> QED
  BY <1>1, <1>2 DEF Followed

(* ... and a death that loses one at most.                                 *)
LEMMA OneLineLost ==
  ASSUME IInv, LInv, crashes' = crashes + 1,
         NEW r, Unledgered' \subseteq Unledgered \cup {r}
  PROVE  Followed'
<1> DEFINE more == Unledgered \cup {r}
<1>1. /\ IsFiniteSet(Unledgered) /\ Cardinality(Unledgered) \in Nat
      /\ Cardinality(Unledgered) <= crashes /\ crashes \in Nat
  BY FS_CardinalityType DEF LInv, Followed, IInv, TypeOK
<1>2. IsFiniteSet(more) /\ Cardinality(more) <= Cardinality(Unledgered) + 1
  BY <1>1, FS_AddElement
<1>3. /\ IsFiniteSet(Unledgered') /\ Cardinality(Unledgered') \in Nat
      /\ Cardinality(Unledgered') <= Cardinality(more)
      /\ Cardinality(more) \in Nat
  BY <1>2, FS_Subset, FS_CardinalityType
<1>4. Cardinality(Unledgered') <= crashes'
  BY <1>1, <1>2, <1>3
<1> QED
  BY <1>3, <1>4 DEF Followed

-----------------------------------------------------------------------------
(* Steps that write neither a request nor a line. *)

LEMMA SilentStep ==
  ASSUME IInv, LInv, NEW p \in Procs, NEW s, NEW f,
         Goto(p, s, f), UNCHANGED <<requests, fallbackLedger>>,
         s \notin {"request_ledger", "request_link"},
         s # "idle" => PointerOpened(f.copy),
         TasksOpened',
         \/ crashes' = crashes + 1
         \/ /\ pc[p] \notin {"request_ledger", "fallback_ledger"}
            /\ crashes' = crashes
  PROVE  LInv'
<1>1. /\ pc'[p] = s /\ frame'[p] = f
      /\ \A q \in Procs \ {p} : pc'[q] = pc[q] /\ frame'[q] = frame[q]
  BY DEF IInv, TypeOK, Goto
<1>2. CopiesOpened'
  BY <1>1 DEF LInv, CopiesOpened, PointerOpened, Opened
<1>3. LinesOfRequests' /\ UndecidedBefore'
  BY DEF LInv, LinesOfRequests, UndecidedBefore, Opened
<1>4. Opening'
  BY <1>1 DEF LInv, Opening, Opened
<1>5. Followed'
  <2> DEFINE r == IF pc[p] = "request_ledger" THEN frame[p].new
                  ELSE frame[p].copy.request
  <2>1. ASSUME NEW q \in RequestIds, LineUnderWay(q),
               q # r \/ pc[p] \notin {"request_ledger", "fallback_ledger"}
        PROVE  LineUnderWay(q)'
    BY <1>1, <2>1 DEF LineUnderWay
  <2>2. CASE crashes' = crashes + 1
    <3>1. Unledgered' \subseteq Unledgered \cup {r}
      BY <2>1 DEF Unledgered, Line
    <3> QED
      BY <2>2, <3>1, OneLineLost
  <2>3. CASE pc[p] \notin {"request_ledger", "fallback_ledger"}
               /\ crashes' = crashes
    <3>1. Unledgered' \subseteq Unledgered
      BY <2>1, <2>3 DEF Unledgered, Line
    <3> QED
      BY <2>3, <3>1, NoLineLost
  <2> QED
    BY <2>2, <2>3
<1> QED
  BY <1>2, <1>3, <1>4, <1>5 DEF LInv

(* ... nor a task. *)
LEMMA QuietStep ==
  ASSUME IInv, LInv, NEW p \in Procs, NEW s, NEW f,
         Goto(p, s, f), UNCHANGED <<tasks, requests, fallbackLedger>>,
         s \notin {"request_ledger", "request_link"},
         s # "idle" => PointerOpened(f.copy),
         \/ crashes' = crashes + 1
         \/ /\ pc[p] \notin {"request_ledger", "fallback_ledger"}
            /\ crashes' = crashes
  PROVE  LInv'
<1>1. TasksOpened'
  BY DEF LInv, TasksOpened, PointerOpened, Opened
<1> QED
  BY <1>1, SilentStep

(* A command that ends. *)
LEMMA EndStep ==
  ASSUME IInv, LInv, NEW p \in Procs, Return(p),
         UNCHANGED <<tasks, requests, fallbackLedger>>,
         \/ crashes' = crashes + 1
         \/ /\ pc[p] \notin {"request_ledger", "fallback_ledger"}
            /\ crashes' = crashes
  PROVE  LInv'
BY IdleIsSound, QuietStep DEF Return

(* A command that saves its task, with the request it was loaded with or   *)
(* the new one.                                                            *)
LEMMA TaskStep ==
  ASSUME IInv, LInv, NEW p \in Procs, NEW s, NEW f,
         Goto(p, s, f), UNCHANGED <<requests, fallbackLedger, crashes>>,
         pc[p] \notin {"idle", "request_ledger", "fallback_ledger"},
         s \notin {"request_ledger", "request_link"},
         s # "idle" => PointerOpened(f.copy),
         NEW copy \in TaskRecord, SaveTask(p, copy), PointerOpened(copy)
  PROVE  LInv'
<1> PICK t \in Tasks : t = frame[p].task
  BY DEF IInv, FramesSound, Sound
<1>1. /\ tasks'[t] = copy
      /\ \A u \in Tasks \ {t} : tasks'[u] = tasks[u]
  BY DEF SaveTask, IInv, TypeOK
<1>2. TasksOpened'
  BY <1>1 DEF LInv, TasksOpened, PointerOpened, Opened
<1> QED
  BY <1>2, SilentStep

(* A command goes on as it is. *)
LEMMA SameFrame ==
  ASSUME IInv, LInv, NEW p \in Procs, pc[p] # "idle"
  PROVE  frame[p] \in Frame /\ frame[p].copy \in TaskRecord
         /\ PointerOpened(frame[p].copy)
BY DEF IInv, TypeOK, LInv, CopiesOpened, Frame
-----------------------------------------------------------------------------
(* Commands begin, with the task they load.                                *)

LEMMA LoadStep ==
  ASSUME IInv, LInv, NEW p \in Procs, NEW t \in Tasks, tasks[t] # None,
         pc[p] = "idle", NEW s, s \notin {"request_ledger", "request_link"},
         NEW f, f.copy = tasks[t], Goto(p, s, f), UNCHANGED <<files, crashes>>
  PROVE  LInv'
<1>1. PointerOpened(f.copy)
  BY DEF LInv, TasksOpened
<1> QED
  BY <1>1, QuietStep DEF files, fallbacks

LEMMA LoadedCopy ==
  ASSUME NEW t \in Tasks
  PROVE  /\ Loaded(t).copy = tasks[t]
         /\ \A k : [Loaded(t) EXCEPT !.kind = k].copy = tasks[t]
         /\ \A d : [Loaded(t) EXCEPT !.decision = d].copy = tasks[t]
         /\ \A alt : [Loaded(t) EXCEPT !.role = "executor", !.alt = alt].copy
                       = tasks[t]
         /\ \A alt, r : [Loaded(t) EXCEPT !.role = "reviewer", !.alt = alt,
                                          !.new = r].copy = tasks[t]
BY DEF Loaded, IdleFrame

LEMMA LoadSteps ==
  ASSUME IInv, LInv, NEW p \in Procs, Start(p)
  PROVE  LInv'
<1>1. ASSUME NEW t \in Tasks, NEW k \in Kinds, LoadForBrief(p, t, k)
      PROVE  LInv'
  BY <1>1, LoadedCopy, LoadStep DEF LoadForBrief
<1>2. ASSUME NEW t \in Tasks, LoadForPlan(p, t)
      PROVE  LInv'
  BY <1>2, LoadedCopy, LoadStep DEF LoadForPlan
<1>3. ASSUME NEW t \in Tasks, NEW alt \in Assignments, LoadForRun(p, t, alt)
      PROVE  LInv'
  BY <1>3, LoadedCopy, LoadStep DEF LoadForRun
<1>4. ASSUME NEW t \in Tasks, NEW d \in Decisions,
             LoadForDecision(p, t, d) \/ LoadForFallback(p, t, d)
      PROVE  LInv'
  BY <1>4, LoadedCopy, LoadStep DEF LoadForDecision, LoadForFallback
<1>5. ASSUME NEW r \in RunIds, NEW alt \in Assignments, LoadForReview(p, r, alt)
      PROVE  LInv'
  <2> PICK t \in Tasks : t = runs[r].task /\ tasks[t] # None
    BY <1>5 DEF LoadForReview, IInv, TypeOK, RunRecord, Maybe, RunsOwned
  <2> DEFINE f == [Loaded(t) EXCEPT !.role = "reviewer", !.alt = alt, !.new = r]
  <2>1. f.copy = tasks[t]
    BY LoadedCopy
  <2> HIDE DEF f
  <2>2. Goto(p, "gate", f) /\ pc[p] = "idle" /\ UNCHANGED <<files, crashes>>
    BY <1>5 DEF LoadForReview, f
  <2> QED
    BY <2>1, <2>2, LoadStep
<1> QED
  BY <1>1, <1>2, <1>3, <1>4, <1>5 DEF Start

-----------------------------------------------------------------------------
(* Commands go on, without a word about requests.                          *)

LEMMA GoOn ==
  ASSUME IInv, LInv, NEW p \in Procs, NEW s, NEW f, Goto(p, s, f),
         pc[p] \notin {"idle", "request_ledger", "fallback_ledger"},
         s \notin {"request_ledger", "request_link"},
         f.copy = frame[p].copy,
         UNCHANGED <<tasks, requests, fallbackLedger, crashes>>
  PROVE  LInv'
BY SameFrame, QuietStep

WithNew(p, s) == \E new : Goto(p, s, [frame[p] EXCEPT !.new = new])

LEMMA GoOnWithNew ==
  ASSUME IInv, LInv, NEW p \in Procs, NEW s,
         WithNew(p, s),
         pc[p] \notin {"idle", "request_ledger", "fallback_ledger"},
         s \notin {"request_ledger", "request_link"},
         UNCHANGED <<tasks, requests, fallbackLedger, crashes>>
  PROVE  LInv'
<1> PICK g \in Frame : g = frame[p]
  BY DEF IInv, TypeOK
<1> PICK new : Goto(p, s, [g EXCEPT !.new = new])
  BY DEF WithNew
<1> DEFINE f == [g EXCEPT !.new = new]
<1>1. f.copy = g.copy
  BY DEF Frame
<1> HIDE DEF f
<1>2. Goto(p, s, f)
  BY DEF f
<1> QED
  BY <1>1, <1>2, GoOn

LEMMA QuietSteps ==
  ASSUME IInv, LInv, NEW p \in Procs,
         \/ ListSameKind(p) \/ SaveBrief(p) \/ ListBriefs(p) \/ SavePlan(p)
         \/ AttachBrief(p) \/ PassGate(p) \/ BlockAtGate(p) \/ LoadRequest(p)
         \/ CreateBundle(p) \/ SaveRun(p) \/ RefuseReview(p) \/ SaveReview(p)
         \/ SaveApproval(p) \/ LedgerApproval(p)
  PROVE  LInv'
<1> PICK g \in Frame : g = frame[p]
  BY DEF IInv, TypeOK
<1> USE DEF files, evidence, decisions, fallbacks
<1>1. CASE ListSameKind(p)
  BY <1>1, GoOn, EndStep DEF ListSameKind
<1>2. CASE SaveBrief(p)
  BY <1>2, EndStep DEF SaveBrief
<1>3. CASE ListBriefs(p)
  <2> PICK alt : Goto(p, "gate", [g EXCEPT !.role = "planner", !.alt = alt,
                                            !.todo = BriefsOf(g.task)])
    BY <1>3 DEF ListBriefs
  <2> DEFINE f == [g EXCEPT !.role = "planner", !.alt = alt,
                            !.todo = BriefsOf(g.task)]
  <2>1. f.copy = g.copy
    BY DEF Frame
  <2> HIDE DEF f
  <2>2. Goto(p, "gate", f)
    BY DEF f
  <2> QED
    BY <1>3, <2>1, <2>2, GoOn DEF ListBriefs
<1>4. CASE SavePlan(p)
  <2>1. WithNew(p, "plan_attach")
    BY <1>4 DEF SavePlan, WithNew
  <2> QED
    BY <1>4, <2>1, GoOnWithNew DEF SavePlan
<1>5. CASE AttachBrief(p)
  <2> PICK b : Goto(p, "plan_attach", [g EXCEPT !.todo = @ \ {b}])
    BY <1>5 DEF AttachBrief
  <2> DEFINE f == [g EXCEPT !.todo = @ \ {b}]
  <2>1. f.copy = g.copy
    BY DEF Frame
  <2> HIDE DEF f
  <2>2. Goto(p, "plan_attach", f)
    BY DEF f
  <2> QED
    BY <1>5, <2>1, <2>2, GoOn DEF AttachBrief
<1>6. CASE PassGate(p)
  <2>1. AfterGate[g.role] \notin {"request_ledger", "request_link"}
    <3>1. g.role \in Roles
      BY <1>6 DEF PassGate, IInv, FramesSound, Sound, SoundAtGate, IsPlanning,
                  IsExecuting, IsReviewing, Roles
    <3> QED
      BY <3>1 DEF AfterGate, Roles
  <2> QED
    BY <1>6, <2>1, GoOn DEF PassGate
<1>7. CASE BlockAtGate(p)
  BY <1>7, EndStep DEF BlockAtGate
<1>8. CASE LoadRequest(p)
  BY <1>8, GoOn, EndStep DEF LoadRequest
<1>9. CASE CreateBundle(p)
  <2>1. WithNew(p, "run_save")
    BY <1>9 DEF CreateBundle, WithNew
  <2> QED
    BY <1>9, <2>1, GoOnWithNew DEF CreateBundle
<1>10. CASE SaveRun(p)
  BY <1>10, GoOn DEF SaveRun
<1>11. CASE RefuseReview(p)
  BY <1>11, EndStep DEF RefuseReview
<1>12. CASE SaveReview(p)
  <2>1. WithNew(p, "review_link")
    BY <1>12 DEF SaveReview, WithNew
  <2> QED
    BY <1>12, <2>1, GoOnWithNew DEF SaveReview
<1>13. CASE SaveApproval(p)
  <2>1. WithNew(p, "approval_ledger")
    BY <1>13 DEF SaveApproval, WithNew
  <2> QED
    BY <1>13, <2>1, GoOnWithNew DEF SaveApproval
<1>14. CASE LedgerApproval(p)
  BY <1>14, GoOn DEF LedgerApproval
<1> QED
  BY <1>1, <1>2, <1>3, <1>4, <1>5, <1>6, <1>7, <1>8, <1>9, <1>10, <1>11, <1>12,
     <1>13, <1>14

LEMMA TaskWrites ==
  ASSUME IInv, LInv, NEW p \in Procs,
         \/ LinkPlan(p) \/ LinkRequest(p) \/ RunnerReturns(p) \/ LinkRun(p)
         \/ LinkReview(p) \/ LinkApproval(p) \/ TouchTask(p)
  PROVE  LInv'
<1> PICK s \in Steps, f \in Frame : s = pc[p] /\ f = frame[p] /\ Sound(s, f)
  BY FrameOf
<1> USE DEF fallbacks
<1>1. f.copy \in TaskRecord /\ (s # "idle" => PointerOpened(f.copy))
  BY SameFrame DEF Frame
<1>2. ASSUME Return(p), NEW copy \in TaskRecord, SaveTask(p, copy),
             PointerOpened(copy), UNCHANGED <<fallbacks, crashes>>,
             s \notin {"idle", "request_ledger", "fallback_ledger"}
      PROVE  LInv'
  BY <1>2, TaskStep DEF Return
<1>3. CASE LinkRequest(p)
  <2>1. /\ f.new \in RequestIds /\ Opened(f.new)
    BY <1>3 DEF LinkRequest, Sound, SoundAtGate, LInv, Opening
  <2>2. [f.copy EXCEPT !.request = f.new] \in TaskRecord
    BY <1>1, <2>1, EditedCopy
  <2>3. PointerOpened([f.copy EXCEPT !.request = f.new])
    BY <1>1, <2>1 DEF PointerOpened, TaskRecord
  <2> QED
    BY <1>2, <1>3, <2>2, <2>3 DEF LinkRequest
<1>4. CASE RunnerReturns(p)
  <2> DEFINE copy == [f.copy EXCEPT !.state = "running"]
             g == [f EXCEPT !.copy = copy]
  <2>1. copy \in TaskRecord /\ g.copy = copy /\ copy.request = f.copy.request
    BY <1>1, EditedCopy DEF Frame, TaskRecord
  <2> HIDE DEF copy, g
  <2>2. Goto(p, "run_bundle", g) /\ SaveTask(p, copy)
    BY <1>4 DEF RunnerReturns, copy, g
  <2>3. PointerOpened(copy) /\ PointerOpened(g.copy)
    BY <1>1, <1>4, <2>1 DEF RunnerReturns, PointerOpened
  <2> QED
    BY <1>4, <2>1, <2>2, <2>3, TaskStep DEF RunnerReturns
<1>5. CASE LinkPlan(p)
  <2> DEFINE copy == [f.copy EXCEPT !.state = "planned", !.plan = f.new]
  <2>1. f.new \in PlanIds
    BY <1>5 DEF LinkPlan, Sound, SoundPlanning
  <2>2. copy \in TaskRecord /\ copy.request = f.copy.request
    BY <1>1, <2>1, EditedCopy DEF TaskRecord
  <2> QED
    BY <1>1, <1>2, <1>5, <2>2 DEF LinkPlan, PointerOpened
<1>6. CASE LinkRun(p)
  <2> DEFINE copy == [f.copy EXCEPT !.state = "review_pending", !.run = f.new]
  <2>1. f.new \in RunIds
    BY <1>6 DEF LinkRun, Sound, SoundExecution, IInv, TypeOK
  <2>2. copy \in TaskRecord /\ copy.request = f.copy.request
    BY <1>1, <2>1, EditedCopy DEF TaskRecord
  <2> QED
    BY <1>1, <1>2, <1>6, <2>2 DEF LinkRun, PointerOpened
<1>7. CASE LinkReview(p)
  <2> DEFINE copy == [f.copy EXCEPT !.state = "awaiting_approval",
                                    !.review = f.new]
  <2>1. f.new \in ReviewIds
    BY <1>7 DEF LinkReview, Sound, SoundReview
  <2>2. copy \in TaskRecord /\ copy.request = f.copy.request
    BY <1>1, <2>1, EditedCopy DEF TaskRecord
  <2> QED
    BY <1>1, <1>2, <1>7, <2>2 DEF LinkReview, PointerOpened
<1>8. CASE LinkApproval(p)
  <2> DEFINE copy == [f.copy EXCEPT !.state = f.decision, !.approval = f.new]
  <2>1. f.decision \in Decisions /\ f.new \in ApprovalIds
    BY <1>8 DEF LinkApproval, Sound, SoundReview
  <2>2. copy \in TaskRecord /\ copy.request = f.copy.request
    BY <1>1, <2>1, EditedCopy DEF TaskRecord
  <2> QED
    BY <1>1, <1>2, <1>8, <2>2 DEF LinkApproval, PointerOpened
<1>9. CASE TouchTask(p)
  BY <1>1, <1>2, <1>9 DEF TouchTask
<1> QED
  BY <1>3, <1>4, <1>5, <1>6, <1>7, <1>8, <1>9

-----------------------------------------------------------------------------
(* Requests, their lines and their decisions.                              *)

(* Lines are not taken back. *)
LEMMA MoreLines ==
  ASSUME LInv, fallbackLedger \subseteq fallbackLedger', UNCHANGED tasks
  PROVE  TasksOpened'
BY DEF LInv, TasksOpened, PointerOpened, Opened

LEMMA SaveRequestKeeps ==
  ASSUME IInv, LInv, NEW p \in Procs, SaveRequest(p)
  PROVE  LInv'
<1> PICK g \in Frame : g = frame[p]
  BY DEF IInv, TypeOK
<1> PICK new \in RequestIds : new = FreshId(requests) /\ requests[new] = None
  BY FreshIsNew DEF SaveRequest, IInv, TypeOK
<1> DEFINE record == [task |-> g.task, role |-> g.role, alt |-> g.alt,
                      status |-> "pending"]
           f == [g EXCEPT !.new = new]
<1>1. /\ f.copy = g.copy /\ f.new = new /\ record.status = "pending"
  BY DEF Frame
<1>2. record # None
  <2>1. g.task \in Tasks /\ g.role \in Roles /\ g.alt \in Alternates
    BY DEF SaveRequest, IInv, FramesSound, Sound, SoundAtGate, IsPlanning,
           IsExecuting, IsReviewing, Roles, Frame, Assignments
  <2> QED
    BY <2>1, NullRecordAssumption DEF RequestRecord, RequestStates
<1> HIDE DEF record, f
<1>3. /\ requests' = [requests EXCEPT ![new] = record]
      /\ Goto(p, "request_ledger", f) /\ pc[p] = "gate"
      /\ UNCHANGED <<tasks, fallbackLedger, crashes>>
  BY DEF SaveRequest, record, f
<1>4. /\ requests'[new] = record
      /\ \A r \in RequestIds \ {new} : requests'[r] = requests[r]
  BY <1>3 DEF IInv, TypeOK
<1>5. /\ pc'[p] = "request_ledger" /\ frame'[p] = f
      /\ \A q \in Procs \ {p} : pc'[q] = pc[q] /\ frame'[q] = frame[q]
  BY <1>3 DEF IInv, TypeOK, Goto
<1>6. \A line \in fallbackLedger : line.request \in RequestIds
                                     /\ line.request # new
  BY DEF LInv, LinesOfRequests, IInv, TypeOK
<1>7. ~Opened(new)
  BY <1>6 DEF Opened
<1>8. \A q \in Procs : pc[q] = "request_ledger" => frame[q].new # new
  BY DEF IInv, FramesSound, Sound, SoundAtGate
<1>9. TasksOpened' /\ CopiesOpened'
  <2>1. PointerOpened(g.copy)
    BY <1>3, SameFrame
  <2> QED
    BY <1>1, <1>3, <1>5, <2>1, MoreLines DEF LInv, CopiesOpened, PointerOpened, Opened
<1>10. LinesOfRequests'
  BY <1>3, <1>4, <1>6 DEF LInv, LinesOfRequests
<1>11. Opening'
  BY <1>1, <1>3, <1>5, <1>7, <1>8 DEF LInv, Opening, Opened
<1>12. UndecidedBefore'
  BY <1>1, <1>3, <1>4 DEF LInv, UndecidedBefore, Opened
<1>13. Followed'
  <2> SUFFICES ASSUME NEW r \in Unledgered' PROVE r \in Unledgered
    BY <1>3, NoLineLost
  <2>0. /\ r \in RequestIds /\ requests'[r] # None
        /\ Line(r)' \notin fallbackLedger' /\ ~LineUnderWay(r)'
    BY DEF Unledgered
  <2>1. CASE r = new
    BY <1>1, <1>5, <2>0, <2>1 DEF LineUnderWay
  <2>2. CASE r # new
    <3>1. requests'[r] = requests[r]
      BY <1>4, <2>0, <2>2
    <3>2. Line(r)' = Line(r)
      BY <3>1 DEF Line
    <3>3. LineUnderWay(r) => LineUnderWay(r)'
      BY <1>3, <1>5, <3>1 DEF LineUnderWay
    <3> QED
      BY <1>3, <2>0, <3>1, <3>2, <3>3 DEF Unledgered
  <2> QED
    BY <2>1, <2>2
<1> QED
  BY <1>9, <1>10, <1>11, <1>12, <1>13 DEF LInv

LEMMA LedgerRequestKeeps ==
  ASSUME IInv, LInv, NEW p \in Procs, LedgerRequest(p)
  PROVE  LInv'
<1> PICK f \in Frame : f = frame[p]
  BY DEF IInv, TypeOK
<1> DEFINE new == f.new
<1>1. /\ new \in RequestIds /\ requests[new] # None
      /\ ~Opened(new) /\ requests[new].status = "pending"
  BY DEF LedgerRequest, IInv, FramesSound, Sound, SoundAtGate, LInv, Opening,
         UndecidedBefore
<1> HIDE DEF new
<1>2. /\ fallbackLedger' =
           fallbackLedger \cup {[request |-> new, status |-> "pending"]}
      /\ Goto(p, "request_link", f) /\ pc[p] = "request_ledger"
      /\ UNCHANGED <<tasks, requests, crashes>> /\ frame[p].new = new
  BY DEF LedgerRequest, new
<1>3. /\ pc'[p] = "request_link" /\ frame'[p] = f
      /\ \A q \in Procs \ {p} : pc'[q] = pc[q] /\ frame'[q] = frame[q]
  BY <1>2 DEF IInv, TypeOK, Goto
<1>4. \A r : Opened(r)' <=> Opened(r) \/ r = new
  BY <1>2 DEF Opened
<1>5. TasksOpened' /\ CopiesOpened'
  <2>1. PointerOpened(f.copy)
    BY <1>2, SameFrame
  <2> QED
    BY <1>2, <1>3, <1>4, <2>1, MoreLines DEF LInv, CopiesOpened, PointerOpened
<1>6. LinesOfRequests'
  BY <1>1, <1>2 DEF LInv, LinesOfRequests
<1>7. Opening'
  BY <1>2, <1>3, <1>4 DEF LInv, Opening
<1>8. UndecidedBefore'
  BY <1>2, <1>4 DEF LInv, UndecidedBefore
<1>9. Followed'
  <2> SUFFICES ASSUME NEW r \in Unledgered' PROVE r \in Unledgered
    BY <1>2, NoLineLost
  <2>0. /\ r \in RequestIds /\ requests[r] # None
        /\ Line(r) \notin fallbackLedger' /\ ~LineUnderWay(r)'
    BY <1>2 DEF Unledgered, Line
  <2>1. CASE r = new
    BY <1>1, <1>2, <2>0, <2>1 DEF Line
  <2>2. CASE r # new
    <3>1. LineUnderWay(r) => LineUnderWay(r)'
      BY <1>2, <1>3, <2>2 DEF LineUnderWay
    <3> QED
      BY <1>2, <2>0, <3>1 DEF Unledgered
  <2> QED
    BY <2>1, <2>2
<1> QED
  BY <1>5, <1>6, <1>7, <1>8, <1>9 DEF LInv

LEMMA SaveFallbackDecisionKeeps ==
  ASSUME IInv, LInv, NEW p \in Procs, SaveFallbackDecision(p)
  PROVE  LInv'
<1> PICK f \in Frame : f = frame[p]
  BY DEF IInv, TypeOK
<1> PICK r \in RequestIds : r = f.copy.request
  BY SaveFallbackDecisionGrows
<1>1. /\ requests[r] # None /\ requests'[r] # None
      /\ requests'[r].status = f.decision
      /\ \A q \in RequestIds \ {r} : requests'[q] = requests[q]
  BY SaveFallbackDecisionGrows DEF RequestKept
<1>2. /\ Goto(p, "fallback_ledger", f) /\ pc[p] = "fallback_save"
      /\ UNCHANGED <<tasks, fallbackLedger, crashes>>
  BY DEF SaveFallbackDecision
<1>3. /\ pc'[p] = "fallback_ledger" /\ frame'[p] = f
      /\ \A q \in Procs \ {p} : pc'[q] = pc[q] /\ frame'[q] = frame[q]
  BY <1>2 DEF IInv, TypeOK, Goto
<1>4. PointerOpened(f.copy) /\ r # None /\ Opened(r)
  BY <1>2, SameFrame, NullAssumption DEF PointerOpened
<1>5. TasksOpened' /\ CopiesOpened'
  BY <1>2, <1>3, <1>4, MoreLines DEF LInv, CopiesOpened, PointerOpened, Opened
<1>6. LinesOfRequests'
  BY <1>1, <1>2 DEF LInv, LinesOfRequests, IInv, TypeOK
<1>7. Opening'
  BY <1>2, <1>3 DEF LInv, Opening, Opened
<1>8. UndecidedBefore'
  BY <1>1, <1>2, <1>4 DEF LInv, UndecidedBefore, Opened
<1>9. Followed'
  <2> SUFFICES ASSUME NEW q \in Unledgered' PROVE q \in Unledgered
    BY <1>2, NoLineLost
  <2>0. /\ q \in RequestIds /\ requests'[q] # None
        /\ Line(q)' \notin fallbackLedger' /\ ~LineUnderWay(q)'
    BY DEF Unledgered
  <2>1. CASE q = r
    BY <1>1, <1>3, <2>0, <2>1 DEF LineUnderWay
  <2>2. CASE q # r
    <3>1. requests'[q] = requests[q]
      BY <1>1, <2>0, <2>2
    <3>2. Line(q)' = Line(q)
      BY <3>1 DEF Line
    <3>3. LineUnderWay(q) => LineUnderWay(q)'
      BY <1>2, <1>3, <3>1 DEF LineUnderWay
    <3> QED
      BY <1>2, <2>0, <3>1, <3>2, <3>3 DEF Unledgered
  <2> QED
    BY <2>1, <2>2
<1> QED
  BY <1>5, <1>6, <1>7, <1>8, <1>9 DEF LInv

LEMMA LedgerFallbackDecisionKeeps ==
  ASSUME IInv, LInv, NEW p \in Procs, LedgerFallbackDecision(p)
  PROVE  LInv'
<1> PICK s \in Steps, f \in Frame : s = pc[p] /\ f = frame[p] /\ Sound(s, f)
  BY FrameOf
<1> PICK r \in RequestIds : r = f.copy.request /\ requests[r] # None
  BY DEF LedgerFallbackDecision, Sound, SoundAtGate, Good, Chained, Frame,
         TaskRecord, Maybe
<1>1. /\ fallbackLedger' =
           fallbackLedger \cup {[request |-> r, status |-> f.decision]}
      /\ Goto(p, "fallback_touch", f) /\ s = "fallback_ledger"
      /\ f.decision # "pending"
      /\ UNCHANGED <<tasks, requests, crashes>>
  BY DEF LedgerFallbackDecision, Sound, SoundAtGate, Decisions
<1>2. /\ pc'[p] = "fallback_touch" /\ frame'[p] = f
      /\ \A q \in Procs \ {p} : pc'[q] = pc[q] /\ frame'[q] = frame[q]
  BY <1>1 DEF IInv, TypeOK, Goto
<1>3. \A q : Opened(q)' <=> Opened(q)
  BY <1>1 DEF Opened
<1>4. TasksOpened' /\ CopiesOpened'
  <2>1. PointerOpened(f.copy)
    BY <1>1, SameFrame
  <2> QED
    BY <1>1, <1>2, <1>3, <2>1, MoreLines DEF LInv, CopiesOpened, PointerOpened
<1>5. LinesOfRequests'
  BY <1>1 DEF LInv, LinesOfRequests
<1>6. Opening'
  BY <1>1, <1>2, <1>3 DEF LInv, Opening
<1>7. UndecidedBefore'
  BY <1>1, <1>3 DEF LInv, UndecidedBefore
<1>8. Followed'
  <2> SUFFICES ASSUME NEW q \in Unledgered' PROVE q \in Unledgered
    BY <1>1, NoLineLost
  <2>0. /\ q \in RequestIds /\ requests[q] # None
        /\ Line(q) \notin fallbackLedger' /\ ~LineUnderWay(q)'
    BY <1>1 DEF Unledgered, Line
  <2>1. CASE q = r /\ requests[r].status = f.decision
    BY <1>1, <2>0, <2>1 DEF Line
  <2>2. CASE ~(q = r /\ requests[r].status = f.decision)
    <3>1. ASSUME LineUnderWay(q)
          PROVE  LineUnderWay(q)'
      <4>1. PICK w \in Procs :
              \/ pc[w] = "request_ledger" /\ frame[w].new = q
              \/ /\ pc[w] = "fallback_ledger"
                 /\ frame[w].copy.request = q
                 /\ frame[w].decision = requests[q].status
        BY <3>1 DEF LineUnderWay
      <4>2. w # p
        BY <1>1, <2>2, <4>1
      <4>3. pc'[w] = pc[w] /\ frame'[w] = frame[w] /\ requests' = requests
        BY <1>1, <1>2, <4>2
      <4> QED
        BY <4>1, <4>3 DEF LineUnderWay
    <3> QED
      BY <1>1, <2>0, <3>1 DEF Unledgered
  <2> QED
    BY <2>1, <2>2
<1> QED
  BY <1>4, <1>5, <1>6, <1>7, <1>8 DEF LInv

-----------------------------------------------------------------------------
(* The theorem. *)

LEMMA LedgerStep ==
  ASSUME IInv, LInv, [Next]_vars
  PROVE  LInv'
<1>1. ASSUME NEW t \in Tasks, CreateTask(t)
      PROVE  LInv'
  <2> USE DEF fallbacks
  <2>1. TasksOpened'
    BY <1>1 DEF CreateTask, NewTask, LInv, TasksOpened, PointerOpened, Opened,
                IInv, TypeOK
  <2>2. CopiesOpened' /\ LinesOfRequests' /\ Opening' /\ UndecidedBefore'
    BY <1>1 DEF CreateTask, LInv, CopiesOpened, LinesOfRequests, Opening,
                UndecidedBefore, PointerOpened, Opened
  <2>3. Followed'
    BY <1>1, NoLineLost DEF CreateTask, Unledgered, Line, LineUnderWay
  <2> QED
    BY <2>1, <2>2, <2>3 DEF LInv
<1>2. ASSUME NEW p \in Procs, Continue(p)
      PROVE  LInv'
  BY <1>2, QuietSteps, TaskWrites, SaveRequestKeeps, LedgerRequestKeeps,
     SaveFallbackDecisionKeeps, LedgerFallbackDecisionKeeps DEF Continue
<1>3. ASSUME NEW p \in Procs, Raise(p)
      PROVE  LInv'
  <2>1. /\ Return(p) /\ UNCHANGED <<files, crashes>>
        /\ pc[p] \notin {"request_ledger", "fallback_ledger"}
    BY <1>3 DEF Raise, BriefSourceMissing, PlanRaises, RunnerRaises,
                BundleRaises, ReviewRaises
  <2> QED
    BY <2>1, EndStep DEF files, fallbacks
<1>4. ASSUME NEW p \in Procs, Crash(p)
      PROVE  LInv'
  BY <1>4, EndStep DEF Crash, files, fallbacks
<1>5. CASE UNCHANGED vars
  <2> USE DEF vars, files, fallbacks
  <2>1. TasksOpened' /\ CopiesOpened' /\ LinesOfRequests' /\ Opening'
          /\ UndecidedBefore'
    BY <1>5 DEF LInv, TasksOpened, CopiesOpened, LinesOfRequests, Opening,
                UndecidedBefore, PointerOpened, Opened
  <2>2. Followed'
    BY <1>5, NoLineLost DEF Unledgered, Line, LineUnderWay
  <2> QED
    BY <2>1, <2>2 DEF LInv
<1> QED
  BY <1>1, <1>2, <1>3, <1>4, <1>5, LoadSteps DEF Next

(* What a task points at has its line in the fallback ledger, wherever     *)
(* commands die; and every status of a request has one or is about to get  *)
(* it, whichever of two decisions came last, but for one line per death.   *)
THEOREM LedgerKeepsUp == Spec => []FallbackLedgered
<1>1. IInv /\ LInv /\ [Next]_vars => LInv'
  BY LedgerStep
<1>2. LInv => FallbackLedgered
  BY DEF LInv, TasksOpened, PointerOpened, Opened, Followed, FallbackLedgered
<1> QED
  BY InitLInv, <1>1, <1>2, Invariance, PTL DEF Spec

=============================================================================
