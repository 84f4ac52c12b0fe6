------------------------------- MODULE Store -------------------------------
(***************************************************************************)
(* The filesystem store of Patchrail and the processes that use it.        *)
(*                                                                         *)
(* Every CLI command is an operating-system process that loads records,    *)
(* changes them in memory and writes whole records back.  There is no lock *)
(* and no transaction: between two file operations of one process any      *)
(* other process may run, and a process may die.  One step of the model is *)
(* one access to a file that another process can change; reads of records  *)
(* that never change once written, and computation in memory, belong to    *)
(* the access before them.                                                 *)
(*                                                                         *)
(* Left out: decision traces and preflight snapshots (written, never read  *)
(* back by a handler), texts, timestamps, digests.  A write of one record  *)
(* is one step here; module Recovery adds processes that die when          *)
(* write_text has emptied the file and not yet filled it.                  *)
(***************************************************************************)
EXTENDS Naturals

CONSTANTS
    Procs,        \* concurrent patchrail processes
    Tasks,        \* task ids that create_task can hand out
    Kinds,        \* brief kinds (future, ontology, product)
    BriefIds, PlanIds, RunIds, ReviewIds, ApprovalIds, RequestIds,
    Alternates,   \* fallback assignments that need approval, each an
                  \* (attempted candidate, selected candidate) pair
    Direct,       \* an assignment that needs no approval
    None,         \* an absent record, or a field that is null
    MaxCrashes    \* bound on crashes in a behaviour

ASSUME NullAssumption ==
    /\ None \notin Tasks \cup Kinds \cup BriefIds \cup PlanIds \cup RunIds
    /\ None \notin ReviewIds \cup ApprovalIds \cup RequestIds
    /\ None \notin Alternates \cup {Direct}
    /\ Direct \notin Alternates

ASSUME CrashAssumption == MaxCrashes \in Nat

VARIABLES
    tasks,           \* tasks/<id>.json
    briefs,          \* briefs/<id>.json
    plans,           \* plans/<id>.json
    bundles,         \* the runs that have an artifacts/<run_id>/bundle.json
    runs,            \* runs/<id>.json
    reviews,         \* reviews/<id>.json
    approvals,       \* approvals/<id>.json
    approvalLedger,  \* the approvals with a line in approval-ledger.jsonl
    requests,        \* fallback_requests/<id>.json
    fallbackLedger,  \* the lines of fallback-approval-ledger.jsonl
    pc,              \* what each process does next
    frame,           \* the in-memory state of each process
    crashes          \* crashes so far

evidence == <<plans, bundles, runs, reviews>>
decisions == <<approvals, approvalLedger>>
fallbacks == <<requests, fallbackLedger>>
files == <<tasks, briefs, evidence, decisions, fallbacks>>
vars == <<files, pc, frame, crashes>>

-----------------------------------------------------------------------------
(* Records. *)

TaskStates == {"created", "planned", "running", "review_pending",
               "awaiting_approval", "approved", "rejected"}
Terminal == {"approved", "rejected"}
Decisions == {"approved", "rejected"}
RequestStates == {"pending"} \cup Decisions
Roles == {"planner", "executor", "reviewer"}
Assignments == Alternates \cup {Direct}
Maybe(S) == S \cup {None}

TaskRecord == [state: TaskStates, plan: Maybe(PlanIds), run: Maybe(RunIds),
               review: Maybe(ReviewIds), approval: Maybe(ApprovalIds),
               request: Maybe(RequestIds)]
BriefRecord == [task: Tasks, kind: Kinds, plan: Maybe(PlanIds)]
PlanRecord == [task: Tasks, alt: Assignments, briefs: SUBSET BriefIds]
RunRecord == [task: Tasks, plan: PlanIds, alt: Assignments]
ReviewRecord == [task: Tasks, run: RunIds, alt: Assignments]
ApprovalRecord == [task: Tasks, review: ReviewIds, decision: Decisions]
RequestRecord == [task: Tasks, role: Roles, alt: Alternates,
                  status: RequestStates]

ASSUME NullRecordAssumption ==
    None \notin TaskRecord \cup BriefRecord \cup PlanRecord \cup RunRecord
                \cup ReviewRecord \cup ApprovalRecord \cup RequestRecord

NewTask == [state |-> "created", plan |-> None, run |-> None,
            review |-> None, approval |-> None, request |-> None]

(* ALLOWED_TRANSITIONS: a state absent from a set of successors is         *)
(* refused by transition_task.                                             *)
AllowedTransitions ==
    [created           |-> {"planned"},
     planned           |-> {"running"},
     running           |-> {"review_pending"},
     review_pending    |-> {"awaiting_approval"},
     awaiting_approval |-> {"approved", "rejected"},
     approved          |-> {},
     rejected          |-> {}]

CanTransition(task, next) == next \in AllowedTransitions[task.state]

(* generate_id: a uuid4 that no record has yet.  The bound on records of   *)
(* each kind is the size of its set of ids.                                *)
HasFresh(file) == \E i \in DOMAIN file : file[i] = None
FreshId(file) == CHOOSE i \in DOMAIN file : file[i] = None

-----------------------------------------------------------------------------
(* Processes.                                                              *)
(* frame[p] holds the task a command works on, the copy of its record that *)
(* the command loaded (and keeps changing and writing back), and the       *)
(* command's other local variables.                                        *)

Steps == {"idle", "brief_list", "brief_save",
          "plan_list", "plan_generate", "plan_attach", "plan_link",
          "gate", "request_ledger", "request_link",
          "run_execute", "run_bundle", "run_save", "run_link",
          "review_generate", "review_link",
          "approval_save", "approval_ledger", "approval_link",
          "fallback_load", "fallback_save", "fallback_ledger",
          "fallback_touch"}

Frame == [task: Maybe(Tasks), copy: TaskRecord, kind: Maybe(Kinds),
          role: Maybe(Roles), alt: Assignments, todo: SUBSET BriefIds,
          new: Maybe(PlanIds \cup RunIds \cup ReviewIds \cup ApprovalIds
                     \cup RequestIds),
          decision: Maybe(Decisions)]

IdleFrame == [task |-> None, copy |-> NewTask, kind |-> None, role |-> None,
              alt |-> Direct, todo |-> {}, new |-> None, decision |-> None]

(* A command that has loaded the record of task t. *)
Loaded(t) == [IdleFrame EXCEPT !.task = t, !.copy = tasks[t]]

Goto(p, step, f) ==
    /\ pc' = [pc EXCEPT ![p] = step]
    /\ frame' = [frame EXCEPT ![p] = f]

(* The command ends, normally or with an error that main() reports. *)
Return(p) == Goto(p, "idle", IdleFrame)

(* save_task: the whole record is written from the copy in memory. *)
SaveTask(p, copy) == tasks' = [tasks EXCEPT ![frame[p].task] = copy]

(* The process is killed, or an exception nobody catches ends it: what it  *)
(* wrote stays, what it held in memory is gone.                            *)
Crash(p) ==
    /\ pc[p] # "idle"
    /\ crashes < MaxCrashes
    /\ crashes' = crashes + 1
    /\ Return(p)
    /\ UNCHANGED files

StoreInit ==
    /\ tasks = [t \in Tasks |-> None]
    /\ briefs = [b \in BriefIds |-> None]
    /\ plans = [i \in PlanIds |-> None]
    /\ bundles = {}
    /\ runs = [i \in RunIds |-> None]
    /\ reviews = [i \in ReviewIds |-> None]
    /\ approvals = [i \in ApprovalIds |-> None]
    /\ approvalLedger = {}
    /\ requests = [i \in RequestIds |-> None]
    /\ fallbackLedger = {}
    /\ pc = [p \in Procs |-> "idle"]
    /\ frame = [p \in Procs |-> IdleFrame]
    /\ crashes = 0

TypeOK ==
    /\ tasks \in [Tasks -> Maybe(TaskRecord)]
    /\ briefs \in [BriefIds -> Maybe(BriefRecord)]
    /\ plans \in [PlanIds -> Maybe(PlanRecord)]
    /\ bundles \subseteq RunIds
    /\ runs \in [RunIds -> Maybe(RunRecord)]
    /\ reviews \in [ReviewIds -> Maybe(ReviewRecord)]
    /\ approvals \in [ApprovalIds -> Maybe(ApprovalRecord)]
    /\ approvalLedger \subseteq ApprovalIds
    /\ requests \in [RequestIds -> Maybe(RequestRecord)]
    /\ fallbackLedger \subseteq [request: RequestIds, status: RequestStates]
    /\ pc \in [Procs -> Steps]
    /\ frame \in [Procs -> Frame]
    /\ crashes \in Nat
=============================================================================
