------------------------------ MODULE Evidence ------------------------------
(***************************************************************************)
(* Verifications of runs, and the views from which a human decides: the    *)
(* status, the review queue and the approval packet.                       *)
(*                                                                         *)
(* verify never loads or saves a task.  It loads a run, which never        *)
(* changes, runs a command, stamps the record with the time and writes it. *)
(* Any number of verify commands may overlap, so that the record of any    *)
(* run with any stamp may be written at any moment: their in-memory state  *)
(* need not be kept.                                                       *)
(*                                                                         *)
(* A view is read while other commands write: the queue lists the          *)
(* verifications first and reads the tasks then, the packet the other way  *)
(* round.  Listing a directory is one step: the names are read at once,    *)
(* and a verification never changes once it is written.                    *)
(*                                                                         *)
(* One reader stands for any number of them, since readers write nothing   *)
(* canonical.  After its first read it may make the second one at any      *)
(* moment; what it would print then is a function of the state.            *)
(***************************************************************************)
EXTENDS Patchrail

CONSTANTS
    Verifications,   \* verification ids, in the order of their names
    MaxTime          \* bound on the times that stamps can tell apart

ASSUME VerificationAssumption ==
    Verifications \subseteq Nat /\ None \notin Verifications /\ MaxTime \in Nat

VARIABLES
    verifications,   \* verifications/<id>.json
    view             \* what the reader has read

evidenceVars == <<vars, verifications, view>>

Statuses == {"passed", "failed"}
VerificationRecord == [run: RunIds, status: Statuses, time: 0..MaxTime]
ASSUME NullVerificationAssumption == None \notin VerificationRecord

Groups == {"needs_verification", "failed_verification", "ready_for_review",
           "awaiting_approval", "approved"}
ASSUME NullAnswerAssumption == None \notin Groups \cup Statuses

View == [step: {"nothing", "queue", "packet", "status", "unknown_record"},
         copy: Maybe(TaskRecord), seen: SUBSET Verifications]
Nothing == [step |-> "nothing", copy |-> None, seen |-> {}]

EvidenceInit ==
    /\ Init
    /\ verifications = [v \in Verifications |-> None]
    /\ view = Nothing

-----------------------------------------------------------------------------
(* verify, when its command has ended.  Its stamp may be older than those  *)
(* of records already written.  A command that never ends, or a process    *)
(* that dies, writes nothing.                                              *)

(* Wrong variant: the record is written before the command has ended. *)
SaveVerificationEarly(r) ==
    /\ runs[r] # None
    /\ \E new \in Verifications, time \in 0..MaxTime :
         /\ verifications[new] = None
         /\ verifications' = [verifications EXCEPT ![new] =
                                [run |-> r, status |-> None, time |-> time]]
    /\ UNCHANGED <<vars, view>>

SaveVerification(r) ==
    /\ runs[r] # None
    /\ \E new \in Verifications, status \in Statuses, time \in 0..MaxTime :
         /\ verifications[new] = None
         /\ verifications' = [verifications EXCEPT ![new] =
                                [run |-> r, status |-> status, time |-> time]]
    /\ UNCHANGED <<vars, view>>

-----------------------------------------------------------------------------
(* _list_records sorts the files by name, and then stably by created_at,   *)
(* the newest first: of equal times the smaller name comes first.          *)
Recorded == {v \in Verifications : verifications[v] # None}
OfRun(vs, r) == {v \in vs : verifications[v].run = r}

(* Wrong variant: the oldest comes first. *)
PrecedesOldest(v, w) ==
    \/ verifications[v].time < verifications[w].time
    \/ verifications[v].time = verifications[w].time /\ v <= w

Precedes(v, w) ==
    \/ verifications[v].time > verifications[w].time
    \/ verifications[v].time = verifications[w].time /\ v <= w

First(vs) == IF vs = {} THEN None
             ELSE CHOOSE v \in vs : \A w \in vs : Precedes(v, w)

LatestStatus(vs, r) ==
    LET latest == First(OfRun(vs, r))
    IN IF latest = None THEN None ELSE verifications[latest].status

(* Wrong variant: a run that was verified at all is ready. *)
QueueGroupVerified(task, vs) ==
    CASE task.state = "approved" -> "approved"
      [] task.state = "awaiting_approval" -> "awaiting_approval"
      [] task.state = "review_pending" /\ task.run # None ->
           IF OfRun(vs, task.run) = {} THEN "needs_verification"
           ELSE "ready_for_review"
      [] OTHER -> None

(* list_review_queue: the group of a task, None when it is in no group.    *)
QueueGroup(task, vs) ==
    CASE task.state = "approved" -> "approved"
      [] task.state = "awaiting_approval" -> "awaiting_approval"
      [] task.state = "review_pending" /\ task.run # None ->
           (CASE LatestStatus(vs, task.run) = None -> "needs_verification"
              [] LatestStatus(vs, task.run) = "failed" -> "failed_verification"
              [] LatestStatus(vs, task.run) = "passed" -> "ready_for_review")
      [] OTHER -> None

(* Wrong variant: a run without verification is no gap. *)
GapsWithoutMissing(task, vs) ==
    IF task.run = None THEN {"run"}
    ELSE ({LatestStatus(vs, task.run)} \cap {"failed"})
         \cup (IF task.review = None THEN {"review"} ELSE {})
         \cup (IF task.approval = None THEN {"approval"} ELSE {})

(* _unresolved_gaps, by their kinds.                                       *)
Gaps(task, vs) ==
    IF task.run = None THEN {"run"}
    ELSE (CASE LatestStatus(vs, task.run) = None -> {"verification"}
            [] LatestStatus(vs, task.run) = "failed" -> {"failed"}
            [] OTHER -> {})
         \cup (IF task.review = None THEN {"review"} ELSE {})
         \cup (IF task.approval = None THEN {"approval"} ELSE {})

-----------------------------------------------------------------------------
(* The views.  The records a task points at never change once written, and *)
(* are read with the task; one that is missing ends the command with       *)
(* "Unknown record".                                                       *)
PacketRecordsFound(task) ==
    /\ task.plan # None => plans[task.plan] # None
    /\ task.run # None => runs[task.run] # None /\ task.run \in bundles
    /\ task.review # None => reviews[task.review] # None
    /\ task.approval # None => approvals[task.approval] # None

(* Only the status loads the latest fallback request as well.              *)
StatusRecordsFound(task) ==
    /\ PacketRecordsFound(task)
    /\ task.request # None => requests[task.request] # None

Show(step, copy, seen) ==
    /\ view' = [step |-> step, copy |-> copy, seen |-> seen]
    /\ UNCHANGED <<vars, verifications>>

QueueLists ==
    /\ view = Nothing
    /\ Show("queue", None, Recorded)

PacketLoads(t) ==
    /\ view = Nothing
    /\ tasks[t] # None
    /\ IF PacketRecordsFound(tasks[t]) THEN Show("packet", tasks[t], {})
       ELSE Show("unknown_record", None, {})

(* get_status reads nothing later than that.                               *)
StatusLoads(t) ==
    /\ view = Nothing
    /\ tasks[t] # None
    /\ Show(IF StatusRecordsFound(tasks[t]) THEN "status" ELSE "unknown_record",
            None, {})

(* The second read, or the reader's death.                                 *)
ReaderEnds ==
    /\ view # Nothing
    /\ view' = Nothing
    /\ UNCHANGED <<vars, verifications>>

(* Where the queue puts a task whose file it reads now.                    *)
Queued(t) == QueueGroup(tasks[t], view.seen)

(* The gaps of a packet that lists the verifications now.                  *)
PacketGaps == Gaps(view.copy, Recorded)

Read == \/ QueueLists
        \/ \E t \in Tasks : PacketLoads(t) \/ StatusLoads(t)
        \/ ReaderEnds

EvidenceNext ==
    \/ Next /\ UNCHANGED <<verifications, view>>
    \/ \E r \in RunIds : SaveVerification(r)
    \/ Read

EvidenceSpec == EvidenceInit /\ [][EvidenceNext]_evidenceVars

-----------------------------------------------------------------------------
EvidenceTypeOK ==
    /\ verifications \in [Verifications -> Maybe(VerificationRecord)]
    /\ view \in View

(* "Future sessions can resume by reading the stored files": whatever      *)
(* overlaps and whatever died, the packet of a task and its status, which  *)
(* loads the latest fallback request too, never end with "Unknown record". *)
ReadersFindRecords == view.step # "unknown_record"

(* The latest verification of the run in the list passed. *)
PassedLast(vs, r) ==
    \E v \in OfRun(vs, r) :
      /\ verifications[v].status = "passed"
      /\ \A w \in OfRun(vs, r) :
           verifications[w].time > verifications[v].time =>
               verifications[w].status = "passed"

(* The queue calls a run ready for review, and a packet shows no gap in    *)
(* the verification of its run, only if that very run was verified, and no *)
(* verification that the list has is a newer failure: in the queue, the    *)
(* list is older than the task it is held against, in the packet younger,  *)
(* whatever was run, linked or recorded between the two reads.             *)
ReadyIsVerified ==
    /\ view.step = "queue" =>
         \A t \in Tasks :
           tasks[t] # None /\ Queued(t) = "ready_for_review" =>
             PassedLast(view.seen, tasks[t].run)
    /\ view.step = "packet" /\ PacketGaps \cap {"run", "verification", "failed"} = {} =>
         PassedLast(Recorded, view.copy.run)

(* A group of the queue and the gaps of a packet say the same of a task.   *)
Agree(group, gaps) ==
    /\ group = "needs_verification" <=>
         gaps = {"verification", "review", "approval"}
    /\ group = "failed_verification" <=> gaps = {"failed", "review", "approval"}
    /\ group = "ready_for_review" <=> gaps = {"review", "approval"}
    /\ group = "awaiting_approval" <=>
         {"approval"} = gaps \cap {"run", "review", "approval"}
    /\ group = "approved" => gaps \cap {"run", "review", "approval"} = {}

(* The queue and the packet, read at the same moment, judge a task alike:  *)
(* the queue reads the task's state and groups the verifications by run,   *)
(* the packet reads the task's pointers and filters the verifications.     *)
QueueAgreesWithPacket ==
    \A t \in Tasks : tasks[t] # None =>
        Agree(QueueGroup(tasks[t], Recorded), Gaps(tasks[t], Recorded))

(* A verification that is recorded late, with an older stamp, never hides  *)
(* a newer one: what a run's latest verification is never goes back.       *)
LatestNeverOlder ==
    [][\A r \in RunIds :
         OfRun(Recorded, r) # {} =>
             verifications'[First(OfRun(Recorded, r))'].time
               >= verifications[First(OfRun(Recorded, r))].time]_evidenceVars
=============================================================================
