--------------------------- MODULE EvidenceProofs ---------------------------
(***************************************************************************)
(* What verifications and readers add to the store takes nothing away from *)
(* it: a behaviour with them is a behaviour of Patchrail, and the inductive *)
(* invariant of PatchrailProofs holds for it.  What a reader has of a task *)
(* therefore stays true of the store, as do the copies of the commands.    *)
(***************************************************************************)
EXTENDS Evidence, PatchrailProofs, FiniteSetTheorems

(* No verify command and no reader does anything to the store.             *)
LEMMA StoreStep ==
  ASSUME [EvidenceNext]_evidenceVars
  PROVE  [Next]_vars
BY DEF EvidenceNext, evidenceVars, SaveVerification, Read, QueueLists,
       PacketLoads, StatusLoads, ReaderEnds, Show

(* The lifecycle does not see its observers, so whatever is proved of      *)
(* Patchrail holds with them.                                              *)
THEOREM ObserversChangeNothing == EvidenceSpec => Spec
<1>1. EvidenceInit => Init
  BY DEF EvidenceInit
<1> QED
  BY <1>1, StoreStep, PTL DEF EvidenceSpec, Spec

(* A task file of a good store never points at a record that is missing.   *)
LEMMA RecordsFound ==
  ASSUME IInv, NEW t \in Tasks, tasks[t] # None
  PROVE  PacketRecordsFound(tasks[t]) /\ StatusRecordsFound(tasks[t])
BY DEF IInv, TasksGood, Good, Chained, PacketRecordsFound, StatusRecordsFound

(* Packet and status always find their records: no reader ends with        *)
(* "Unknown record" for a task that exists, however many commands overlap  *)
(* and wherever they die.                                                  *)
THEOREM ReadersAlwaysFindRecords == EvidenceSpec => []ReadersFindRecords
<1>1. EvidenceInit => ReadersFindRecords
  BY DEF EvidenceInit, Nothing, ReadersFindRecords
<1>2. ASSUME IInv, ReadersFindRecords, [EvidenceNext]_evidenceVars
      PROVE  ReadersFindRecords'
  <2>1. CASE UNCHANGED view
    BY <2>1, <1>2 DEF ReadersFindRecords
  <2>2. CASE QueueLists \/ ReaderEnds
    BY <2>2 DEF QueueLists, ReaderEnds, Show, Nothing, ReadersFindRecords
  <2>3. ASSUME NEW t \in Tasks, PacketLoads(t)
        PROVE  ReadersFindRecords'
    <3>1. PacketRecordsFound(tasks[t])
      BY <2>3, <1>2, RecordsFound DEF PacketLoads
    <3>2. view'.step = "packet"
      BY <2>3, <3>1 DEF PacketLoads, Show
    <3> QED
      BY <3>2 DEF ReadersFindRecords
  <2>4. ASSUME NEW t \in Tasks, StatusLoads(t)
        PROVE  ReadersFindRecords'
    <3>1. StatusRecordsFound(tasks[t])
      BY <2>4, <1>2, RecordsFound DEF StatusLoads
    <3> QED
      BY <2>4, <3>1 DEF StatusLoads, Show, ReadersFindRecords
  <2> QED
    BY <1>2, <2>1, <2>2, <2>3, <2>4
       DEF EvidenceNext, evidenceVars, SaveVerification, Read
<1> QED
  BY <1>1, <1>2, ObserversChangeNothing, Invariance, PTL DEF EvidenceSpec

-----------------------------------------------------------------------------
(* Verifications: written once, of a run that exists. *)

LEMMA VerificationWritten ==
  ASSUME EvidenceTypeOK, NEW r \in RunIds, SaveVerification(r)
  PROVE  /\ EvidenceTypeOK'
         /\ Kept(verifications, verifications')
<1> PICK new \in Verifications, status \in Statuses, time \in 0..MaxTime :
      /\ verifications[new] = None
      /\ verifications' = [verifications EXCEPT ![new] =
                             [run |-> r, status |-> status, time |-> time]]
  BY DEF SaveVerification
<1>1. [run |-> r, status |-> status, time |-> time] \in VerificationRecord
  BY DEF VerificationRecord
<1>2. UNCHANGED view
  BY DEF SaveVerification
<1>3. verifications \in [Verifications -> Maybe(VerificationRecord)]
  BY DEF EvidenceTypeOK
<1> QED
  BY <1>1, <1>2, <1>3 DEF EvidenceTypeOK, Maybe, Kept

(* Type correctness of the verifications and of what a reader has read.    *)
THEOREM EvidenceTypeCorrect == EvidenceSpec => []EvidenceTypeOK
<1>1. EvidenceInit => EvidenceTypeOK
  BY DEF EvidenceInit, EvidenceTypeOK, Nothing, View, Maybe
<1>2. ASSUME IInv, EvidenceTypeOK, [EvidenceNext]_evidenceVars
      PROVE  EvidenceTypeOK'
  <2>1. CASE UNCHANGED <<verifications, view>>
    BY <1>2, <2>1 DEF EvidenceTypeOK
  <2>2. ASSUME NEW r \in RunIds, SaveVerification(r)
        PROVE  EvidenceTypeOK'
    BY <1>2, <2>2, VerificationWritten
  <2>3. CASE QueueLists
    BY <1>2, <2>3 DEF QueueLists, Show, EvidenceTypeOK, View, Maybe, Recorded
  <2>4. ASSUME NEW t \in Tasks, PacketLoads(t)
        PROVE  EvidenceTypeOK'
    <3>1. tasks[t] \in TaskRecord
      BY <1>2, <2>4, LoadedFrame DEF PacketLoads
    <3> QED
      BY <1>2, <2>4, <3>1 DEF PacketLoads, Show, EvidenceTypeOK, View, Maybe
  <2>5. ASSUME NEW t \in Tasks, StatusLoads(t)
        PROVE  EvidenceTypeOK'
    BY <1>2, <2>5 DEF StatusLoads, Show, EvidenceTypeOK, View, Maybe
  <2>6. CASE ReaderEnds
    BY <1>2, <2>6 DEF ReaderEnds, EvidenceTypeOK, Nothing, View, Maybe
  <2> QED
    BY <1>2, <2>1, <2>2, <2>3, <2>4, <2>5, <2>6
       DEF EvidenceNext, evidenceVars, Read
<1> QED
  BY <1>1, <1>2, ObserversChangeNothing, Invariance, PTL DEF EvidenceSpec

LEMMA VerificationsKept ==
  ASSUME EvidenceTypeOK, [EvidenceNext]_evidenceVars
  PROVE  Kept(verifications, verifications')
BY VerificationWritten
   DEF EvidenceNext, evidenceVars, Read, QueueLists, PacketLoads, StatusLoads,
       ReaderEnds, Show, Kept

-----------------------------------------------------------------------------
(* The latest verification.  First chooses one that precedes all others:   *)
(* there always is one, of the greatest time the smallest name.            *)

LEMMA LeastNumber ==
  ASSUME NEW S \in SUBSET Nat, S # {}
  PROVE  \E m \in S : \A n \in S : m <= n
<1> DEFINE upTo == {0..n : n \in S}
<1>1. upTo \subseteq FiniteSubsetsOf(Nat) /\ upTo # {}
  <2>1. ASSUME NEW n \in S
        PROVE  0..n \in FiniteSubsetsOf(Nat)
    <3>1. IsFiniteSet(0..n)
      BY FS_Interval
    <3> QED
      BY <3>1 DEF FiniteSubsetsOf
  <2> QED
    BY <2>1
<1>2. PICK x \in upTo : \A y \in upTo : <<y, x>> \notin StrictSubsetOrdering(Nat)
  BY <1>1, FS_StrictSubsetOrderingWellFounded, WFMin
<1>3. PICK m \in S : x = 0..m
  BY <1>2
<1>4. ASSUME NEW n \in S, n < m
      PROVE  FALSE
  <2>1. 0..n \in upTo /\ 0..n \in SUBSET Nat /\ 0..m \in SUBSET Nat
    OBVIOUS
  <2>2. 0..n \subseteq 0..m /\ m \in 0..m /\ m \notin 0..n
    BY <1>4
  <2>3. <<0..n, x>> \in StrictSubsetOrdering(Nat)
    BY <1>3, <2>1, <2>2 DEF StrictSubsetOrdering
  <2> QED
    BY <1>2, <2>1, <2>3
<1> QED
  BY <1>4

LEMMA FirstPrecedes ==
  ASSUME EvidenceTypeOK, NEW vs \in SUBSET Recorded, vs # {}
  PROVE  /\ First(vs) \in vs
         /\ \A w \in vs : Precedes(First(vs), w)
<1>1. \A v \in vs : v \in Nat /\ verifications[v] \in VerificationRecord
  BY VerificationAssumption DEF EvidenceTypeOK, Recorded, Maybe
<1>2. \A v \in vs : verifications[v].time \in 0..MaxTime
  BY <1>1 DEF VerificationRecord
<1> DEFINE ages == {MaxTime - verifications[v].time : v \in vs}
<1>3. ages \in SUBSET Nat /\ ages # {}
  BY <1>2, VerificationAssumption
<1>4. PICK age \in ages : \A other \in ages : age <= other
  BY <1>3, LeastNumber
<1>5. PICK u \in vs : age = MaxTime - verifications[u].time
  BY <1>4
<1>6. \A w \in vs : verifications[w].time <= verifications[u].time
  <2> SUFFICES ASSUME NEW w \in vs
               PROVE  verifications[w].time <= verifications[u].time
    OBVIOUS
  <2>1. MaxTime - verifications[w].time \in ages
    OBVIOUS
  <2>2. age <= MaxTime - verifications[w].time
    BY <1>4, <2>1
  <2> HIDE DEF ages
  <2> QED
    BY <1>2, <1>5, <2>2, VerificationAssumption
<1> HIDE DEF ages
<1> DEFINE newest == {v \in vs : verifications[v].time = verifications[u].time}
<1>7. newest \in SUBSET Nat /\ newest # {}
  BY <1>1
<1>8. PICK v \in newest : \A w \in newest : v <= w
  BY <1>7, LeastNumber
<1>9. v \in vs /\ \A w \in vs : Precedes(v, w)
  BY <1>2, <1>6, <1>8 DEF Precedes
<1>10. \E x \in vs : \A w \in vs : Precedes(x, w)
  BY <1>9
<1> QED
  BY <1>10 DEF First

(* The status of the latest verification is None only if there is none.    *)
LEMMA LatestStatusIsOne ==
  ASSUME EvidenceTypeOK, NEW vs \in SUBSET Recorded, NEW r
  PROVE  /\ OfRun(vs, r) = {} => LatestStatus(vs, r) = None
         /\ OfRun(vs, r) # {} =>
              /\ First(OfRun(vs, r)) \in OfRun(vs, r)
              /\ \A w \in OfRun(vs, r) : Precedes(First(OfRun(vs, r)), w)
              /\ LatestStatus(vs, r) = verifications[First(OfRun(vs, r))].status
         /\ LatestStatus(vs, r) \in Statuses \cup {None}
<1>1. OfRun(vs, r) \in SUBSET Recorded
  BY DEF OfRun
<1>2. CASE OfRun(vs, r) = {}
  BY <1>2 DEF LatestStatus, First
<1>3. CASE OfRun(vs, r) # {}
  <2>1. /\ First(OfRun(vs, r)) \in OfRun(vs, r)
        /\ \A w \in OfRun(vs, r) : Precedes(First(OfRun(vs, r)), w)
    BY <1>1, <1>3, FirstPrecedes
  <2>2. /\ First(OfRun(vs, r)) \in Verifications
        /\ verifications[First(OfRun(vs, r))] \in VerificationRecord
    BY <1>1, <2>1 DEF EvidenceTypeOK, Recorded, Maybe
  <2>3. First(OfRun(vs, r)) # None
    BY <2>2, VerificationAssumption
  <2> QED
    BY <1>3, <2>1, <2>2, <2>3 DEF LatestStatus, VerificationRecord
<1> QED
  BY <1>2, <1>3

-----------------------------------------------------------------------------
(* What the views say. *)

(* How a task's state, which the queue goes by, and its pointers, which the *)
(* packet goes by, hang together.                                          *)
LEMMA StateAndGaps ==
  ASSUME IInv, NEW t \in Tasks, tasks[t] # None
  PROVE  /\ tasks[t].state \in TaskStates
         /\ tasks[t].run # None <=> tasks[t].state \in Executed
         /\ tasks[t].review # None <=> tasks[t].state \in Reviewed
         /\ tasks[t].approval # None <=> tasks[t].state \in Terminal
BY LoadedFrame DEF Good, Shaped, TaskRecord

(* What the gaps say of the latest verification.                           *)
Unverified(vs, r) ==
    CASE LatestStatus(vs, r) = None -> {"verification"}
      [] LatestStatus(vs, r) = "failed" -> {"failed"}
      [] OTHER -> {}

LEMMA UnverifiedKinds ==
  ASSUME EvidenceTypeOK, NEW r
  PROVE  /\ LatestStatus(Recorded, r) = None
              => Unverified(Recorded, r) = {"verification"}
         /\ LatestStatus(Recorded, r) = "failed"
              => Unverified(Recorded, r) = {"failed"}
         /\ LatestStatus(Recorded, r) = "passed" => Unverified(Recorded, r) = {}
         /\ \/ LatestStatus(Recorded, r) = None
            \/ LatestStatus(Recorded, r) = "failed"
            \/ LatestStatus(Recorded, r) = "passed"
<1>1. LatestStatus(Recorded, r) \in {"passed", "failed", None}
  BY LatestStatusIsOne DEF Statuses
<1>2. None # "failed" /\ None # "passed"
  BY NullAnswerAssumption DEF Statuses
<1> QED
  BY <1>1, <1>2 DEF Unverified

(* Queue and packet, read at the same moment, judge a task alike: the one  *)
(* groups by state, the other looks at the pointers.                       *)
THEOREM QueueAndPacketAgree == EvidenceSpec => []QueueAgreesWithPacket
<1>1. ASSUME IInv, EvidenceTypeOK, NEW t \in Tasks, tasks[t] # None
      PROVE  Agree(QueueGroup(tasks[t], Recorded), Gaps(tasks[t], Recorded))
  <2> DEFINE task == tasks[t]
             latest == LatestStatus(Recorded, task.run)
             rest == Unverified(Recorded, task.run)
  <2>1. /\ task.state \in TaskStates
        /\ task.run # None <=> task.state \in Executed
        /\ task.review # None <=> task.state \in Reviewed
        /\ task.approval # None <=> task.state \in Terminal
    BY <1>1, StateAndGaps
  <2>2. /\ latest = None => rest = {"verification"}
        /\ latest = "failed" => rest = {"failed"}
        /\ latest = "passed" => rest = {}
        /\ latest = None \/ latest = "failed" \/ latest = "passed"
    BY <1>1, UnverifiedKinds
  <2>3. /\ None # "needs_verification" /\ None # "failed_verification"
        /\ None # "ready_for_review" /\ None # "awaiting_approval"
        /\ None # "approved" /\ None # "failed" /\ None # "passed"
    BY NullAnswerAssumption DEF Groups, Statuses
  <2>4. Gaps(task, Recorded) =
          IF task.run = None THEN {"run"}
          ELSE rest \cup (IF task.review = None THEN {"review"} ELSE {})
                    \cup (IF task.approval = None THEN {"approval"} ELSE {})
    BY DEF Gaps, Unverified
  <2>5. CASE task.state \in {"created", "planned", "running"}
    <3>1. QueueGroup(task, Recorded) = None
      BY <2>5 DEF QueueGroup
    <3>2. Gaps(task, Recorded) = {"run"}
      BY <2>1, <2>4, <2>5 DEF Executed, Terminal
    <3> QED
      BY <2>3, <3>1, <3>2 DEF Agree
  <2>6. CASE task.state = "review_pending"
    <3>1. task.run # None /\ task.review = None /\ task.approval = None
      BY <2>1, <2>6 DEF Executed, Reviewed, Terminal
    <3>2. Gaps(task, Recorded) = rest \cup {"review", "approval"}
      BY <2>4, <3>1
    <3>3. QueueGroup(task, Recorded) =
            CASE latest = None -> "needs_verification"
              [] latest = "failed" -> "failed_verification"
              [] latest = "passed" -> "ready_for_review"
      BY <2>6, <3>1 DEF QueueGroup
    <3>4. CASE latest = None
      BY <2>2, <2>3, <3>2, <3>3, <3>4 DEF Agree
    <3>5. CASE latest = "failed"
      BY <2>2, <2>3, <3>2, <3>3, <3>5 DEF Agree
    <3>6. CASE latest = "passed"
      BY <2>2, <2>3, <3>2, <3>3, <3>6 DEF Agree
    <3> QED
      BY <2>2, <3>4, <3>5, <3>6
  <2>7. CASE task.state = "awaiting_approval"
    <3>1. task.run # None /\ task.review # None /\ task.approval = None
      BY <2>1, <2>7 DEF Executed, Reviewed, Terminal
    <3>2. Gaps(task, Recorded) = rest \cup {"approval"}
      BY <2>4, <3>1
    <3>3. QueueGroup(task, Recorded) = "awaiting_approval"
      BY <2>7 DEF QueueGroup
    <3> QED
      BY <2>2, <3>2, <3>3 DEF Agree
  <2>8. CASE task.state \in Terminal
    <3>1. task.run # None /\ task.review # None /\ task.approval # None
      BY <2>1, <2>8 DEF Executed, Reviewed
    <3>2. Gaps(task, Recorded) = rest
      BY <2>4, <3>1
    <3>3. QueueGroup(task, Recorded) \in {"approved", None}
      BY <2>8 DEF QueueGroup, Terminal
    <3> QED
      BY <2>2, <2>3, <3>2, <3>3 DEF Agree
  <2> QED
    BY <2>1, <2>5, <2>6, <2>7, <2>8 DEF TaskStates, Terminal
<1>2. IInv /\ EvidenceTypeOK => QueueAgreesWithPacket
  BY <1>1 DEF QueueAgreesWithPacket
<1> QED
  BY <1>2, ObserversChangeNothing, Invariance, EvidenceTypeCorrect, PTL
-----------------------------------------------------------------------------
(* What a reader has read stays true: of the store while the packet waits  *)
(* for the verifications, of the verifications while the queue waits for   *)
(* the tasks.                                                              *)
ViewGood ==
    /\ view.step = "packet" =>
         /\ view.copy \in TaskRecord
         /\ \E t \in Tasks : Good(t, view.copy)
    /\ view.seen \subseteq Recorded

(* Every step of the lifecycle lets the store grow. *)
LEMMA ViewStaysGood ==
  ASSUME IInv, EvidenceTypeOK, ViewGood, Grow, UNCHANGED view,
         Kept(verifications, verifications')
  PROVE  ViewGood'
<1>1. ASSUME view.step = "packet"
      PROVE  \E t \in Tasks : Good(t, view.copy)'
  <2>1. PICK t \in Tasks : Good(t, view.copy)
    BY <1>1 DEF ViewGood
  <2>2. Good(t, view.copy)'
    BY <1>1, <2>1, GoodGrows DEF ViewGood, IInv
  <2> QED
    BY <2>2
<1>2. Recorded \subseteq Recorded'
  BY DEF Recorded, Kept, EvidenceTypeOK
<1> QED
  BY <1>1, <1>2 DEF ViewGood

(* What a reader has read stays true while commands go on writing.         *)
THEOREM ViewsStayGood == EvidenceSpec => []ViewGood
<1>1. EvidenceInit => ViewGood
  BY DEF EvidenceInit, ViewGood, Nothing
<1>2. ASSUME IInv, EvidenceTypeOK, ViewGood, [EvidenceNext]_evidenceVars
      PROVE  ViewGood'
  <2>1. Grow /\ Kept(verifications, verifications')
    BY <1>2, StoreStep, GrowStep, VerificationsKept
  <2>2. CASE UNCHANGED view
    BY <1>2, <2>1, <2>2, ViewStaysGood
  <2>3. CASE QueueLists
    BY <2>3 DEF QueueLists, Show, ViewGood, Recorded
  <2>4. ASSUME NEW t \in Tasks, PacketLoads(t)
        PROVE  ViewGood'
    <3> PICK copy \in TaskRecord : copy = tasks[t] /\ Good(t, copy)
      BY <1>2, <2>4, LoadedFrame DEF PacketLoads
    <3>1. Good(t, copy)'
      BY <1>2, <2>1, GoodGrows DEF IInv
    <3>2. \/ view' = [step |-> "packet", copy |-> copy, seen |-> {}]
          \/ view' = [step |-> "unknown_record", copy |-> None, seen |-> {}]
      BY <2>4 DEF PacketLoads, Show
    <3> QED
      BY <3>1, <3>2 DEF ViewGood
  <2>5. ASSUME NEW t \in Tasks, StatusLoads(t)
        PROVE  ViewGood'
    BY <2>5 DEF StatusLoads, Show, ViewGood
  <2>6. CASE ReaderEnds
    BY <2>6 DEF ReaderEnds, Nothing, ViewGood
  <2> QED
    BY <1>2, <2>2, <2>3, <2>4, <2>5, <2>6
       DEF EvidenceNext, evidenceVars, SaveVerification, Read
<1> QED
  BY <1>1, <1>2, ObserversChangeNothing, Invariance, EvidenceTypeCorrect, PTL
     DEF EvidenceSpec

(* A latest verification that passed is followed by no newer failure.      *)
LEMMA LatestPassed ==
  ASSUME EvidenceTypeOK, NEW vs \in SUBSET Recorded, NEW r,
         LatestStatus(vs, r) = "passed"
  PROVE  PassedLast(vs, r)
<1> DEFINE v == First(OfRun(vs, r))
<1>1. "passed" # None
  BY NullAnswerAssumption DEF Statuses
<1>2. /\ v \in OfRun(vs, r)
      /\ verifications[v].status = "passed"
      /\ \A w \in OfRun(vs, r) : Precedes(v, w)
  BY <1>1, LatestStatusIsOne
<1>3. \A w \in OfRun(vs, r) : verifications[w].time \in 0..MaxTime
  BY DEF OfRun, Recorded, EvidenceTypeOK, VerificationRecord, Maybe
<1> HIDE DEF v
<1>4. \A w \in OfRun(vs, r) :
        ~(verifications[w].time > verifications[v].time)
  BY <1>2, <1>3, VerificationAssumption DEF Precedes
<1> QED
  BY <1>2, <1>4 DEF PassedLast

(* A run that the queue calls ready, or in whose verification a packet     *)
(* shows no gap, was verified, and no newer verification that the reader   *)
(* has seen failed.                                                        *)
THEOREM ReadyRunsAreVerified == EvidenceSpec => []ReadyIsVerified
<1>1. ASSUME EvidenceTypeOK, ViewGood, NEW t \in Tasks, tasks[t] # None,
             Queued(t) = "ready_for_review"
      PROVE  PassedLast(view.seen, tasks[t].run)
  <2>1. view.seen \in SUBSET Recorded
    BY <1>1 DEF ViewGood
  <2>2. LatestStatus(view.seen, tasks[t].run) \in {"passed", "failed", None}
    BY <1>1, <2>1, LatestStatusIsOne DEF Statuses
  <2>3. /\ "passed" # None /\ "failed" # None
        /\ "ready_for_review" # None
    BY NullAnswerAssumption DEF Groups, Statuses
  <2>4. LatestStatus(view.seen, tasks[t].run) = "passed"
    BY <1>1, <2>2, <2>3 DEF Queued, QueueGroup
  <2> QED
    BY <1>1, <2>1, <2>4, LatestPassed
<1>2. ASSUME EvidenceTypeOK,
             PacketGaps \cap {"run", "verification", "failed"} = {}
      PROVE  PassedLast(Recorded, view.copy.run)
  <2>1. LatestStatus(Recorded, view.copy.run) \in {"passed", "failed", None}
    BY <1>2, LatestStatusIsOne DEF Statuses
  <2>2. LatestStatus(Recorded, view.copy.run) = "passed"
    BY <1>2, <2>1 DEF PacketGaps, Gaps
  <2> QED
    BY <1>2, <2>2, LatestPassed
<1>3. EvidenceTypeOK /\ ViewGood => ReadyIsVerified
  BY <1>1, <1>2 DEF ReadyIsVerified
<1> QED
  BY <1>3, EvidenceTypeCorrect, ViewsStayGood, PTL

(* The latest verification of a run, as an invariant, so that it can be    *)
(* used of the states before and after a step.                             *)
LatestIsFirst ==
    \A r \in RunIds : \A v \in OfRun(Recorded, r) :
        /\ First(OfRun(Recorded, r)) \in OfRun(Recorded, r)
        /\ Precedes(First(OfRun(Recorded, r)), v)

LEMMA LatestIsAlwaysFirst == EvidenceSpec => []LatestIsFirst
<1>1. EvidenceTypeOK => LatestIsFirst
  <2> SUFFICES ASSUME EvidenceTypeOK, NEW r \in RunIds,
                      NEW v \in OfRun(Recorded, r)
               PROVE  /\ First(OfRun(Recorded, r)) \in OfRun(Recorded, r)
                      /\ Precedes(First(OfRun(Recorded, r)), v)
    BY DEF LatestIsFirst
  <2>1. OfRun(Recorded, r) \in SUBSET Recorded
    BY DEF OfRun
  <2> QED
    BY <2>1, FirstPrecedes
<1> QED
  BY <1>1, EvidenceTypeCorrect, PTL

(* A verification that is recorded late never hides a newer one.           *)
THEOREM LatestIsNeverOlder == EvidenceSpec => LatestNeverOlder
<1>1. ASSUME EvidenceTypeOK, EvidenceTypeOK', LatestIsFirst, LatestIsFirst',
             Kept(verifications, verifications'),
             NEW r \in RunIds, OfRun(Recorded, r) # {}
      PROVE  verifications'[First(OfRun(Recorded, r))'].time
               >= verifications[First(OfRun(Recorded, r))].time
  <2>1. PICK v \in Verifications : v = First(OfRun(Recorded, r))
                                     /\ v \in OfRun(Recorded, r)
    BY <1>1 DEF LatestIsFirst, OfRun, Recorded
  <2>2. verifications[v] # None /\ verifications'[v] = verifications[v]
    BY <1>1, <2>1 DEF OfRun, Recorded, Kept, EvidenceTypeOK
  <2>3. v \in OfRun(Recorded, r)'
    BY <2>1, <2>2 DEF OfRun, Recorded
  <2>4. /\ First(OfRun(Recorded, r))' \in OfRun(Recorded, r)'
        /\ Precedes(First(OfRun(Recorded, r)), v)'
    BY <1>1, <2>3 DEF LatestIsFirst
  <2>5. PICK w \in Verifications : w = First(OfRun(Recorded, r))'
                                     /\ verifications'[w] # None
    BY <2>4 DEF OfRun, Recorded
  <2>6. verifications'[v].time \in Nat /\ verifications'[w].time \in Nat
    BY <1>1, <2>2, <2>5, VerificationAssumption
       DEF EvidenceTypeOK, VerificationRecord, Maybe
  <2>7. verifications'[w].time >= verifications'[v].time
    BY <2>4, <2>5, <2>6 DEF Precedes
  <2> QED
    BY <2>1, <2>2, <2>5, <2>7
<1>2. EvidenceTypeOK /\ EvidenceTypeOK' /\ LatestIsFirst /\ LatestIsFirst'
        /\ [EvidenceNext]_evidenceVars
      => [\A r \in RunIds :
            OfRun(Recorded, r) # {} =>
                verifications'[First(OfRun(Recorded, r))'].time
                  >= verifications[First(OfRun(Recorded, r))].time]_evidenceVars
  BY <1>1, VerificationsKept
<1> QED
  BY <1>2, EvidenceTypeCorrect, LatestIsAlwaysFirst, PTL
     DEF EvidenceSpec, LatestNeverOlder

=============================================================================
