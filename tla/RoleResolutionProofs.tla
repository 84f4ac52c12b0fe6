------------------------ MODULE RoleResolutionProofs ------------------------
(***************************************************************************)
(* Which candidate is selected, and when its selection needs an approval,  *)
(* for every policy and every world the preflights may find.               *)
(***************************************************************************)
EXTENDS RoleResolution, SequenceTheorems, TLAPS

(* The selection starts when everything before it is done, has found the   *)
(* candidates before the cursor blocked, and ends at the cursor.           *)
HasAdapter(c) == \/ c.access_mode = "api"
                 \/ c.simulation
                 \/ c.provider \in {"codex", "claude"}

Finished == pending = <<>> /\ Len(results) = Len(candidates)

SelectionInv ==
    /\ TypeOK
    /\ \A i \in 1..Len(candidates) : Asked(candidates[i])
    /\ Len(results) <= Len(candidates)
    /\ pending # <<>> => results = <<>>
    /\ \A i \in 1..Len(results) : results[i] => HasAdapter(candidates[i])
    /\ cursor <= Len(results) + 1
    /\ cursor > 1 \/ resolved => Finished
    /\ \A j \in 1..(cursor - 1) : ~results[j]
    /\ IF ~resolved \/ cursor > Len(candidates)
       THEN selected = Nothing
       ELSE results[cursor] /\ selected = Assignment(candidates[cursor],
                                                     candidates[1])

LEMMA NeedsAdapter ==
  ASSUME NEW c \in Candidate, NEW w \in World, Ready(c, w)
  PROVE  HasAdapter(c)
<1> SUFFICES ASSUME ~HasAdapter(c) PROVE FALSE
  OBVIOUS
<1>1. c.access_mode # "api" /\ ~c.simulation /\ c.provider \notin {"codex", "claude"}
  BY DEF HasAdapter
<1>2. SubscriptionChecks(c, w) = AllChecks(FALSE)
  BY <1>1 DEF SubscriptionChecks
<1>3. "login_ok" \in Failing(AllChecks(FALSE))
  BY DEF AllChecks, Failing
<1> QED
  BY <1>1, <1>2, <1>3 DEF Ready

LEMMA AssignmentType ==
  ASSUME NEW c \in Candidate, NEW first \in Candidate
  PROVE  Assignment(c, first) \in ResolvedAssignment
BY DEF Assignment, ResolvedAssignment, FallbackEvent, Candidate, Changes

LEMMA ReadyIsBoolean ==
  ASSUME NEW c, NEW w
  PROVE  Ready(c, w) \in BOOLEAN
<1>1. CASE c.access_mode = "api"
  BY <1>1 DEF Ready
<1>2. CASE c.access_mode # "api"
  BY <1>2 DEF Ready
<1> QED
  BY <1>1, <1>2

LEMMA InitSelection == Init => SelectionInv
<1> SUFFICES ASSUME Init PROVE SelectionInv
  OBVIOUS
<1> USE DEF Init
<1>1. TypeOK
  <2>1. pending \in Seq(Candidate)
    BY PolicyAssumption
  <2>2. <<>> \in Seq(Candidate) /\ <<>> \in Seq(BOOLEAN)
    OBVIOUS
  <2>3. cursor \in Nat \ {0}
    OBVIOUS
  <2>5. resolved \in BOOLEAN
    BY Zenon
  <2>4. /\ provider \in Providers \cup {Nothing}
        /\ accessMode \in AccessModes \cup {Nothing}
        /\ selected \in ResolvedAssignment \cup {Nothing}
    OBVIOUS
  <2> HIDE DEF Init
  <2> QED
    BY <2>1, <2>2, <2>3, <2>4, <2>5 DEF TypeOK, Init
<1>2. Len(candidates) = 0 /\ Len(results) = 0
  OBVIOUS
<1> QED
  BY <1>1, <1>2 DEF SelectionInv, Finished

LEMMA FilterStep == SelectionInv /\ Filter => SelectionInv'
<1> SUFFICES ASSUME SelectionInv, Filter PROVE SelectionInv'
  OBVIOUS
<1> USE DEF SelectionInv, Filter
<1>1. /\ Head(pending) \in Candidate /\ Tail(pending) \in Seq(Candidate)
      /\ results = <<>> /\ cursor = 1 /\ ~resolved /\ selected = Nothing
  BY HeadTailProperties DEF TypeOK, Finished
<1>2. candidates' \in Seq(Candidate)
  BY <1>1 DEF TypeOK
<1>3. \A i \in 1..Len(candidates') : Asked(candidates'[i])
  BY <1>1 DEF TypeOK
<1>4. TypeOK'
  BY <1>1, <1>2 DEF TypeOK
<1> QED
  BY <1>1, <1>2, <1>3, <1>4 DEF Asked, Finished, TypeOK

LEMMA PreflightStep == SelectionInv /\ Preflight => SelectionInv'
<1> SUFFICES ASSUME SelectionInv, Preflight PROVE SelectionInv'
  OBVIOUS
<1> USE DEF SelectionInv, Preflight
<1> PICK w \in World :
      results' = Append(results, Ready(candidates[Len(results) + 1], w))
  OBVIOUS
<1> DEFINE c == candidates[Len(results) + 1]
<1>1. c \in Candidate /\ Ready(c, w) \in BOOLEAN
  BY ReadyIsBoolean DEF TypeOK
<1>2. cursor = 1 /\ ~resolved /\ selected = Nothing
  BY DEF TypeOK, Finished
<1>3. /\ results' \in Seq(BOOLEAN) /\ Len(results') = Len(results) + 1
      /\ \A i \in 1..Len(results) : results'[i] = results[i]
      /\ results'[Len(results) + 1] = Ready(c, w)
  BY <1>1 DEF TypeOK
<1>4. \A i \in 1..Len(results') : results'[i] => HasAdapter(candidates[i])
  BY <1>1, <1>3, NeedsAdapter DEF TypeOK
<1>5. TypeOK'
  BY <1>3 DEF TypeOK
<1> QED
  BY <1>2, <1>3, <1>4, <1>5 DEF Asked, Finished, TypeOK, HasAdapter

LEMMA SkipBlockedStep == SelectionInv /\ SkipBlocked => SelectionInv'
BY DEF SelectionInv, SkipBlocked, Selecting, Finished, TypeOK, Asked,
       HasAdapter

LEMMA SelectStep == SelectionInv /\ Select => SelectionInv'
<1> SUFFICES ASSUME SelectionInv, Select PROVE SelectionInv'
  OBVIOUS
<1> USE DEF SelectionInv, Select
<1>1. /\ candidates[cursor] \in Candidate /\ candidates[1] \in Candidate
  BY DEF TypeOK
<1>2. TypeOK'
  BY <1>1, AssignmentType DEF TypeOK
<1>3. selected' = Assignment(candidates[cursor], candidates[1])'
  BY DEF Assignment, Changes
<1> QED
  BY <1>2, <1>3 DEF Asked, Selecting, Finished, TypeOK, HasAdapter

LEMMA NoneReadyStep == SelectionInv /\ NoneReady => SelectionInv'
BY DEF SelectionInv, NoneReady, Selecting, Finished, TypeOK, Asked, HasAdapter

LEMMA SelectionStutter == SelectionInv /\ UNCHANGED vars => SelectionInv'
BY DEF SelectionInv, vars, Finished, TypeOK, Asked, HasAdapter, Assignment,
       Changes

(* While candidates are probed one after another, those before the cursor  *)
(* have been found blocked, and the selected one was found ready.          *)
THEOREM SelectionInvariance == Spec => []SelectionInv
<1>1. SelectionInv /\ [Next]_vars => SelectionInv'
  BY FilterStep, PreflightStep, SkipBlockedStep, SelectStep, NoneReadyStep,
     SelectionStutter DEF Next
<1> QED
  BY InitSelection, <1>1, PTL DEF Spec

(* The state of a resolution is well typed: what is selected is a complete *)
(* assignment, or nothing.                                                 *)
THEOREM ResolutionTypeCorrect == Spec => []TypeOK
<1>1. SelectionInv => TypeOK
  BY DEF SelectionInv
<1> QED
  BY <1>1, SelectionInvariance, PTL

(* The first candidate that was found ready is selected, and none if none  *)
(* was, for every policy.                                                  *)
THEOREM FirstReadyIsSelected == Spec => []FirstReadySelected
<1>1. SelectionInv => FirstReadySelected
  <2> SUFFICES ASSUME SelectionInv, resolved PROVE FirstReadySelected
    BY DEF FirstReadySelected
  <2> USE DEF SelectionInv
  <2>1. CASE cursor > Len(candidates)
    BY <2>1 DEF FirstReadySelected, Finished, TypeOK
  <2>2. CASE cursor \in 1..Len(candidates)
    <3>1. candidates[cursor] \in Candidate /\ candidates[1] \in Candidate
      BY <2>2 DEF TypeOK
    <3>2. selected = Assignment(candidates[cursor], candidates[1])
      BY <2>2 DEF TypeOK
    <3>3. selected # Nothing /\ selected.candidate = candidates[cursor]
      BY <3>1, <3>2, AssignmentType, NothingAssumption DEF Assignment
    <3>4. results[cursor] /\ \A j \in 1..(cursor - 1) : ~results[j]
      BY <2>2 DEF TypeOK
    <3> QED
      BY <2>2, <3>3, <3>4 DEF FirstReadySelected
  <2> QED
    BY <2>1, <2>2 DEF TypeOK
<1> QED
  BY <1>1, SelectionInvariance, PTL

(* What is selected was made from a candidate found ready and the first.   *)
LEMMA SelectedIsAssignment ==
  ASSUME SelectionInv, selected # Nothing
  PROVE  /\ cursor \in 1..Len(candidates)
         /\ candidates[cursor] \in Candidate
         /\ candidates[1] \in Candidate
         /\ results[cursor] /\ Finished
         /\ selected = Assignment(candidates[cursor], candidates[1])
BY DEF SelectionInv, TypeOK, Finished

(* An assignment that requires approval can be requested, matched and      *)
(* approved: it always comes with its event.                               *)
THEOREM ApprovalHasItsEvent == Spec => []ApprovalHasEvent
<1>1. SelectionInv => ApprovalHasEvent
  <2> SUFFICES ASSUME SelectionInv, selected # Nothing,
                      selected.requires_additional_approval
               PROVE  ApprovalHasEvent
    BY DEF ApprovalHasEvent
  <2> DEFINE c == candidates[cursor]
             first == candidates[1]
             event == [attempted |-> first.name, selected |-> c.name]
  <2>1. c \in Candidate /\ first \in Candidate /\ selected = Assignment(c, first)
    BY SelectedIsAssignment
  <2>2. c.name # first.name /\ selected.fallback_event = event
    BY <2>1 DEF Assignment
  <2>3. event \in FallbackEvent /\ event # Nothing
    BY <2>1, NothingAssumption DEF FallbackEvent, Candidate
  <2>4. selected.candidate = c
    BY <2>1 DEF Assignment
  <2> QED
    BY <2>2, <2>3, <2>4 DEF ApprovalHasEvent
<1> QED
  BY <1>1, SelectionInvariance, PTL

(* Subscription work never goes to a provider that has no adapter.         *)
THEOREM SelectedAlwaysHasAdapter == Spec => []SelectedHasAdapter
<1>1. SelectionInv => SelectedHasAdapter
  <2> SUFFICES ASSUME SelectionInv, selected # Nothing
               PROVE  HasAdapter(selected.candidate)
    BY DEF SelectedHasAdapter, HasAdapter
  <2>1. selected.candidate = candidates[cursor]
    BY SelectedIsAssignment DEF Assignment
  <2>2. cursor \in 1..Len(results) /\ results[cursor]
    BY SelectedIsAssignment DEF Finished
  <2> QED
    BY <2>1, <2>2 DEF SelectionInv
<1> QED
  BY <1>1, SelectionInvariance, PTL

-----------------------------------------------------------------------------
(* What is resolved, compared with the policy the resolution began with.   *)

(* The candidates so far are those of the policy's head that the command   *)
(* asks for, in their order; at tells where in the policy each comes from. *)
Handled(policy) == Len(policy) - Len(pending)

KeptAt(policy, at) ==
    /\ \A i \in 1..Len(candidates) : candidates[i] = policy[at[i]]
    /\ \A i, j \in 1..Len(candidates) : i < j => at[i] < at[j]
    /\ \A n \in 1..Handled(policy) :
         Asked(policy[n]) => \E i \in 1..Len(candidates) : at[i] = n

FilteredFrom(policy) ==
    /\ Len(pending) <= Len(policy)
    /\ \A j \in 1..Len(pending) : pending[j] = policy[Handled(policy) + j]
    /\ \E at \in [1..Len(candidates) -> 1..Handled(policy)] : KeptAt(policy, at)

LEMMA FilteredAtFirst ==
  ASSUME Init, NEW policy \in Policies, pending = policy
  PROVE  FilteredFrom(policy)
<1>1. Len(pending) \in Nat /\ Len(candidates) = 0
  BY PolicyAssumption DEF Init
<1>2. Handled(policy) = 0
  BY <1>1 DEF Handled
<1>3. \E at \in [1..0 -> 1..0] : TRUE
  <2>1. [i \in 1..0 |-> i] \in [1..0 -> 1..0]
    OBVIOUS
  <2> QED BY <2>1
<1>4. PICK at \in [1..0 -> 1..0] : TRUE
  BY <1>3
<1>5. KeptAt(policy, at)
  BY <1>1, <1>2 DEF KeptAt
<1>6. \A j \in 1..Len(pending) : pending[j] = policy[Handled(policy) + j]
  BY <1>1, <1>2
<1>7. \E a \in [1..Len(candidates) -> 1..Handled(policy)] : KeptAt(policy, a)
  BY <1>1, <1>2, <1>4, <1>5
<1>8. Len(pending) <= Len(policy)
  BY <1>1
<1> QED
  BY <1>6, <1>7, <1>8 DEF FilteredFrom

LEMMA FilterKeepsPolicy ==
  ASSUME TypeOK, NEW policy \in Seq(Candidate), FilteredFrom(policy), Filter
  PROVE  FilteredFrom(policy)'
<1>1. /\ Len(pending) \in Nat \ {0} /\ Len(candidates) \in Nat
      /\ Len(policy) \in Nat
      /\ Len(pending') = Len(pending) - 1
      /\ \A j \in 1..Len(pending') : pending'[j] = pending[j + 1]
      /\ Head(pending) = pending[1] /\ pending[1] \in Candidate
  BY HeadTailProperties DEF TypeOK, Filter
<1>a. Handled(policy) \in Nat
  BY <1>1 DEF Handled, FilteredFrom
<1>b. PICK k \in Nat : k = Handled(policy)
  BY <1>a
<1>c. PICK m \in Nat : m = Len(candidates)
  BY <1>1
<1>2. k = Handled(policy) /\ m = Len(candidates)
  BY <1>b, <1>c
<1>3. /\ Handled(policy)' = k + 1 /\ k + 1 \in 1..Len(policy)
      /\ Head(pending) = policy[k + 1]
  BY <1>1, <1>2 DEF Handled, FilteredFrom
<1>4. /\ Len(pending') <= Len(policy)
      /\ \A j \in 1..Len(pending') : pending'[j] = policy[k + 1 + j]
  <2>1. ASSUME NEW j \in 1..Len(pending') PROVE pending'[j] = policy[k + 1 + j]
    <3>1. j + 1 \in 1..Len(pending)
      BY <1>1
    <3>2. pending[j + 1] = policy[k + (j + 1)]
      BY <3>1, <1>2 DEF FilteredFrom
    <3>3. k + (j + 1) = k + 1 + j
      OBVIOUS
    <3> QED BY <3>2, <3>3, <1>1
  <2> QED BY <2>1, <1>1 DEF FilteredFrom
<1>5. PICK at \in [1..m -> 1..k] : KeptAt(policy, at)
  BY <1>2 DEF FilteredFrom
<1>6. /\ \A n \in 1..(k + 1) : n \in 1..k \/ n = k + 1
      /\ \A i \in 1..(m + 1) : i \in 1..m \/ i = m + 1
  OBVIOUS
<1>7. /\ \A q \in Candidate : Asked(q)' <=> Asked(q)
      /\ \A n \in 1..(k + 1) : policy[n] \in Candidate
  BY <1>3 DEF Filter, Asked
<1>8. CASE ~Asked(Head(pending))
  <2>1. candidates' = candidates
    BY <1>8 DEF Filter
  <2>2. at \in [1..m -> 1..(k + 1)]
    OBVIOUS
  <2>3. \A n \in 1..(k + 1) : Asked(policy[n])' => \E i \in 1..m : at[i] = n
    BY <1>2, <1>3, <1>5, <1>6, <1>7, <1>8 DEF KeptAt
  <2>4. KeptAt(policy, at)'
    BY <2>1, <2>3, <1>2, <1>3, <1>5 DEF KeptAt
  <2> QED BY <2>1, <2>2, <2>4, <1>2, <1>3, <1>4 DEF FilteredFrom
<1>9. CASE Asked(Head(pending))
  <2> DEFINE new == [i \in 1..(m + 1) |-> IF i = m + 1 THEN k + 1 ELSE at[i]]
  <2>1. /\ Len(candidates') = m + 1
        /\ \A i \in 1..m : candidates'[i] = candidates[i]
        /\ candidates'[m + 1] = policy[k + 1]
    BY <1>1, <1>2, <1>3, <1>9 DEF Filter, TypeOK
  <2>2. /\ new \in [1..(m + 1) -> 1..(k + 1)]
        /\ new[m + 1] = k + 1
        /\ \A i \in 1..m : new[i] = at[i] /\ at[i] \in 1..k
    BY <1>6
  <2> HIDE DEF new
  <2>3. \A i \in 1..(m + 1) : candidates'[i] = policy[new[i]]
    BY <2>1, <2>2, <1>2, <1>5, <1>6 DEF KeptAt
  <2>4. ASSUME NEW i \in 1..(m + 1), NEW j \in 1..(m + 1), i < j
        PROVE  new[i] < new[j]
    <3>1. i \in 1..m
      BY <2>4
    <3>2. CASE j \in 1..m
      BY <3>1, <3>2, <2>2, <2>4, <1>2, <1>5 DEF KeptAt
    <3>3. CASE j = m + 1
      BY <3>1, <3>3, <2>2
    <3> QED BY <3>2, <3>3, <1>6
  <2>5. ASSUME NEW n \in 1..(k + 1), Asked(policy[n])'
        PROVE  \E i \in 1..(m + 1) : new[i] = n
    <3>1. CASE n = k + 1
      <4>1. m + 1 \in 1..(m + 1)
        OBVIOUS
      <4> QED BY <3>1, <4>1, <2>2
    <3>2. CASE n \in 1..k
      <4>1. Asked(policy[n])
        BY <2>5, <1>7
      <4>2. PICK i \in 1..m : at[i] = n
        BY <3>2, <4>1, <1>2, <1>5 DEF KeptAt
      <4>3. i \in 1..(m + 1) /\ new[i] = n
        BY <4>2, <2>2
      <4> QED BY <4>3
    <3> QED BY <3>1, <3>2, <1>6
  <2>6. KeptAt(policy, new)'
    BY <2>1, <2>3, <2>4, <2>5, <1>3 DEF KeptAt
  <2> QED BY <2>1, <2>2, <2>6, <1>3, <1>4 DEF FilteredFrom
<1> QED
  BY <1>8, <1>9

LEMMA OthersKeepPolicy ==
  ASSUME NEW policy, FilteredFrom(policy),
         UNCHANGED <<pending, provider, accessMode, candidates>>
  PROVE  FilteredFrom(policy)'
BY DEF FilteredFrom, KeptAt, Handled, Asked

LEMMA NextKeepsPolicy ==
  ASSUME TypeOK, NEW policy \in Seq(Candidate), FilteredFrom(policy), [Next]_vars
  PROVE  FilteredFrom(policy)'
<1>1. CASE Filter
  BY <1>1, FilterKeepsPolicy
<1>2. CASE UNCHANGED <<pending, provider, accessMode, candidates>>
  BY <1>2, OthersKeepPolicy
<1> QED
  BY <1>1, <1>2 DEF Next, vars, Preflight, SkipBlocked, Select, NoneReady

(* What is left to probe, found again in the policy, in its order. *)
KeptFrom(policy) ==
    \E at \in [1..Len(candidates) -> 1..Len(policy)] : KeptAt(policy, at)

(* When the filters are through, the candidates are those of the policy    *)
(* that the command asks for: all of them, no other, each once and in the  *)
(* policy's order.                                                         *)
THEOREM CandidatesAreThoseAsked ==
  ASSUME NEW policy \in Policies
  PROVE  Spec /\ pending = policy => [](pending = <<>> => KeptFrom(policy))
<1>1. policy \in Seq(Candidate)
  BY PolicyAssumption
<1>2. Init /\ pending = policy => FilteredFrom(policy)
  BY FilteredAtFirst
<1>3. TypeOK /\ FilteredFrom(policy) /\ [Next]_vars => FilteredFrom(policy)'
  BY <1>1, NextKeepsPolicy
<1>4. FilteredFrom(policy) => (pending = <<>> => KeptFrom(policy))
  BY <1>1 DEF FilteredFrom, KeptFrom, Handled
<1> QED
  BY <1>2, <1>3, <1>4, ResolutionTypeCorrect, PTL DEF Spec

-----------------------------------------------------------------------------
LEMMA ChangeRequiresApproval ==
  ASSUME NEW c, NEW first, Changes(c, first), c.name # first.name
  PROVE  Assignment(c, first).requires_additional_approval
<1>1. (Changes(c, first) /\ c.name # first.name) = TRUE
  OBVIOUS
<1> QED
  BY <1>1 DEF Assignment

(* With names of their own, a candidate of another provider or access mode *)
(* is never selected without requiring approval, in any policy and world.  *)
THEOREM ChangesNeedApproval == Spec => []NamedChangeNeedsApproval
<1>1. SelectionInv => NamedChangeNeedsApproval
  <2> SUFFICES ASSUME SelectionInv, DistinctlyNamed, selected # Nothing,
                      ~ChangeNeedsApproval
               PROVE  FALSE
    BY DEF NamedChangeNeedsApproval, ChangeNeedsApproval
  <2>1. /\ selected = Assignment(candidates[cursor], candidates[1])
        /\ selected.candidate = candidates[cursor]
    BY SelectedIsAssignment DEF Assignment
  <2>2. cursor \in 1..Len(candidates) /\ 1 \in 1..Len(candidates)
    BY SelectedIsAssignment DEF SelectionInv, TypeOK
  <2>3. cursor # 1
    BY <2>1 DEF ChangeNeedsApproval
  <2>4. candidates[cursor].name # candidates[1].name
    BY <2>2, <2>3 DEF DistinctlyNamed
  <2>5. Changes(candidates[cursor], candidates[1])
    BY <2>1 DEF ChangeNeedsApproval, Changes
  <2>6. selected.requires_additional_approval
    BY <2>1, <2>4, <2>5, ChangeRequiresApproval
  <2> QED
    BY <2>6 DEF ChangeNeedsApproval
<1> QED
  BY <1>1, SelectionInvariance, PTL
=============================================================================
