-------------------------- MODULE GenerationProofs --------------------------
(***************************************************************************)
(* The presets, the runner that is built and the draft that is generated,  *)
(* for every policy, every world the preflights may find and every reply.  *)
(*                                                                         *)
(* The argument.  Nothing but the steps of the resolution changes what a   *)
(* resolution knows, so the theorems about it hold here too.  A resolution *)
(* that began with a preset's policy keeps of it what the command asks for *)
(* (FilteredFrom), so what is selected is an entry of the preset's table,  *)
(* and the rest is a matter of the table's entries.  The runner and the    *)
(* outcome are what the selected candidate and the reply make them         *)
(* (RunnerInv, OutcomeInv), also when the graph got there in four nodes    *)
(* (GraphInv).                                                             *)
(***************************************************************************)
EXTENDS Generation, RoleResolutionProofs

PresetPolicy == Presets[preset][role]

InvocationInv ==
    /\ preset \in DOMAIN Presets \cup {"edited"}
    /\ role \in PolicyRoles
    /\ runnerName \in IF role = "executor" THEN RunnerNames ELSE {Nothing}
    /\ provider = ProviderFilter(runnerName)
    /\ preset # "edited" => PresetPolicy \in Policies /\ FilteredFrom(PresetPolicy)

(* A simulated candidate passes its preflight in every world. *)
SimulatedReady ==
    \A i \in 1..Len(results) : candidates[i].simulation => results[i]

RunnerInv ==
    runner # Nothing =>
        /\ role = "executor" /\ selected # Nothing
        /\ \E custom \in BOOLEAN :
             runner = RunnerFor(selected.candidate, runnerName, custom)

OutcomeInv ==
    /\ outcome # Nothing /\ role = "executor" =>
          /\ runner # Nothing /\ reply \in Replies
          /\ outcome = RunnerResult(runner, selected.candidate, reply)
    /\ outcome # Nothing /\ role # "executor" =>
          /\ backend # Nothing /\ reply \in Replies
          /\ outcome = LocalDraft(selected.candidate, role, reply)

GraphInv ==
    /\ backend \in Backends \cup {Nothing}
    /\ node \in Nodes \cup {Nothing}
    /\ reply \in Replies \cup {Nothing}
    /\ generated \in Drafts \cup {Nothing}
    /\ backend # Nothing => Drafting
    /\ node # Nothing => backend = "langgraph"
    /\ node = "generate" => outcome = Nothing
    /\ node \in {"validate", "finalize"} =>
          /\ outcome = Nothing
          /\ reply \in Replies
          /\ generated = Draft(selected.candidate, reply)
          /\ LocalDraft(selected.candidate, role, reply) = "accepted"

GenInv == /\ SelectionInv /\ SimulatedReady /\ InvocationInv
          /\ RunnerInv /\ OutcomeInv /\ GraphInv

-----------------------------------------------------------------------------
(* What the steps leave alone. *)

LEMMA StepsOfResolution ==
  ASSUME [GenNext]_allVars
  PROVE  /\ [Next]_vars
         /\ UNCHANGED invocation
         /\ runner' = runner \/ BuildRunner
<1>1. CASE RunNext /\ UNCHANGED genVars
  BY <1>1 DEF RunNext, BuildRunner
<1>2. CASE UNCHANGED runVars
  BY <1>2 DEF runVars
<1> QED
  BY <1>1, <1>2 DEF GenNext, Execute, LocalGenerate, CollectContext, GenerateNode,
     ValidateNode, FinalizeNode, allVars

LEMMA SelectionStep == SelectionInv /\ [Next]_vars => SelectionInv'
BY FilterStep, PreflightStep, SkipBlockedStep, SelectStep, NoneReadyStep,
   SelectionStutter DEF Next

LEMMA SelectedStays ==
  ASSUME SelectionInv, [Next]_vars, selected # Nothing
  PROVE  selected' = selected
<1>1. ~Select
  BY DEF SelectionInv, Select, Selecting
<1> QED
  BY <1>1 DEF Next, vars, Filter, Preflight, SkipBlocked, NoneReady

(* With or without runner and draft, a resolution is a resolution: the     *)
(* theorems about Spec hold of whole commands.                             *)
THEOREM GenerationResolves == GenSpec => Spec
<1>1. GenInit => Init
  BY DEF GenInit, RunInit
<1>2. [GenNext]_allVars => [Next]_vars
  BY StepsOfResolution
<1> QED
  BY <1>1, <1>2, PTL DEF GenSpec, Spec

-----------------------------------------------------------------------------
(* The invariant. *)

LEMMA SimulatedPass ==
  ASSUME NEW c, NEW w, c.simulation
  PROVE  Ready(c, w)
<1>1. Failing(ApiChecks(c, w)) = {}
  <2>1. ApiChecks(c, w).credential_present /\ ApiChecks(c, w).endpoint_configured
    BY DEF ApiChecks
  <2>2. DOMAIN ApiChecks(c, w) = {"credential_present", "endpoint_configured"}
    BY DEF ApiChecks
  <2> QED BY <2>1, <2>2 DEF Failing
<1>2. CliPresent(c, w)
  BY DEF CliPresent
<1>3. Failing(SubscriptionChecks(c, w)) = {}
  BY DEF SubscriptionChecks, AllChecks, Failing
<1> QED
  BY <1>1, <1>2, <1>3 DEF Ready

LEMMA SimulatedStep ==
  ASSUME SelectionInv, SimulatedReady, [Next]_vars
  PROVE  SimulatedReady'
<1>1. CASE Filter
  <2>1. results = <<>> /\ results' = results
    BY <1>1 DEF Filter, SelectionInv
  <2> QED BY <2>1 DEF SimulatedReady
<1>2. CASE Preflight
  <2>1. PICK w \in World :
          results' = Append(results, Ready(candidates[Len(results) + 1], w))
    BY <1>2 DEF Preflight
  <2>2. results \in Seq(BOOLEAN) /\ candidates' = candidates
    BY <1>2 DEF Preflight, SelectionInv, TypeOK
  <2>3. /\ Len(results') = Len(results) + 1
        /\ \A i \in 1..Len(results) : results'[i] = results[i]
        /\ results'[Len(results) + 1] = Ready(candidates[Len(results) + 1], w)
        /\ \A i \in 1..Len(results') : i \in 1..Len(results) \/ i = Len(results) + 1
    BY <2>1, <2>2
  <2>4. ASSUME NEW i \in 1..Len(results'), candidates'[i].simulation
        PROVE  results'[i]
    <3>1. CASE i \in 1..Len(results)
      BY <3>1, <2>2, <2>3, <2>4 DEF SimulatedReady
    <3>2. CASE i = Len(results) + 1
      BY <3>2, <2>2, <2>3, <2>4, SimulatedPass
    <3> QED BY <3>1, <3>2, <2>3
  <2> QED BY <2>4 DEF SimulatedReady
<1>3. CASE UNCHANGED <<results, candidates>>
  BY <1>3 DEF SimulatedReady
<1> QED
  BY <1>1, <1>2, <1>3 DEF Next, vars, SkipBlocked, Select, NoneReady

LEMMA InvocationStep ==
  ASSUME SelectionInv, InvocationInv, [GenNext]_allVars
  PROVE  InvocationInv'
<1>1. [Next]_vars /\ UNCHANGED <<preset, role, runnerName>>
  BY StepsOfResolution DEF invocation
<1>2. provider' = provider
  BY <1>1 DEF Next, vars, Filter, Preflight, SkipBlocked, Select, NoneReady
<1>3. ASSUME preset # "edited" PROVE FilteredFrom(PresetPolicy)'
  <2>1. PICK policy \in Policies : policy = PresetPolicy
    BY <1>3 DEF InvocationInv
  <2>2. policy \in Seq(Candidate) /\ FilteredFrom(policy)
    BY <1>3, <2>1, PolicyAssumption DEF InvocationInv
  <2>3. FilteredFrom(policy)'
    BY <2>2, <1>1, NextKeepsPolicy DEF SelectionInv
  <2>4. policy = PresetPolicy'
    BY <2>1, <1>1 DEF PresetPolicy
  <2> QED BY <2>3, <2>4 DEF FilteredFrom, KeptAt, Handled
<1> QED
  BY <1>1, <1>2, <1>3 DEF InvocationInv, PresetPolicy

LEMMA RunnerStep ==
  ASSUME SelectionInv, RunnerInv, [GenNext]_allVars
  PROVE  RunnerInv'
<1>1. /\ [Next]_vars /\ UNCHANGED <<preset, role, runnerName>>
      /\ runner' = runner \/ BuildRunner
  BY StepsOfResolution DEF invocation
<1>2. selected # Nothing => selected' = selected
  BY <1>1, SelectedStays
<1>3. CASE runner' = runner
  BY <1>1, <1>2, <1>3 DEF RunnerInv
<1>4. CASE BuildRunner
  BY <1>1, <1>2, <1>4 DEF BuildRunner, RunnerInv
<1> QED
  BY <1>1, <1>3, <1>4

(* What the local engine accepts passes the validation of the graph.       *)
LEMMA AcceptedIsWhole ==
  ASSUME NEW c, NEW r, NEW answer \in Replies,
         LocalDraft(c, r, answer) = "accepted"
  PROVE  Draft(c, answer) \in Drafts /\ ~Lacks(r, Draft(c, answer))
<1>1. Draft(c, answer) \in Drafts
  BY DEF Draft, Drafts, Replies, Fields, Filled
<1>2. Draft(c, answer) # Nothing
  BY <1>1, NothingIsNoOutcome
<1>3. CASE c.simulation
  BY <1>1, <1>2, <1>3 DEF Draft, Lacks
<1>4. CASE ~c.simulation
  <2>1. DraftOf(r, answer) = "accepted"
    BY <1>4 DEF LocalDraft, Unreached
  <2>2. answer.rest \in Filled /\ (r # "reviewer" => answer.main \in Filled)
    BY <2>1 DEF DraftOf
  <2> QED
    BY <1>1, <1>2, <1>4, <2>2 DEF Draft, Lacks, Filled
<1> QED
  BY <1>1, <1>3, <1>4

(* What the steps that deliver have to go by. *)
LEMMA OutcomeStep ==
  ASSUME SelectionInv, RunnerInv, OutcomeInv, GraphInv, [GenNext]_allVars
  PROVE  OutcomeInv' /\ GraphInv'
<1>1. /\ [Next]_vars /\ UNCHANGED <<role, runnerName>>
      /\ runner # Nothing => runner' = runner
  <2>1. BuildRunner => runner = Nothing
    BY DEF BuildRunner
  <2> QED BY <2>1, StepsOfResolution DEF invocation
<1>2. /\ selected # Nothing => selected' = selected
      /\ Drafting => Drafting'
  BY <1>1, SelectedStays DEF Drafting
<1>3. CASE UNCHANGED genVars
  <2>1. OutcomeInv'
    <3>1. outcome # Nothing => selected # Nothing
      BY DEF OutcomeInv, RunnerInv, GraphInv, Drafting
    <3> QED BY <3>1, <1>1, <1>2, <1>3 DEF OutcomeInv, genVars
  <2>2. GraphInv'
    <3>1. node # Nothing => selected # Nothing
      BY NothingIsNoOutcome DEF GraphInv, Drafting, Backends
    <3>2. "validate" # Nothing /\ "finalize" # Nothing
      BY NothingIsNoOutcome DEF Nodes
    <3> QED BY <3>1, <3>2, <1>1, <1>2, <1>3 DEF GraphInv, genVars
  <2> QED BY <2>1, <2>2
<1>4. CASE Execute
  <2>1. /\ runner # Nothing /\ role = "executor" /\ UNCHANGED runVars
        /\ UNCHANGED <<backend, node, generated>>
    BY <1>4 DEF Execute, RunnerInv
  <2>2. PICK answer \in Replies :
           /\ reply' = answer
           /\ outcome' = RunnerResult(runner, selected.candidate, answer)
    BY <1>4 DEF Execute
  <2>3. backend = Nothing /\ node = Nothing
    BY <2>1, NothingIsNoOutcome DEF GraphInv, Drafting, Backends
  <2>4. UNCHANGED <<selected, role, runner>>
    BY <2>1 DEF runVars, vars, invocation
  <2>5. Nothing \notin Nodes
    BY NothingIsNoOutcome
  <2> QED BY <2>1, <2>2, <2>3, <2>4, <2>5 DEF OutcomeInv, GraphInv, Nodes
<1>5. CASE LocalGenerate
  <2>1. /\ Drafting /\ backend = Nothing /\ backend' = "local"
        /\ UNCHANGED <<selected, role, runner, node, generated>>
    BY <1>5 DEF LocalGenerate, runVars, vars, invocation
  <2>2. PICK answer \in Replies :
           /\ reply' = answer
           /\ outcome' = LocalDraft(selected.candidate, role, answer)
    BY <1>5 DEF LocalGenerate
  <2>3. node = Nothing /\ Nothing \notin Nodes
    BY <2>1, NothingIsNoOutcome DEF GraphInv, Backends
  <2>4. Nothing # "local" /\ "local" \in Backends
    BY NothingIsNoOutcome DEF Backends
  <2> QED
    BY <2>1, <2>2, <2>3, <2>4 DEF OutcomeInv, GraphInv, Nodes, Drafting
<1>6. CASE CollectContext
  <2>1. /\ Drafting /\ backend = Nothing /\ backend' = "langgraph"
        /\ node' = "generate"
        /\ UNCHANGED <<selected, role, runner, reply, generated, outcome>>
    BY <1>6 DEF CollectContext, runVars, vars, invocation
  <2>2. Nothing # "langgraph" /\ "langgraph" \in Backends /\ "generate" \in Nodes
    BY NothingIsNoOutcome DEF Backends, Nodes
  <2>3. outcome = Nothing
    BY <2>1 DEF OutcomeInv, Drafting
  <2> QED
    BY <2>1, <2>2, <2>3 DEF OutcomeInv, GraphInv, Drafting
<1>7. CASE GenerateNode
  <2>1. node = "generate" /\ UNCHANGED <<selected, role, runner, backend>>
    BY <1>7 DEF GenerateNode, runVars, vars, invocation
  <2>2. PICK answer \in Replies :
          /\ reply' = answer
          /\ IF LocalDraft(selected.candidate, role, answer) = "accepted"
             THEN /\ generated' = Draft(selected.candidate, answer)
                  /\ node' = "validate"
                  /\ UNCHANGED outcome
             ELSE /\ outcome' = LocalDraft(selected.candidate, role, answer)
                  /\ node' = "end"
                  /\ UNCHANGED generated
    BY <1>7 DEF GenerateNode
  <2>3. backend = "langgraph" /\ outcome = Nothing /\ Drafting
    BY <2>1, NothingIsNoOutcome DEF GraphInv, Nodes, Backends
  <2>4. Nothing # "langgraph" /\ Nothing \notin Nodes
    BY NothingIsNoOutcome DEF Backends
  <2>5. CASE LocalDraft(selected.candidate, role, answer) = "accepted"
    <3>1. /\ reply' = answer /\ node' = "validate" /\ outcome' = outcome
          /\ generated' = Draft(selected.candidate, answer)
      BY <2>2, <2>5
    <3>2. Draft(selected.candidate, answer) \in Drafts
      BY <2>5, AcceptedIsWhole
    <3> QED
      BY <2>1, <2>3, <2>4, <2>5, <3>1, <3>2
         DEF OutcomeInv, GraphInv, Nodes, Drafting
  <2>6. CASE LocalDraft(selected.candidate, role, answer) # "accepted"
    BY <2>1, <2>2, <2>3, <2>4, <2>6 DEF OutcomeInv, GraphInv, Nodes, Drafting
  <2> QED BY <2>5, <2>6
<1>8. CASE ValidateNode
  <2>1. /\ node = "validate"
        /\ UNCHANGED <<selected, role, runner, backend, reply, generated>>
        /\ IF Lacks(role, generated)
           THEN node' = "end" /\ outcome' = "refused"
           ELSE node' = "finalize" /\ UNCHANGED outcome
    BY <1>8 DEF ValidateNode, runVars, vars, invocation
  <2>2. ~Lacks(role, generated)
    BY <2>1, AcceptedIsWhole DEF GraphInv
  <2>3. node' = "finalize" /\ outcome' = outcome
    BY <2>1, <2>2
  <2>4. Nothing \notin Nodes
    BY NothingIsNoOutcome
  <2> QED BY <2>1, <2>3, <2>4 DEF OutcomeInv, GraphInv, Nodes, Drafting
<1>9. CASE FinalizeNode
  <2>1. /\ node = "finalize" /\ node' = "end"
        /\ outcome' = IF generated = Nothing THEN "refused" ELSE "accepted"
        /\ UNCHANGED <<selected, role, runner, backend, reply, generated>>
    BY <1>9 DEF FinalizeNode, runVars, vars, invocation
  <2>2. /\ generated \in Drafts /\ reply \in Replies
        /\ LocalDraft(selected.candidate, role, reply) = "accepted"
        /\ backend = "langgraph" /\ Drafting
    BY <2>1, NothingIsNoOutcome, AcceptedIsWhole DEF GraphInv, Nodes, Backends
  <2>3. /\ Nothing # "langgraph" /\ Nothing \notin Nodes
        /\ outcome' = "accepted"
    BY <2>1, <2>2, NothingIsNoOutcome DEF Backends
  <2> QED BY <2>1, <2>2, <2>3 DEF OutcomeInv, GraphInv, Nodes, Drafting
<1> QED
  BY <1>3, <1>4, <1>5, <1>6, <1>7, <1>8, <1>9 DEF GenNext, allVars

LEMMA GenInitInv == GenInit => GenInv
<1> SUFFICES ASSUME GenInit PROVE GenInv
  OBVIOUS
<1>1. Init /\ RunInit
  BY DEF GenInit, RunInit
<1>2. SelectionInv
  BY <1>1, InitSelection
<1>3. SimulatedReady
  BY <1>1 DEF Init, SimulatedReady
<1>4. InvocationInv
  <2>1. preset # "edited" => pending = PresetPolicy /\ PresetPolicy \in Policies
    BY <1>1 DEF RunInit, Init, PresetPolicy
  <2>2. preset # "edited" => FilteredFrom(PresetPolicy)
    BY <1>1, <2>1, FilteredAtFirst
  <2> QED BY <2>1, <2>2, <1>1 DEF RunInit, InvocationInv
<1>5. RunnerInv
  BY <1>1 DEF RunInit, RunnerInv
<1>6. OutcomeInv /\ GraphInv
  BY NothingIsNoOutcome DEF GenInit, OutcomeInv, GraphInv, Nodes
<1> QED
  BY <1>2, <1>3, <1>4, <1>5, <1>6 DEF GenInv

(* From the command line to the outcome: what has been resolved, built and *)
(* drafted is what the preset's table, the candidate and the reply make it.*)
THEOREM GenInvariance == GenSpec => []GenInv
<1>1. GenInv /\ [GenNext]_allVars => GenInv'
  BY StepsOfResolution, SelectionStep, SimulatedStep, InvocationStep, RunnerStep,
     OutcomeStep DEF GenInv
<1> QED
  BY <1>1, GenInitInv, PTL DEF GenSpec

-----------------------------------------------------------------------------
(* The tables of the presets. *)

LEMMA SubscriptionFields ==
  ASSUME NEW name, NEW p
  PROVE  /\ Subscription(name, p).provider = p
         /\ Subscription(name, p).access_mode = "subscription"
         /\ ~Subscription(name, p).simulation
<1> DEFINE c == Simulated(name, p)
<1>1. /\ DOMAIN c = {"name", "provider", "access_mode", "simulation", "cli",
                     "api_key_env", "endpoint_env"}
      /\ c.provider = p /\ c.access_mode = "subscription"
  BY DEF Simulated
<1>2. Subscription(name, p) = [c EXCEPT !.simulation = FALSE, !.cli = p]
  BY DEF Subscription
<1> HIDE DEF c
<1> QED BY <1>1, <1>2

(* No two entries for a role agree in provider and access mode.            *)
LEMMA PresetsApart ==
  ASSUME NEW s \in DOMAIN Presets, NEW r \in PolicyRoles
  PROVE  \A i, j \in 1..Len(Presets[s][r]) :
            i # j => Changes(Presets[s][r][i], Presets[s][r][j])
<1>1. s \in {"local", "real"} /\ r \in {"planner", "reviewer", "executor"}
  BY DEF Presets, PolicyRoles
<1>2. CASE s = "local" /\ r = "planner"
  BY <1>2 DEF Presets, LocalPolicy, Simulated, Api, Changes
<1>3. CASE s = "local" /\ r = "reviewer"
  BY <1>3 DEF Presets, LocalPolicy, Simulated, Api, Changes
<1>4. CASE s = "local" /\ r = "executor"
  BY <1>4 DEF Presets, LocalPolicy, Simulated, Api, Changes
<1>5. CASE s = "real" /\ r = "planner"
  BY <1>5, SubscriptionFields DEF Presets, RealPolicy, Api, Changes
<1>6. CASE s = "real" /\ r = "reviewer"
  BY <1>6, SubscriptionFields DEF Presets, RealPolicy, Api, Changes
<1>7. CASE s = "real" /\ r = "executor"
  BY <1>7, SubscriptionFields DEF Presets, RealPolicy, Api, Changes
<1> QED
  BY <1>1, <1>2, <1>3, <1>4, <1>5, <1>6, <1>7

(* Every planner and reviewer of a preset is one the engine can ask.       *)
LEMMA PresetsSupported ==
  ASSUME NEW s \in DOMAIN Presets, NEW r \in {"planner", "reviewer"}
  PROVE  \A i \in 1..Len(Presets[s][r]) :
            Supported(Presets[s][r][i], r)
            \/ Presets[s][r][i].simulation
<1>1. s \in {"local", "real"}
  BY DEF Presets
<1>2. CASE s = "local" /\ r = "planner"
  BY <1>2 DEF Presets, LocalPolicy, Simulated, Api, Supported
<1>3. CASE s = "local" /\ r = "reviewer"
  BY <1>3 DEF Presets, LocalPolicy, Simulated, Api, Supported
<1>4. CASE s = "real" /\ r = "planner"
  BY <1>4, SubscriptionFields DEF Presets, RealPolicy, Api, Supported
<1>5. CASE s = "real" /\ r = "reviewer"
  BY <1>5, SubscriptionFields DEF Presets, RealPolicy, Api, Supported
<1> QED
  BY <1>1, <1>2, <1>3, <1>4, <1>5

(* The local preset begins with a simulated candidate; planners and        *)
(* reviewers have one more, executors are all simulated, one per provider. *)
LEMMA LocalTable ==
  /\ \A r \in {"planner", "reviewer"} :
       /\ Len(LocalPolicy[r]) = 2
       /\ LocalPolicy[r][1].simulation
       /\ LocalPolicy[r][1].access_mode = "subscription"
  /\ Len(LocalPolicy["executor"]) = 3
  /\ \A i \in 1..3 : /\ LocalPolicy["executor"][i].simulation
                     /\ LocalPolicy["executor"][i].cli = "harness"
  /\ LocalPolicy["executor"][1].provider = "claude"
  /\ LocalPolicy["executor"][2].provider = "codex"
  /\ LocalPolicy["executor"][3].provider = "grok"
BY DEF LocalPolicy, Simulated, Api

-----------------------------------------------------------------------------
(* The properties. *)

(* What is selected with a preset is an entry of its table for the role,   *)
(* and so is what it is compared with.                                     *)
LEMMA SelectedOfPreset ==
  ASSUME GenInv, preset # "edited", selected # Nothing
  PROVE  /\ preset \in DOMAIN Presets /\ role \in PolicyRoles
         /\ \E i, j \in 1..Len(PresetPolicy) :
              /\ selected = Assignment(PresetPolicy[i], PresetPolicy[j])
              /\ selected.candidate = PresetPolicy[i]
              /\ PresetPolicy[i] = candidates[cursor]
              /\ PresetPolicy[j] = candidates[1]
<1>1. /\ preset \in DOMAIN Presets /\ role \in PolicyRoles
      /\ FilteredFrom(PresetPolicy) /\ PresetPolicy \in Seq(Candidate)
  BY PolicyAssumption DEF GenInv, InvocationInv
<1>2. /\ cursor \in 1..Len(candidates) /\ 1 \in 1..Len(candidates)
      /\ selected = Assignment(candidates[cursor], candidates[1])
      /\ pending = <<>>
  BY SelectedIsAssignment DEF GenInv, Finished, SelectionInv, TypeOK
<1>3. PICK at \in [1..Len(candidates) -> 1..Handled(PresetPolicy)] :
         KeptAt(PresetPolicy, at)
  BY <1>1 DEF FilteredFrom
<1>4. Handled(PresetPolicy) = Len(PresetPolicy)
  BY <1>1, <1>2 DEF Handled
<1>5. /\ at[cursor] \in 1..Len(PresetPolicy) /\ at[1] \in 1..Len(PresetPolicy)
      /\ candidates[cursor] = PresetPolicy[at[cursor]]
      /\ candidates[1] = PresetPolicy[at[1]]
  BY <1>2, <1>3, <1>4 DEF KeptAt
<1>6. selected.candidate = candidates[cursor]
  BY <1>2 DEF Assignment
<1> QED
  BY <1>1, <1>2, <1>5, <1>6

(* With a preset, no work is ever moved to another candidate without a     *)
(* human's approval, under any filter.                                     *)
THEOREM PresetFallbacksAreApproved == GenSpec => []PresetFallbacksNeedApproval
<1>1. GenInv => PresetFallbacksNeedApproval
  <2> SUFFICES ASSUME GenInv, preset # "edited", selected # Nothing,
                      selected.fallback_event # Nothing
               PROVE  selected.requires_additional_approval
    BY DEF PresetFallbacksNeedApproval
  <2>1. PICK i \in 1..Len(PresetPolicy), j \in 1..Len(PresetPolicy) :
          selected = Assignment(PresetPolicy[i], PresetPolicy[j])
    BY SelectedOfPreset
  <2>2. PresetPolicy[i].name # PresetPolicy[j].name
    BY <2>1 DEF Assignment
  <2>3. Changes(PresetPolicy[i], PresetPolicy[j])
    BY <2>2, SelectedOfPreset, PresetsApart DEF PresetPolicy
  <2> QED BY <2>1, <2>2, <2>3, ChangeRequiresApproval
<1> QED
  BY <1>1, GenInvariance, PTL

(* With a preset, the engine can get a draft from any planner or reviewer  *)
(* that is found ready.                                                    *)
THEOREM PresetsCanGenerate == GenSpec => []PresetCanGenerate
<1>1. GenInv => PresetCanGenerate
  <2> SUFFICES ASSUME GenInv, preset # "edited", Drafting
               PROVE  \E answer \in Replies :
                        LocalDraft(selected.candidate, role, answer) = "accepted"
    BY DEF PresetCanGenerate
  <2> DEFINE answer == [carrier |-> "text", object |-> TRUE,
                        main |-> "good", rest |-> "good"]
  <2>1. answer \in Replies
    BY DEF Replies, Carriers, Fields, Filled
  <2>2. PICK i \in 1..Len(PresetPolicy) : selected.candidate = PresetPolicy[i]
    BY SelectedOfPreset DEF Drafting
  <2>3. /\ role \in {"planner", "reviewer"} /\ preset \in DOMAIN Presets
    BY SelectedOfPreset DEF Drafting, PolicyRoles
  <2>4. selected.candidate.simulation \/ Supported(selected.candidate, role)
    BY <2>2, <2>3, PresetsSupported DEF PresetPolicy
  <2>5. LocalDraft(selected.candidate, role, answer) = "accepted"
    BY <2>4 DEF LocalDraft, DraftOf, Filled
  <2> QED BY <2>1, <2>5
<1> QED
  BY <1>1, GenInvariance, PTL

(* A built-in runner works for the provider its run is recorded under.     *)
THEOREM BuiltInsOfTheirProvider == GenSpec => []BuiltInOfItsProvider
<1>1. GenInv => BuiltInOfItsProvider
  <2> SUFFICES ASSUME GenInv,
                      runner \in {"claude_stub", "grok_stub", "local_harness"}
               PROVE  /\ runner = "claude_stub" =>
                            selected.candidate.provider = "claude"
                      /\ runner = "grok_stub" =>
                            selected.candidate.provider = "grok"
                      /\ runner = "local_harness" =>
                            selected.candidate.provider = "codex"
    BY DEF BuiltInOfItsProvider
  <2>1. runner # Nothing
    BY NothingIsNoName DEF RunnerKinds
  <2>2. PICK custom \in BOOLEAN :
          runner = RunnerFor(selected.candidate, runnerName, custom)
    BY <2>1 DEF GenInv, RunnerInv
  <2>3. /\ runner = "claude_stub" => runnerName = "claude_code"
        /\ runner = "grok_stub" => runnerName = "grok_runner"
        /\ runner = "local_harness" => runnerName = "codex_runner"
    BY <2>2 DEF RunnerFor, Named, BuiltIn
  <2>4. provider = ProviderFilter(runnerName)
    BY DEF GenInv, InvocationInv
  <2>5. /\ runner = "claude_stub" => provider = "claude"
        /\ runner = "grok_stub" => provider = "grok"
        /\ runner = "local_harness" => provider = "codex"
    BY <2>3, <2>4 DEF ProviderFilter, RunnerProvider
  <2>6. selected # Nothing
    BY <2>1 DEF GenInv, RunnerInv
  <2>7. /\ selected.candidate = candidates[cursor]
        /\ Asked(candidates[cursor])
    BY <2>6, SelectedIsAssignment DEF GenInv, SelectionInv, Assignment
  <2>8. provider \in Providers => selected.candidate.provider = provider
    BY <2>7, NothingAssumption DEF Asked
  <2> QED BY <2>5, <2>8 DEF Providers
<1> QED
  BY <1>1, GenInvariance, PTL

(* Both engines make the same of the same reply: no draft that the local   *)
(* engine accepts fails the validation of the graph.                       *)
THEOREM GraphAgrees == GenSpec => []GraphAgreesWithLocal
<1>1. GenInv => GraphAgreesWithLocal
  BY DEF GenInv, OutcomeInv, GraphInv, Drafting, GraphAgreesWithLocal
<1> QED
  BY <1>1, GenInvariance, PTL

(* The types; above all, a run never meets a candidate it has no kind of   *)
(* runner for.                                                             *)
THEOREM GenTypeCorrect == GenSpec => []GenTypeOK
<1>1. GenInv => GenTypeOK
  <2> SUFFICES ASSUME GenInv PROVE GenTypeOK
    OBVIOUS
  <2>1. /\ TypeOK /\ preset \in DOMAIN Presets \cup {"edited"}
        /\ role \in PolicyRoles
    BY DEF GenInv, SelectionInv, InvocationInv
  <2>2. runnerName \in RunnerNames \cup {Nothing}
    BY DEF GenInv, InvocationInv
  <2>3. runner \in RunnerKinds \cup {Nothing}
    <3> SUFFICES ASSUME runner # Nothing PROVE runner \in RunnerKinds
      OBVIOUS
    <3>1. PICK custom \in BOOLEAN :
            /\ selected # Nothing
            /\ runner = RunnerFor(selected.candidate, runnerName, custom)
      BY DEF GenInv, RunnerInv
    <3>2. HasAdapter(selected.candidate)
      <4>1. selected.candidate = candidates[cursor]
        BY <3>1, SelectedIsAssignment DEF GenInv, Assignment
      <4>2. cursor \in 1..Len(results) /\ results[cursor]
        BY <3>1, SelectedIsAssignment DEF GenInv, Finished
      <4> QED BY <4>1, <4>2 DEF GenInv, SelectionInv
    <3>3. \A command : Named(runnerName, command, custom) \in RunnerKinds
      BY DEF Named, BuiltIn, RunnerKinds
    <3> QED BY <3>1, <3>2, <3>3 DEF HasAdapter, RunnerFor, RunnerKinds
  <2>4. outcome \in Outcomes \cup {Nothing}
    <3>1. \A c, r, answer : LocalDraft(c, r, answer) \in Outcomes
      BY DEF LocalDraft, Unreached, DraftOf, Outcomes
    <3>2. \A kind, c, answer : RunnerResult(kind, c, answer) \in Outcomes
      BY DEF RunnerResult, ShellResult, ProviderResult, Unreached, Outcomes
    <3> QED BY <3>1, <3>2 DEF GenInv, OutcomeInv
  <2> QED
    BY <2>1, <2>2, <2>3, <2>4 DEF GenInv, GraphInv, GenTypeOK, RunTypeOK
<1> QED
  BY <1>1, GenInvariance, PTL

(* What a command finds in front when the policy is that of the local      *)
(* preset: if there is a choice, or if no access mode was asked for, a     *)
(* simulated candidate.                                                    *)
LEMMA LocalFirst ==
  ASSUME GenInv, preset = "local", pending = <<>>
  PROVE  /\ Len(candidates) >= 2 => candidates[1].simulation
         /\ accessMode = Nothing =>
              Len(candidates) >= 1 /\ candidates[1].simulation
<1>1. /\ role \in {"planner", "reviewer", "executor"}
      /\ runnerName \in IF role = "executor" THEN RunnerNames ELSE {Nothing}
      /\ provider = ProviderFilter(runnerName)
      /\ candidates \in Seq(Candidate)
  BY DEF GenInv, SelectionInv, TypeOK, InvocationInv, PolicyRoles
<1>2. PresetPolicy = LocalPolicy[role]
  BY DEF PresetPolicy, Presets
<1>3. FilteredFrom(LocalPolicy[role])
  BY <1>2 DEF GenInv, InvocationInv
<1>4. PICK policy : policy = LocalPolicy[role]
  OBVIOUS
<1>5. /\ Handled(policy) = Len(policy)
      /\ \E at \in [1..Len(candidates) -> 1..Handled(policy)] : KeptAt(policy, at)
  <2>1. Len(policy) \in Nat
    BY <1>1, <1>4, LocalTable
  <2> QED BY <2>1, <1>3, <1>4 DEF FilteredFrom, Handled
<1>6. PICK at \in [1..Len(candidates) -> 1..Len(policy)] :
         /\ \A i \in 1..Len(candidates) : candidates[i] = policy[at[i]]
         /\ \A i, j \in 1..Len(candidates) : i < j => at[i] < at[j]
         /\ \A n \in 1..Len(policy) :
              Asked(policy[n]) => \E i \in 1..Len(candidates) : at[i] = n
  BY <1>5 DEF KeptAt
<1>7. CASE role = "executor"
  <2>1. Len(policy) = 3 /\ \A i \in 1..3 : policy[i].simulation
    BY <1>4, <1>7, LocalTable
  <2>2. Len(candidates) >= 1 => candidates[1].simulation
    BY <2>1, <1>1, <1>6
  <2>3. ASSUME accessMode = Nothing PROVE \E n \in 1..3 : Asked(policy[n])
    <3>1. /\ policy[1].provider = "claude" /\ policy[2].provider = "codex"
          /\ policy[3].provider = "grok"
      BY <1>4, <1>7, LocalTable
    <3>2. provider \in {"claude", "codex", "grok", Nothing}
      BY <1>1 DEF ProviderFilter, RunnerProvider
    <3> QED BY <3>1, <3>2, <2>3 DEF Asked
  <2>4. accessMode = Nothing => Len(candidates) >= 1
    BY <2>1, <2>3, <1>1, <1>6
  <2> QED BY <2>2, <2>4, <1>1
<1>8. CASE role # "executor"
  <2>1. Len(policy) = 2 /\ policy[1].simulation
    BY <1>1, <1>4, <1>8, LocalTable
  <2>2. Len(candidates) >= 2 => at[1] = 1
    BY <2>1, <1>1, <1>6
  <2>3. provider = Nothing
    BY <1>1, <1>8, NothingIsNoName DEF ProviderFilter, RunnerProvider, RunnerNames
  <2>4. ASSUME accessMode = Nothing PROVE Len(candidates) >= 1 /\ at[1] = 1
    <3>1. Asked(policy[1])
      BY <2>3, <2>4 DEF Asked
    <3>2. PICK i \in 1..Len(candidates) : at[i] = 1
      BY <3>1, <2>1, <1>6
    <3>3. i = 1 \/ at[1] < at[i]
      BY <3>2, <1>1, <1>6
    <3>4. at[1] >= 1
      BY <3>2, <1>1, <1>6, <2>1
    <3> QED BY <3>2, <3>3, <3>4, <1>1, <2>1
  <2> QED BY <2>1, <2>2, <2>4, <1>1, <1>6
<1> QED
  BY <1>7, <1>8

(* So nothing before it, or after it, is ever selected. *)
LEMMA LocalSelectsFirst ==
  ASSUME GenInv, preset = "local", resolved
  PROVE  /\ selected # Nothing => cursor = 1
         /\ accessMode = Nothing => selected # Nothing
<1>1. /\ Finished /\ pending = <<>>
      /\ cursor \in Nat \ {0} /\ Len(candidates) \in Nat
      /\ candidates \in Seq(Candidate)
      /\ \A j \in 1..(cursor - 1) : ~results[j]
      /\ IF cursor > Len(candidates)
         THEN selected = Nothing
         ELSE selected = Assignment(candidates[cursor], candidates[1])
  BY DEF GenInv, SelectionInv, TypeOK, Finished
<1>2. Len(candidates) >= 1 /\ candidates[1].simulation => results[1]
  BY <1>1 DEF GenInv, SimulatedReady, Finished
<1>3. Len(candidates) >= 1 /\ candidates[1].simulation => cursor = 1
  BY <1>1, <1>2
<1>4. selected # Nothing => cursor = 1
  BY <1>1, <1>3, LocalFirst
<1>5. ASSUME accessMode = Nothing PROVE selected # Nothing
  <2>1. Len(candidates) >= 1 /\ cursor = 1
    BY <1>1, <1>3, <1>5, LocalFirst
  <2>2. candidates[1] \in Candidate
    BY <2>1, <1>1
  <2>3. Assignment(candidates[1], candidates[1]) \in ResolvedAssignment
    BY <2>2, AssignmentType
  <2> QED BY <2>1, <2>3, <1>1, NothingAssumption
<1> QED
  BY <1>4, <1>5

(* The local preset never falls back, and without an explicit access mode  *)
(* it resolves and delivers in every world and for every reply.            *)
THEOREM LocalDeterministic == GenSpec => []LocalIsDeterministic
<1>1. GenInv => LocalIsDeterministic
  <2> SUFFICES ASSUME GenInv, preset = "local" PROVE LocalIsDeterministic
    BY DEF LocalIsDeterministic
  <2>1. ASSUME resolved, selected # Nothing
        PROVE  selected.fallback_event = Nothing
    <3>1. selected = Assignment(candidates[1], candidates[1])
      BY <2>1, LocalSelectsFirst, SelectedIsAssignment DEF GenInv
    <3> QED BY <3>1 DEF Assignment
  <2>2. ASSUME resolved, selected = Nothing PROVE accessMode # Nothing
    BY <2>2, LocalSelectsFirst
  <2>3. ASSUME accessMode = Nothing, outcome # Nothing
        PROVE  \/ outcome = "accepted"
               \/ /\ runner \in {"shell", "unknown"}
                  /\ AssignmentCommand(selected.candidate) = Nothing
    <3>1. selected # Nothing
      BY <2>3 DEF GenInv, OutcomeInv, RunnerInv, GraphInv, Drafting
    <3>2. resolved /\ pending = <<>> /\ cursor = 1
      <4>1. resolved
        BY <3>1 DEF GenInv, SelectionInv
      <4> QED BY <4>1, <3>1, LocalSelectsFirst, SelectedIsAssignment DEF GenInv, Finished
    <3>3. selected.candidate.simulation
      <4>1. candidates[1].simulation
        BY <2>3, <3>2, LocalFirst
      <4>2. selected = Assignment(candidates[1], candidates[1])
        BY <3>1, <3>2, SelectedIsAssignment DEF GenInv
      <4> QED BY <4>1, <4>2 DEF Assignment
    <3>4. CASE role # "executor"
      BY <2>3, <3>3, <3>4 DEF GenInv, OutcomeInv, LocalDraft
    <3>5. CASE role = "executor"
      <4>1. /\ runner # Nothing
            /\ outcome = RunnerResult(runner, selected.candidate, reply)
        BY <2>3, <3>5 DEF GenInv, OutcomeInv
      <4>2. PICK custom \in BOOLEAN :
              runner = Named(runnerName, AssignmentCommand(selected.candidate),
                             custom)
        BY <4>1, <3>3 DEF GenInv, RunnerInv, RunnerFor
      <4>3. AssignmentCommand(selected.candidate) \in {"harness", Nothing}
        <5>1. PICK i \in 1..Len(PresetPolicy) : selected.candidate = PresetPolicy[i]
          BY <3>1, SelectedOfPreset
        <5>2. PresetPolicy = LocalPolicy["executor"]
          BY <3>5 DEF PresetPolicy, Presets
        <5>3. selected.candidate.cli = "harness"
          BY <5>1, <5>2, LocalTable
        <5> QED BY <5>3 DEF AssignmentCommand
      <4>4. CASE AssignmentCommand(selected.candidate) = "harness"
                 /\ "harness" # Nothing
        <5>1. runner = "shell"
          BY <4>2, <4>4 DEF Named
        <5> QED BY <4>1, <4>4, <5>1 DEF RunnerResult, ShellResult
      <4>5. CASE AssignmentCommand(selected.candidate) = Nothing
        <5>1. runner \in {"shell", "unknown", "claude_stub", "grok_stub",
                         "local_harness"}
          BY <4>2 DEF Named, BuiltIn
        <5> QED BY <4>1, <4>5, <5>1 DEF RunnerResult
      <4> QED BY <4>3, <4>4, <4>5
    <3> QED BY <3>4, <3>5
  <2> QED BY <2>1, <2>2, <2>3 DEF LocalIsDeterministic
<1> QED
  BY <1>1, GenInvariance, PTL

(* The first candidate of a policy comes first, if it is asked for.        *)
LEMMA FirstAsked ==
  ASSUME NEW policy \in Seq(Candidate), FilteredFrom(policy), pending = <<>>,
         candidates \in Seq(Candidate), Len(policy) >= 1, Asked(policy[1])
  PROVE  Len(candidates) >= 1 /\ candidates[1] = policy[1]
<1>1. Handled(policy) = Len(policy) /\ 1 \in 1..Len(policy)
  BY DEF Handled
<1>2. PICK at \in [1..Len(candidates) -> 1..Len(policy)] : KeptAt(policy, at)
  BY <1>1 DEF FilteredFrom
<1>3. /\ \A i \in 1..Len(candidates) : candidates[i] = policy[at[i]]
      /\ \A i, j \in 1..Len(candidates) : i < j => at[i] < at[j]
      /\ \E i \in 1..Len(candidates) : at[i] = 1
  BY <1>1, <1>2 DEF KeptAt
<1>4. PICK i \in 1..Len(candidates) : at[i] = 1
  BY <1>3
<1>5. 1 \in 1..Len(candidates) /\ at[1] \in 1..Len(policy)
  BY <1>2, <1>4
<1>6. i = 1
  BY <1>3, <1>4, <1>5
<1> QED
  BY <1>3, <1>4, <1>5, <1>6

(* With a preset there is one command for which a candidate is ready and   *)
(* no runner is found (core/assignment.py:93): run with the local preset,  *)
(* no runner named, and API access asked for.                              *)
THEOREM RunnersKnown == GenSpec => []RunnerKnown
<1>1. GenInv => RunnerKnown
  <2> SUFFICES ASSUME GenInv, preset # "edited", runner = "unknown"
               PROVE  RunnerMissing
    BY DEF RunnerKnown
  <2>1. /\ runner # Nothing /\ role = "executor" /\ selected # Nothing
        /\ runnerName \in RunnerNames
    BY NothingIsNoName DEF RunnerKinds, GenInv, RunnerInv, InvocationInv
  <2>2. PICK custom \in BOOLEAN :
          runner = RunnerFor(selected.candidate, runnerName, custom)
    BY <2>1 DEF GenInv, RunnerInv
  <2>3. /\ selected.candidate.simulation
        /\ AssignmentCommand(selected.candidate) = Nothing
        /\ runnerName = "auto"
    BY <2>1, <2>2 DEF RunnerFor, Named, BuiltIn, RunnerNames
  <2>4. PICK i \in 1..Len(PresetPolicy) :
          /\ selected.candidate = PresetPolicy[i]
          /\ PresetPolicy[i] = candidates[cursor]
    BY <2>1, SelectedOfPreset
  <2>5. preset = "local"
    <3>1. preset \in {"local", "real"}
      BY <2>1, SelectedOfPreset DEF Presets
    <3>2. preset # "real"
      BY <2>1, <2>3, <2>4, SubscriptionFields
         DEF PresetPolicy, Presets, RealPolicy, Api
    <3> QED BY <3>1, <3>2
  <2>6. selected.candidate.access_mode = "api"
    <3>1. PresetPolicy = LocalPolicy["executor"]
      BY <2>1, <2>5 DEF PresetPolicy, Presets
    <3>2. selected.candidate.cli = "harness"
      BY <2>4, <3>1, LocalTable
    <3> QED BY <2>3, <3>2, NothingIsNoName DEF AssignmentCommand
  <2>7. accessMode \in {"api", Nothing}
    BY <2>1, <2>4, <2>6, SelectedIsAssignment DEF GenInv, SelectionInv, Asked
  <2>8. accessMode # Nothing
    <3> SUFFICES ASSUME accessMode = Nothing PROVE FALSE
      OBVIOUS
    <3> PICK policy : policy = LocalPolicy["executor"]
      OBVIOUS
    <3>1. /\ policy = PresetPolicy /\ policy \in Seq(Candidate)
          /\ FilteredFrom(policy) /\ Len(policy) >= 1
      BY <2>1, <2>5, PolicyAssumption, LocalTable
         DEF GenInv, InvocationInv, PresetPolicy, Presets
    <3>2. provider = Nothing
      BY <2>3 DEF GenInv, InvocationInv, ProviderFilter, RunnerProvider
    <3>3. /\ resolved /\ pending = <<>> /\ candidates \in Seq(Candidate)
          /\ cursor = 1
      <4>1. resolved
        BY <2>1 DEF GenInv, SelectionInv
      <4> QED BY <4>1, <2>1, <2>5, LocalSelectsFirst, SelectedIsAssignment
                 DEF GenInv, SelectionInv, TypeOK, Finished
    <3>4. candidates[1] = policy[1]
      BY <3>1, <3>2, <3>3, FirstAsked DEF Asked
    <3>5. policy[1].access_mode = "subscription"
      BY DEF LocalPolicy, Simulated
    <3> QED BY <2>4, <2>6, <3>3, <3>4, <3>5
  <2> QED BY <2>3, <2>5, <2>7, <2>8 DEF RunnerMissing
<1> QED
  BY <1>1, GenInvariance, PTL
=============================================================================
