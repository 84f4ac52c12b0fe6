----------------------------- MODULE Generation -----------------------------
(***************************************************************************)
(* What the selected candidate delivers: the executor's runner a result,   *)
(* the planner and the reviewer, under --auto, a draft from the workflow   *)
(* engine, of which there are two: one that asks the provider in a single  *)
(* call, and one that does it in the nodes of a graph.                     *)
(*                                                                         *)
(* A provider's reply is judged layer by layer, from the transport to the  *)
(* fields of a JSON object; a reply says how far it gets.  Outcomes:       *)
(*   accepted    a result of the kind the handler goes on with             *)
(*   refused     PatchrailError: the command ends with a message           *)
(*   broken      any other exception: it ends the process, shell included  *)
(*   unstorable  accepted, but create_bundle cannot write it: the command  *)
(*               ends after the task has been saved as running             *)
(***************************************************************************)
EXTENDS Runners

Backends == {"local", "langgraph"}
Nodes == {"generate", "validate", "finalize", "end"}
Outcomes == {"accepted", "refused", "broken", "unstorable"}

(* carrier: the command or the request came back with success and a text;  *)
(* "raised": subprocess.run did not return, because the command is gone or *)
(* what it prints is not encoded text.  For codex the text is that of the  *)
(* last-message file, which may also be left from an earlier review of the *)
(* run.  object: the text holds a JSON object.  main, rest: its fields.    *)
(* A "blank" field is a text of spaces (or a list without steps), a "lone" *)
(* one a text with a lone surrogate, which JSON can spell and UTF-8 cannot *)
(* write; "odd" has the wrong type, and for a verdict cannot even be       *)
(* compared.  What a reply does not get to is missing.                     *)
Carriers == {"text", "failed", "raised"}
Filled == {"good", "lone"}
Fields == Filled \cup {"blank", "missing", "odd"}
Replies ==
    {r \in [carrier: Carriers, object: BOOLEAN,
            main: Fields, rest: Fields] :
       /\ r.object => r.carrier = "text"
       /\ r.object \/ {r.main, r.rest} = {"missing"}}

(* The fields of a draft are the verdict and the summary of a review, the  *)
(* summary and the steps of a plan; the texts are stripped.                *)
Drafts == [main: Fields, rest: Fields]

ASSUME NothingIsNoOutcome ==
    /\ Nothing \notin Backends \cup Nodes \cup Outcomes
    /\ Nothing \notin Drafts

-----------------------------------------------------------------------------
(* LocalWorkflowEngine. *)

(* Wrong variant: a review by codex has no workspace either. *)
SupportedWithoutWorkspace(c, r) ==
    \/ c.access_mode = "api"
    \/ c.provider = "claude"

(* _generate_text: codex needs a workspace, which only a review has.       *)
Supported(c, r) ==
    \/ c.access_mode = "api"
    \/ c.provider = "claude"
    \/ c.provider = "codex" /\ r = "reviewer"

(* Whatever a request raises is turned into a PatchrailError.              *)
Unreached(c, reply) ==
    IF reply.carrier = "raised" /\ c.access_mode = "subscription"
    THEN "broken" ELSE "refused"

(* Wrong variant: blank summaries of reviews, and no steps, are taken. *)
DraftOfBlank(r, reply) ==
    IF r = "reviewer" /\ reply.main = "odd" THEN "broken"
    ELSE IF /\ reply.main \in IF r = "reviewer" THEN {"good"} ELSE Filled
            /\ reply.rest \in Filled \cup {"blank"}
    THEN "accepted" ELSE "refused"

(* A verdict is looked up in a set, so one that is a list or an object     *)
(* raises TypeError; the texts must not be blank.                          *)
DraftOf(r, reply) ==
    IF r = "reviewer" /\ reply.main = "odd" THEN "broken"
    ELSE IF /\ reply.main \in IF r = "reviewer" THEN {"good"} ELSE Filled
            /\ reply.rest \in Filled
    THEN "accepted" ELSE "refused"

LocalDraft(c, r, reply) ==
    IF c.simulation THEN "accepted"
    ELSE IF ~Supported(c, r) THEN "refused"
    ELSE IF reply.carrier # "text" THEN Unreached(c, reply)
    ELSE IF ~reply.object THEN "refused"
    ELSE DraftOf(r, reply)

(* What the local engine returns when it accepts. *)
Draft(c, reply) ==
    IF c.simulation THEN [main |-> "good", rest |-> "good"]
    ELSE [main |-> reply.main, rest |-> reply.rest]

-----------------------------------------------------------------------------
(* Runner.run. *)

(* The tokens and costs of a reply are converted without a check. *)
Numeric == {"good", "missing"}

(* The local harness writes an output file with all its fields; any other  *)
(* command may leave none, or one with fields of any type: a cost that is  *)
(* no record of costs breaks, a summary that is no text, or one that UTF-8 *)
(* cannot write, is found only when it is written.                         *)
ShellResult(c, reply) ==
    IF AssignmentCommand(c) = "harness" THEN "accepted"
    ELSE IF reply.carrier = "raised" THEN "broken"
    ELSE IF reply.carrier # "text" THEN "refused"
    ELSE IF ~reply.object \/ reply.rest \notin Numeric THEN "broken"
    ELSE IF reply.main \in {"odd", "lone"} THEN "unstorable"
    ELSE "accepted"

(* The summaries of a provider have to be texts that are not blank.  Codex *)
(* as a command reports no tokens.                                         *)
ProviderResult(c, reply) ==
    IF reply.carrier # "text" THEN Unreached(c, reply)
    ELSE IF ~reply.object \/ reply.main \notin Filled THEN "refused"
    ELSE IF reply.rest \notin Numeric /\ (c.access_mode = "api" \/ c.provider = "claude")
         THEN "broken"
    ELSE IF reply.main = "lone" THEN "unstorable"
    ELSE "accepted"

RunnerResult(kind, c, reply) ==
    IF kind \in {"claude_stub", "grok_stub", "local_harness"} THEN "accepted"
    ELSE IF kind = "shell" THEN ShellResult(c, reply)
    ELSE IF kind = "unknown" THEN "refused"
    ELSE ProviderResult(c, reply)

-----------------------------------------------------------------------------
VARIABLES
    backend,      \* the engine's backend
    node,         \* the node of the graph that runs next
    reply,        \* what the provider answered
    generated,    \* the draft between two nodes of the graph
    outcome       \* what the candidate delivered

genVars == <<backend, node, reply, generated, outcome>>
allVars == <<runVars, genVars>>

GenInit ==
    /\ RunInit
    /\ backend = Nothing
    /\ node = Nothing
    /\ reply = Nothing
    /\ generated = Nothing
    /\ outcome = Nothing

Drafting == role # "executor" /\ selected # Nothing

(* RunnerResult: runner.run, called before the task is saved as running.   *)
Execute ==
    /\ runner # Nothing
    /\ outcome = Nothing
    /\ \E answer \in Replies :
         /\ reply' = answer
         /\ outcome' = RunnerResult(runner, selected.candidate, answer)
    /\ UNCHANGED <<runVars, backend, node, generated>>

(* LocalWorkflowEngine.generate_plan, generate_review. *)
LocalGenerate ==
    /\ Drafting
    /\ backend = Nothing
    /\ backend' = "local"
    /\ \E answer \in Replies :
         /\ reply' = answer
         /\ outcome' = LocalDraft(selected.candidate, role, answer)
    /\ UNCHANGED <<runVars, node, generated>>

(* LangGraphWorkflowEngine: the four nodes, one after another.             *)
CollectContext ==
    /\ Drafting
    /\ backend = Nothing
    /\ backend' = "langgraph"
    /\ node' = "generate"
    /\ UNCHANGED <<runVars, reply, generated, outcome>>

(* An exception of a node ends the graph. *)
GenerateNode ==
    /\ node = "generate"
    /\ \E answer \in Replies :
         LET draft == LocalDraft(selected.candidate, role, answer)
         IN /\ reply' = answer
            /\ IF draft = "accepted"
               THEN /\ generated' = Draft(selected.candidate, answer)
                    /\ node' = "validate"
                    /\ UNCHANGED outcome
               ELSE /\ outcome' = draft
                    /\ node' = "end"
                    /\ UNCHANGED generated
    /\ UNCHANGED <<runVars, backend>>

(* A plan needs a summary and steps, a review a summary. *)
Lacks(r, draft) ==
    \/ draft = Nothing
    \/ draft.rest = "blank"
    \/ r = "planner" /\ draft.main = "blank"

ValidateNode ==
    /\ node = "validate"
    /\ IF Lacks(role, generated)
       THEN node' = "end" /\ outcome' = "refused"
       ELSE node' = "finalize" /\ UNCHANGED outcome
    /\ UNCHANGED <<runVars, backend, reply, generated>>

FinalizeNode ==
    /\ node = "finalize"
    /\ node' = "end"
    /\ outcome' = IF generated = Nothing THEN "refused" ELSE "accepted"
    /\ UNCHANGED <<runVars, backend, reply, generated>>

GenNext ==
    \/ RunNext /\ UNCHANGED genVars
    \/ Execute
    \/ LocalGenerate
    \/ CollectContext
    \/ GenerateNode
    \/ ValidateNode
    \/ FinalizeNode

GenSpec == GenInit /\ [][GenNext]_allVars

-----------------------------------------------------------------------------
(* The type invariant. *)
GenTypeOK ==
    /\ RunTypeOK
    /\ backend \in Backends \cup {Nothing}
    /\ node \in Nodes \cup {Nothing}
    /\ reply \in Replies \cup {Nothing}
    /\ generated \in Drafts \cup {Nothing}
    /\ outcome \in Outcomes \cup {Nothing}

(* The backend is a matter of configuration, not of results: the checks of *)
(* the graph's validation fit those of the local engine it delegates to,   *)
(* so that the graph accepts, refuses and breaks exactly where the local   *)
(* engine would have on the same reply.                                    *)
GraphAgreesWithLocal ==
    backend # Nothing /\ outcome # Nothing =>
        outcome = LocalDraft(selected.candidate, role, reply)

(* The policies, the preflight and the engine are three tables that must   *)
(* fit: with a preset, a planner or reviewer that was found ready is one   *)
(* the engine can get a draft from.  (An edited policy may name codex as a *)
(* planner by subscription, which is found ready and always refused.)      *)
PresetCanGenerate ==
    preset # "edited" /\ Drafting =>
        \E answer \in Replies :
            LocalDraft(selected.candidate, role, answer) = "accepted"

(* "local: simulation-backed role policy for deterministic local testing": *)
(* whatever is installed, logged in or set, and whatever a provider would  *)
(* answer, the local preset never falls back and, without an explicit      *)
(* access mode, always resolves and always delivers, unless the operator   *)
(* configured a command for the runner (or "auto" has no runner).          *)
LocalIsDeterministic ==
    preset = "local" =>
        /\ resolved =>
             IF selected = Nothing THEN accessMode # Nothing
             ELSE selected.fallback_event = Nothing
        /\ accessMode = Nothing /\ outcome # Nothing =>
             \/ outcome = "accepted"
             \/ /\ runner \in {"shell", "unknown"}
                /\ AssignmentCommand(selected.candidate) = Nothing
=============================================================================
