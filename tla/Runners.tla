------------------------------ MODULE Runners ------------------------------
(***************************************************************************)
(* The policies of the two presets, and the runner that run_task builds    *)
(* for the executor that was resolved.                                     *)
(*                                                                         *)
(* The command line fixes what the resolution may look at: run turns the   *)
(* name of a runner into a filter on the provider, plan and review only    *)
(* filter the access mode.  An operator may also have edited the policy:   *)
(* then it is any of Policies.                                             *)
(***************************************************************************)
EXTENDS RoleResolution

CONSTANTS Key, Base   \* the variables a preset names for the API key and base;
                      \* no policy of a preset names two different ones

-----------------------------------------------------------------------------
(* The presets.  The command of a simulated candidate is the local harness *)

Simulated(name, p) ==
    [name |-> name, provider |-> p, access_mode |-> "subscription",
     simulation |-> TRUE, cli |-> "harness",
     api_key_env |-> Nothing, endpoint_env |-> Nothing]

Subscription(name, p) ==
    [Simulated(name, p) EXCEPT !.simulation = FALSE, !.cli = p]

Api(name, p, base) ==
    [name |-> name, provider |-> p, access_mode |-> "api",
     simulation |-> FALSE, cli |-> "harness",
     api_key_env |-> Key, endpoint_env |-> base]

LocalPolicy ==
    [planner  |-> <<Simulated("claude_subscription_planner", "claude"),
                    Api("codex_api_planner", "codex", Base)>>,
     reviewer |-> <<Simulated("codex_subscription_reviewer", "codex"),
                    Api("claude_api_reviewer", "claude", Base)>>,
     executor |-> <<Simulated("claude_subscription_executor", "claude"),
                    Simulated("codex_subscription_executor", "codex"),
                    [Api("grok_api_executor", "grok", Base)
                       EXCEPT !.simulation = TRUE]>>]

RealPolicy ==
    [planner  |-> <<Subscription("claude_subscription_planner", "claude"),
                    Api("codex_api_planner", "codex", Nothing)>>,
     reviewer |-> <<Subscription("codex_subscription_reviewer", "codex"),
                    Api("claude_api_reviewer", "claude", Nothing)>>,
     executor |-> <<Api("grok_api_executor", "grok", Nothing),
                    Subscription("claude_subscription_executor", "claude"),
                    Subscription("codex_subscription_executor", "codex")>>]

Presets == [local |-> LocalPolicy, real |-> RealPolicy]
PolicyRoles == {"planner", "reviewer", "executor"}
RunnerNames == {"claude_code", "grok_runner", "codex_runner", "auto"}
RunnerKinds == {"shell", "claude_stub", "grok_stub", "local_harness",
                "api", "subscription", "unknown"}

ASSUME NothingIsNoName ==
    Nothing \notin RunnerNames \cup RunnerKinds \cup {"harness"}

(* _provider_filter_for_role: "auto" and an absent name ask for nobody.    *)
RunnerProvider == [claude_code |-> "claude", grok_runner |-> "grok",
                   codex_runner |-> "codex"]

(* Wrong variant: a runner without an entry, claude_code, takes anybody. *)
ProviderFilterWithoutClaude(name) ==
    IF name \in {"grok_runner", "codex_runner"} THEN RunnerProvider[name]
    ELSE Nothing

ProviderFilter(name) ==
    IF name \in DOMAIN RunnerProvider THEN RunnerProvider[name] ELSE Nothing

-----------------------------------------------------------------------------
VARIABLES
    preset,       \* the preset the policy file was made from, or "edited"
    role,         \* the role the command resolves
    runnerName,   \* the --runner of run, Nothing for plan and review
    runner        \* what run_task builds, Nothing until then

invocation == <<preset, role, runnerName>>
runVars == <<vars, invocation, runner>>

RunInit ==
    /\ preset \in DOMAIN Presets \cup {"edited"}
    /\ role \in PolicyRoles
    /\ runnerName \in IF role = "executor" THEN RunnerNames ELSE {Nothing}
    /\ runner = Nothing
    /\ Init
    /\ preset # "edited" => pending = Presets[preset][role]
    /\ provider = ProviderFilter(runnerName)

(* _assignment_command: an API candidate has no command of its own.        *)
AssignmentCommand(c) == IF c.access_mode = "api" THEN Nothing ELSE c.cli

(* Wrong variant: one runner is not in the table. *)
BuiltInWithoutGrok == [claude_code |-> "claude_stub",
                       codex_runner |-> "local_harness"]

(* build_runner: a command makes a shell runner, that of the candidate or  *)
(* else that of the variable PATCHRAIL_<NAME>_CMD (custom: whether it is   *)
(* set); without one, the name chooses a built-in, and "auto" names none.  *)
BuiltIn == [claude_code |-> "claude_stub", grok_runner |-> "grok_stub",
            codex_runner |-> "local_harness"]

Named(name, command, custom) ==
    IF command # Nothing \/ custom THEN "shell"
    ELSE IF name \in DOMAIN BuiltIn THEN BuiltIn[name]
    ELSE "unknown"

(* Wrong variant: the executors of one provider are not dispatched. *)
RunnerForClaudeOnly(c, name, custom) ==
    IF c.simulation THEN Named(name, AssignmentCommand(c), custom)
    ELSE IF c.access_mode = "api" THEN "api"
    ELSE IF c.provider = "claude" THEN "subscription"
    ELSE "unsupported"

RunnerFor(c, name, custom) ==
    IF c.simulation THEN Named(name, AssignmentCommand(c), custom)
    ELSE IF c.access_mode = "api" THEN "api"
    ELSE IF c.provider \in {"claude", "codex"} THEN "subscription"
    ELSE "unsupported"

(* After the gate, which may also let an approved fallback pass. *)
BuildRunner ==
    /\ role = "executor"
    /\ selected # Nothing
    /\ runner = Nothing
    /\ \E custom \in BOOLEAN :
         runner' = RunnerFor(selected.candidate, runnerName, custom)
    /\ UNCHANGED <<vars, invocation>>

RunNext ==
    \/ Next /\ UNCHANGED <<invocation, runner>>
    \/ BuildRunner

RunSpec == RunInit /\ [][RunNext]_runVars

-----------------------------------------------------------------------------
(* The type invariant.  run_task never meets a candidate it has no kind of *)
(* runner for ("unsupported"); "unknown" is the subject of RunnerKnown.    *)
RunTypeOK ==
    /\ TypeOK
    /\ preset \in DOMAIN Presets \cup {"edited"}
    /\ role \in PolicyRoles
    /\ runnerName \in RunnerNames \cup {Nothing}
    /\ runner \in RunnerKinds \cup {Nothing}

(* No two candidates of a preset's role agree in provider and access mode, *)
(* so with a preset no work is ever moved to another candidate without a   *)
(* human's approval, under any filter.                                     *)
PresetFallbacksNeedApproval ==
    preset # "edited" /\ selected # Nothing /\ selected.fallback_event # Nothing =>
        selected.requires_additional_approval

(* A built-in runner works for the provider that its run is recorded under *)
BuiltInOfItsProvider ==
    /\ runner = "claude_stub" => selected.candidate.provider = "claude"
    /\ runner = "grok_stub" => selected.candidate.provider = "grok"
    /\ runner = "local_harness" => selected.candidate.provider = "codex"

(* "policy-resolved candidates supplying the concrete command": a resolved *)
(* candidate of a preset that is ready leads to a runner, with a single    *)
(* exception: run with the local preset, no runner named and API access    *)
(* asked for.  The simulated API candidate has a command, but              *)
(* _assignment_command gives none for API candidates, and "auto" has no    *)
(* built-in.                                                               *)
RunnerMissing ==
    preset = "local" /\ runnerName = "auto" /\ accessMode = "api"

RunnerKnown == preset # "edited" /\ runner = "unknown" => RunnerMissing
=============================================================================
