--------------------------- MODULE RoleResolution ---------------------------
(***************************************************************************)
(* resolve_role_assignment and perform_preflight: from the candidates of a *)
(* role's policy to the one that will do the work.                         *)
(*                                                                         *)
(* Every candidate that passes the command's filters is preflighted, one   *)
(* after another; a preflight may run a status command for seconds, and    *)
(* credentials and logins may change between two of them.  Then the first  *)
(* one that was found ready is selected, and compared with the first one   *)
(* in the list to see whether a human has to approve the change.           *)
(***************************************************************************)
EXTENDS Naturals, Sequences

CONSTANTS
    Policies,     \* the policies (sequences of candidates) of a role
    Names,        \* candidate names
    Variables,    \* environment variables a policy may name
    Commands,     \* commands a policy may name
    Nothing       \* an absent value

Providers == {"codex", "claude", "grok"}
AccessModes == {"api", "subscription"}

Candidate == [name: Names, provider: Providers, access_mode: AccessModes,
              simulation: BOOLEAN, cli: Commands \cup {Nothing},
              api_key_env: Variables \cup {Nothing},
              endpoint_env: Variables \cup {Nothing}]

FallbackEvent == [attempted: Names, selected: Names]
ResolvedAssignment == [candidate: Candidate,
                       requires_additional_approval: BOOLEAN,
                       fallback_event: FallbackEvent \cup {Nothing}]

ASSUME PolicyAssumption == Policies \subseteq Seq(Candidate)
ASSUME NothingAssumption ==
    Nothing \notin Providers \cup AccessModes \cup Names
                    \cup FallbackEvent \cup ResolvedAssignment

(* What a preflight can observe: the variables that are set, the commands  *)
(* that exist, and what the status commands answer.  "answered" tells a    *)
(* zero exit status (a timeout counts as a failure).  The text decides     *)
(* about codex, a JSON object about claude.                                *)
CodexAnswer == [answered: BOOLEAN,
                text: {"Logged in", "Not logged in", "other"}]
ClaudeAnswer == [answered: BOOLEAN, object: BOOLEAN, loggedIn: BOOLEAN,
                 subscription: BOOLEAN]
World == [set: SUBSET Variables, exists: SUBSET Commands,
          codex: CodexAnswer, claude: ClaudeAnswer]

-----------------------------------------------------------------------------
(* perform_preflight: the names of the checks that fail; ready when none.  *)

Failing(checks) == {name \in DOMAIN checks : ~checks[name]}

ApiChecks(c, w) ==
    [credential_present |->
        c.simulation \/ (c.api_key_env # Nothing /\ c.api_key_env \in w.set),
     endpoint_configured |->
        c.simulation \/ c.endpoint_env = Nothing \/ c.endpoint_env \in w.set]

(* "logged in" is looked for anywhere in the text, in lower case. *)
SaysLoggedIn == {"Logged in", "Not logged in"}

CodexChecks(w) ==
    LET loggedIn == w.codex.answered /\ w.codex.text \in SaysLoggedIn
    IN [login_ok |-> loggedIn, entitlement_ok |-> loggedIn,
        noninteractive_ok |-> w.codex.answered]

ClaudeChecks(w) ==
    LET status == w.claude.answered /\ w.claude.object
        loggedIn == status /\ w.claude.loggedIn
    IN [login_ok |-> loggedIn,
        entitlement_ok |-> loggedIn /\ w.claude.subscription,
        noninteractive_ok |-> status]

AllChecks(passed) == [login_ok |-> passed, entitlement_ok |-> passed,
                      noninteractive_ok |-> passed]

(* Wrong variant: the command of a simulated candidate has to exist too. *)
CliPresentAlways(c, w) == c.cli # Nothing /\ c.cli \in w.exists

CliPresent(c, w) == c.simulation \/ (c.cli # Nothing /\ c.cli \in w.exists)

(* Wrong variant: a provider without status command passes. *)
SubscriptionChecksTrusting(c, w) ==
    IF c.simulation THEN AllChecks(TRUE)
    ELSE IF ~CliPresent(c, w) THEN AllChecks(FALSE)
    ELSE IF c.provider = "codex" THEN CodexChecks(w)
    ELSE IF c.provider = "claude" THEN ClaudeChecks(w)
    ELSE AllChecks(TRUE)

SubscriptionChecks(c, w) ==
    IF c.simulation THEN AllChecks(TRUE)
    ELSE IF ~CliPresent(c, w) THEN AllChecks(FALSE)
    ELSE IF c.provider = "codex" THEN CodexChecks(w)
    ELSE IF c.provider = "claude" THEN ClaudeChecks(w)
    ELSE AllChecks(FALSE)

Ready(c, w) ==
    IF c.access_mode = "api"
    THEN Failing(ApiChecks(c, w)) = {}
    ELSE CliPresent(c, w) /\ Failing(SubscriptionChecks(c, w)) = {}

-----------------------------------------------------------------------------
(* resolve_role_assignment. *)

VARIABLES
    pending,      \* the rest of the policy, not yet filtered
    provider,     \* the provider the command asks for, or Nothing
    accessMode,   \* the access mode the command asks for, or Nothing
    candidates,   \* the candidates that pass both filters
    results,      \* for each preflight done so far, whether it was ready
    cursor,       \* the candidate the selection looks at
    resolved,     \* the resolution is made ...
    selected      \* ... and this is its assignment, if it has one

vars == <<pending, provider, accessMode, candidates, results, cursor,
          resolved, selected>>

Init ==
    /\ pending \in Policies
    /\ provider \in Providers \cup {Nothing}
    /\ accessMode \in AccessModes \cup {Nothing}
    /\ candidates = <<>>
    /\ results = <<>>
    /\ cursor = 1
    /\ resolved = FALSE
    /\ selected = Nothing

Asked(c) == /\ provider \in {Nothing, c.provider}
            /\ accessMode \in {Nothing, c.access_mode}

Filter ==
    /\ pending # <<>>
    /\ pending' = Tail(pending)
    /\ candidates' = IF Asked(Head(pending))
                     THEN Append(candidates, Head(pending)) ELSE candidates
    /\ UNCHANGED <<provider, accessMode, results, cursor, resolved, selected>>

Preflight ==
    /\ pending = <<>>
    /\ Len(results) < Len(candidates)
    /\ \E w \in World :
         results' = Append(results, Ready(candidates[Len(results) + 1], w))
    /\ UNCHANGED <<pending, provider, accessMode, candidates, cursor, resolved,
                   selected>>

(* Wrong variant: only a change of both counts. *)
ChangesBoth(c, d) == c.provider # d.provider /\ c.access_mode # d.access_mode

(* What makes a fallback: another provider or access mode.                 *)
Changes(c, d) == c.provider # d.provider \/ c.access_mode # d.access_mode

(* Wrong variant: the assignment holds the candidate's name only. *)
AssignmentByName(c, first) ==
    [candidate |-> c.name,
     requires_additional_approval |-> Changes(c, first) /\ c.name # first.name,
     fallback_event |-> Nothing]

(* Wrong variant: the event is recorded for a change of provider only. *)
AssignmentEventOfProvider(c, first) ==
    [candidate |-> c,
     requires_additional_approval |-> Changes(c, first) /\ c.name # first.name,
     fallback_event |-> IF c.provider # first.provider
                        THEN [attempted |-> first.name, selected |-> c.name]
                        ELSE Nothing]

(* In the code a change counts only if the names of the two differ too.    *)
Assignment(c, first) ==
    [candidate |-> c,
     requires_additional_approval |-> Changes(c, first) /\ c.name # first.name,
     fallback_event |-> IF c.name # first.name
                        THEN [attempted |-> first.name, selected |-> c.name]
                        ELSE Nothing]

(* The selection runs once all candidates have been preflighted. *)
Selecting == ~resolved /\ pending = <<>> /\ Len(results) = Len(candidates)

(* Wrong variant: a ready candidate can be passed over. *)
SkipAny ==
    /\ Selecting
    /\ cursor <= Len(candidates)
    /\ cursor' = cursor + 1
    /\ UNCHANGED <<pending, provider, accessMode, candidates, results, resolved,
                   selected>>

SkipBlocked ==
    /\ Selecting
    /\ cursor <= Len(candidates)
    /\ ~results[cursor]
    /\ cursor' = cursor + 1
    /\ UNCHANGED <<pending, provider, accessMode, candidates, results, resolved,
                   selected>>

Select ==
    /\ Selecting
    /\ cursor <= Len(candidates)
    /\ results[cursor]
    /\ resolved' = TRUE
    /\ selected' = Assignment(candidates[cursor], candidates[1])
    /\ UNCHANGED <<pending, provider, accessMode, candidates, results, cursor>>

NoneReady ==
    /\ Selecting
    /\ cursor > Len(candidates)
    /\ resolved' = TRUE
    /\ UNCHANGED <<pending, provider, accessMode, candidates, results, cursor,
                   selected>>

Next == Filter \/ Preflight \/ SkipBlocked \/ Select \/ NoneReady

Spec == Init /\ [][Next]_vars

-----------------------------------------------------------------------------
TypeOK ==
    /\ pending \in Seq(Candidate)
    /\ provider \in Providers \cup {Nothing}
    /\ accessMode \in AccessModes \cup {Nothing}
    /\ candidates \in Seq(Candidate)
    /\ results \in Seq(BOOLEAN)
    /\ cursor \in Nat \ {0}
    /\ resolved \in BOOLEAN
    /\ selected \in ResolvedAssignment \cup {Nothing}

(* "Select the first ready candidate": the selected candidate is one the   *)
(* command asked for, it was found ready, and every candidate before it    *)
(* was found blocked; with no selection, all of them were.                 *)
FirstReadySelected ==
    resolved =>
        IF selected = Nothing
        THEN \A i \in 1..Len(candidates) : ~results[i]
        ELSE \E i \in 1..Len(candidates) :
               /\ selected.candidate = candidates[i]
               /\ Asked(candidates[i])
               /\ results[i]
               /\ \A j \in 1..(i - 1) : ~results[j]

(* "If selected candidate changes provider or access mode, block until     *)
(* fallback approval exists": the assignment requires approval whenever    *)
(* it differs so from the first candidate the command asked for.  No       *)
(* loader checks names, and of two candidates with one name the second is  *)
(* taken for the first: then the sentence is wrong of the code ...         *)
ChangeNeedsApproval ==
    selected # Nothing =>
        \/ selected.requires_additional_approval
        \/ /\ selected.candidate.provider = candidates[1].provider
           /\ selected.candidate.access_mode = candidates[1].access_mode

(* ... and only then: it holds when the candidates the command asked for   *)
(* have names of their own.                                                *)
DistinctlyNamed ==
    \A i, j \in 1..Len(candidates) : candidates[i].name = candidates[j].name => i = j

NamedChangeNeedsApproval == DistinctlyNamed => ChangeNeedsApproval

(* An assignment that requires approval comes with a fallback event that   *)
(* names two different candidates: without one the request made for it     *)
(* could never be matched again, and approving it would not help.          *)
ApprovalHasEvent ==
    selected # Nothing /\ selected.requires_additional_approval =>
        /\ selected.fallback_event # Nothing
        /\ selected.fallback_event.attempted # selected.fallback_event.selected
        /\ selected.fallback_event.selected = selected.candidate.name

(* A provider without a subscription adapter never gets subscription work, *)
(* so build_subscription_runner always finds its adapter.                  *)
SelectedHasAdapter ==
    selected # Nothing =>
        \/ selected.candidate.access_mode = "api"
        \/ selected.candidate.simulation
        \/ selected.candidate.provider \in {"codex", "claude"}
=============================================================================
