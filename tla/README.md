# Patchrail in TLA+

Patchrail is a command-line control plane for coding agents. Every command is an
operating-system process that loads JSON records from `.patchrail/`, changes them
in memory and writes whole records back. There is no lock, no transaction and no
server. These modules model what the commands do to the records, one file access
per step, so that commands may overlap between any two accesses and a process may
die at any of them. TLC checks them on small instances; TLAPS proves the main
safety properties for any number of processes, tasks, records and crashes.

Paths below are relative to the repository.

## 1. Inventory

| Component | State it keeps | Operations | What is hard |
|---|---|---|---|
| Store: `storage/filesystem.py`, `models/entities.py`, `core/ids.py` | one JSON file per task, brief, plan, run, review, approval, fallback request, verification; a bundle per run; JSONL ledgers | `save_*`, `load_*`, `list_*`, `append_*` | whole records written back from stale copies; `write_text` truncates first |
| State machine: `core/state_machine.py` | none (the `state` of a task) | `require_state`, `transition_task` | checks the copy in memory, not the file |
| Intake: `core/service.py` | tasks, briefs | `create_task`, `create_brief` | list, then save: two steps |
| Planning: `core/service.py` | plans; `plan_id` of briefs and of the task | `create_plan` | several records written one after another |
| Execution: `core/service.py`, `artifacts/` | runs, bundles, workspaces | `run_task`, `create_bundle` | the runner takes minutes and may fail; the task is saved twice |
| Review: `review/service.py` | reviews | `review_run` | gate before state check; crash between review and task |
| Approval: `approval/service.py` | approvals, approval ledger | `approve`, `reject` | record, ledger, task: three writes |
| Fallback gate: `approval/fallback_service.py`, `_require_assignment` | requests, fallback ledger, `latest_fallback_request_id` | gate of plan, run and review; `approve-fallback`, `reject-fallback` | only the latest request is looked at; check and write are two steps |
| Role resolution: `core/assignment.py`, `core/preflight.py`, `models/roles.py` | none | `resolve_role_assignment`, `perform_preflight` | the environment changes while candidates are probed |
| Artifacts: `artifacts/service.py` | files under `artifacts/<run>/`, `bundle.json` | `create_bundle`, `list artifact-bundles` | copies what another process may still be writing; manifest and run record are two writes |
| Runners: `runners/` | none | `build_runner`, `build_subscription_runner`, `build_api_runner`, `run` | three ways to find a runner, two tables of names; what a tool answers has any shape |
| Verification: `verification/service.py` | verifications | `verify_run` | stamp and write are apart; no timeout |
| Read models: `packet/service.py`, `get_status`, `list_*` | none | status, packet, review queue, lists | put together from reads at different times |
| Configuration: `storage/config_store.py`, `setup`, `start`, `doctor` | policy file, backend file, cached engine | `init_default`, `load_policy`, ... | two files; a cache that outlives them |
| Workflow backends: `workflows/` | none | `generate_plan`, `generate_review` | two engines that must agree; which candidates they can ask |
| Provider adapters: `providers/` | none | HTTP requests | replies judged layer by layer |
| CLI, shell, rendering: `cli/` | the shell's cached engine | dispatch, REPL, layout | the REPL is one process with many commands; only some errors keep it alive |
| Hooks, contracts | none | tables | - |

The components interact only through the files and by synchronous calls inside
one process: `cli/main.py` calls `core/service.py`, which calls the services and
the store. Two processes meet only in the store.

What makes each of them correct:

* A task's state, the pointers of its record and the records they lead to agree,
  whatever overlaps and wherever a process dies (`StateMatchesPointers`,
  `EvidenceChain`).
* A final state has its approval and its ledger line (`DecisionLedgered`); a state
  moves only along `ALLOWED_TRANSITIONS` (`LifecycleSpec`).
* An alternate candidate that needs approval is not used without a human's
  decision on a request for that task, role and alternate (`FallbackDecided`,
  `FallbackApproved`); a decision on a request is final (`DecidedRequestsFinal`).
* A plan snapshots exactly the briefs of its task (`PlanSnapshotsBriefs`,
  `AttachedInSnapshot`), one of each kind (`OneBriefPerKind`).
* The first ready candidate works, and a change of provider or access mode asks
  for approval if the candidates have different names (`FirstReadySelected`,
  `NamedChangeNeedsApproval`, `ApprovalHasEvent`); without that condition
  (`ChangeNeedsApproval`) the code does not keep it;
  with a preset this holds under every command line (`PresetFallbacksNeedApproval`,
  `LocalIsDeterministic`), and the runner fits what was resolved
  (`SelectedHasAdapter`, `BuiltInOfItsProvider`) and is found, but for one command line
  (`RunnerKnown`).
* The fallback ledger keeps up with the requests; a death loses at most one line
  (`FallbackLedgered`).
* A planner or reviewer that is found ready can be asked, and the validation of the
  graph refuses nothing that the engine it delegates to accepts
  (`PresetCanGenerate`, `GraphAgreesWithLocal`).
* The two configuration files come from one command, edits are kept, a reset repairs
  what a crash left, and a shell uses what it configured (`OneChoice`,
  `EditsSurvive`, `ResetRepairs`, `StaleOnlyByOthers`).
* A bundle's digests are those of the bytes it keeps, a run record has its whole
  bundle, and a listing is complete (`DigestsCoverCopies`, `ListingSound`): written in
  many steps, any of which may be the last, the files are an archive of whole bundles
  that never change (`ArchiveSpec`).
* A human decides from views that hang together (`ReadersFindRecords`,
  `QueueAgreesWithPacket`, `ReadyIsVerified`, `LatestNeverOlder`).
* Whatever was interrupted, also within the write of a file, the work can be brought
  to an end from the files, but for the few ways of being stranded that the property
  lists (`EndedOrStranded`).

## 2. Modules

| Module | Models | Main source |
|---|---|---|
| `Store` | record types, files, stale copies (`frame`), crash, ids | `storage/filesystem.py`, `models/entities.py` |
| `Intake` | `create_task`, `create_brief` | `core/service.py:70-126` |
| `FallbackGate` | `_require_assignment`, `create_request`, `record_decision` | `core/service.py:967-1041`, `approval/fallback_service.py` |
| `Planning` | `create_plan` | `core/service.py:372-448` |
| `Execution` | `run_task`, `create_bundle` | `core/service.py:450-563`, `artifacts/service.py` |
| `Reviewing` | `review_run`, `create_review` | `core/service.py:565-618`, `review/service.py` |
| `Approval` | `_finalize_task`, `record_decision` | `core/service.py:654-661`, `approval/service.py` |
| `Patchrail` | the composition: any processes, any commands; the properties | `cli/main.py` |
| `Recovery` | the lifecycle with processes that die within a write, and the readers that meet the torn file (extends `Patchrail`) | `storage/filesystem.py:187-204` |
| `Lifecycle` | abstract specification of a task's life | what `core/state_machine.py` and the ledger promise |
| `RoleResolution` | `resolve_role_assignment`, `perform_preflight` | `core/assignment.py`, `core/preflight.py` |
| `Runners` | the presets' policies, the command line, `build_*runner` (extends `RoleResolution`) | `storage/config_store.py`, `core/service.py:450-488` |
| `Generation` | runners at work, both workflow engines, providers' replies (extends `Runners`) | `workflows/`, `providers/`, `runners/` |
| `TextFiles` | the two halves of `write_text`; torn and mixed contents | `storage/filesystem.py:187-204` |
| `Config` | the configuration files, `config init`, `start`, `setup`, `doctor`, the shell and its engine (extends `TextFiles`) | `storage/config_store.py`, `core/service.py:162-371`, `cli/shell.py` |
| `Bundle` | `create_bundle` file by file, the run record, `list artifact-bundles` (extends `TextFiles`) | `artifacts/service.py`, `core/service.py:513-540`, `:777-798` |
| `Archive` | abstract specification of what the artifact store promises its readers | what `models/entities.py` and the listing promise: "immutable once persisted" |
| `Evidence` | `verify_run`, review queue, packet, status (extends `Patchrail`) | `verification/`, `packet/`, `core/service.py:674-828` |
| `PatchrailProofs`, `LedgerProofs`, `SerialProofs`, `EvidenceProofs`, `BundleProofs`, `ConfigProofs`, `RoleResolutionProofs`, `GenerationProofs` | theorems | |
| `MCSerial`, `MCRace`, `MCRecovery`, `MCRunners`, `MCConfig`, `MCBundle`, `MCEvidence` | instances for TLC | |

How state corresponds to code:

* `tasks`, `briefs`, `plans`, `runs`, `reviews`, `approvals`, `requests` are
  functions from ids to records, `None` where there is no file. `bundles` is the
  set of runs with a `bundle.json`; `approvalLedger` and `fallbackLedger` hold the
  lines of the JSONL files.
* `pc[p]` says where process `p` is in its handler; `frame[p]` holds its local
  variables: `copy` is the task object it loaded and will write back, `new` the id
  of the record it is about to write (in a review, first the run under review),
  `todo` the briefs it has yet to attach.
* A step is one access to a file that another process can change. Reads of records
  that never change once written are part of the access before them; so is all
  computation in memory. `SaveTask` writes the whole record from `copy`, as
  `save_task` does, never from the file.
* `Crash` returns a process to idle and keeps the files: a kill, a power cut, or an
  exception that nobody catches. `PlanRaises`, `RunnerRaises`, `BundleRaises`,
  `ReviewRaises` and `BriefSourceMissing` are the errors the code can meet at that
  point and does not clean up after.
* In the lifecycle a role resolves to `Direct` (no approval needed) or to one of
  `Alternates`, freely at each command: the policy, the credentials and the logins
  are the environment. `RoleResolution` models how one resolution comes about:
  every preflight sees a `World` of its own.
* In `Evidence` a verification carries its stamp. Any number of verify commands may
  overlap, and each may be slow to write, so a record with any stamp may be written
  at any moment (equal stamps included; ties are broken by the order of the file
  names). One reader stands for all, since readers write nothing canonical; what it
  prints at its second read (`Queued`, `PacketGaps`) is a function of the state, and
  the properties speak of every moment at which it may read. The status reads nothing
  later than its first access, which loads the latest fallback request as well.
* In `Recovery` a process may also die when `write_text` has emptied a file. `torn`
  names the tasks, briefs and requests that lost their content so, until a whole write
  replaces it; `litter` says that an empty brief file is left that belongs to no brief.
  A command that reads a torn file ends with an exception (`MeetsTorn`, or, for its own
  task, it does not begin). Torn files of new plans, runs, reviews, approvals and
  requests are as good as unwritten: nothing points at them and no command that changes
  a task lists their directories.

* `Generation` follows one command: a role is resolved, the runner is built, and the
  candidate delivers something, or, for a planner or reviewer under `--auto`, one of
  the two engines drafts. A reply says how far it gets: the transport, a text, a JSON
  object, the two fields that matter, each of which may be good, blank, missing, of the
  wrong type, or a text with a lone surrogate (which JSON can spell and UTF-8 cannot
  write). What the local engine accepts is a draft of these fields, which the nodes of
  the graph pass on and validate. An outcome is `accepted`, `refused` (an error
  the program reports), `broken` (an exception it does not catch) or `unstorable`
  (accepted, but writing the bundle fails, after the task was saved as running).
* In `Config` and `Bundle` a file is written in two steps, as `write_text` does: it
  is emptied (`Torn`) and then filled. `Written` gives what may be there afterwards:
  the text, or, when another process wrote a different text meanwhile, a mixture of
  both. Reading a torn or mixed file raises an exception that nothing catches.
* In `Config` a process is a terminal that issues command after command; those in
  `Shells` keep the cached engine (`engine`) between them, the others do not. The
  operator may edit a policy or a template that is whole at any moment. `calm`,
  `asked`, `met` and `overtaken` are history: whether anything overlapped or died,
  what the last writer was asked for, which commands overlapped something, and which
  engines were cached before another process wrote the backend file.
* In `Bundle` a run has two kinds of files, its own and the copies of what the runner
  left; the bytes stand for their digest. `Linger` is a process that the runner left
  behind, which changes the workspace while it is collected. Workspace files of a
  nested directory are names like any other.
* `Bundle` and `Config` stand beside the lifecycle: in `Execution` `create_bundle` is
  one step that succeeds or raises (`CreateBundle`, `BundleRaises`), and in
  `FallbackGate` the policy may resolve to anything.

Texts, decision traces and preflight snapshots (written, never read by a
handler) and `updated_at` are left out.

Operators whose comment begins with "Wrong variant" are not part of the
specification. Each is the definition below it with a plausible mistake, and
shows that a property notices the mistake when the variant takes its place.

## 3. Runs

| Run | Instance | Shows |
|---|---|---|
| `serial` (`MCSerial.cfg`) | 1 process, 2 brief kinds, 2 briefs, 2 plans, 1 run, 2 reviews, 2 approvals, 2 requests, 2 alternates, 1 crash | commands one after another, dying anywhere: the store implements `Lifecycle`; the gate holds in full; the snapshot is exact even after a half-done `plan` |
| `race_evidence` (`MCRaceEvidence.cfg`) | 2 processes, 1 brief, 2 of every other record, no fallback, 1 crash | no mix of whole-record writes leaves state, pointers and evidence in disagreement |
| `race_fallback` (`MCRaceFallback.cfg`) | 2 processes, 2 requests, 1 alternate, 1 crash, 1 reader | no alternate works before a decision; the fallback ledger has a line for every status a request has, or is about to get it, but for the one line a crash may lose; status and packet find every record the task they loaded points at, the request included |
| `recovery` (`MCRecovery.cfg`) | 1 process, 4 requests, 2 plans, reviews and approvals, 1 alternate that is always chosen, 1 crash, between two accesses or within a write; fairness | an operator can bring the task to its end, unless it was left `running`, a torn file holds it up or its fallback was rejected |
| `runners` (`MCRunners.cfg`) | both presets and every edited policy of up to 3 candidates of 5 makes, with names of their own or one name for the first and third; all roles, `--runner`, `--access-mode`, worlds, replies | the first ready candidate is selected and changes between names ask for approval; the presets behave as documented, with one command line that finds no runner; the graph's validation fits the engine |
| `config` (`MCConfig.cfg`) | a shell and a terminal, 2 of the 4 pairs of preset and backend, 1 crash, an editing operator | files agree and edits survive without crash or overlap; a reset repairs; a shell's engine is only behind others |
| `bundle` (`MCBundle.cfg`) | 2 runs, 1 process left behind, 2 file names, 2 contents, crashes anywhere, 1 listing | digests cover the stored bytes; records have bundles; when listings fail, and why; the store implements `Archive` |
| `evidence` (`MCEvidence.cfg`) | 2 processes, 1 plan, 2 runs, 1 review, 1 approval, 2 verifications, 2 points in time, 1 reader, 1 crash | the packet finds its records; queue and packet agree; out-of-order and equal stamps, and what is written between two reads, do not mislead them |

Why the bounds are enough. Two processes suffice for every race between a stale
copy and what was written since; a third adds no new pair of accesses. Two runs
let a second one overwrite a reviewed first one. Two plans, reviews and approvals
leave one for a clean attempt after an interrupted one, or one for each of two
overlapping commands. Two requests and two
alternates let a newer request hide an older one. Two verifications of a run, or one
of each of two runs, are what "the latest of this run" has to tell apart. Tasks share
no record, and the only reads across tasks (`list_briefs`, `list_verifications`) are
filtered by task or run, so one task shows what there is; the theorems cover any
number. Three
candidates give a first, a blocked middle and a selected one, the last of which may
bear the first one's name; the five makes of edited
policies are those that a preset lacks or that fail one of the checks (a simulated one
without a command, subscriptions with and without an adapter, an API without a base).
In `config` two choices that differ in both files make every mixture visible; a third
process would only repeat the second one's steps, and the single crash may come
before, during or after an overlap; the theorems cover any number of both. In `bundle` two names order the copies and let the
run's own file and a copy share a name; two contents make a file that changes while it
is copied visible; the second run is the one that is complete, or dies, while the
first is listed. `config` is checked for deadlock: its terminals never stop. `CHECK_DEADLOCK` is
off elsewhere because a system whose ids are used up, or whose tasks are decided, stops.

Symmetry is used for processes, in runs without liveness properties. In `race_fallback`
the reader is followed up to its first read only (`Unread`, a constraint), which is where
`ReadersFindRecords` can fail: what it does afterwards touches no file.

### Disagreements between documents and code

Each is a run in which TLC finds a behaviour of the code that a document rules out.

| Run | Behaviour | Document |
|---|---|---|
| `final_state` | two overlapping `run` commands: the slower one's copy takes an approved task back to `running`, then `review_pending` | `docs/architecture.md:183` |
| `two_briefs` | two overlapping `brief` commands store two briefs of one kind | `docs/contracts/brief-schema-v1.md:61` |
| `run_completes` | a failure or crash after the first save of `run_task` leaves a task `running`, which no command accepts | `docs/mvp.md:46`, `:53` |
| `same_name` | an edited policy gives two candidates one name: when the first is blocked, the other is selected without approval, of whatever provider and access mode it is | `docs/architecture.md:94` |

A narrower one needs no run of its own, since a property says exactly where it occurs
(`RunnerKnown`): with the local preset, `run --runner auto --access-mode api` finds the
simulated API candidate ready, `_assignment_command` gives no command for it
(`core/assignment.py:93`), and `build_runner` ends with "Unknown runner 'auto'.",
although `docs/mvp.md:30` has "policy-resolved candidates supplying the concrete
command".

Some properties that the passing runs check have limits a reader should know:
`PlanSnapshotsBriefs` is checked for serial use only, since a `brief` command that
loaded its task before the plan was linked stores its brief afterwards.
`DecidedRequestsFinal` is serial too: of two overlapping decisions the later write
stands. `NamedChangeNeedsApproval` has the condition that run `same_name` shows to be
needed: a candidate with the first one's name is never treated as a change, and no code
checks the names. `ReadersFindRecords` is about records that are missing; one that is
torn ends status and packet with an exception. `OneChoice` and the policy half of
`EditsSurvive` speak of use without overlaps and crashes: a half-written configuration
is taken for none by `start`, which then overwrites an edited policy. `ListingSound`
says what a listing that fails has met: a run between the opening of its manifest and
the end of its record. If that run died there, every later listing fails as well (with
`--task-id`, also when its manifest is whole), since nothing removes the manifest.

### Fairness

`CommandFairness`: a process that can go on with its command goes on. No handler
waits for another process, so this asks only that the operating system schedules
it, and, as far as runners and planners are concerned, that the tool comes back at
all. The code sets no timeout on runners, so a hanging runner is outside the liveness
results. Run `run_completes` assumes it, so that what it finds is not a process that
merely stopped.

`OperatorFairness` (in `Recovery`) is the same, with or without a torn file in the way,
and more, for one question only, whether a task *can* be brought
to an end: an operator who keeps issuing the command the state calls for and keeps
approving fallbacks, and tools that do not fail for ever. Strong fairness is needed
because another command may make the next one wait. The operator is not granted a
favourable resolution: roles keep resolving to an alternate if there is one.

## 4. Proofs

`PatchrailProofs` proves, for every value of the constants, that `Spec` implies the
invariance of `TypeOK`, `StateMatchesPointers`, `EvidenceChain`, `DecisionLedgered`,
`FallbackDecided` and `AttachedInSnapshot`. The assumptions are those of `Store`:
`None` is no id and no record, `Direct` is no alternate, `MaxCrashes` is a number.

None of the six is inductive: a command writes back a copy, so what holds of the
file must be known of the copy, at the step where it is written, minutes after it
was loaded. No invariant can relate the copy to the file, which anybody may have
changed. The way out is that records are written once and afterwards only gain facts
(`Grow`): a stored plan, run, review or approval never changes, a ledger line never
goes away, a request keeps its task, role and alternate, and once decided stays
decided. So what was true of a copy when it was loaded (`Good`) stays true. `IInv`
therefore consists of

* `TypeOK`;
* `TasksGood`: every task file is `Good` (shaped, chained, ledgered);
* `FramesSound`: so is every copy in memory, and at each step of a handler what the
  earlier steps have established still holds (the plan it wrote exists and is its
  task's, the approval it stored carries the decision it will write, ...);
* `RunsOwned`: a run id whose bundle exists and whose record does not belongs to
  exactly one process (without it, two runs could be filed under one id);
* `FallbackDecided` and `AttachedInSnapshot`, which are inductive relative to the rest.

There is one lemma per action, built on three lemmas for the shapes actions have:
one that only reads (`ReadStep`), one that saves the task and ends or goes on
(`SaveStep`), one that ends (`ReturnStep`). `RecordsAreKept` then says of the steps
themselves what the proof rests on, `Spec => [][Grow]_vars`, with one lemma for each
kind of file that is written.

`LedgerProofs` proves `FallbackLedgered`. A request is saved before its line, so between
the two anybody could decide it, and the line of its creation would come last. Nobody
does: a request is decided through a task that points at it, and `LInv` says that tasks
and copies point only at requests that have their first line, that one command stands
between a new request and its line (`Opening`), and that a request without its line is
pending (`UndecidedBefore`). The rest of `LInv` is the property itself, which counts: the
requests whose status has neither a line nor a command about to write it are no more than
the crashes. A step that is no crash adds none to them (`NoLineLost`); a command that dies
is about to write at most one line (`OneLineLost`).

`SerialProofs` is about serial use of each task: its theorems have the premise `[]Apart`,
that no two commands under way work on the same task. Any number of them may work on
different tasks, overlap there, and die anywhere. Nothing in the code ensures the premise
(there is no lock); it is what an operator can keep to, and what one shell, or one command
after another, keeps to by itself (`OneAtATime`). A command writes records of its own
task only (`OwnTaskOnly`: its file, its briefs, the requests made for it), although all
commands list the same directories. Hence the copy of its task that a command holds is
the file (`CopyIsFile`), and what a handler found out at an earlier step still holds when
it writes: the request it decides is pending, the alternate it uses is approved, no brief
of the kind it adds exists, the list of briefs it plans with is complete. `SInv` is the
conjunction of these facts for each step and of the properties. They are what
`FallbackApproved`, `OneBriefPerKind`, `PlanSnapshotsBriefs` and `DecidedRequestsFinal` need,
and they end in the refinement: every write of a task file is a move of the abstract
lifecycle from the state in the file (`TaskMoves`), and every line of the approval ledger
is a decision on a task that awaits it, so `Spec /\ []Apart => LifecycleSpec`. Two of the
disagreements of section 3 are thereby delimited: a second brief of a kind
(`BriefKindsAreUnique`) and a decided task that is reopened (`FinalStatesAreFinal`) take
commands that overlap on one task.

`EvidenceProofs` shows that verify commands and readers take nothing away
(`EvidenceSpec => Spec`, so every theorem above holds beside them), that the packet
(and the status, which loads the latest fallback request too) always finds its records,
and the other properties of the views. A reader reads one file at a time while commands
write, so nothing it has read need be current; but by `Grow` it stays true (`ViewGood`).
For `ReadyIsVerified` and `QueueAgreesWithPacket` the verification taken as latest has to
exist and to be the latest (`LatestPassed`): time stamps are numbers, so of any finite
number of records one comes first (`FirstPrecedes`). The assumption `NullAnswerAssumption` says that `None`, which stands for
Python's, is neither a group of the queue nor a status.

`RoleResolutionProofs` proves for policies of any length that the selection takes
the first candidate found ready among those asked for, that an assignment which
needs approval has the event a request is matched by, and that a selected
subscription candidate has an adapter. `ChangesNeedApproval` assumes nothing of the
policies: the condition on names is in the property, and speaks only of the candidates
that are left after the filters (`DistinctlyNamed`). `CandidatesAreThoseAsked` is about
the filters: when they are through, the candidates are those of the policy that the
command asks for, each once and in the policy's order. Its invariant is `FilteredFrom`:
what is left of the policy and what was kept are, together, a subsequence of it.

`GenerationProofs` carries this to whole commands: both presets, the runner that is
built, both engines and every reply. Only the steps of the resolution change what it
knows (`GenerationResolves`), so the theorems above hold of whole commands as well. A
command that began with a preset's policy selects an entry of that preset's table, by
`FilteredFrom`; what the presets promise is then a matter of their entries
(`PresetFallbacksAreApproved`, `PresetsCanGenerate`). For the local preset it must also
be known that a simulated candidate passes its preflight in every world
(`SimulatedReady`), so that the first one asked for is taken (`LocalDeterministic`). That
every run meets a candidate it has a kind of runner for (`GenTypeCorrect`) and that a
built-in runner works for the provider its run is recorded under
(`BuiltInsOfTheirProvider`) hold for edited policies of any length too. `RunnerInv`,
`OutcomeInv` and `GraphInv` say that runner and outcome are what the candidate and the
reply make them, whichever engine and after however many of the graph's nodes. What
`GraphAgrees` rests on is `AcceptedIsWhole`: the checks of the local engine, field by
field, leave nothing for the validation node to refuse. `RunnersKnown` says
that with a preset there is a single command for which a candidate is ready and no
runner is found. The assumptions
`NothingIsNoName` and `NothingIsNoOutcome` say that what stands for Python's `None` is no
name, kind, command, node, outcome or draft.

`BundleProofs` proves `BundleTypeOK`, `DigestsCoverCopies` and `ListingSound` for any
number of runs, file names and contents. Run commands share only the directory, so the
invariant `BInv` speaks of each run by itself (`RunInv`): the manifest in memory is true
of the files, because a place that has its digest is not written again (`Digested`,
`Collecting`: what has yet to be copied has no digest, and copies lie apart from the
run's own file); the manifest file is absent, torn or the one in memory, and the record
comes after it (`Filed`). The listing's invariant adds that every run whose manifest was
whole when it began is listed or yet to be read, that what it listed is what the file
holds, and that every run it has to load and cannot is among those it noticed. With
these two invariants the
refinement of `Archive` is a matter of one step at a time (`ImplementsArchive`): only
the write of a manifest makes a bundle appear, whole; no step writes a file of a bundle
that is kept, since a command has stopped writing files before it opens its manifest
and the process left behind writes to the workspace only; only the opening of a run
record files a run, behind its manifest; and a list that is answered names every bundle
of its beginning and gives the digests of what is kept now. The assumptions are
`NoManifest` (a file that is missing or torn is not taken for a manifest) and `NoRun`.

`ConfigProofs` proves all five properties of `Config`, for any number of terminals and
crashes. Nothing keeps two terminals apart, so nothing can be said of the files alone;
each invariant is about a process and what it has met. A command that met nobody is the
only one under way (`Solo`), hence what a reset has written so far is still there
(`Repairing`), whatever was in the files before. As long as nothing overlapped or crashed
(`CalmInv`), the files are settled, or the one command under way is inside `init_default`
and finds its own half-written file; and it opens an existing policy only when told to
reset. For the engine the delicate command is the one that writes a default because it
found no policy: it does not forget the engine its shell has cached. It has none, because
an engine is only made after the policy was loaded and no step removes a policy
(`EngineInv`, `PolicyStays`).

Only model-checked: liveness and everything about `ENABLED`, which the prover does
not handle. This is `EndedOrStranded`. Every other property of a passing run is a theorem.

## 5. Not modelled

* Outside `Recovery`, `Bundle` and `Config` a record is written in one step, though
  `write_text` truncates first. `Recovery` has the processes that die between the two
  halves, for one process at a time. A task or request that a crash leaves torn is
  repaired by no command (`Stranded`), nor is the file of a brief that was never
  recorded, which keeps every task from getting briefs and its plan; a torn brief of the
  task itself comes to the same. The read-only commands that meet a torn file (status,
  packet, lists) are not in it: they end with an exception and change nothing.
* A command that reads a file between the two halves of a living writer's `write_text`:
  it ends with an exception, as a command that crashed at that read does.
* In `RoleResolution` a policy has a list for every role. A policy file that lacks the
  role ends the command with a `KeyError` (`models/roles.py:138-139`) before a candidate
  is probed and before any record is written.
* Within `Bundle`, the moment at which a directory is scanned (`rglob`, `glob`) is
  one step; the copy of one file reads it at its beginning and at its end. The run's
  own files are one file.
* Within `Config`, `PATCHRAIL_WORKFLOW_BACKEND`, which overrides the backend file, is
  not set; one brief template stands for the three; the operator's edits keep the
  policy valid.
* Within `Generation`, the contents of prompts and of texts, and the wording of
  errors; the envelopes of the three providers' replies, which are unwrapped alike. A reply read from a last-message file that an earlier review left is one of
  the replies. Timeouts: HTTP requests have one and end as failed; commands have none.
* Lists with filters other than those of bundles, contracts, the brief schema,
  rendering, the argument parser, hooks: they only read, or are constant tables.
* The skill and the scripts, which call the command line.

## 6. Plan

Done: the store and the lifecycle commands, alone and overlapping, with processes that
die between two accesses and within a write; role resolution; runners, presets, engines
and providers; configuration and the shell; bundles and their listing; verification and
the views; proofs, for any instance, of every safety property that holds and of both
refinements.

Next: torn files beside overlapping commands (`Recovery` is checked with one process), and
the read-only commands that meet them. On the side of the proofs: the promises of a task
that is worked on serially while others are not (`SerialProofs` asks it of all tasks at
once).
