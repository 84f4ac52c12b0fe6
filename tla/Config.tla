------------------------------- MODULE Config -------------------------------
(***************************************************************************)
(* The configuration: two files, role-policy.json and                      *)
(* workflow-backend.json, which config init, start, setup and even         *)
(* preflight may write, and which doctor, preflight, plan, run and review  *)
(* read; the brief templates that setup project writes; and the workflow   *)
(* engine that an interactive shell keeps from one command to the next.    *)
(*                                                                         *)
(* A process stands for a terminal: it issues one command after another,   *)
(* each in a process of its own or, in a shell, all in the same.  Nothing  *)
(* keeps two terminals apart.                                              *)
(***************************************************************************)
EXTENDS TextFiles, Naturals

CONSTANTS
    Procs,        \* terminals
    Shells,       \* those that run the interactive shell
    Choices,      \* the pairs of preset and backend that are asked for
    Nothing,      \* an absent value
    MaxCrashes    \* the number of crashes

Presets == {"local", "real"}
Backends == {"local", "langgraph"}
Choice == [preset: Presets, backend: Backends]

ASSUME ShellAssumption == Shells \subseteq Procs
ASSUME ChoiceAssumption == Choices \subseteq Choice
ASSUME CrashAssumption == MaxCrashes \in Nat
ASSUME NoTexts ==
    /\ Absent \notin {Torn, Mixed, Nothing}
    /\ Torn \notin {Mixed, Nothing} /\ Mixed # Nothing
    /\ {Absent, Torn, Mixed, Nothing} \cap
           (Presets \cup Backends \cup {"edited", "template"}) = {}
    /\ Nothing \notin Choice

(* What load_policy writes when there is no policy.                        *)
Default == [preset |-> "local", backend |-> "local"]

(* setup runtime without --reset is start but for the payload.             *)
Resets == {"init", "reset", "reset_project"}
Checked == {"start", "project"}
Views == {"doctor", "preflight", "auto"}
Commands == Resets \cup Checked \cup Views

VARIABLES
    policy, backend, template,   \* the files
    pc,           \* where each process is in its command
    cmd,          \* the command
    ask,          \* the pair it writes, if it writes
    met,          \* the processes whose command overlapped something else
    engine,       \* the backend of the cached engine, or Nothing
    crashes,
    calm,         \* no crash and no overlap of two commands so far
    asked,        \* while calm: the pair that was last begun to be written
    overtaken     \* the processes that cached an engine before another
                  \* process wrote the backend file

files == <<policy, backend, template>>
history == <<crashes, calm, asked, overtaken>>
configVars == <<files, pc, cmd, ask, met, engine, history>>

ConfigInit ==
    /\ policy = Absent /\ backend = Absent /\ template = Absent
    /\ pc = [p \in Procs |-> "idle"]
    /\ cmd = [p \in Procs |-> Nothing]
    /\ ask = [p \in Procs |-> Nothing]
    /\ engine = [p \in Procs |-> Nothing]
    /\ met = {}
    /\ crashes = 0 /\ calm = TRUE /\ asked = Nothing /\ overtaken = {}

-----------------------------------------------------------------------------
(* The steps of a process. *)

Busy == {p \in Procs : pc[p] # "idle"}

GoTo(p, label) == pc' = [pc EXCEPT ![p] = label]

Forget(p) == /\ cmd' = [cmd EXCEPT ![p] = Nothing]
             /\ ask' = [ask EXCEPT ![p] = Nothing]
             /\ met' = met \ {p}

(* The command ends; its process ends too, unless it is a shell.           *)
Return(p) ==
    /\ GoTo(p, "idle")
    /\ Forget(p)
    /\ engine' = IF p \in Shells THEN engine
                 ELSE [engine EXCEPT ![p] = Nothing]

(* Any exception but PatchrailError ends the process, also a shell.        *)
Raise(p) ==
    /\ GoTo(p, "idle")
    /\ Forget(p)
    /\ engine' = [engine EXCEPT ![p] = Nothing]

Continue(p, label) == GoTo(p, label) /\ UNCHANGED <<cmd, ask, met, engine>>

(* What follows once the policy is loaded: doctor, the last part of start  *)
(* and setup runtime, ends; so does preflight.                             *)
AfterLoad(p) ==
    IF cmd[p] \in {"project", "reset_project"} THEN Continue(p, "task")
    ELSE IF cmd[p] = "auto" THEN Continue(p, "engine")
    ELSE Return(p)

-----------------------------------------------------------------------------
Begin(p) ==
    /\ pc[p] = "idle"
    /\ \E c \in Commands, choice \in Choices :
         /\ c \in Views => choice = CHOOSE any \in Choices : TRUE
         /\ cmd' = [cmd EXCEPT ![p] = c]
         /\ ask' = [ask EXCEPT ![p] = IF c \in Views THEN Nothing ELSE choice]
         /\ GoTo(p, CASE c \in Resets -> "open_policy"
                      [] c \in Checked -> "check"
                      [] c = "doctor" -> "doctor"
                      [] OTHER -> "load")
    /\ IF Busy = {} THEN UNCHANGED <<met, calm, asked>>
       ELSE met' = Busy \cup {p} /\ calm' = FALSE /\ asked' = Nothing
    /\ UNCHANGED <<files, engine, crashes, overtaken>>

(* Wrong variant: start always initializes. *)
CheckNothing(p) ==
    /\ pc[p] = "check"
    /\ Continue(p, "open_policy")
    /\ UNCHANGED <<files, history>>

(* start and setup without --reset: whether both files exist.              *)
Check(p) ==
    /\ pc[p] = "check"
    /\ Continue(p, IF policy # Absent /\ backend # Absent
                   THEN "doctor" ELSE "open_policy")
    /\ UNCHANGED <<files, history>>

(* init_default, four steps: each file is emptied, then written.           *)
OpenPolicy(p) ==
    /\ pc[p] = "open_policy"
    /\ policy' = Torn
    /\ asked' = IF calm THEN ask[p] ELSE Nothing
    /\ Continue(p, "write_policy")
    /\ UNCHANGED <<backend, template, crashes, calm, overtaken>>

WritePolicy(p) ==
    /\ pc[p] = "write_policy"
    /\ policy' \in Written(policy, ask[p].preset)
    /\ Continue(p, "open_backend")
    /\ UNCHANGED <<backend, template, history>>

(* Wrong variant: an existing backend file is kept. *)
OpenBackendOnce(p) ==
    /\ pc[p] = "open_backend"
    /\ IF backend = Absent
       THEN backend' = Torn /\ Continue(p, "write_backend")
       ELSE UNCHANGED backend /\ Continue(p, "read_back")
    /\ UNCHANGED <<policy, template, history>>

OpenBackend(p) ==
    /\ pc[p] = "open_backend"
    /\ backend' = Torn
    /\ Continue(p, "write_backend")
    /\ UNCHANGED <<policy, template, history>>

(* Whoever else has an engine by now may be behind the file.               *)
Overtake(p) ==
    overtaken' = (overtaken \cup {q \in Procs : engine[q] # Nothing}) \ {p}

(* Wrong variant: load_policy and init_config share a default backend. *)
WriteBackendDefault(p) ==
    /\ pc[p] = "write_backend"
    /\ backend' \in Written(backend, Default.backend)
    /\ Overtake(p)
    /\ IF cmd[p] \in Views THEN AfterLoad(p)
       ELSE /\ GoTo(p, "read_back")
            /\ engine' = [engine EXCEPT ![p] = Nothing]
            /\ UNCHANGED <<cmd, ask, met>>
    /\ UNCHANGED <<policy, template, crashes, calm, asked>>

(* Wrong variant: the engine survives config init. *)
WriteBackendKeepEngine(p) ==
    /\ pc[p] = "write_backend"
    /\ backend' \in Written(backend, ask[p].backend)
    /\ Overtake(p)
    /\ IF cmd[p] \in Views THEN AfterLoad(p) ELSE Continue(p, "read_back")
    /\ UNCHANGED <<policy, template, crashes, calm, asked>>

(* init_config forgets the cached engine; load_policy, whose default is    *)
(* written by a command that only wants to read, does not.                 *)
WriteBackend(p) ==
    /\ pc[p] = "write_backend"
    /\ backend' \in Written(backend, ask[p].backend)
    /\ Overtake(p)
    /\ IF cmd[p] \in Views THEN AfterLoad(p)
       ELSE /\ GoTo(p, "read_back")
            /\ engine' = [engine EXCEPT ![p] = Nothing]
            /\ UNCHANGED <<cmd, ask, met>>
    /\ UNCHANGED <<policy, template, crashes, calm, asked>>

(* init_config reads the backend again for its payload. *)
ReadBack(p) ==
    /\ pc[p] = "read_back"
    /\ IF backend \in Spoilt THEN Raise(p)
       ELSE IF cmd[p] = "init" THEN Return(p)
       ELSE Continue(p, "doctor")
    /\ UNCHANGED <<files, history>>

(* doctor ends early if a file is missing; of the others, start and setup  *)
(* have just found or made both.                                           *)
Doctor(p) ==
    /\ pc[p] = "doctor"
    /\ IF backend \in Spoilt THEN Raise(p)
       ELSE IF policy = Absent \/ backend = Absent THEN Return(p)
       ELSE Continue(p, "load")
    /\ UNCHANGED <<files, history>>

(* Wrong variant: the default is not what is written. *)
LoadPolicyUnasked(p) ==
    /\ pc[p] = "load"
    /\ IF policy = Absent THEN Continue(p, "open_policy")
       ELSE IF policy \in Spoilt THEN Raise(p)
       ELSE AfterLoad(p)
    /\ UNCHANGED <<files, history>>

(* load_policy; the three preflights of doctor read the same file. *)
LoadPolicy(p) ==
    /\ pc[p] = "load"
    /\ IF policy = Absent
       THEN /\ GoTo(p, "open_policy")
            /\ ask' = [ask EXCEPT ![p] = Default]
            /\ UNCHANGED <<cmd, met, engine>>
       ELSE IF policy \in Spoilt THEN Raise(p)
       ELSE AfterLoad(p)
    /\ UNCHANGED <<files, history>>

(* setup project needs a task: the one that is named, or a new one. *)
FindTask(p) ==
    /\ pc[p] = "task"
    /\ Return(p) \/ Continue(p, "template")
    /\ UNCHANGED <<files, history>>

(* One template stands for the three, which are written one by one: any    *)
(* that exists, even torn, is left alone.                                  *)
OpenTemplate(p) ==
    /\ pc[p] = "template"
    /\ IF template # Absent THEN Return(p) /\ UNCHANGED template
       ELSE Continue(p, "write_template") /\ template' = Torn
    /\ UNCHANGED <<policy, backend, history>>

WriteTemplate(p) ==
    /\ pc[p] = "write_template"
    /\ template' \in Written(template, "template")
    /\ Return(p)
    /\ UNCHANGED <<policy, backend, history>>

(* plan --auto, review --auto: the cached engine, or a new one.  Importing *)
(* langgraph may fail, which is a PatchrailError and caches nothing.       *)
GetEngine(p) ==
    /\ pc[p] = "engine"
    /\ \/ /\ engine[p] # Nothing \/ backend = "langgraph"
          /\ Return(p)
          /\ UNCHANGED overtaken
       \/ /\ engine[p] = Nothing /\ backend \in Spoilt
          /\ Raise(p)
          /\ UNCHANGED overtaken
       \/ /\ engine[p] = Nothing /\ backend \notin Spoilt
          /\ GoTo(p, "idle") /\ Forget(p)
          /\ overtaken' = overtaken \ {p}
          /\ engine' = [engine EXCEPT ![p] =
                           IF p \notin Shells THEN Nothing
                           ELSE IF backend = Absent THEN "local" ELSE backend]
    /\ UNCHANGED <<files, crashes, calm, asked>>

Step(p) ==
    \/ Begin(p) \/ Check(p) \/ OpenPolicy(p) \/ WritePolicy(p)
    \/ OpenBackend(p) \/ WriteBackend(p) \/ ReadBack(p) \/ Doctor(p)
    \/ LoadPolicy(p) \/ FindTask(p) \/ OpenTemplate(p) \/ WriteTemplate(p)
    \/ GetEngine(p)

-----------------------------------------------------------------------------
(* The operator and the machine. *)

(* The operator edits a file that is whole, in place.                      *)
EditPolicy ==
    /\ Whole(policy)
    /\ policy' = "edited"
    /\ met' = Busy
    /\ UNCHANGED <<backend, template, pc, cmd, ask, engine, history>>

EditTemplate ==
    /\ Whole(template)
    /\ template' = "edited"
    /\ UNCHANGED <<policy, backend, pc, cmd, ask, met, engine, history>>

(* A kill or a power cut at any step of a command. *)
Crash(p) ==
    /\ crashes < MaxCrashes
    /\ pc[p] # "idle"
    /\ Raise(p)
    /\ crashes' = crashes + 1
    /\ calm' = FALSE
    /\ asked' = Nothing
    /\ UNCHANGED <<files, overtaken>>

(* The shell is left: exit, end of input, or an open quote, which ends it  *)
(* with ValueError.                                                        *)
LeaveShell(p) ==
    /\ p \in Shells
    /\ pc[p] = "idle"
    /\ engine[p] # Nothing
    /\ engine' = [engine EXCEPT ![p] = Nothing]
    /\ UNCHANGED <<files, pc, cmd, ask, met, history>>

ConfigNext ==
    \/ \E p \in Procs : Step(p) \/ Crash(p) \/ LeaveShell(p)
    \/ EditPolicy
    \/ EditTemplate

ConfigSpec == ConfigInit /\ [][ConfigNext]_configVars

-----------------------------------------------------------------------------
(* The type invariant.  A process that is to write knows what. *)
ConfigTypeOK ==
    /\ policy \in Presets \cup {"edited", Absent, Torn, Mixed}
    /\ backend \in Backends \cup {Absent, Torn, Mixed}
    /\ template \in {"template", "edited", Absent, Torn, Mixed}
    /\ pc \in [Procs -> {"idle", "check", "open_policy", "write_policy",
                         "open_backend", "write_backend", "read_back",
                         "doctor", "load", "task", "template",
                         "write_template", "engine"}]
    /\ cmd \in [Procs -> Commands \cup {Nothing}]
    /\ ask \in [Procs -> Choice \cup {Nothing}]
    /\ engine \in [Procs -> Backends \cup {Nothing}]
    /\ crashes \in 0..MaxCrashes
    /\ calm \in BOOLEAN
    /\ met \subseteq Procs
    /\ asked \in Choice \cup {Nothing}
    /\ overtaken \subseteq Procs
    /\ \A p \in Procs : pc[p] \in {"open_policy", "write_policy", "open_backend",
                                   "write_backend"} => ask[p] # Nothing

(* A policy or a template that is whole, an operator's edit of it above    *)
(* all, is only ever replaced by a command that was told to reset the      *)
(* configuration, unless a command died or commands overlapped: start and  *)
(* setup take a half-written configuration for none, and the check and the *)
(* write are two steps.                                                    *)
EditsSurvive ==
    [][/\ Whole(policy) /\ policy' \notin {policy, "edited"} =>
            ~calm \/ \E p \in Procs : cmd[p] \in Resets
       /\ Whole(template) /\ template' \notin {template, "edited"} => ~calm
      ]_configVars

(* The two files come from the same command, whichever commands came in    *)
(* which order: start after preflight has nothing left to choose, and a    *)
(* later reset replaces both.                                              *)
OneChoice ==
    calm /\ (\A p \in Procs : pc[p] = "idle") =>
        \/ policy = Absent /\ backend = Absent
        \/ /\ asked # Nothing
           /\ backend = asked.backend
           /\ policy \in {asked.preset, "edited"}

(* Whatever a crash or an overlap has left behind, torn files included, a  *)
(* reset that meets nobody puts both files right.                          *)
ResetRepairs ==
    \A p \in Procs \ met :
        /\ cmd[p] \in Resets
        /\ pc[p] \in {"read_back", "doctor", "load", "task", "template",
                      "write_template"}
        => policy = ask[p].preset /\ backend = ask[p].backend

(* The engine a shell has cached is that of the configuration, unless      *)
(* another process has written it since: what a shell configures itself,   *)
(* by whatever command, it also uses.                                      *)
StaleOnlyByOthers ==
    \A p \in Procs :
        pc[p] = "idle" /\ engine[p] # Nothing /\ backend \in Backends =>
            engine[p] = backend \/ p \in overtaken
=============================================================================
