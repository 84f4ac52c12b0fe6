---------------------------- MODULE ConfigProofs ----------------------------
(***************************************************************************)
(* The configuration files, for any number of terminals, shells, ways to   *)
(* configure and crashes.                                                  *)
(*                                                                         *)
(* The argument.  Nothing keeps two commands apart, so everything is said  *)
(* of a command that met nobody (met) or of a history without overlap and  *)
(* crash (calm).  Such a command is the only one under way (Solo), and     *)
(* what it has written so far is still there.  The cached engine is a      *)
(* matter of counting who wrote the backend file since (overtaken).        *)
(***************************************************************************)
EXTENDS Config, TLAPS

-----------------------------------------------------------------------------
(* How a process moves. *)

OthersStay(p) ==
    \A q \in Procs \ {p} :
        /\ pc'[q] = pc[q] /\ cmd'[q] = cmd[q]
        /\ ask'[q] = ask[q] /\ engine'[q] = engine[q]

(* Process p goes to step s of its command, or ends it.                    *)
Moves(p, s) ==
    /\ pc'[p] = s
    /\ engine'[p] \in {engine[p], Nothing}
    /\ IF s = "idle" THEN met' = met \ {p}
       ELSE cmd'[p] = cmd[p] /\ ask'[p] = ask[p] /\ met' = met
    /\ OthersStay(p)

LEMMA WaysToMove ==
  ASSUME ConfigTypeOK, NEW p \in Procs
  PROVE  /\ Return(p) => Moves(p, "idle")
         /\ Raise(p) => Moves(p, "idle")
         /\ \A s : Continue(p, s) /\ s # "idle" => Moves(p, s)
         /\ AfterLoad(p) =>
              \/ Moves(p, "idle")
              \/ Moves(p, "task")
              \/ Moves(p, "engine") /\ cmd[p] = "auto"
<1>1. Return(p) => Moves(p, "idle")
  BY DEF ConfigTypeOK, Return, GoTo, Forget, Moves, OthersStay
<1>2. Raise(p) => Moves(p, "idle")
  BY DEF ConfigTypeOK, Raise, GoTo, Forget, Moves, OthersStay
<1>3. \A s : Continue(p, s) /\ s # "idle" => Moves(p, s)
  BY DEF ConfigTypeOK, Continue, GoTo, Moves, OthersStay
<1> QED
  BY <1>1, <1>2, <1>3 DEF AfterLoad

(* The types of what a process has in memory. *)
FrameTypeOK ==
    /\ pc \in [Procs -> {"idle", "check", "open_policy", "write_policy",
                         "open_backend", "write_backend", "read_back",
                         "doctor", "load", "task", "template",
                         "write_template", "engine"}]
    /\ cmd \in [Procs -> Commands \cup {Nothing}]
    /\ ask \in [Procs -> Choice \cup {Nothing}]
    /\ engine \in [Procs -> Backends \cup {Nothing}]
    /\ met \subseteq Procs

LEMMA FrameTypes ==
  ASSUME FrameTypeOK, NEW p \in Procs
  PROVE  /\ Return(p) => FrameTypeOK'
         /\ Raise(p) => FrameTypeOK'
         /\ \A s \in {"open_policy", "write_policy", "open_backend",
                      "write_backend", "read_back", "doctor", "load", "task",
                      "template", "write_template", "engine"} :
              Continue(p, s) => FrameTypeOK'
         /\ AfterLoad(p) => FrameTypeOK'
<1>1. Return(p) => FrameTypeOK'
  BY DEF FrameTypeOK, Return, GoTo, Forget
<1>2. Raise(p) => FrameTypeOK'
  BY DEF FrameTypeOK, Raise, GoTo, Forget
<1>3. \A s \in {"open_policy", "write_policy", "open_backend", "write_backend",
                "read_back", "doctor", "load", "task", "template",
                "write_template", "engine"} :
        Continue(p, s) => FrameTypeOK'
  BY DEF FrameTypeOK, Continue, GoTo
<1> QED
  BY <1>1, <1>2, <1>3 DEF AfterLoad

-----------------------------------------------------------------------------
(* Every step of a command but its first.  The others keep what they have  *)
(* in memory, and nobody begins or stops to be alone but the one that ends. *)

Acts(p) ==
    /\ pc[p] # "idle"
    /\ OthersStay(p)
    /\ IF pc'[p] = "idle" THEN met' = met \ {p} ELSE met' = met

(* All that Step allows but Begin. *)
Work(p) ==
    \/ Check(p) \/ OpenPolicy(p) \/ WritePolicy(p) \/ OpenBackend(p)
    \/ WriteBackend(p) \/ ReadBack(p) \/ Doctor(p) \/ LoadPolicy(p)
    \/ FindTask(p) \/ OpenTemplate(p) \/ WriteTemplate(p) \/ GetEngine(p)

(* The writers of init_default. *)
Writing == {"open_policy", "write_policy", "open_backend", "write_backend"}

(* What a command is told to write, it knows from the start; only doctor   *)
(* and the reading commands skip the write.                                *)
Told ==
    \A p \in Procs :
        pc[p] = "check" => cmd[p] \in Checked /\ ask[p] # Nothing

TypeInv == ConfigTypeOK /\ Told

LEMMA TypeGivesFrame == ConfigTypeOK => FrameTypeOK
BY DEF ConfigTypeOK, FrameTypeOK

LEMMA WorkActs ==
  ASSUME ConfigTypeOK, NEW p \in Procs
  PROVE  Work(p) \/ Crash(p) => Acts(p)
<1>1. ASSUME NEW s, s # "idle", Moves(p, s), pc[p] # "idle" PROVE Acts(p)
  BY <1>1 DEF Moves, Acts
<1>2. ASSUME Moves(p, "idle"), pc[p] # "idle" PROVE Acts(p)
  BY <1>2 DEF Moves, Acts
<1>3. Check(p) => Acts(p)
  BY <1>1, WaysToMove DEF Check
<1>4. OpenPolicy(p) => Acts(p)
  BY <1>1, WaysToMove DEF OpenPolicy
<1>5. WritePolicy(p) => Acts(p)
  BY <1>1, WaysToMove DEF WritePolicy
<1>6. OpenBackend(p) => Acts(p)
  BY <1>1, WaysToMove DEF OpenBackend
<1>7. WriteBackend(p) => Acts(p)
  <2> SUFFICES ASSUME WriteBackend(p) PROVE Acts(p)
    OBVIOUS
  <2>1. CASE cmd[p] \in Views
    BY <2>1, <1>1, <1>2, WaysToMove DEF WriteBackend
  <2>2. CASE cmd[p] \notin Views
    BY <2>2 DEF WriteBackend, GoTo, Acts, OthersStay, ConfigTypeOK
  <2> QED BY <2>1, <2>2
<1>8. ReadBack(p) => Acts(p)
  BY <1>1, <1>2, WaysToMove DEF ReadBack
<1>9. Doctor(p) => Acts(p)
  BY <1>1, <1>2, WaysToMove DEF Doctor
<1>10. LoadPolicy(p) => Acts(p)
  <2> SUFFICES ASSUME LoadPolicy(p) PROVE Acts(p)
    OBVIOUS
  <2>1. CASE policy = Absent
    BY <2>1 DEF LoadPolicy, GoTo, Acts, OthersStay, ConfigTypeOK
  <2>2. CASE policy # Absent
    BY <2>2, <1>1, <1>2, WaysToMove DEF LoadPolicy
  <2> QED BY <2>1, <2>2
<1>11. FindTask(p) => Acts(p)
  BY <1>1, <1>2, WaysToMove DEF FindTask
<1>12. OpenTemplate(p) => Acts(p)
  BY <1>1, <1>2, WaysToMove DEF OpenTemplate
<1>13. WriteTemplate(p) => Acts(p)
  BY <1>2, WaysToMove DEF WriteTemplate
<1>14. GetEngine(p) => Acts(p)
  <2> SUFFICES ASSUME GetEngine(p) PROVE Acts(p)
    OBVIOUS
  <2>1. CASE Return(p)
    BY <2>1, <1>2, WaysToMove DEF GetEngine
  <2>2. CASE Raise(p)
    BY <2>2, <1>2, WaysToMove DEF GetEngine
  <2>3. CASE ~Return(p) /\ ~Raise(p)
    BY <2>3 DEF GetEngine, GoTo, Forget, Acts, OthersStay, ConfigTypeOK
  <2> QED BY <2>1, <2>2, <2>3
<1>15. Crash(p) => Acts(p)
  BY <1>2, WaysToMove DEF Crash
<1> QED
  BY <1>3, <1>4, <1>5, <1>6, <1>7, <1>8, <1>9, <1>10, <1>11, <1>12, <1>13,
     <1>14, <1>15 DEF Work

(* The first step of a command. *)
Starts(p) ==
    /\ pc[p] = "idle"
    /\ UNCHANGED <<files, engine>>
    /\ pc'[p] # "idle"
    /\ pc'[p] \notin {"write_policy", "open_backend", "write_backend", "engine",
                      "write_template", "read_back", "task", "template"}
    /\ cmd'[p] \in Commands
    /\ cmd'[p] \in Resets <=> pc'[p] = "open_policy"
    /\ pc'[p] = "check" => cmd'[p] \in Checked
    /\ pc'[p] \in {"open_policy", "check"} => ask'[p] # Nothing
    /\ OthersStay(p)
    /\ IF Busy = {} THEN UNCHANGED <<met, calm, asked>>
       ELSE met' = Busy \cup {p} /\ calm' = FALSE /\ asked' = Nothing

LEMMA BeginStarts ==
  ASSUME ConfigTypeOK, NEW p \in Procs, Begin(p)
  PROVE  Starts(p) /\ FrameTypeOK'
<1>1. PICK c \in Commands, choice \in Choices :
         /\ c \in Views => choice = CHOOSE any \in Choices : TRUE
         /\ cmd' = [cmd EXCEPT ![p] = c]
         /\ ask' = [ask EXCEPT ![p] = IF c \in Views THEN Nothing ELSE choice]
         /\ GoTo(p, CASE c \in Resets -> "open_policy"
                      [] c \in Checked -> "check"
                      [] c = "doctor" -> "doctor"
                      [] OTHER -> "load")
  BY DEF Begin
<1> DEFINE s == CASE c \in Resets -> "open_policy"
                  [] c \in Checked -> "check"
                  [] c = "doctor" -> "doctor"
                  [] OTHER -> "load"
           a == IF c \in Views THEN Nothing ELSE choice
<1>2. /\ s \in {"open_policy", "check", "doctor", "load"}
      /\ s = "open_policy" <=> c \in Resets
      /\ s = "check" => c \in Checked
      /\ s \in {"open_policy", "check"} => c \notin Views
  BY DEF Resets, Checked, Views
<1>3. /\ choice \in Choice /\ choice # Nothing
      /\ a \in Choice \cup {Nothing}
      /\ c \notin Views => a # Nothing
  BY ChoiceAssumption, NoTexts
<1>4. pc' = [pc EXCEPT ![p] = s] /\ ask' = [ask EXCEPT ![p] = a]
  BY <1>1 DEF GoTo
<1> HIDE DEF s, a
<1>5. /\ pc[p] = "idle"
      /\ UNCHANGED <<policy, backend, template, engine>>
      /\ IF Busy = {} THEN UNCHANGED <<met, calm, asked>>
         ELSE met' = Busy \cup {p} /\ calm' = FALSE /\ asked' = Nothing
  BY DEF Begin, files
<1>6. Busy \subseteq Procs
  BY DEF Busy
<1>7. /\ pc'[p] = s /\ cmd'[p] = c /\ ask'[p] = a
      /\ OthersStay(p)
  BY <1>1, <1>4, <1>5 DEF OthersStay, ConfigTypeOK
<1>8. FrameTypeOK'
  BY <1>1, <1>2, <1>3, <1>4, <1>5, <1>6 DEF FrameTypeOK, ConfigTypeOK
<1> QED
  BY <1>2, <1>3, <1>5, <1>7, <1>8 DEF Starts, files

-----------------------------------------------------------------------------
(* Types. *)

(* The types of the files and of the history. *)
FilesTypeOK ==
    /\ policy \in Presets \cup {"edited", Absent, Torn, Mixed}
    /\ backend \in Backends \cup {Absent, Torn, Mixed}
    /\ template \in {"template", "edited", Absent, Torn, Mixed}

HistoryTypeOK ==
    /\ crashes \in 0..MaxCrashes
    /\ calm \in BOOLEAN
    /\ asked \in Choice \cup {Nothing}
    /\ overtaken \subseteq Procs

(* Who is about to write, knows what. *)
Knows(p) ==
    /\ pc[p] \in Writing => ask[p] # Nothing
    /\ pc[p] = "check" => cmd[p] \in Checked /\ ask[p] # Nothing

LEMMA TypeParts ==
  TypeInv <=> /\ FrameTypeOK /\ FilesTypeOK /\ HistoryTypeOK
              /\ \A p \in Procs : Knows(p)
BY DEF TypeInv, ConfigTypeOK, Told, FrameTypeOK, FilesTypeOK, HistoryTypeOK,
       Knows, Writing

LEMMA TypePartsPrime ==
  TypeInv' <=> /\ FrameTypeOK' /\ FilesTypeOK' /\ HistoryTypeOK'
               /\ (\A p \in Procs : Knows(p))'
BY DEF TypeInv, ConfigTypeOK, Told, FrameTypeOK, FilesTypeOK, HistoryTypeOK,
       Knows, Writing

(* The choice a process writes is one, and has two parts. *)
LEMMA AskIsChoice ==
  ASSUME TypeInv, NEW p \in Procs, pc[p] \in Writing
  PROVE  /\ ask[p] \in Choice
         /\ ask[p].preset \in Presets /\ ask[p].backend \in Backends
BY DEF TypeInv, ConfigTypeOK, Writing, Choice

LEMMA KnowsWork ==
  ASSUME TypeInv, NEW p \in Procs, Work(p) \/ Crash(p)
  PROVE  (\A q \in Procs : Knows(q))'
<1>1. Acts(p) /\ ConfigTypeOK
  BY WorkActs DEF TypeInv
<1>2. ASSUME NEW q \in Procs, q # p PROVE Knows(q)'
  BY <1>1, <1>2, TypeParts DEF Acts, OthersStay, Knows
<1>3. Knows(p)
  BY TypeParts
<1>4. ASSUME NEW s, s \notin Writing \cup {"check"}, pc'[p] = s PROVE Knows(p)'
  BY <1>4 DEF Knows
<1>5. ASSUME NEW s, s # "idle", s # "check", Moves(p, s),
             pc[p] \in Writing \cup {"check"}
      PROVE Knows(p)'
  BY <1>5, <1>3 DEF Knows, Moves
<1>6. Return(p) \/ Raise(p) => Knows(p)'
  BY <1>1, <1>4, WaysToMove DEF Moves, Writing
<1>7. \A s \in {"doctor", "read_back", "load", "task", "template",
                "write_template", "engine"} :
         Continue(p, s) => Knows(p)'
  BY <1>1, <1>4, WaysToMove DEF Moves, Writing
<1>8. \A s \in Writing : pc[p] \in Writing \cup {"check"} /\ Continue(p, s)
                          => Knows(p)'
  BY <1>1, <1>5, WaysToMove DEF Writing
<1>9. AfterLoad(p) => Knows(p)'
  BY <1>6, <1>7 DEF AfterLoad
<1>10. Knows(p)'
  <2>1. CASE Check(p)
    BY <2>1, <1>7, <1>8 DEF Check, Writing
  <2>2. CASE OpenPolicy(p) \/ WritePolicy(p) \/ OpenBackend(p)
    BY <2>2, <1>8 DEF OpenPolicy, WritePolicy, OpenBackend, Writing
  <2>3. CASE WriteBackend(p)
    <3>1. CASE cmd[p] \in Views
      BY <3>1, <2>3, <1>9 DEF WriteBackend
    <3>2. CASE cmd[p] \notin Views
      BY <3>2, <2>3, <1>1, <1>4 DEF WriteBackend, GoTo, ConfigTypeOK, Writing
    <3> QED BY <3>1, <3>2
  <2>4. CASE ReadBack(p) \/ Doctor(p)
    BY <2>4, <1>6, <1>7 DEF ReadBack, Doctor
  <2>5. CASE LoadPolicy(p)
    <3>1. CASE policy = Absent
      <4>1. pc'[p] = "open_policy" /\ ask'[p] = Default
        BY <3>1, <2>5, <1>1 DEF LoadPolicy, GoTo, ConfigTypeOK
      <4>2. Default # Nothing
        BY NoTexts DEF Default, Choice, Presets, Backends
      <4> QED BY <4>1, <4>2 DEF Knows
    <3>2. CASE policy # Absent
      BY <3>2, <2>5, <1>6, <1>9 DEF LoadPolicy
    <3> QED BY <3>1, <3>2
  <2>6. CASE FindTask(p) \/ OpenTemplate(p) \/ WriteTemplate(p) \/ Crash(p)
    BY <2>6, <1>6, <1>7 DEF FindTask, OpenTemplate, WriteTemplate, Crash
  <2>7. CASE GetEngine(p)
    <3>1. CASE Return(p) \/ Raise(p)
      BY <3>1, <1>6
    <3>2. CASE GoTo(p, "idle")
      BY <3>2, <1>1, <1>4 DEF GoTo, ConfigTypeOK, Writing
    <3> QED BY <2>7, <3>1, <3>2 DEF GetEngine
  <2> QED
    BY <2>1, <2>2, <2>3, <2>4, <2>5, <2>6, <2>7 DEF Work
<1> QED
  BY <1>2, <1>10

LEMMA FrameWork ==
  ASSUME TypeInv, NEW p \in Procs, Work(p) \/ Crash(p)
  PROVE  FrameTypeOK'
<1>1. FrameTypeOK
  BY TypeParts
<1>2. /\ Return(p) => FrameTypeOK'
      /\ Raise(p) => FrameTypeOK'
      /\ \A s \in {"open_policy", "write_policy", "open_backend",
                   "write_backend", "read_back", "doctor", "load", "task",
                   "template", "write_template", "engine"} :
            Continue(p, s) => FrameTypeOK'
      /\ AfterLoad(p) => FrameTypeOK'
  BY <1>1, FrameTypes
<1>3. CASE WriteBackend(p)
  <2>1. CASE cmd[p] \in Views
    BY <2>1, <1>3, <1>2 DEF WriteBackend
  <2>2. CASE cmd[p] \notin Views
    BY <2>2, <1>3, <1>1 DEF WriteBackend, GoTo, FrameTypeOK
  <2> QED BY <2>1, <2>2
<1>4. CASE LoadPolicy(p)
  <2>1. CASE policy = Absent
    <3>1. Default \in Choice
      BY DEF Default, Choice, Presets, Backends
    <3> HIDE DEF Default
    <3> QED BY <3>1, <2>1, <1>4, <1>1 DEF LoadPolicy, GoTo, FrameTypeOK
  <2>2. CASE policy # Absent
    BY <2>2, <1>4, <1>2 DEF LoadPolicy
  <2> QED BY <2>1, <2>2
<1>5. CASE GetEngine(p)
  <2>1. CASE Return(p) \/ Raise(p)
    BY <2>1, <1>2
  <2>2. CASE ~Return(p) /\ ~Raise(p)
    <3> DEFINE e == IF p \notin Shells THEN Nothing
                    ELSE IF backend = Absent THEN "local" ELSE backend
    <3>1. /\ backend \notin Spoilt /\ GoTo(p, "idle") /\ Forget(p)
          /\ engine' = [engine EXCEPT ![p] = e]
      BY <2>2, <1>5 DEF GetEngine
    <3>2. e \in Backends \cup {Nothing}
      BY <3>1, TypeParts DEF FilesTypeOK, Spoilt, Backends
    <3> HIDE DEF e
    <3> QED BY <3>1, <3>2, <1>1 DEF FrameTypeOK, GoTo, Forget
  <2> QED BY <2>1, <2>2
<1>6. CASE Check(p) \/ OpenPolicy(p) \/ WritePolicy(p) \/ OpenBackend(p)
  BY <1>6, <1>2 DEF Check, OpenPolicy, WritePolicy, OpenBackend
<1>7. CASE ReadBack(p) \/ Doctor(p) \/ FindTask(p) \/ OpenTemplate(p)
  BY <1>7, <1>2 DEF ReadBack, Doctor, FindTask, OpenTemplate
<1>8. CASE WriteTemplate(p) \/ Crash(p)
  BY <1>8, <1>2 DEF WriteTemplate, Crash
<1> QED
  BY <1>3, <1>4, <1>5, <1>6, <1>7, <1>8 DEF Work

LEMMA FilesWork ==
  ASSUME TypeInv, NEW p \in Procs, Work(p) \/ Crash(p)
  PROVE  FilesTypeOK' /\ HistoryTypeOK'
<1>1. FilesTypeOK /\ HistoryTypeOK
  BY TypeParts
<1>2. pc[p] \in Writing => /\ ask[p] \in Choice
                           /\ ask[p].preset \in Presets
                           /\ ask[p].backend \in Backends
  BY AskIsChoice
<1>3. CASE OpenPolicy(p)
  BY <1>3, <1>1, <1>2
  DEF OpenPolicy, FilesTypeOK, HistoryTypeOK, Writing
<1>4. CASE WritePolicy(p)
  BY <1>4, <1>1, <1>2
  DEF WritePolicy, FilesTypeOK, HistoryTypeOK, Writing, Written, history
<1>5. CASE OpenBackend(p)
  BY <1>5, <1>1 DEF OpenBackend, FilesTypeOK, HistoryTypeOK, history
<1>6. CASE WriteBackend(p)
  BY <1>6, <1>1, <1>2
  DEF WriteBackend, FilesTypeOK, HistoryTypeOK, Writing, Written, Overtake
<1>7. CASE OpenTemplate(p)
  BY <1>7, <1>1 DEF OpenTemplate, FilesTypeOK, HistoryTypeOK, history
<1>8. CASE WriteTemplate(p)
  BY <1>8, <1>1
  DEF WriteTemplate, FilesTypeOK, HistoryTypeOK, history, Written
<1>9. CASE Crash(p)
  <2>1. crashes' \in 0..MaxCrashes
    BY <1>9, <1>1, CrashAssumption DEF Crash, HistoryTypeOK
  <2>2. /\ UNCHANGED <<policy, backend, template, overtaken>>
        /\ calm' = FALSE /\ asked' = Nothing
    BY <1>9 DEF Crash, files
  <2> QED BY <2>1, <2>2, <1>1 DEF FilesTypeOK, HistoryTypeOK
<1>10. CASE GetEngine(p)
  BY <1>10, <1>1 DEF GetEngine, FilesTypeOK, HistoryTypeOK, files
<1>11. CASE Check(p) \/ ReadBack(p) \/ Doctor(p) \/ LoadPolicy(p) \/ FindTask(p)
  BY <1>11, <1>1 DEF Check, ReadBack, Doctor, LoadPolicy, FindTask,
     FilesTypeOK, HistoryTypeOK, files, history
<1> QED
  BY <1>3, <1>4, <1>5, <1>6, <1>7, <1>8, <1>9, <1>10, <1>11 DEF Work

LEMMA TypeStep == TypeInv /\ [ConfigNext]_configVars => TypeInv'
<1> SUFFICES ASSUME TypeInv, [ConfigNext]_configVars PROVE TypeInv'
  OBVIOUS
<1>1. /\ FrameTypeOK /\ FilesTypeOK /\ HistoryTypeOK
      /\ \A p \in Procs : Knows(p)
  BY TypeParts
<1>2. ASSUME NEW p \in Procs, Begin(p) PROVE TypeInv'
  <2>1. Starts(p) /\ FrameTypeOK'
    BY <1>2, BeginStarts DEF TypeInv
  <2>2. \A q \in Procs \ {p} : Knows(q)'
    BY <2>1, <1>1 DEF Starts, OthersStay, Knows
  <2>3. Knows(p)'
    BY <2>1 DEF Starts, Knows, Writing
  <2>4. FilesTypeOK' /\ HistoryTypeOK'
    BY <2>1, <1>1, <1>2
    DEF Starts, Begin, FilesTypeOK, HistoryTypeOK, files
  <2> QED BY <2>1, <2>2, <2>3, <2>4, TypePartsPrime
<1>3. ASSUME NEW p \in Procs, Work(p) \/ Crash(p) PROVE TypeInv'
  BY <1>3, FrameWork, FilesWork, KnowsWork, TypePartsPrime
<1>4. ASSUME NEW p \in Procs, LeaveShell(p) PROVE TypeInv'
  BY <1>4, <1>1, TypePartsPrime
  DEF LeaveShell, FrameTypeOK, FilesTypeOK, HistoryTypeOK, Knows, files, history
<1>5. CASE EditPolicy \/ EditTemplate
  BY <1>5, <1>1, TypePartsPrime
  DEF EditPolicy, EditTemplate, FrameTypeOK, FilesTypeOK, HistoryTypeOK, Knows,
      history, Busy
<1>6. CASE UNCHANGED configVars
  BY <1>6, <1>1, TypePartsPrime
  DEF FrameTypeOK, FilesTypeOK, HistoryTypeOK, Knows, configVars, files, history
<1> QED
  BY <1>2, <1>3, <1>4, <1>5, <1>6 DEF ConfigNext, Step, Work

LEMMA TypeInit == ConfigInit => TypeInv
BY CrashAssumption
DEF ConfigInit, TypeInv, ConfigTypeOK, Told

(* The files, the places of the commands and the history have their types, *)
(* and whoever is about to write has been told what.                       *)
THEOREM ConfigTypeCorrect == ConfigSpec => []ConfigTypeOK
<1>1. TypeInv => ConfigTypeOK
  BY DEF TypeInv
<1> QED
  BY <1>1, TypeInit, TypeStep, PTL DEF ConfigSpec

-----------------------------------------------------------------------------
(* A reset that meets nobody. *)

(* A command that met nobody is alone. *)
Solo ==
    \A p \in Procs :
        pc[p] # "idle" /\ p \notin met =>
            \A q \in Procs \ {p} : pc[q] = "idle"

(* Where a reset has written both files. *)
After == {"read_back", "doctor", "load", "task", "template", "write_template"}

(* What a reset that met nobody has written so far is there.               *)
Repairing(p) ==
    p \notin met /\ cmd[p] \in Resets =>
        /\ pc[p] = "write_policy" => policy = Torn
        /\ pc[p] \in {"open_backend", "write_backend"} \cup After =>
              policy = ask[p].preset
        /\ pc[p] = "write_backend" => backend = Torn
        /\ pc[p] \in After => backend = ask[p].backend

RepairInv == Solo /\ \A p \in Procs : Repairing(p)

LEMMA SoloStep ==
  ASSUME TypeInv, Solo, [ConfigNext]_configVars
  PROVE  Solo'
<1>1. ASSUME NEW p \in Procs, Begin(p) PROVE Solo'
  <2>1. Starts(p)
    BY <1>1, BeginStarts DEF TypeInv
  <2>2. CASE Busy = {}
    BY <2>1, <2>2 DEF Starts, OthersStay, Busy, Solo
  <2>3. CASE Busy # {}
    BY <2>1, <2>3 DEF Starts, OthersStay, Busy, Solo
  <2> QED BY <2>2, <2>3
<1>2. ASSUME NEW p \in Procs, Work(p) \/ Crash(p) PROVE Solo'
  <2>1. Acts(p)
    BY <1>2, WorkActs DEF TypeInv
  <2>2. ASSUME NEW q \in Procs, pc'[q] # "idle", q \notin met',
               NEW r \in Procs \ {q}
        PROVE  pc'[r] = "idle"
    <3>1. pc[q] # "idle" /\ q \notin met
      BY <2>1, <2>2 DEF Acts, OthersStay
    <3>2. pc[r] = "idle"
      BY <3>1 DEF Solo
    <3> QED BY <3>2, <2>1 DEF Acts, OthersStay
  <2> QED BY <2>2 DEF Solo
<1>3. CASE EditPolicy
  BY <1>3 DEF EditPolicy, Solo, Busy
<1>4. CASE EditTemplate \/ UNCHANGED configVars \/ \E p \in Procs : LeaveShell(p)
  BY <1>4 DEF EditTemplate, LeaveShell, Solo, configVars
<1> QED
  BY <1>1, <1>2, <1>3, <1>4 DEF ConfigNext, Step, Work

(* The process that steps keeps its promise. *)
LEMMA RepairingWork ==
  ASSUME TypeInv, NEW p \in Procs, Repairing(p), Work(p) \/ Crash(p)
  PROVE  Repairing(p)'
<1>1. Acts(p) /\ ConfigTypeOK
  BY WorkActs DEF TypeInv
<1>2. SUFFICES ASSUME p \notin met', cmd'[p] \in Resets, pc'[p] # "idle"
      PROVE Repairing(p)'
  BY DEF Repairing, After
<1>3. p \notin met
  BY <1>1, <1>2 DEF Acts
<1>4. ~Return(p) /\ ~Raise(p)
  BY <1>1, <1>2, WaysToMove DEF Moves
<1>5. \A s : s # "idle" /\ Continue(p, s) =>
          pc'[p] = s /\ cmd'[p] = cmd[p] /\ ask'[p] = ask[p]
  BY <1>1, WaysToMove DEF Moves
<1>6. /\ ask[p] # Nothing => ask[p] \in Choice
      /\ ask[p] \in Choice => ask[p].preset \in Presets
      /\ Resets \cap Checked = {} /\ Resets \cap Views = {}
  BY <1>1 DEF ConfigTypeOK, Choice, Resets, Checked, Views
<1>7. CASE Check(p)
  <2>1. cmd[p] \in Checked
    BY <1>7 DEF TypeInv, Told, Check
  <2>2. Continue(p, "doctor") \/ Continue(p, "open_policy")
    BY <1>7 DEF Check
  <2> QED BY <2>1, <2>2, <1>2, <1>5, <1>6
<1>8. CASE OpenPolicy(p)
  BY <1>8, <1>5 DEF OpenPolicy, Repairing, After
<1>9. CASE WritePolicy(p)
  <2>1. pc[p] = "write_policy" /\ Continue(p, "open_backend")
        /\ policy' \in Written(policy, ask[p].preset)
    BY <1>9 DEF WritePolicy
  <2>2. policy = Torn
    BY <2>1, <1>2, <1>3, <1>5 DEF Repairing
  <2>3. policy' = ask[p].preset
    BY <2>1, <2>2 DEF Written
  <2> QED BY <2>1, <2>3, <1>5 DEF Repairing, After
<1>10. CASE OpenBackend(p)
  <2>1. /\ pc[p] = "open_backend" /\ Continue(p, "write_backend")
        /\ backend' = Torn /\ policy' = policy
    BY <1>10 DEF OpenBackend
  <2>2. policy = ask[p].preset
    BY <2>1, <1>2, <1>3, <1>5 DEF Repairing
  <2> QED BY <2>1, <2>2, <1>5 DEF Repairing, After
<1>11. CASE WriteBackend(p)
  <2>1. /\ pc[p] = "write_backend" /\ policy' = policy
        /\ backend' \in Written(backend, ask[p].backend)
    BY <1>11 DEF WriteBackend
  <2>2. cmd[p] \notin Views
    <3> SUFFICES ASSUME cmd[p] \in Views PROVE FALSE
      OBVIOUS
    <3>1. AfterLoad(p)
      BY <1>11 DEF WriteBackend
    <3>2. Continue(p, "task") \/ Continue(p, "engine")
      BY <3>1, <1>4 DEF AfterLoad
    <3> QED BY <3>2, <1>2, <1>5, <1>6
  <2>3. pc'[p] = "read_back" /\ cmd' = cmd /\ ask' = ask
    BY <1>11, <2>2, <1>1 DEF WriteBackend, GoTo, ConfigTypeOK
  <2>4. backend = Torn /\ policy = ask[p].preset
    BY <2>1, <2>3, <1>2, <1>3 DEF Repairing
  <2>5. backend' = ask[p].backend
    BY <2>1, <2>4 DEF Written
  <2> QED BY <2>1, <2>3, <2>4, <2>5 DEF Repairing, After
<1>12. ASSUME pc[p] \in After, UNCHANGED <<policy, backend>>,
              NEW s \in After, Continue(p, s)
       PROVE  Repairing(p)'
  <2>1. pc'[p] = s /\ cmd'[p] = cmd[p] /\ ask'[p] = ask[p]
    BY <1>12, <1>5 DEF After
  <2>2. policy = ask[p].preset /\ backend = ask[p].backend
    BY <2>1, <1>12, <1>2, <1>3 DEF Repairing
  <2> QED BY <2>1, <2>2, <1>12 DEF Repairing, After
<1>13. CASE ReadBack(p) \/ Doctor(p) \/ FindTask(p) \/ OpenTemplate(p)
  BY <1>13, <1>4, <1>12
  DEF ReadBack, Doctor, FindTask, OpenTemplate, After, files
<1>14. CASE LoadPolicy(p)
  <2>1. pc[p] = "load" /\ UNCHANGED <<policy, backend>>
    BY <1>14 DEF LoadPolicy, files
  <2>2. CASE policy = Absent
    <3>1. cmd' = cmd /\ pc'[p] = "open_policy"
      BY <1>14, <2>2, <1>1 DEF LoadPolicy, GoTo, ConfigTypeOK
    <3> QED BY <3>1 DEF Repairing, After
  <2>3. CASE policy # Absent
    <3>1. AfterLoad(p)
      BY <1>14, <2>3, <1>4 DEF LoadPolicy
    <3>2. Continue(p, "task") \/ (cmd[p] = "auto" /\ Continue(p, "engine"))
      BY <3>1, <1>4 DEF AfterLoad
    <3> QED BY <3>2, <2>1, <1>2, <1>5, <1>6, <1>12 DEF After, Views
  <2> QED BY <2>2, <2>3
<1>15. CASE WriteTemplate(p) \/ Crash(p)
  BY <1>15, <1>4 DEF WriteTemplate, Crash
<1>16. CASE GetEngine(p)
  BY <1>16, <1>1, <1>2, <1>4 DEF GetEngine, GoTo, ConfigTypeOK
<1> QED
  BY <1>7, <1>8, <1>9, <1>10, <1>11, <1>13, <1>14, <1>15, <1>16 DEF Work

LEMMA RepairStep ==
  ASSUME TypeInv, RepairInv, [ConfigNext]_configVars
  PROVE  RepairInv'
<1>1. Solo'
  BY SoloStep DEF RepairInv
<1>2. ASSUME NEW p \in Procs, Begin(p), NEW q \in Procs PROVE Repairing(q)'
  <2>1. Starts(p)
    BY <1>2, BeginStarts DEF TypeInv
  <2>2. CASE q = p
    BY <2>1, <2>2 DEF Starts, Repairing, After
  <2>3. CASE q # p /\ pc[q] = "idle"
    BY <2>1, <2>3 DEF Starts, OthersStay, Repairing, After
  <2>4. CASE q # p /\ pc[q] # "idle"
    <3>1. q \in Busy
      BY <2>4 DEF Busy
    <3> QED BY <3>1, <2>1 DEF Starts, Repairing
  <2> QED BY <2>2, <2>3, <2>4
<1>3. ASSUME NEW p \in Procs, Work(p) \/ Crash(p), NEW q \in Procs
      PROVE Repairing(q)'
  <2>1. CASE q = p
    BY <1>3, <2>1, RepairingWork DEF RepairInv
  <2>2. CASE q # p
    <3>1. Acts(p)
      BY <1>3, WorkActs DEF TypeInv
    <3>2. pc[q] = "idle" \/ q \in met
      BY <3>1, <2>2 DEF Acts, RepairInv, Solo
    <3>3. CASE pc[q] = "idle"
      BY <3>1, <3>3, <2>2 DEF Acts, OthersStay, Repairing, After
    <3>4. CASE q \in met
      BY <3>1, <3>4, <2>2 DEF Acts, Repairing
    <3> QED BY <3>2, <3>3, <3>4
  <2> QED BY <2>1, <2>2
<1>4. ASSUME EditPolicy, NEW q \in Procs PROVE Repairing(q)'
  BY <1>4 DEF EditPolicy, Repairing, Busy, After
<1>5. ASSUME EditTemplate \/ UNCHANGED configVars \/ \E p \in Procs : LeaveShell(p),
             NEW q \in Procs
      PROVE Repairing(q)'
  BY <1>5 DEF EditTemplate, LeaveShell, RepairInv, Repairing, configVars, files
<1> QED
  BY <1>1, <1>2, <1>3, <1>4, <1>5 DEF RepairInv, ConfigNext, Step, Work

LEMMA RepairInit == ConfigInit => RepairInv
BY DEF ConfigInit, RepairInv, Solo, Repairing, After

(* Whatever is in the files, torn or mixed, a reset that meets nobody      *)
(* leaves both as it was asked to.                                         *)
THEOREM ResetRepairsCorrect == ConfigSpec => []ResetRepairs
<1>1. RepairInv => ResetRepairs
  BY DEF RepairInv, Repairing, ResetRepairs, After
<1>2. (TypeInv /\ RepairInv) /\ [ConfigNext]_configVars
        => (TypeInv /\ RepairInv)'
  BY TypeStep, RepairStep
<1> QED
  BY <1>1, <1>2, TypeInit, RepairInit, PTL DEF ConfigSpec

-----------------------------------------------------------------------------
(* The engine a shell has cached. *)

(* An engine is only ever made once there is a policy, so the commands     *)
(* that would write a default, which forget no engine, have none.          *)
EngineInv(p) ==
    /\ engine[p] # Nothing => policy # Absent
    /\ pc[p] \in {"engine", "write_policy", "open_backend", "write_backend"} =>
          policy # Absent
    /\ cmd[p] \in Views /\ pc[p] \in Writing => engine[p] = Nothing
    /\ engine[p] # Nothing /\ backend \in Backends =>
          engine[p] = backend \/ p \in overtaken

LEMMA PolicyStays ==
  ASSUME TypeInv, [ConfigNext]_configVars, policy # Absent
  PROVE  policy' # Absent
<1>1. ASSUME NEW p \in Procs, WritePolicy(p) PROVE policy' # Absent
  <2>1. ask[p].preset \in Presets
    BY <1>1, AskIsChoice DEF WritePolicy, Writing
  <2> QED BY <1>1, <2>1, NoTexts DEF WritePolicy, Written, Presets
<1>2. ASSUME NEW p \in Procs, OpenPolicy(p) PROVE policy' # Absent
  BY <1>2, NoTexts DEF OpenPolicy
<1>3. CASE EditPolicy
  BY <1>3, NoTexts DEF EditPolicy
<1>4. ASSUME NEW p \in Procs, Begin(p) \/ Check(p) \/ OpenBackend(p)
                              \/ WriteBackend(p) \/ ReadBack(p) \/ Doctor(p)
      PROVE policy' # Absent
  BY <1>4 DEF Begin, Check, OpenBackend, WriteBackend, ReadBack, Doctor, files
<1>5. ASSUME NEW p \in Procs, LoadPolicy(p) \/ FindTask(p) \/ OpenTemplate(p)
                              \/ WriteTemplate(p) \/ GetEngine(p) \/ Crash(p)
                              \/ LeaveShell(p)
      PROVE policy' # Absent
  BY <1>5 DEF LoadPolicy, FindTask, OpenTemplate, WriteTemplate, GetEngine,
     Crash, LeaveShell, files
<1>6. CASE EditTemplate \/ UNCHANGED configVars
  BY <1>6 DEF EditTemplate, configVars, files
<1> QED
  BY <1>1, <1>2, <1>3, <1>4, <1>5, <1>6 DEF ConfigNext, Step

(* The steps that neither make an engine nor write the backend file.       *)
LEMMA EngineKept ==
  ASSUME TypeInv, NEW p \in Procs, EngineInv(p), [ConfigNext]_configVars,
         engine'[p] \in {engine[p], Nothing},
         backend' \in {backend, Torn}, overtaken' = overtaken,
         pc'[p] = "engine" => policy # Absent,
         pc'[p] \in {"write_policy", "open_backend", "write_backend"} =>
            policy' # Absent,
         cmd'[p] \in Views /\ pc'[p] \in Writing => engine[p] = Nothing
  PROVE  EngineInv(p)'
<1>1. policy # Absent => policy' # Absent
  BY PolicyStays
<1>2. Torn \notin Backends
  BY NoTexts
<1> QED
  BY <1>1, <1>2 DEF EngineInv

LEMMA EngineWork ==
  ASSUME TypeInv, NEW p \in Procs, EngineInv(p), Work(p) \/ Crash(p),
         [ConfigNext]_configVars
  PROVE  EngineInv(p)'
<1>1. ConfigTypeOK
  BY DEF TypeInv
<1>2. policy # Absent => policy' # Absent
  BY PolicyStays
<1>3. Return(p) \/ Raise(p) => pc'[p] = "idle" /\ engine'[p] \in {engine[p], Nothing}
  BY <1>1, WaysToMove DEF Moves
<1>4. \A s : s # "idle" /\ Continue(p, s) =>
          pc'[p] = s /\ cmd'[p] = cmd[p] /\ engine'[p] = engine[p]
  BY <1>1 DEF Continue, GoTo, ConfigTypeOK
<1>5. AfterLoad(p) => /\ pc'[p] \in {"idle", "task", "engine"}
                      /\ engine'[p] \in {engine[p], Nothing}
  BY <1>3, <1>4 DEF AfterLoad
<1>6. CASE Check(p)
  <2>1. cmd[p] \in Checked
    BY <1>6 DEF TypeInv, Told, Check
  <2>2. Continue(p, "doctor") \/ Continue(p, "open_policy")
    BY <1>6 DEF Check
  <2>3. UNCHANGED <<policy, backend, overtaken>>
    BY <1>6 DEF Check, files, history
  <2>4. Checked \cap Views = {}
    BY DEF Checked, Views
  <2> QED BY <2>1, <2>2, <2>3, <2>4, <1>4, EngineKept
<1>7. CASE OpenPolicy(p)
  <2>1. /\ Continue(p, "write_policy") /\ policy' = Torn
        /\ pc[p] = "open_policy" /\ UNCHANGED <<backend, overtaken>>
    BY <1>7 DEF OpenPolicy
  <2>2. policy' # Absent
    BY <2>1, NoTexts
  <2> QED BY <2>1, <2>2, <1>4, EngineKept DEF EngineInv, Writing
<1>8. CASE WritePolicy(p)
  <2>1. /\ Continue(p, "open_backend")
        /\ pc[p] = "write_policy" /\ UNCHANGED <<backend, overtaken>>
    BY <1>8 DEF WritePolicy, history
  <2> QED BY <2>1, <1>2, <1>4, EngineKept DEF EngineInv, Writing
<1>9. CASE OpenBackend(p)
  <2>1. /\ Continue(p, "write_backend") /\ backend' = Torn
        /\ pc[p] = "open_backend" /\ UNCHANGED <<policy, overtaken>>
    BY <1>9 DEF OpenBackend, history
  <2> QED BY <2>1, <1>2, <1>4, EngineKept DEF EngineInv, Writing
<1>10. CASE WriteBackend(p)
  <2>1. pc[p] = "write_backend" /\ policy' = policy
    BY <1>10 DEF WriteBackend
  <2>2. policy # Absent /\ (cmd[p] \in Views => engine[p] = Nothing)
    BY <2>1 DEF EngineInv, Writing
  <2>3. CASE cmd[p] \in Views
    <3>1. AfterLoad(p)
      BY <1>10, <2>3 DEF WriteBackend
    <3>2. engine'[p] = Nothing /\ pc'[p] \in {"idle", "task", "engine"}
      BY <3>1, <2>2, <2>3, <1>5
    <3> QED BY <3>2, <2>1, <2>2 DEF EngineInv, Writing
  <2>4. CASE cmd[p] \notin Views
    <3>1. engine'[p] = Nothing /\ pc'[p] = "read_back"
      BY <1>10, <2>4, <1>1 DEF WriteBackend, GoTo, ConfigTypeOK
    <3> QED BY <3>1, <2>1, <2>2 DEF EngineInv, Writing
  <2> QED BY <2>3, <2>4
<1>11. CASE ReadBack(p) \/ Doctor(p) \/ FindTask(p) \/ OpenTemplate(p)
            \/ WriteTemplate(p) \/ Crash(p)
  <2>1. UNCHANGED <<policy, backend, overtaken>>
    BY <1>11 DEF ReadBack, Doctor, FindTask, OpenTemplate, WriteTemplate, Crash,
       files, history
  <2>2. /\ pc'[p] \in {"idle", "doctor", "load", "template", "write_template"}
        /\ engine'[p] \in {engine[p], Nothing}
    BY <1>11, <1>3, <1>4
    DEF ReadBack, Doctor, FindTask, OpenTemplate, WriteTemplate, Crash
  <2> QED BY <2>1, <2>2, EngineKept DEF Writing
<1>12. CASE LoadPolicy(p)
  <2>1. UNCHANGED <<policy, backend, overtaken>>
    BY <1>12 DEF LoadPolicy, files, history
  <2>2. CASE policy = Absent
    <3>1. pc'[p] = "open_policy" /\ engine' = engine
      BY <1>12, <2>2, <1>1 DEF LoadPolicy, GoTo, ConfigTypeOK
    <3>2. engine[p] = Nothing
      BY <2>2 DEF EngineInv
    <3> QED BY <3>1, <3>2, <2>1, EngineKept
  <2>3. CASE policy # Absent
    <3>1. /\ pc'[p] \in {"idle", "task", "engine"}
          /\ engine'[p] \in {engine[p], Nothing}
      BY <1>12, <2>3, <1>3, <1>5 DEF LoadPolicy
    <3> QED BY <3>1, <2>1, <2>3, EngineKept DEF Writing
  <2> QED BY <2>2, <2>3
<1>13. CASE GetEngine(p)
  <2>1. UNCHANGED <<policy, backend>> /\ policy # Absent
    BY <1>13 DEF GetEngine, EngineInv, files
  <2>2. CASE Return(p) \/ Raise(p)
    <3>1. CASE overtaken' = overtaken
      BY <3>1, <2>1, <2>2, <1>3, EngineKept DEF Writing
    <3>2. CASE overtaken' # overtaken
      <4>1. /\ engine' = [engine EXCEPT ![p] =
                           IF p \notin Shells THEN Nothing
                           ELSE IF backend = Absent THEN "local" ELSE backend]
        BY <3>2, <1>13 DEF GetEngine
      <4>2. engine'[p] = Nothing \/ (backend \in Backends => engine'[p] = backend)
        BY <4>1, <1>1, NoTexts DEF ConfigTypeOK
      <4> QED BY <4>2, <2>1, <2>2, <1>3 DEF EngineInv, Writing
    <3> QED BY <3>1, <3>2
  <2>3. CASE ~(Return(p) \/ Raise(p))
    <3>1. /\ GoTo(p, "idle")
          /\ engine' = [engine EXCEPT ![p] =
                           IF p \notin Shells THEN Nothing
                           ELSE IF backend = Absent THEN "local" ELSE backend]
      BY <2>3, <1>13 DEF GetEngine
    <3>2. pc'[p] = "idle"
      BY <3>1, <1>1 DEF GoTo, ConfigTypeOK
    <3>3. engine'[p] = Nothing \/ (backend \in Backends => engine'[p] = backend)
      BY <3>1, <1>1, NoTexts DEF ConfigTypeOK
    <3> QED BY <3>2, <3>3, <2>1 DEF EngineInv, Writing
  <2> QED BY <2>2, <2>3
<1> QED
  BY <1>6, <1>7, <1>8, <1>9, <1>10, <1>11, <1>12, <1>13 DEF Work

(* What another process does to the engine of p. *)
LEMMA EngineOthers ==
  ASSUME TypeInv, NEW p \in Procs, EngineInv(p), [ConfigNext]_configVars,
         NEW q \in Procs \ {p}, Work(q) \/ Crash(q)
  PROVE  EngineInv(p)'
<1>1. Acts(q)
  BY WorkActs DEF TypeInv
<1>2. pc'[p] = pc[p] /\ cmd'[p] = cmd[p] /\ engine'[p] = engine[p]
  BY <1>1 DEF Acts, OthersStay
<1>3. policy # Absent => policy' # Absent
  BY PolicyStays
<1>4. CASE WriteBackend(q)
  <2>1. engine[p] # Nothing => p \in overtaken'
    BY <1>4 DEF WriteBackend, Overtake
  <2> QED BY <2>1, <1>2, <1>3 DEF EngineInv
<1>5. CASE ~WriteBackend(q)
  <2>1. backend' \in {backend, Torn}
    BY <1>5 DEF Work, Crash, Check, OpenPolicy, WritePolicy, OpenBackend, ReadBack,
       Doctor, LoadPolicy, FindTask, OpenTemplate, WriteTemplate, GetEngine, files
  <2>2. overtaken' = overtaken \/ overtaken' = overtaken \ {q}
    BY <1>5 DEF Work, Crash, Check, OpenPolicy, WritePolicy, OpenBackend, ReadBack,
       Doctor, LoadPolicy, FindTask, OpenTemplate, WriteTemplate, GetEngine, history
  <2>3. Torn \notin Backends
    BY NoTexts
  <2> QED BY <2>1, <2>2, <2>3, <1>2, <1>3 DEF EngineInv
<1> QED
  BY <1>4, <1>5

LEMMA EngineStep ==
  ASSUME TypeInv, NEW p \in Procs, EngineInv(p), [ConfigNext]_configVars
  PROVE  EngineInv(p)'
<1>1. ASSUME NEW q \in Procs, Begin(q) PROVE EngineInv(p)'
  <2>1. Starts(q)
    BY <1>1, BeginStarts DEF TypeInv
  <2>2. UNCHANGED <<policy, backend, engine, overtaken>>
    BY <1>1 DEF Begin, files
  <2>3. CASE q = p
    <3>1. /\ pc'[p] \notin {"engine", "write_policy", "open_backend",
                        "write_backend"}
          /\ ~(cmd'[p] \in Views /\ pc'[p] \in Writing)
      BY <2>1, <2>3 DEF Starts, Views, Resets, Writing
    <3> QED BY <3>1, <2>2, EngineKept DEF EngineInv, Writing
  <2>4. CASE q # p
    <3>1. pc'[p] = pc[p] /\ cmd'[p] = cmd[p]
      BY <2>1, <2>4 DEF Starts, OthersStay
    <3> QED BY <3>1, <2>2 DEF EngineInv
  <2> QED BY <2>3, <2>4
<1>2. ASSUME NEW q \in Procs, Work(q) \/ Crash(q) PROVE EngineInv(p)'
  BY <1>2, EngineWork, EngineOthers
<1>3. ASSUME NEW q \in Procs, LeaveShell(q) PROVE EngineInv(p)'
  <2>1. /\ UNCHANGED <<policy, backend, pc, cmd, overtaken>>
        /\ engine' = [engine EXCEPT ![q] = Nothing]
    BY <1>3 DEF LeaveShell, files, history
  <2>2. engine'[p] \in {engine[p], Nothing}
    BY <2>1 DEF TypeInv, ConfigTypeOK
  <2> QED BY <2>1, <2>2 DEF EngineInv
<1>4. CASE EditPolicy \/ EditTemplate \/ UNCHANGED configVars
  BY <1>4, PolicyStays
  DEF EditPolicy, EditTemplate, EngineInv, configVars, files, history
<1> QED
  BY <1>1, <1>2, <1>3, <1>4 DEF ConfigNext, Step, Work

LEMMA EngineInit ==
  ASSUME ConfigInit, NEW p \in Procs
  PROVE  EngineInv(p)
BY DEF ConfigInit, EngineInv, Writing

(* A shell uses the backend that is configured, unless another process has *)
(* written the file since it made its engine.                              *)
THEOREM StaleOnlyByOthersCorrect == ConfigSpec => []StaleOnlyByOthers
<1> DEFINE Inv == TypeInv /\ \A p \in Procs : EngineInv(p)
<1>1. Inv => StaleOnlyByOthers
  BY DEF EngineInv, StaleOnlyByOthers
<1>2. Inv /\ [ConfigNext]_configVars => Inv'
  <2> SUFFICES ASSUME Inv, [ConfigNext]_configVars PROVE Inv'
    OBVIOUS
  <2>1. TypeInv'
    BY TypeStep
  <2>2. \A p \in Procs : EngineInv(p)'
    BY EngineStep
  <2> QED BY <2>1, <2>2
<1>3. ConfigInit => Inv
  BY TypeInit, EngineInit
<1> HIDE DEF Inv
<1> QED
  BY <1>1, <1>2, <1>3, PTL DEF ConfigSpec

-----------------------------------------------------------------------------
(* No overlap and no crash so far. *)

(* Inside init_default, between its first step and its last. *)
Inside == {"write_policy", "open_backend", "write_backend"}

(* The files are of one command, and of the last that wrote them. *)
Settled ==
    \/ policy = Absent /\ backend = Absent
    \/ /\ asked # Nothing
       /\ backend = asked.backend
       /\ policy \in {asked.preset, "edited"}

(* While calm, the only command finds its own steps where it left them,    *)
(* and opens a policy that is there only when told to.                     *)
CalmAt(p) ==
    /\ pc[p] = "open_policy" /\ cmd[p] \notin Resets => policy = Absent
    /\ pc[p] = "write_policy" => policy = Torn
    /\ pc[p] \in {"open_backend", "write_backend"} =>
          policy \in {ask[p].preset, "edited"}
    /\ pc[p] = "write_backend" => backend = Torn
    /\ pc[p] \in Inside => asked = ask[p]
    /\ pc[p] = "write_template" => template = Torn

CalmInv ==
    calm =>
        /\ \A p, q \in Procs : pc[p] # "idle" /\ pc[q] # "idle" => p = q
        /\ Settled \/ \E p \in Procs : pc[p] \in Inside
        /\ \A p \in Procs : CalmAt(p)

(* A settled configuration is there or is not, both files alike.           *)
LEMMA SettledBoth ==
  ASSUME TypeInv, Settled
  PROVE  (policy = Absent <=> backend = Absent) /\ policy \notin Spoilt
<1>1. asked # Nothing => asked.preset \in Presets /\ asked.backend \in Backends
  BY DEF TypeInv, ConfigTypeOK, Choice
<1> QED
  BY <1>1, NoTexts DEF Settled, Spoilt

LEMMA SettledKept ==
  ASSUME Settled, UNCHANGED <<policy, backend, asked>>
  PROVE  Settled'
BY DEF Settled

LEMMA CalmWork ==
  ASSUME TypeInv, NEW p \in Procs, Work(p), calm, CalmAt(p),
         Settled \/ pc[p] \in Inside
  PROVE  CalmAt(p)' /\ (Settled' \/ pc'[p] \in Inside)
<1>1. ConfigTypeOK
  BY DEF TypeInv
<1>2. Return(p) \/ Raise(p) => pc'[p] = "idle"
  BY <1>1, WaysToMove DEF Moves
<1>3. \A s : s # "idle" /\ Continue(p, s) =>
          pc'[p] = s /\ cmd'[p] = cmd[p] /\ ask'[p] = ask[p]
  BY <1>1, WaysToMove DEF Moves
<1>4. AfterLoad(p) => pc'[p] \in {"idle", "task", "engine"}
  BY <1>2, <1>3 DEF AfterLoad
<1>5. ASSUME pc'[p] \notin Inside \cup {"open_policy", "write_template"}
      PROVE  CalmAt(p)'
  BY <1>5 DEF CalmAt, Inside
<1>6. CASE Check(p)
  <2>1. /\ pc[p] = "check" /\ UNCHANGED <<policy, backend, asked>>
        /\ \/ Continue(p, "doctor")
           \/ Continue(p, "open_policy") /\ ~(policy # Absent /\ backend # Absent)
    BY <1>6 DEF Check, files, history
  <2>2. Settled /\ Settled'
    BY <2>1, SettledKept DEF Inside
  <2>3. CASE Continue(p, "doctor")
    BY <2>2, <2>3, <1>3, <1>5 DEF Inside
  <2>4. CASE Continue(p, "open_policy") /\ ~(policy # Absent /\ backend # Absent)
    <3>1. policy' = Absent /\ pc'[p] = "open_policy"
      BY <2>1, <2>2, <2>4, <1>3, SettledBoth
    <3> QED BY <3>1, <2>2 DEF CalmAt, Inside
  <2> QED BY <2>1, <2>3, <2>4
<1>7. CASE OpenPolicy(p)
  <2>1. /\ policy' = Torn /\ asked' = ask[p]
        /\ Continue(p, "write_policy")
    BY <1>7 DEF OpenPolicy
  <2> QED BY <2>1, <1>3 DEF CalmAt, Inside
<1>8. CASE WritePolicy(p)
  <2>1. /\ pc[p] = "write_policy" /\ Continue(p, "open_backend")
        /\ policy' \in Written(policy, ask[p].preset) /\ asked' = asked
    BY <1>8 DEF WritePolicy, history
  <2>2. policy = Torn /\ asked = ask[p]
    BY <2>1 DEF CalmAt, Inside
  <2>3. policy' = ask[p].preset
    BY <2>1, <2>2 DEF Written
  <2> QED BY <2>1, <2>2, <2>3, <1>3 DEF CalmAt, Inside
<1>9. CASE OpenBackend(p)
  <2>1. /\ pc[p] = "open_backend" /\ Continue(p, "write_backend")
        /\ backend' = Torn /\ UNCHANGED <<policy, asked>>
    BY <1>9 DEF OpenBackend, history
  <2>2. asked = ask[p] /\ policy \in {ask[p].preset, "edited"}
    BY <2>1 DEF CalmAt, Inside
  <2> QED BY <2>1, <2>2, <1>3 DEF CalmAt, Inside
<1>10. CASE WriteBackend(p)
  <2>1. /\ pc[p] = "write_backend" /\ UNCHANGED <<policy, asked>>
        /\ backend' \in Written(backend, ask[p].backend)
    BY <1>10 DEF WriteBackend
  <2>2. /\ asked = ask[p] /\ policy \in {ask[p].preset, "edited"}
        /\ backend = Torn
    BY <2>1 DEF CalmAt, Inside
  <2>3. backend' = ask[p].backend
    BY <2>1, <2>2 DEF Written
  <2>4. ask[p] # Nothing
    BY <2>1 DEF TypeInv, ConfigTypeOK
  <2>5. Settled'
    BY <2>1, <2>2, <2>3, <2>4 DEF Settled
  <2>6. pc'[p] \in {"idle", "task", "engine", "read_back"}
    BY <1>10, <1>1, <1>4 DEF WriteBackend, GoTo, ConfigTypeOK
  <2> QED BY <2>5, <2>6, <1>5 DEF Inside
<1>11. CASE ReadBack(p) \/ Doctor(p) \/ FindTask(p)
  <2>1. /\ pc[p] \in {"read_back", "doctor", "task"}
        /\ UNCHANGED <<policy, backend, asked>>
    BY <1>11 DEF ReadBack, Doctor, FindTask, files, history
  <2>2. pc'[p] \in {"idle", "doctor", "load", "template"}
    BY <1>11, <1>2, <1>3 DEF ReadBack, Doctor, FindTask
  <2> QED BY <2>1, <2>2, <1>5, SettledKept DEF Inside
<1>12. CASE LoadPolicy(p)
  <2>1. pc[p] = "load" /\ UNCHANGED <<policy, backend, asked>>
    BY <1>12 DEF LoadPolicy, files, history
  <2>2. Settled'
    BY <2>1, SettledKept DEF Inside
  <2>3. CASE policy = Absent
    <3>1. pc'[p] = "open_policy"
      BY <1>12, <2>3, <1>1 DEF LoadPolicy, GoTo, ConfigTypeOK
    <3> QED BY <3>1, <2>1, <2>2, <2>3 DEF CalmAt, Inside
  <2>4. CASE policy # Absent
    <3>1. pc'[p] \in {"idle", "task", "engine"}
      BY <1>12, <2>4, <1>2, <1>4 DEF LoadPolicy
    <3> QED BY <3>1, <2>2, <1>5 DEF Inside
  <2> QED BY <2>3, <2>4
<1>13. CASE OpenTemplate(p)
  <2>1. pc[p] = "template" /\ UNCHANGED <<policy, backend, asked>>
    BY <1>13 DEF OpenTemplate, history
  <2>2. Settled'
    BY <2>1, SettledKept DEF Inside
  <2>3. \/ pc'[p] = "idle"
        \/ pc'[p] = "write_template" /\ template' = Torn
    BY <1>13, <1>2, <1>3 DEF OpenTemplate
  <2> QED BY <2>2, <2>3 DEF CalmAt, Inside
<1>14. CASE WriteTemplate(p)
  <2>1. pc[p] = "write_template" /\ UNCHANGED <<policy, backend, asked>>
    BY <1>14 DEF WriteTemplate, history
  <2>2. pc'[p] = "idle"
    BY <1>14, <1>2 DEF WriteTemplate
  <2> QED BY <2>1, <2>2, <1>5, SettledKept DEF Inside
<1>15. CASE GetEngine(p)
  <2>1. pc[p] = "engine" /\ UNCHANGED <<policy, backend, asked>>
    BY <1>15 DEF GetEngine, files
  <2>2. pc'[p] = "idle"
    BY <1>15, <1>1, <1>2 DEF GetEngine, GoTo, ConfigTypeOK
  <2> QED BY <2>1, <2>2, <1>5, SettledKept DEF Inside
<1> QED
  BY <1>6, <1>7, <1>8, <1>9, <1>10, <1>11, <1>12, <1>13, <1>14, <1>15 DEF Work

LEMMA CalmEnds ==
  ASSUME TypeInv, [ConfigNext]_configVars, calm'
  PROVE  /\ calm
         /\ \A p \in Procs : ~Crash(p)
<1>1. \A p \in Procs : Crash(p) => ~calm'
  BY DEF Crash
<1>2. \A p \in Procs : Begin(p) => calm
  BY BeginStarts DEF Starts, TypeInv
<1>3. \A p \in Procs : Work(p) => calm
  BY DEF Work, Check, OpenPolicy, WritePolicy, OpenBackend, WriteBackend, ReadBack,
     Doctor, LoadPolicy, FindTask, OpenTemplate, WriteTemplate, GetEngine, history
<1>4. /\ \A p \in Procs : LeaveShell(p) => calm
      /\ EditPolicy \/ EditTemplate \/ UNCHANGED configVars => calm
  BY DEF LeaveShell, EditPolicy, EditTemplate, configVars, history
<1> QED
  BY <1>1, <1>2, <1>3, <1>4 DEF ConfigNext, Step, Work

LEMMA CalmStep ==
  ASSUME TypeInv, CalmInv, [ConfigNext]_configVars
  PROVE  CalmInv'
<1> SUFFICES ASSUME calm'
             PROVE /\ \A p, q \in Procs : pc'[p] # "idle" /\ pc'[q] # "idle" => p = q
                   /\ Settled' \/ \E p \in Procs : pc'[p] \in Inside
                   /\ \A p \in Procs : CalmAt(p)'
  BY DEF CalmInv
<1>1. /\ calm
      /\ \A p, q \in Procs : pc[p] # "idle" /\ pc[q] # "idle" => p = q
      /\ Settled \/ \E p \in Procs : pc[p] \in Inside
      /\ \A p \in Procs : CalmAt(p)
  BY CalmEnds DEF CalmInv
<1>2. ASSUME NEW p \in Procs, OthersStay(p),
             \A q \in Procs \ {p} : pc[q] = "idle",
             CalmAt(p)', Settled' \/ pc'[p] \in Inside
      PROVE  /\ \A q, r \in Procs : pc'[q] # "idle" /\ pc'[r] # "idle" => q = r
             /\ Settled' \/ \E q \in Procs : pc'[q] \in Inside
             /\ \A q \in Procs : CalmAt(q)'
  <2>1. \A q \in Procs \ {p} : pc'[q] = "idle"
    BY <1>2 DEF OthersStay
  <2>2. \A q \in Procs \ {p} : CalmAt(q)'
    BY <2>1 DEF CalmAt, Inside
  <2> QED BY <1>2, <2>1, <2>2
<1>3. CASE \E p \in Procs : Begin(p)
  <2>1. PICK p \in Procs : Begin(p)
    BY <1>3
  <2>2. Starts(p)
    BY <2>1, BeginStarts DEF TypeInv
  <2>3. Busy = {} /\ asked' = asked
    BY <2>2 DEF Starts
  <2>4. \A q \in Procs : pc[q] = "idle"
    BY <2>3 DEF Busy
  <2>5. Settled'
    BY <2>2, <2>3, <2>4, <1>1, SettledKept DEF Starts, files, Inside
  <2>6. CalmAt(p)'
    BY <2>2 DEF Starts, CalmAt, Inside
  <2> QED BY <2>2, <2>4, <2>5, <2>6, <1>2 DEF Starts
<1>4. CASE \E p \in Procs : Work(p)
  <2>1. PICK p \in Procs : Work(p)
    BY <1>4
  <2>2. Acts(p)
    BY <2>1, WorkActs DEF TypeInv
  <2>3. \A q \in Procs \ {p} : pc[q] = "idle"
    BY <2>2, <1>1 DEF Acts
  <2>4. Settled \/ pc[p] \in Inside
    BY <2>3, <1>1 DEF Inside
  <2>5. CalmAt(p)' /\ (Settled' \/ pc'[p] \in Inside)
    BY <2>1, <2>4, <1>1, CalmWork
  <2> QED BY <2>2, <2>3, <2>5, <1>2 DEF Acts
<1>5. CASE EditPolicy
  <2>1. /\ Whole(policy) /\ policy' = "edited"
        /\ UNCHANGED <<backend, template, pc, cmd, ask, asked>>
    BY <1>5 DEF EditPolicy, history
  <2>2. policy # Absent /\ policy # Torn
    BY <2>1 DEF Whole, Spoilt
  <2>3. Settled => Settled'
    BY <2>1, <2>2 DEF Settled
  <2>4. \A p \in Procs : CalmAt(p)'
    BY <2>1, <2>2, <1>1 DEF CalmAt, Inside
  <2> QED BY <2>1, <2>3, <2>4, <1>1
<1>6. CASE EditTemplate
  <2>1. /\ Whole(template)
        /\ UNCHANGED <<policy, backend, pc, cmd, ask, asked>>
    BY <1>6 DEF EditTemplate, history
  <2>2. template # Torn
    BY <2>1 DEF Whole, Spoilt
  <2>3. \A p \in Procs : CalmAt(p)'
    BY <2>1, <2>2, <1>1 DEF CalmAt
  <2> QED BY <2>1, <2>3, <1>1, SettledKept
<1>7. CASE UNCHANGED configVars \/ \E p \in Procs : LeaveShell(p)
  <2>1. UNCHANGED <<policy, backend, template, pc, cmd, ask, asked>>
    BY <1>7 DEF LeaveShell, configVars, files, history
  <2>2. \A p \in Procs : CalmAt(p)'
    BY <2>1, <1>1 DEF CalmAt
  <2> QED BY <2>1, <2>2, <1>1, SettledKept
<1> QED
  BY <1>3, <1>4, <1>5, <1>6, <1>7, CalmEnds DEF ConfigNext, Step, Work

LEMMA CalmInit == ConfigInit => CalmInv
BY DEF ConfigInit, CalmInv, Settled, CalmAt, Inside

(* While nothing overlaps and nothing crashes, the two files are of the    *)
(* same choice whenever no command is under way.                           *)
THEOREM OneChoiceCorrect == ConfigSpec => []OneChoice
<1>1. TypeInv /\ CalmInv => OneChoice
  BY DEF CalmInv, OneChoice, Settled, Inside
<1>2. (TypeInv /\ CalmInv) /\ [ConfigNext]_configVars => (TypeInv /\ CalmInv)'
  BY TypeStep, CalmStep
<1> QED
  BY <1>1, <1>2, TypeInit, CalmInit, PTL DEF ConfigSpec

(* Who may replace a whole policy or template. *)
EditsKept ==
    /\ Whole(policy) /\ policy' \notin {policy, "edited"} =>
          ~calm \/ \E p \in Procs : cmd[p] \in Resets
    /\ Whole(template) /\ template' \notin {template, "edited"} => ~calm

LEMMA EditsStep ==
  ASSUME TypeInv, CalmInv, [ConfigNext]_configVars
  PROVE  EditsKept
<1> SUFFICES ASSUME calm PROVE EditsKept
  BY DEF EditsKept
<1>1. \A p \in Procs : CalmAt(p)
  BY DEF CalmInv
<1>2. ASSUME UNCHANGED <<policy, template>> PROVE EditsKept
  BY <1>2 DEF EditsKept
<1>3. ASSUME NEW p \in Procs, OpenPolicy(p) PROVE EditsKept
  <2>1. pc[p] = "open_policy" /\ template' = template
    BY <1>3 DEF OpenPolicy
  <2>2. cmd[p] \in Resets \/ policy = Absent
    BY <2>1, <1>1 DEF CalmAt
  <2> QED BY <2>1, <2>2 DEF EditsKept, Whole
<1>4. ASSUME NEW p \in Procs, WritePolicy(p) PROVE EditsKept
  <2>1. pc[p] = "write_policy" /\ template' = template
    BY <1>4 DEF WritePolicy
  <2>2. policy = Torn
    BY <2>1, <1>1 DEF CalmAt
  <2> QED BY <2>1, <2>2 DEF EditsKept, Whole, Spoilt
<1>5. ASSUME NEW p \in Procs, OpenTemplate(p) PROVE EditsKept
  <2>1. policy' = policy /\ (template = Absent \/ template' = template)
    BY <1>5 DEF OpenTemplate
  <2> QED BY <2>1 DEF EditsKept, Whole
<1>6. ASSUME NEW p \in Procs, WriteTemplate(p) PROVE EditsKept
  <2>1. pc[p] = "write_template" /\ policy' = policy
    BY <1>6 DEF WriteTemplate
  <2>2. template = Torn
    BY <2>1, <1>1 DEF CalmAt
  <2> QED BY <2>1, <2>2 DEF EditsKept, Whole, Spoilt
<1>7. ASSUME NEW p \in Procs,
             Begin(p) \/ Check(p) \/ OpenBackend(p) \/ WriteBackend(p)
             \/ ReadBack(p) \/ Doctor(p)
      PROVE  EditsKept
  BY <1>7, <1>2
  DEF Begin, Check, OpenBackend, WriteBackend, ReadBack, Doctor, files
<1>8. ASSUME NEW p \in Procs,
             LoadPolicy(p) \/ FindTask(p) \/ GetEngine(p) \/ Crash(p)
             \/ LeaveShell(p)
      PROVE  EditsKept
  BY <1>8, <1>2 DEF LoadPolicy, FindTask, GetEngine, Crash, LeaveShell, files
<1>9. CASE EditPolicy \/ EditTemplate
  BY <1>9 DEF EditPolicy, EditTemplate, EditsKept
<1>10. CASE UNCHANGED configVars
  BY <1>10, <1>2 DEF configVars, files
<1> QED
  BY <1>3, <1>4, <1>5, <1>6, <1>7, <1>8, <1>9, <1>10 DEF ConfigNext, Step

(* While nothing overlaps and nothing crashes, what the operator has       *)
(* edited is only replaced by a command that was told to reset it.         *)
THEOREM EditsSurviveCorrect == ConfigSpec => EditsSurvive
<1>1. (TypeInv /\ CalmInv) /\ [ConfigNext]_configVars => (TypeInv /\ CalmInv)'
  BY TypeStep, CalmStep
<1>2. TypeInv /\ CalmInv /\ [ConfigNext]_configVars
        => [/\ Whole(policy) /\ policy' \notin {policy, "edited"} =>
                 ~calm \/ \E p \in Procs : cmd[p] \in Resets
            /\ Whole(template) /\ template' \notin {template, "edited"} => ~calm
           ]_configVars
  BY EditsStep DEF EditsKept
<1> QED
  BY <1>1, <1>2, TypeInit, CalmInit, PTL DEF ConfigSpec, EditsSurvive
=============================================================================
