----------------------------- MODULE RemoteProofs -----------------------------
(***************************************************************************)
(* Proofs about the remote control: an exit code the operator is told is   *)
(* the manager's, and what is told falsely of a run has one of the causes  *)
(* that FalseAnswersExplained names, for any number of runs, of replaced   *)
(* pods and of scripts that nobody hears (RemoteRun), and a download       *)
(* that is called a success brought what was asked for, for any sizes of   *)
(* files and chunks (RemoteLogs).                                          *)
(*                                                                         *)
(* A command that has begun to look at a run relies on what it found:      *)
(* RunInv says what cannot be undone of a run while the pod lives, LookInv *)
(* what a command knows at each place of its script.                       *)
(*                                                                         *)
(* A download relies on the size it read: as the log only grows, SourceInv *)
(* says that the chunks of earlier splits reach no further, so that a      *)
(* split that stopped shows in the count of what came (SplitBrings).       *)
(***************************************************************************)
EXTENDS RemoteRun, RemoteLogs, FiniteSetTheorems, SequenceTheorems, TLAPS

-----------------------------------------------------------------------------
(* The inductive invariant.                                                *)

Before == {"none", "sent", "made"}
Launched == {"launched", "opened", "recorded"}
Over(r) == process[r] \in {"zombie", "gone"}
HasCode(r) == exitStatus[r] \in {"ok", "error"}

(* Of a run: nothing of it is there before its process, only a simulation  *)
(* has a manager, an exit code is the manager's, and a wrapper that is     *)
(* over has left one or was killed.                                        *)
RunInv(r) ==
    /\ kind[r] = "none" => stage[r] = "none"
    /\ stage[r] \in Before => process[r] = "none" /\ manager[r] = "none" /\ exitStatus[r] = "none"
    /\ stage[r] \in Launched => process[r] # "none"
    /\ stage[r] = "wiped" \/ kind[r] = "batch" => manager[r] # "running"
    /\ exitStatus[r] = "empty" => manager[r] \in {"ok", "error"}
    /\ HasCode(r) => manager[r] = exitStatus[r]
    /\ process[r] = "zombie" => ~collects
    /\ kind[r] = "single" /\ stage[r] \in Launched /\ Over(r) =>
          HasCode(r) \/ r \in signalled

(* What a command knows of its run r at each place of its script.          *)
Aimed(r) ==
    /\ command.over => Over(r)
    /\ ~command.early => stage[r] \in {"recorded", "wiped"}

InScript(r) ==
    /\ kind[r] = command.kind /\ kind[r] # "none"
    /\ ~command.early => stage[r] = "recorded"

Answered(r) ==
    /\ command.said = "completed" /\ command.kind = "single" => manager[r] = "ok"
    /\ command.said = "failed" => manager[r] = "error"
    /\ command.said = "terminated" => r \in signalled \/ command.early
    /\ command.said \in Ends => Over(r) \/ command.early
    /\ command.said = "running" => ~collects \/ ~command.over

LookInv ==
    /\ command.at \in {"wait", "save"} => command.kind \in Kinds
    /\ command.at \in {"sent"} \union InPod => command.id \in Ids /\ Aimed(command.id)
    /\ command.at \in InPod => InScript(command.id)
    /\ command.at = "exit" =>
         /\ command.kind = "single"
         /\ ~command.early => Over(command.id) /\ (HasCode(command.id) \/ command.id \in signalled)
    /\ command.at = "progress" => ~collects \/ ~command.over
    /\ command.at = "told" => command.said = "none" \/ (command.id \in Ids /\ Answered(command.id))

PodTypes ==
    /\ collects \in BOOLEAN /\ replaced \in 0..MaxReplaced
    /\ kind \in [Ids -> Kinds \union {"none"}]
    /\ stage \in [Ids -> {"none", "sent", "made", "launched", "opened", "recorded", "wiped"}]
    /\ process \in [Ids -> {"none", "boot", "running", "stopping", "zombie", "gone"}]
    /\ manager \in [Ids -> {"none", "running", "ok", "error"}]
    /\ exitStatus \in [Ids -> {"none", "empty", "ok", "error"}]
    /\ progress \in {"none", "empty", "written"}
    /\ signalled \subseteq Ids

PodInv == PodTypes /\ \A r \in Ids : RunInv(r)

(* A command that signals has a run.                                       *)
Commands ==
    {c \in [verb : Verbs, kind : Kinds \union {"none"}, id : Ids \union {NoId},
            at : Places, said : Answers, over : BOOLEAN, early : BOOLEAN] :
        c.verb \in {"stop", "skip"} => c.kind \in Kinds /\ c.id \in Ids}
OperatorTypes ==
    /\ command \in Commands /\ savedRun \in Saved /\ saved \in [Kinds -> Ids \union {NoId}]
    /\ adrift \subseteq SignalScripts

IInv == OperatorTypes /\ PodInv /\ LookInv

-----------------------------------------------------------------------------
(* The runs.                                                               *)

(* What no step takes back of a run, and what only another pod does.       *)
Lasts(r) ==
    /\ Over(r) => Over(r)'
    /\ kind[r] # "none" => kind'[r] = kind[r]
    /\ stage[r] \in {"recorded", "wiped"} => stage'[r] \in {"recorded", "wiped"}
    /\ manager[r] \in {"ok", "error"} => manager'[r] = manager[r]
    /\ r \in signalled => r \in signalled'
    /\ collects' = collects

LastsInPod(r) ==
    /\ stage[r] = "recorded" => stage'[r] = "recorded"
    /\ HasCode(r) => exitStatus'[r] = exitStatus[r]

PodStep ==
    /\ PodInv'
    /\ \A r \in Ids : Lasts(r)
    /\ NewPod \/ \A r \in Ids : LastsInPod(r)

(* A step leaves the runs it is not about as they are, so that it is       *)
(* enough to look at its own.                                              *)
LEMMA OneRun ==
    ASSUME PodInv, PodTypes', UNCHANGED collects, NEW r \in Ids,
           \A o \in Ids \ {r} : /\ kind'[o] = kind[o] /\ stage'[o] = stage[o]
                                /\ process'[o] = process[o] /\ manager'[o] = manager[o]
                                /\ exitStatus'[o] = exitStatus[o]
                                /\ o \in signalled <=> o \in signalled',
           RunInv(r)', Lasts(r), LastsInPod(r)
    PROVE  PodStep
<1>1. ASSUME NEW o \in Ids \ {r}
      PROVE  RunInv(o)' /\ Lasts(o) /\ LastsInPod(o)
  BY DEF PodInv, RunInv, Lasts, LastsInPod, Over, HasCode
<1> QED BY <1>1 DEF PodStep, PodInv

(* The steps without an effect on the runs.                                *)
KeepRuns == UNCHANGED <<startVars, processVars, collects, replaced, signalled>>

LEMMA PodIsKept ==
    ASSUME PodInv, KeepRuns
    PROVE  PodStep
BY DEF PodStep, PodInv, PodTypes, RunInv, Lasts, LastsInPod, Over, HasCode,
       KeepRuns, startVars, processVars

(* Another pod: what ran is over, and only the managers' ends stay known.  *)
LEMMA PodIsNew ==
    ASSUME PodInv, NewPod
    PROVE  PodStep
<1>1. PodTypes'
  <2>1. replaced' \in 0..MaxReplaced
    BY MaxReplacedAssumption DEF PodInv, PodTypes, NewPod
  <2> QED BY <2>1 DEF PodInv, PodTypes, NewPod
<1>2. ASSUME NEW r \in Ids PROVE RunInv(r)' /\ Lasts(r)
  BY DEF PodInv, PodTypes, RunInv, Lasts, Over, HasCode, NewPod, Before, Launched, Kinds
<1> QED BY <1>1, <1>2 DEF PodStep, PodInv

(* What a run's script and its processes do: run, _build_completion_wrapper*)
(* and scenario_runner.py.                                                 *)
LEMMA RunSteps ==
    ASSUME PodInv, NEW r \in Ids, Pod(r)
    PROVE  PodStep
<1> USE DEF PodInv
<1>a. RunInv(r) /\ PodTypes
  OBVIOUS
<1>b. Ended \in {"zombie", "gone"} /\ (Ended = "zombie" => ~collects)
  BY DEF Ended
<1>1. CASE MakeDirectory(r)
  <2>1. PodTypes' /\ UNCHANGED collects
    BY <1>1, <1>a, <1>b DEF MakeDirectory, PodTypes, KeepCommand, KeepOthers, KeepProcesses, Started, operatorVars, startVars, processVars
  <2>2. RunInv(r)' /\ Lasts(r) /\ LastsInPod(r)
    BY <1>1, <1>a, <1>b DEF MakeDirectory, KeepCommand, KeepOthers, KeepProcesses, Started, operatorVars, startVars, processVars, PodTypes, RunInv, Lasts, LastsInPod, Over, HasCode, Before, Launched, Alive
  <2>3. \A o \in Ids \ {r} : /\ kind'[o] = kind[o] /\ stage'[o] = stage[o]
                             /\ process'[o] = process[o] /\ manager'[o] = manager[o]
                             /\ exitStatus'[o] = exitStatus[o]
                             /\ o \in signalled <=> o \in signalled'
    BY <1>1, <1>a DEF MakeDirectory, KeepCommand, KeepOthers, KeepProcesses, Started, operatorVars, startVars, processVars, PodTypes
  <2> QED BY <2>1, <2>2, <2>3, OneRun
<1>2. CASE LaunchSimulation(r)
  <2>1. PodTypes' /\ UNCHANGED collects
    BY <1>2, <1>a, <1>b DEF LaunchSimulation, PodTypes, KeepCommand, KeepOthers, KeepProcesses, Started, operatorVars, startVars, processVars
  <2>2. RunInv(r)' /\ Lasts(r) /\ LastsInPod(r)
    BY <1>2, <1>a, <1>b DEF LaunchSimulation, KeepCommand, KeepOthers, KeepProcesses, Started, operatorVars, startVars, processVars, PodTypes, RunInv, Lasts, LastsInPod, Over, HasCode, Before, Launched, Alive
  <2>3. \A o \in Ids \ {r} : /\ kind'[o] = kind[o] /\ stage'[o] = stage[o]
                             /\ process'[o] = process[o] /\ manager'[o] = manager[o]
                             /\ exitStatus'[o] = exitStatus[o]
                             /\ o \in signalled <=> o \in signalled'
    BY <1>2, <1>a DEF LaunchSimulation, KeepCommand, KeepOthers, KeepProcesses, Started, operatorVars, startVars, processVars, PodTypes
  <2> QED BY <2>1, <2>2, <2>3, OneRun
<1>3. CASE LaunchRunner(r)
  <2>1. PodTypes' /\ UNCHANGED collects
    BY <1>3, <1>a, <1>b DEF LaunchRunner, PodTypes, KeepCommand, KeepOthers, KeepProcesses, Started, operatorVars, startVars, processVars
  <2>2. RunInv(r)' /\ Lasts(r) /\ LastsInPod(r)
    BY <1>3, <1>a, <1>b DEF LaunchRunner, KeepCommand, KeepOthers, KeepProcesses, Started, operatorVars, startVars, processVars, PodTypes, RunInv, Lasts, LastsInPod, Over, HasCode, Before, Launched, Alive
  <2>3. \A o \in Ids \ {r} : /\ kind'[o] = kind[o] /\ stage'[o] = stage[o]
                             /\ process'[o] = process[o] /\ manager'[o] = manager[o]
                             /\ exitStatus'[o] = exitStatus[o]
                             /\ o \in signalled <=> o \in signalled'
    BY <1>3, <1>a DEF LaunchRunner, KeepCommand, KeepOthers, KeepProcesses, Started, operatorVars, startVars, processVars, PodTypes
  <2> QED BY <2>1, <2>2, <2>3, OneRun
<1>4. CASE OpenPidFile(r)
  <2>1. PodTypes' /\ UNCHANGED collects
    BY <1>4, <1>a, <1>b DEF OpenPidFile, PodTypes, KeepCommand, KeepOthers, KeepProcesses, Started, operatorVars, startVars, processVars
  <2>2. RunInv(r)' /\ Lasts(r) /\ LastsInPod(r)
    BY <1>4, <1>a, <1>b DEF OpenPidFile, KeepCommand, KeepOthers, KeepProcesses, Started, operatorVars, startVars, processVars, PodTypes, RunInv, Lasts, LastsInPod, Over, HasCode, Before, Launched, Alive
  <2>3. \A o \in Ids \ {r} : /\ kind'[o] = kind[o] /\ stage'[o] = stage[o]
                             /\ process'[o] = process[o] /\ manager'[o] = manager[o]
                             /\ exitStatus'[o] = exitStatus[o]
                             /\ o \in signalled <=> o \in signalled'
    BY <1>4, <1>a DEF OpenPidFile, KeepCommand, KeepOthers, KeepProcesses, Started, operatorVars, startVars, processVars, PodTypes
  <2> QED BY <2>1, <2>2, <2>3, OneRun
<1>5. CASE WritePid(r)
  <2>1. PodTypes' /\ UNCHANGED collects
    BY <1>5, <1>a, <1>b DEF WritePid, PodTypes, KeepCommand, KeepOthers, KeepProcesses, Started, operatorVars, startVars, processVars
  <2>2. RunInv(r)' /\ Lasts(r) /\ LastsInPod(r)
    BY <1>5, <1>a, <1>b DEF WritePid, KeepCommand, KeepOthers, KeepProcesses, Started, operatorVars, startVars, processVars, PodTypes, RunInv, Lasts, LastsInPod, Over, HasCode, Before, Launched, Alive
  <2>3. \A o \in Ids \ {r} : /\ kind'[o] = kind[o] /\ stage'[o] = stage[o]
                             /\ process'[o] = process[o] /\ manager'[o] = manager[o]
                             /\ exitStatus'[o] = exitStatus[o]
                             /\ o \in signalled <=> o \in signalled'
    BY <1>5, <1>a DEF WritePid, KeepCommand, KeepOthers, KeepProcesses, Started, operatorVars, startVars, processVars, PodTypes
  <2> QED BY <2>1, <2>2, <2>3, OneRun
<1>6. CASE ManagerEnds(r)
  <2>1. PodTypes' /\ UNCHANGED collects
    BY <1>6, <1>a, <1>b DEF ManagerEnds, PodTypes, KeepCommand, KeepOthers, KeepProcesses, Started, operatorVars, startVars, processVars
  <2>2. RunInv(r)' /\ Lasts(r) /\ LastsInPod(r)
    BY <1>6, <1>a, <1>b DEF ManagerEnds, KeepCommand, KeepOthers, KeepProcesses, Started, operatorVars, startVars, processVars, PodTypes, RunInv, Lasts, LastsInPod, Over, HasCode, Before, Launched, Alive
  <2>3. \A o \in Ids \ {r} : /\ kind'[o] = kind[o] /\ stage'[o] = stage[o]
                             /\ process'[o] = process[o] /\ manager'[o] = manager[o]
                             /\ exitStatus'[o] = exitStatus[o]
                             /\ o \in signalled <=> o \in signalled'
    BY <1>6, <1>a DEF ManagerEnds, KeepCommand, KeepOthers, KeepProcesses, Started, operatorVars, startVars, processVars, PodTypes
  <2> QED BY <2>1, <2>2, <2>3, OneRun
<1>7. CASE RecordExit(r)
  <2>1. PodTypes' /\ UNCHANGED collects
    BY <1>7, <1>a, <1>b DEF RecordExit, RunInv, PodTypes, KeepCommand, KeepOthers, KeepProcesses, Started, operatorVars, startVars, processVars
  <2>2. RunInv(r)' /\ Lasts(r) /\ LastsInPod(r)
    BY <1>7, <1>a, <1>b DEF RecordExit, KeepCommand, KeepOthers, KeepProcesses, Started, operatorVars, startVars, processVars, PodTypes, RunInv, Lasts, LastsInPod, Over, HasCode, Before, Launched, Alive
  <2>3. \A o \in Ids \ {r} : /\ kind'[o] = kind[o] /\ stage'[o] = stage[o]
                             /\ process'[o] = process[o] /\ manager'[o] = manager[o]
                             /\ exitStatus'[o] = exitStatus[o]
                             /\ o \in signalled <=> o \in signalled'
    BY <1>7, <1>a DEF RecordExit, KeepCommand, KeepOthers, KeepProcesses, Started, operatorVars, startVars, processVars, PodTypes
  <2> QED BY <2>1, <2>2, <2>3, OneRun
<1>8. CASE WrapperExits(r)
  <2>1. PodTypes' /\ UNCHANGED collects
    BY <1>8, <1>a, <1>b DEF WrapperExits, PodTypes, KeepCommand, KeepOthers, KeepProcesses, Started, operatorVars, startVars, processVars
  <2>2. RunInv(r)' /\ Lasts(r) /\ LastsInPod(r)
    BY <1>8, <1>a, <1>b DEF WrapperExits, KeepCommand, KeepOthers, KeepProcesses, Started, operatorVars, startVars, processVars, PodTypes, RunInv, Lasts, LastsInPod, Over, HasCode, Before, Launched, Alive
  <2>3. \A o \in Ids \ {r} : /\ kind'[o] = kind[o] /\ stage'[o] = stage[o]
                             /\ process'[o] = process[o] /\ manager'[o] = manager[o]
                             /\ exitStatus'[o] = exitStatus[o]
                             /\ o \in signalled <=> o \in signalled'
    BY <1>8, <1>a DEF WrapperExits, KeepCommand, KeepOthers, KeepProcesses, Started, operatorVars, startVars, processVars, PodTypes
  <2> QED BY <2>1, <2>2, <2>3, OneRun
<1>9. CASE RunnerReady(r)
  <2>1. PodTypes' /\ UNCHANGED collects
    BY <1>9, <1>a, <1>b DEF RunnerReady, PodTypes, KeepCommand, KeepOthers, KeepProcesses, Started, operatorVars, startVars, processVars
  <2>2. RunInv(r)' /\ Lasts(r) /\ LastsInPod(r)
    BY <1>9, <1>a, <1>b DEF RunnerReady, KeepCommand, KeepOthers, KeepProcesses, Started, operatorVars, startVars, processVars, PodTypes, RunInv, Lasts, LastsInPod, Over, HasCode, Before, Launched, Alive
  <2>3. \A o \in Ids \ {r} : /\ kind'[o] = kind[o] /\ stage'[o] = stage[o]
                             /\ process'[o] = process[o] /\ manager'[o] = manager[o]
                             /\ exitStatus'[o] = exitStatus[o]
                             /\ o \in signalled <=> o \in signalled'
    BY <1>9, <1>a DEF RunnerReady, KeepCommand, KeepOthers, KeepProcesses, Started, operatorVars, startVars, processVars, PodTypes
  <2> QED BY <2>1, <2>2, <2>3, OneRun
<1>10. CASE RunnerEnds(r)
  <2>1. PodTypes' /\ UNCHANGED collects
    BY <1>10, <1>a, <1>b DEF RunnerEnds, PodTypes, KeepCommand, KeepOthers, KeepProcesses, Started, operatorVars, startVars, processVars
  <2>2. RunInv(r)' /\ Lasts(r) /\ LastsInPod(r)
    BY <1>10, <1>a, <1>b DEF RunnerEnds, KeepCommand, KeepOthers, KeepProcesses, Started, operatorVars, startVars, processVars, PodTypes, RunInv, Lasts, LastsInPod, Over, HasCode, Before, Launched, Alive
  <2>3. \A o \in Ids \ {r} : /\ kind'[o] = kind[o] /\ stage'[o] = stage[o]
                             /\ process'[o] = process[o] /\ manager'[o] = manager[o]
                             /\ exitStatus'[o] = exitStatus[o]
                             /\ o \in signalled <=> o \in signalled'
    BY <1>10, <1>a DEF RunnerEnds, KeepCommand, KeepOthers, KeepProcesses, Started, operatorVars, startVars, processVars, PodTypes
  <2> QED BY <2>1, <2>2, <2>3, OneRun
<1>11. CASE OpenProgress(r)
  <2>1. PodTypes' /\ UNCHANGED collects
    BY <1>11, <1>a, <1>b DEF OpenProgress, PodTypes, KeepCommand, KeepOthers, KeepProcesses, Started, operatorVars, startVars, processVars
  <2>2. RunInv(r)' /\ Lasts(r) /\ LastsInPod(r)
    BY <1>11, <1>a, <1>b DEF OpenProgress, KeepCommand, KeepOthers, KeepProcesses, Started, operatorVars, startVars, processVars, PodTypes, RunInv, Lasts, LastsInPod, Over, HasCode, Before, Launched, Alive
  <2>3. \A o \in Ids \ {r} : /\ kind'[o] = kind[o] /\ stage'[o] = stage[o]
                             /\ process'[o] = process[o] /\ manager'[o] = manager[o]
                             /\ exitStatus'[o] = exitStatus[o]
                             /\ o \in signalled <=> o \in signalled'
    BY <1>11, <1>a DEF OpenProgress, KeepCommand, KeepOthers, KeepProcesses, Started, operatorVars, startVars, processVars, PodTypes
  <2> QED BY <2>1, <2>2, <2>3, OneRun
<1>12. CASE WriteProgress(r)
  <2>1. PodTypes' /\ UNCHANGED collects
    BY <1>12, <1>a, <1>b DEF WriteProgress, PodTypes, KeepCommand, KeepOthers, KeepProcesses, Started, operatorVars, startVars, processVars
  <2>2. RunInv(r)' /\ Lasts(r) /\ LastsInPod(r)
    BY <1>12, <1>a, <1>b DEF WriteProgress, KeepCommand, KeepOthers, KeepProcesses, Started, operatorVars, startVars, processVars, PodTypes, RunInv, Lasts, LastsInPod, Over, HasCode, Before, Launched, Alive
  <2>3. \A o \in Ids \ {r} : /\ kind'[o] = kind[o] /\ stage'[o] = stage[o]
                             /\ process'[o] = process[o] /\ manager'[o] = manager[o]
                             /\ exitStatus'[o] = exitStatus[o]
                             /\ o \in signalled <=> o \in signalled'
    BY <1>12, <1>a DEF WriteProgress, KeepCommand, KeepOthers, KeepProcesses, Started, operatorVars, startVars, processVars, PodTypes
  <2> QED BY <2>1, <2>2, <2>3, OneRun
<1>13. CASE OpenExit(r)
  <2>1. PodTypes' /\ UNCHANGED collects
    BY <1>13, <1>a, <1>b DEF OpenExit, PodTypes, KeepCommand, KeepOthers, KeepProcesses, Started, operatorVars, startVars, processVars
  <2>2. RunInv(r)' /\ Lasts(r) /\ LastsInPod(r)
    BY <1>13, <1>a, <1>b DEF OpenExit, KeepCommand, KeepOthers, KeepProcesses, Started, operatorVars, startVars, processVars, PodTypes, RunInv, Lasts, LastsInPod, Over, HasCode, Before, Launched, Alive
  <2>3. \A o \in Ids \ {r} : /\ kind'[o] = kind[o] /\ stage'[o] = stage[o]
                             /\ process'[o] = process[o] /\ manager'[o] = manager[o]
                             /\ exitStatus'[o] = exitStatus[o]
                             /\ o \in signalled <=> o \in signalled'
    BY <1>13, <1>a DEF OpenExit, KeepCommand, KeepOthers, KeepProcesses, Started, operatorVars, startVars, processVars, PodTypes
  <2> QED BY <2>1, <2>2, <2>3, OneRun
<1> QED BY <1>1, <1>2, <1>3, <1>4, <1>5, <1>6, <1>7, <1>8, <1>9, <1>10, <1>11, <1>12, <1>13 DEF Pod

-----------------------------------------------------------------------------
(* The commands.                                                           *)

(* A command that goes on changes its place and nothing else, one that is  *)
(* answered its answer, too.                                               *)
LEMMA GotoCommand ==
    ASSUME command \in Commands, NEW place \in Places, Goto(place)
    PROVE  /\ command' \in Commands /\ command'.at = place
           /\ command'.verb = command.verb /\ command'.kind = command.kind
           /\ command'.id = command.id /\ command'.said = command.said
           /\ command'.over = command.over /\ command'.early = command.early
BY DEF Goto, Commands

(* A command that is answered keeps its run and what is noted of it.       *)
LEMMA TellCommand ==
    ASSUME command \in Commands, NEW answer \in Answers, Tell(answer)
    PROVE  /\ command' \in Commands /\ command'.at = "told" /\ command'.said = answer
           /\ command'.verb = command.verb /\ command'.kind = command.kind
           /\ command'.id = command.id
           /\ command'.over = command.over /\ command'.early = command.early
BY DEF Tell, Commands, Places

(* No command is under way.                                                *)
LEMMA NoCommandType == NoCommand \in Commands /\ NoCommand.at = "none"
BY DEF NoCommand, Commands, Verbs, Places, Answers

(* What kill makes of a process, by what it is when it gets the signal.    *)
LEMMA AfterSignal ==
    ASSUME NEW p, NEW e
    PROVE  /\ (IF p \in DOMAIN [running |-> e] THEN [running |-> e][p] ELSE p)
                = IF p = "running" THEN e ELSE p
           /\ (IF p \in DOMAIN [boot |-> e] THEN [boot |-> e][p] ELSE p)
                = IF p = "boot" THEN e ELSE p
           /\ (IF p \in DOMAIN [boot |-> e, running |-> "stopping"]
               THEN [boot |-> e, running |-> "stopping"][p] ELSE p)
                = IF p = "boot" THEN e ELSE IF p = "running" THEN "stopping" ELSE p
<1>1. /\ DOMAIN [running |-> e] = {"running"} /\ [running |-> e]["running"] = e
      /\ DOMAIN [boot |-> e] = {"boot"} /\ [boot |-> e]["boot"] = e
  OBVIOUS
<1>2. /\ DOMAIN [boot |-> e, running |-> "stopping"] = {"boot", "running"}
      /\ [boot |-> e, running |-> "stopping"]["boot"] = e
      /\ [boot |-> e, running |-> "stopping"]["running"] = "stopping"
  OBVIOUS
<1> QED BY <1>1, <1>2

(* A signal takes the process it is sent to on, and no further than its    *)
(* end: stop_simulation, stop_scenario_runner and skip_scenario_runner.    *)
LEMMA SignalStep ==
    ASSUME PodInv, NEW r \in Ids, NEW after \in {OnWrapper, OnStop, OnSkip}, Signal(r, after)
    PROVE  PodStep
<1> USE DEF PodInv
<1>a. RunInv(r) /\ PodTypes
  OBVIOUS
<1>b. Ended \in {"zombie", "gone"} /\ (Ended = "zombie" => ~collects)
  BY DEF Ended
<1> DEFINE After(p) == /\ process' = [process EXCEPT ![r] = p]
                       /\ p = process[r] \/ (process[r] \in {"boot", "running"} /\ p \in {Ended, "stopping"})
<1>c. \E p \in {"none", "boot", "running", "stopping", "zombie", "gone"} : After(p)
  <2> DEFINE old == process[r]
  <2>0. old \in {"none", "boot", "running", "stopping", "zombie", "gone"}
    BY <1>a DEF PodTypes
  <2>1. CASE after = OnWrapper
    <3>1. process' = [process EXCEPT ![r] = IF old = "running" THEN Ended ELSE old]
      BY <2>1, AfterSignal DEF Signal, OnWrapper
    <3> QED BY <1>b, <2>0, <3>1
  <2>2. CASE after = OnStop
    <3>1. process' = [process EXCEPT ![r] = IF old = "boot" THEN Ended
                                            ELSE IF old = "running" THEN "stopping" ELSE old]
      BY <2>2, AfterSignal DEF Signal, OnStop
    <3> QED BY <1>b, <2>0, <3>1
  <2>3. CASE after = OnSkip
    <3>1. process' = [process EXCEPT ![r] = IF old = "boot" THEN Ended ELSE old]
      BY <2>3, AfterSignal DEF Signal, OnSkip
    <3> QED BY <1>b, <2>0, <3>1
  <2> QED BY <2>1, <2>2, <2>3
<1>d. signalled' = signalled \union {r} /\ UNCHANGED <<manager, exitStatus, progress, collects, replaced, startVars>>
  BY DEF Signal
<1>1. PodTypes' /\ UNCHANGED collects
  BY <1>a, <1>c, <1>d DEF PodTypes, startVars
<1>2. RunInv(r)' /\ Lasts(r) /\ LastsInPod(r)
  BY <1>a, <1>b, <1>c, <1>d DEF PodTypes, startVars, RunInv, Lasts, LastsInPod, Over, HasCode, Before, Launched
<1>3. \A o \in Ids \ {r} : /\ kind'[o] = kind[o] /\ stage'[o] = stage[o]
                           /\ process'[o] = process[o] /\ manager'[o] = manager[o]
                           /\ exitStatus'[o] = exitStatus[o]
                           /\ o \in signalled <=> o \in signalled'
  BY <1>a, <1>c, <1>d DEF PodTypes, startVars
<1> QED BY <1>1, <1>2, <1>3, OneRun

(* A run that is asked for has nothing in the pod yet.                     *)
LEMMA StartStep ==
    ASSUME PodInv, NEW k \in Kinds, NEW r \in Ids, StartCommand(k, r)
    PROVE  PodStep
<1> USE DEF PodInv, StartCommand, KeepProcesses, processVars
<1>1. PodTypes' /\ UNCHANGED collects
  BY DEF PodTypes
<1>2. RunInv(r)' /\ Lasts(r) /\ LastsInPod(r)
  BY DEF PodTypes, RunInv, Lasts, LastsInPod, Over, HasCode, Before, Launched, Kinds
<1>3. \A o \in Ids \ {r} : /\ kind'[o] = kind[o] /\ stage'[o] = stage[o]
                           /\ process'[o] = process[o] /\ manager'[o] = manager[o]
                           /\ exitStatus'[o] = exitStatus[o]
                           /\ o \in signalled <=> o \in signalled'
  BY DEF PodTypes
<1> QED BY <1>1, <1>2, <1>3, OneRun

-----------------------------------------------------------------------------
(* What a command knows.                                                   *)

(* A command that looks at nothing, and has told nothing of a run.         *)
LEMMA LooksAtNothing ==
    ASSUME command'.at \notin {"sent", "told"} \union InPod \/ (command'.at = "told" /\ command'.said = "none"),
           command'.at \in {"wait", "save"} => command'.kind \in Kinds
    PROVE  LookInv'
BY DEF LookInv, InPod

(* What a command has seen stays true while it looks, and what it has told *)
(* also in another pod.                                                    *)
LEMMA LookKept ==
    ASSUME PodInv, LookInv, PodStep, UNCHANGED command, command.at \in InPod => ~NewPod
    PROVE  LookInv'
<1> DEFINE r == command.id
<1>1. CASE command.at = "sent"
  BY <1>1 DEF LookInv, Aimed, PodStep, Lasts, InPod, Over
<1>2. CASE command.at \in InPod
  <2>1. r \in Ids /\ Aimed(r) /\ InScript(r) /\ Lasts(r) /\ LastsInPod(r) /\ RunInv(r)
    BY <1>2 DEF LookInv, PodStep, PodInv
  <2>3. Aimed(r)'
    BY <2>1 DEF Aimed, Lasts, Over
  <2>4. InScript(r)'
    BY <2>1 DEF InScript, Lasts, LastsInPod
  <2>5. command.at \notin {"sent", "told"}
    BY <1>2 DEF InPod
  <2>6. command.at = "exit" => /\ command.kind = "single"
                               /\ ~command.early => Over(r)' /\ (HasCode(r)' \/ r \in signalled')
    BY <1>2, <2>1 DEF LookInv, Lasts, LastsInPod, HasCode
  <2>7. command.at = "progress" => ~collects' \/ ~command.over
    BY <1>2, <2>1 DEF LookInv, Lasts
  <2> QED BY <1>2, <2>1, <2>3, <2>4, <2>5, <2>6, <2>7 DEF LookInv, HasCode
<1>3. CASE command.at = "told"
  <2>1. CASE command.said = "none"
    BY <1>3, <2>1, LooksAtNothing
  <2>2. CASE command.said # "none"
    <3>1. r \in Ids /\ Answered(r) /\ Lasts(r)
      BY <1>3, <2>2 DEF LookInv, PodStep
    <3>2. Answered(r)'
      BY <3>1 DEF Answered, Lasts, Over
    <3> QED BY <1>3, <3>1, <3>2 DEF LookInv, InPod
  <2> QED BY <2>1, <2>2
<1>4. CASE command.at \notin {"sent", "told"} \union InPod
  BY <1>4, LooksAtNothing DEF LookInv
<1> QED BY <1>1, <1>2, <1>3, <1>4

(* The run a verb is sent for has an id, and what the operator's history   *)
(* notes of it holds.                                                      *)
LEMMA SendStep ==
    ASSUME OperatorTypes, PodInv, NEW verb \in Verbs, NEW k \in Kinds, Send(verb, k)
    PROVE  OperatorTypes' /\ LookInv'
<1>1. PICK r \in Targets(k) : Give(verb, k, r, "sent")
  BY DEF Send
<1>2. Targets(k) \subseteq Ids
  BY DEF Targets, OperatorTypes, Saved, ActiveRun, NothingSaved, Kinds
<1>3. /\ command'.verb = verb /\ command'.kind = k /\ command'.id = r
      /\ command'.at = "sent" /\ command'.said = "none"
      /\ command'.over = (~Runs(r) /\ process[r] # "none")
      /\ command'.early = (stage[r] # "recorded")
  BY <1>1 DEF Give
<1>4. command' \in Commands
  BY <1>1, <1>2 DEF Give, Commands, Places, Answers, Runs, Alive
<1>5. UNCHANGED <<stage, process, adrift>>
  BY DEF Send, KeepPod, startVars, processVars
<1>6. r \in Ids /\ RunInv(r) /\ process[r] \in {"none", "boot", "running", "stopping", "zombie", "gone"}
  BY <1>1, <1>2 DEF PodInv, PodTypes
<1>7. Aimed(r)'
  BY <1>3, <1>5, <1>6 DEF Aimed, Over, Runs, Alive
<1> QED BY <1>3, <1>4, <1>5, <1>6, <1>7 DEF Send, OperatorTypes, LookInv, InPod

(* The tests of a script.  The answers rest on what the places before them *)
(* have found: get_status, get_runner_status, stop and skip.               *)
LEMMA ScriptSteps ==
    ASSUME OperatorTypes, PodInv, LookInv, Scripts
    PROVE  OperatorTypes' /\ LookInv' /\ PodStep
<1> USE DEF OperatorTypes
<1> DEFINE r == command.id
<1>a. Answers = {"none", "not_found", "error", "running", "completed", "failed", "terminated",
                 "not_running", "signalled", "stopped"}
      /\ {"ps", "exit", "progress", "kill"} \subseteq Places
      /\ Ends = {"completed", "failed", "terminated", "not_running"}
  BY DEF Answers, Places, Ends
<1>b. ASSUME command.at \in {"sent"} \union InPod, KeepPod
      PROVE  /\ r \in Ids /\ PodStep /\ RunInv(r) /\ Aimed(r)
             /\ UNCHANGED <<kind, stage, process, manager, exitStatus, progress, signalled, collects, adrift>>
  BY <1>b, PodIsKept DEF LookInv, PodInv, KeepPod, KeepRuns, startVars, processVars
<1>c. ASSUME NEW answer \in Answers, Tell(answer), command.at \in {"sent"} \union InPod, KeepAll,
             answer = "completed" /\ command.kind = "single" => manager[r] = "ok",
             answer = "failed" => manager[r] = "error",
             answer = "terminated" => r \in signalled \/ command.early,
             answer \in Ends => Over(r) \/ command.early,
             answer = "running" => ~collects \/ ~command.over
      PROVE  OperatorTypes' /\ LookInv' /\ PodStep
  <2>1. /\ command' \in Commands /\ command'.at = "told" /\ command'.said = answer
        /\ command'.kind = command.kind /\ command'.id = r
        /\ command'.over = command.over /\ command'.early = command.early
    BY <1>c, TellCommand
  <2>2. Answered(r)'
    BY <1>b, <1>c, <2>1 DEF Answered, KeepAll, Over
  <2> QED BY <1>b, <1>c, <2>1, <2>2 DEF KeepAll, KeepSaved, LookInv, InPod
<1>d. ASSUME NEW place \in InPod, Goto(place), command.at \in {"sent"} \union InPod, KeepAll,
             InScript(r),
             place = "exit" => /\ command.kind = "single"
                               /\ ~command.early => Over(r) /\ (HasCode(r) \/ r \in signalled),
             place = "progress" => ~collects \/ ~command.over
      PROVE  OperatorTypes' /\ LookInv' /\ PodStep
  <2>1. /\ command' \in Commands /\ command'.at = place
        /\ command'.kind = command.kind /\ command'.id = r
        /\ command'.over = command.over /\ command'.early = command.early
    BY <1>a, <1>d, GotoCommand DEF InPod
  <2>2. Aimed(r)' /\ InScript(r)'
    BY <1>b, <1>d, <2>1 DEF Aimed, InScript, KeepAll, Over
  <2> QED BY <1>b, <1>d, <2>1, <2>2 DEF KeepAll, KeepSaved, LookInv, InPod, Over, HasCode
<1>1. CASE LookForStatus
  <2>1. CASE ~HasDirectory(r)
    BY <1>1, <1>a, <1>c, <2>1 DEF LookForStatus, Looking
  <2>2. CASE HasDirectory(r) /\ ~HasPidFile(r)
    BY <1>1, <1>a, <1>c, <2>2 DEF LookForStatus, Looking
  <2>3. CASE HasPidFile(r)
    BY <1>1, <1>b, <1>d, <2>3
       DEF LookForStatus, Looking, HasPidFile, HasDirectory, InScript, Aimed, InPod, KeepAll, RunInv
  <2> QED BY <2>1, <2>2, <2>3 DEF HasPidFile
<1>2. CASE LookForSignal
  <2>1. CASE ~HasPidFile(r)
    <3>1. PICK answer \in {"not_found", "stopped"} : Tell(answer)
      BY <1>2, <2>1 DEF LookForSignal, TellSignal
    <3> QED BY <1>2, <1>a, <1>c, <3>1 DEF LookForSignal, Looking, Ends
  <2>2. CASE HasPidFile(r)
    BY <1>2, <1>b, <1>d, <2>2
       DEF LookForSignal, Looking, HasPidFile, HasDirectory, InScript, Aimed, InPod, KeepAll, RunInv
  <2> QED BY <2>1, <2>2
<1>e. ASSUME command.at \in InPod
      PROVE  /\ r \in Ids /\ InScript(r) /\ Aimed(r) /\ RunInv(r) /\ PodTypes
  BY <1>e DEF LookInv, PodInv
<1>f. ASSUME command.at \in InPod, ~PsFinds(r), ~command.early PROVE Over(r) /\ stage[r] = "recorded"
  BY <1>e, <1>f DEF PsFinds, Listed, Alive, Over, InScript, RunInv, Launched, PodTypes
<1>g. ASSUME command.at \in InPod, PsFinds(r), command.over PROVE ~collects
  BY <1>e, <1>g DEF PsFinds, Listed, Alive, Over, Aimed, RunInv
<1>3. CASE PsOfSimulation
  <2>1. CASE PsFinds(r)
    BY <1>3, <1>a, <1>c, <1>g, <2>1 DEF PsOfSimulation, InPod
  <2>2. CASE ~PsFinds(r)
    <3>1. ~command.early => Over(r) /\ (HasCode(r) \/ r \in signalled)
      BY <1>3, <1>e, <1>f, <2>2 DEF PsOfSimulation, InPod, RunInv, InScript, Launched
    <3> QED BY <1>3, <1>d, <1>e, <2>2, <3>1 DEF PsOfSimulation, InPod
  <2> QED BY <2>1, <2>2
<1>4. CASE PsOfRunner
  <2>1. CASE PsFinds(r)
    BY <1>4, <1>d, <1>e, <1>g, <2>1 DEF PsOfRunner, InPod
  <2>2. CASE ~PsFinds(r)
    BY <1>4, <1>a, <1>c, <1>f, <2>2 DEF PsOfRunner, InPod
  <2> QED BY <2>1, <2>2
<1>5. CASE PsToSignal
  <2>1. CASE PsFinds(r)
    BY <1>5, <1>d, <1>e, <2>1 DEF PsToSignal, InPod
  <2>2. CASE ~PsFinds(r)
    <3>1. PICK answer \in {"not_running", "stopped"} : Tell(answer)
      BY <1>5, <2>2 DEF PsToSignal, TellSignal
    <3> QED BY <1>5, <1>a, <1>c, <1>f, <2>2, <3>1 DEF PsToSignal, InPod
  <2> QED BY <2>1, <2>2
<1>6. CASE ReadExit
  <2>0. command.at \in InPod /\ KeepAll
    BY <1>6 DEF ReadExit, InPod
  <2>1. ~command.early => Over(r) /\ (HasCode(r) \/ r \in signalled)
    BY <1>6 DEF ReadExit, LookInv
  <2>2. HasCode(r) => manager[r] = exitStatus[r]
    BY <1>e, <2>0 DEF RunInv
  <2>3. CASE exitStatus[r] = "ok"
    <3>1. Tell("completed") /\ manager[r] = "ok"
      BY <1>6, <2>2, <2>3 DEF ReadExit, HasCode
    <3> QED BY <1>a, <1>c, <2>0, <2>1, <3>1
  <2>4. CASE exitStatus[r] = "error"
    <3>1. Tell("failed") /\ manager[r] = "error"
      BY <1>6, <2>2, <2>4 DEF ReadExit, HasCode
    <3> QED BY <1>a, <1>c, <2>0, <2>1, <3>1
  <2>5. CASE exitStatus[r] = "empty"
    <3>1. Tell("error")
      BY <1>6, <2>5 DEF ReadExit
    <3> QED BY <1>a, <1>c, <2>0, <3>1 DEF Ends
  <2>6. CASE exitStatus[r] = "none"
    <3>1. Tell("terminated") /\ ~HasCode(r)
      BY <1>6, <2>6 DEF ReadExit, HasCode
    <3> QED BY <1>a, <1>c, <2>0, <2>1, <3>1
  <2> QED BY <1>e, <2>0, <2>3, <2>4, <2>5, <2>6 DEF PodTypes
<1>7. CASE ReadProgress
  <2>1. ~collects \/ ~command.over
    BY <1>7 DEF ReadProgress, LookInv
  <2> QED BY <1>7, <1>a, <1>c, <2>1 DEF ReadProgress, InPod
<1>8. CASE KillWrapper \/ StopRunner \/ SkipScenario
  <2>1. PICK after \in {OnWrapper, OnStop, OnSkip} : Killed(after)
    BY <1>8 DEF KillWrapper, StopRunner, SkipScenario
  <2>2. command.at \in InPod
    BY <1>8 DEF KillWrapper, StopRunner, SkipScenario, InPod
  <2>3. PICK answer \in {"signalled", "stopped"} : Tell(answer)
    BY <2>1 DEF Killed, TellSignal
  <2>4. /\ command' \in Commands /\ command'.at = "told" /\ command'.said = answer /\ command'.id = r
    BY <1>a, <2>3, TellCommand
  <2>5. PodStep
    BY <1>e, <2>1, <2>2, SignalStep DEF Killed
  <2>6. Answered(r)'
    BY <2>3, <2>4 DEF Answered, Ends
  <2> QED BY <1>e, <2>1, <2>2, <2>4, <2>5, <2>6 DEF Killed, KeepSaved, LookInv, InPod
<1>9. ASSUME NEW script \in adrift, AdriftKills(script) \/ AdriftEnds(script)
      PROVE  OperatorTypes' /\ LookInv' /\ PodStep
  <2>1. script \in SignalScripts /\ script.id \in Ids
    BY <1>9 DEF SignalScripts
  <2>2. PodStep
    <3>1. CASE AdriftKills(script)
      <4>1. PICK after \in {OnWrapper, OnStop, OnSkip} : Signal(script.id, after)
        BY <3>1 DEF AdriftKills
      <4> QED BY <2>1, <4>1, SignalStep
    <3>2. CASE AdriftEnds(script)
      BY <3>2, PodIsKept DEF AdriftEnds, KeepRuns
    <3> QED BY <1>9, <3>1, <3>2
  <2>3. UNCHANGED <<command, savedRun, saved, replaced>> /\ adrift' \subseteq adrift
    BY <1>9 DEF AdriftKills, AdriftEnds, Signal, KeepCommand, operatorVars
  <2>4. ~NewPod
    BY <2>3 DEF NewPod, PodInv, PodTypes
  <2> QED BY <2>2, <2>3, <2>4, LookKept
<1> QED BY <1>1, <1>2, <1>3, <1>4, <1>5, <1>6, <1>7, <1>8, <1>9 DEF Scripts

(* The operator's other steps.                                             *)
LEMMA OperatorSteps ==
    ASSUME OperatorTypes, PodInv, LookInv, Operator \/ CutOff
    PROVE  OperatorTypes' /\ LookInv' /\ PodStep
<1> USE DEF OperatorTypes
<1>a. KeepPod => PodStep /\ UNCHANGED adrift
  BY PodIsKept DEF KeepPod, KeepRuns
<1>b. command' = NoCommand => command' \in Commands /\ LookInv'
  BY NoCommandType, LooksAtNothing DEF InPod
<1>1. ASSUME NEW k \in Kinds, NEW r \in Ids, StartCommand(k, r)
      PROVE  OperatorTypes' /\ LookInv' /\ PodStep
  <2>1. command' \in Commands /\ command'.at = "wait" /\ command'.kind \in Kinds
    BY <1>1 DEF StartCommand, Give, Commands, Verbs, Places, Answers, Runs, Alive
  <2>2. LookInv'
    BY <2>1, LooksAtNothing DEF InPod
  <2> QED BY <1>1, <2>1, <2>2, StartStep DEF StartCommand, KeepProcesses
<1>2. CASE SaveId
  <2>1. command' \in Commands /\ command'.at = "save" /\ command'.kind \in Kinds
    BY <1>2, GotoCommand DEF SaveId, Places, LookInv
  <2>2. saved' \in [Kinds -> Ids \union {NoId}]
    BY <1>2 DEF SaveId, Commands
  <2> QED BY <1>2, <1>a, <2>1, <2>2, LooksAtNothing DEF SaveId, InPod
<1>3. CASE SaveRun
  <2>1. savedRun' \in Saved
    BY <1>3 DEF SaveRun, Saved, Commands, LookInv
  <2> QED BY <1>3, <1>a, <1>b, <2>1 DEF SaveRun
<1>4. CASE AskSimulation \/ AskRunner \/ StopSimulationCommand \/ StopRunnerCommand \/ SkipCommand
  <2>1. \E verb \in Verbs, k \in Kinds : Send(verb, k)
    BY <1>4 DEF AskSimulation, AskRunner, StopSimulationCommand, StopRunnerCommand, SkipCommand, Verbs, Kinds
  <2> QED BY <1>a, <2>1, SendStep DEF Send
<1>5. CASE CutOff
  <2>1. PodStep
    BY <1>5, PodIsKept DEF CutOff, KeepRuns
  <2>2. adrift' \subseteq SignalScripts
    <3>1. CASE UNCHANGED adrift
      BY <3>1
    <3>2. CASE ~UNCHANGED adrift
      <4>1. command.verb \in {"stop", "skip"} /\ command.at \notin {"none", "told"}
            /\ adrift' = adrift \union {[verb |-> command.verb, kind |-> command.kind, id |-> command.id]}
        BY <1>5, <3>2 DEF CutOff
      <4>2. command.kind \in Kinds /\ command.id \in Ids
        BY <4>1 DEF Commands
      <4> QED BY <4>1, <4>2 DEF SignalScripts
    <3> QED BY <3>1, <3>2
  <2> QED BY <1>5, <1>b, <2>1, <2>2 DEF CutOff
<1>6. CASE Done
  BY <1>6, <1>a, <1>b DEF Done
<1>7. CASE DeployCommand
  <2>1. command' \in Commands /\ command'.at = "apply"
    BY <1>7, NoCommandType DEF DeployCommand, Commands, Verbs, Places
  <2> QED BY <1>7, <1>a, <2>1, LooksAtNothing DEF DeployCommand, InPod
<1>8. CASE Apply
  <2>1. command' \in Commands /\ command'.at = "told" /\ command'.said = "none"
    BY <1>8, TellCommand DEF Apply, Answers
  <2> QED BY <1>8, <1>a, <2>1, LooksAtNothing, PodIsNew DEF Apply, NewPod
<1> QED BY <1>1, <1>2, <1>3, <1>4, <1>5, <1>6, <1>7, <1>8
        DEF Operator, RunSimulation, RunScenarioBatch, Kinds

(* No run has been asked for, and nothing is saved.                        *)
LEMMA InitIInv == Init => IInv
<1> SUFFICES ASSUME Init PROVE OperatorTypes /\ PodInv /\ LookInv
  BY DEF IInv
<1>1. PodInv
  BY PodInitsAssumption, MaxReplacedAssumption
     DEF Init, PodInv, PodTypes, RunInv, Before, Launched, Over, Kinds
<1>2. OperatorTypes
  BY NoCommandType DEF Init, OperatorTypes, Saved, NothingSaved, Kinds
<1>3. LookInv
  BY NoCommandType DEF Init, LookInv, InPod
<1> QED BY <1>1, <1>2, <1>3

(* Every step keeps the invariant.                                         *)
LEMMA StepIInv == IInv /\ [Next]_vars => IInv'
<1> SUFFICES ASSUME OperatorTypes, PodInv, LookInv, [Next]_vars
             PROVE  OperatorTypes' /\ PodInv' /\ LookInv'
  BY DEF IInv
<1>a. PodStep => PodInv'
  BY DEF PodStep
<1>1. CASE Operator \/ CutOff
  BY <1>1, <1>a, OperatorSteps
<1>2. CASE Scripts
  BY <1>2, <1>a, ScriptSteps
<1>3. CASE PodDies
  <2>1. PodStep
    BY <1>3, PodIsNew DEF PodDies
  <2>2. CASE command.at \in InPod
    BY <1>3, <1>a, <2>1, <2>2, NoCommandType, LooksAtNothing DEF PodDies, NewPod, InPod, OperatorTypes
  <2>3. CASE command.at \notin InPod
    BY <1>3, <1>a, <2>1, <2>3, LookKept DEF PodDies, NewPod, OperatorTypes
  <2> QED BY <2>2, <2>3
<1>4. ASSUME NEW r \in Ids, Pod(r) PROVE OperatorTypes' /\ PodInv' /\ LookInv'
  <2>1. PodStep
    BY <1>4, RunSteps
  <2>2. UNCHANGED <<operatorVars, adrift>> /\ ~NewPod
    <3>1. replaced' = replaced /\ replaced \in Nat /\ UNCHANGED <<operatorVars, adrift>>
      BY <1>4 DEF PodInv, PodTypes, Pod, MakeDirectory, LaunchSimulation, LaunchRunner, OpenPidFile, WritePid,
                  ManagerEnds, OpenExit, RecordExit, WrapperExits, RunnerReady, RunnerEnds, OpenProgress, WriteProgress,
                  Started, KeepCommand, KeepOthers, KeepProcesses
    <3> QED BY <3>1 DEF NewPod
  <2> QED BY <1>a, <2>1, <2>2, LookKept DEF operatorVars, OperatorTypes
<1>5. CASE UNCHANGED vars
  <2>1. KeepPod /\ UNCHANGED <<command, savedRun, saved>>
    BY <1>5 DEF vars, operatorVars, startVars, processVars, KeepPod
  <2>2. replaced \in Nat /\ replaced' = replaced
    BY <2>1 DEF KeepPod, PodInv, PodTypes
  <2>3. PodStep /\ ~NewPod /\ UNCHANGED adrift
    BY <2>1, <2>2, PodIsKept DEF NewPod, KeepPod, KeepRuns
  <2> QED BY <1>a, <2>1, <2>3, LookKept DEF OperatorTypes
<1> QED BY <1>1, <1>2, <1>3, <1>4, <1>5 DEF Next, Connected

(* The invariant holds of every behaviour.                                 *)
THEOREM Invariant == Spec => []IInv
BY InitIInv, StepIInv, PTL DEF Spec

(* What the operator is told falsely has one of the causes the formula     *)
(* names, although a script finds it out in several looks between which    *)
(* the runs go on, end, are signalled, even by scripts nobody hears, or    *)
(* lose their pod: get_status, get_runner_status, stop and skip.           *)
THEOREM FalseAnswersAreExplained == Spec => []FalseAnswersExplained
<1>1. IInv => FalseAnswersExplained
  <2> SUFFICES ASSUME IInv, command.at = "told", command.said # "none"
               PROVE  FalseAnswersExplained
    BY DEF FalseAnswersExplained, Said, Ends
  <2> DEFINE r == command.id
  <2>1. r \in Ids /\ Answered(r) /\ RunInv(r) /\ PodTypes
    BY DEF IInv, LookInv, PodInv, InPod
  <2>2. Over(r) /\ Runs(r) => kind[r] = "single" /\ r \in signalled /\ ~Alive(r)
    <3> SUFFICES ASSUME Over(r), Runs(r)
                 PROVE  kind[r] = "single" /\ r \in signalled /\ ~Alive(r)
      OBVIOUS
    <3>1. ~Alive(r) /\ manager[r] = "running"
      BY DEF Over, Alive, Runs
    <3>2. kind[r] = "single" /\ stage[r] \in Launched
      BY <2>1, <3>1 DEF RunInv, PodTypes, Kinds, Before, Launched
    <3> QED BY <2>1, <3>1, <3>2 DEF RunInv, HasCode
  <2> QED BY <2>1, <2>2 DEF FalseAnswersExplained, Said, Answered
<1> QED BY Invariant, <1>1, PTL

(* An exit code that is told is the manager's own, although its file is    *)
(* empty for a while and its writer may be killed: get_status.             *)
THEOREM ExitCodesAreTrue == Spec => []ExitCodeIsTrue
<1>1. IInv => ExitCodeIsTrue
  BY DEF IInv, LookInv, Answered, ExitCodeIsTrue, Said
<1> QED BY Invariant, <1>1, PTL

(* The state keeps its types.                                              *)
THEOREM TypeCorrect == Spec => []TypeOK
<1>1. IInv => TypeOK
  BY DEF IInv, TypeOK, OperatorTypes, PodInv, PodTypes, RunInv, Commands, Before
<1> QED BY Invariant, <1>1, PTL

-----------------------------------------------------------------------------
(* The downloads: the inductive invariant.                                 *)

(* The chunks of a file are in use from the split to the clean-up.         *)
Fetching(f) ==
    f = download.file /\ download.listed > 0 /\ download.at \in {"resolve", "try", "giveup", "clean"}

(* What the command counts at each place.                                  *)
CountsInv ==
    /\ download.at # "none" => download.file \in Files
    /\ download.at \in {"find", "tar", "extract", "remove"} => download.file = "archive"
    /\ download.at \in {"find", "tar", "size", "split"} => download.listed = 0 /\ download.parts = <<>>
    /\ download.at \in {"resolve", "try"} =>
          IF download.listed = 0 THEN download.parts = <<>> ELSE Len(download.parts) < download.listed
    /\ download.at = "giveup" => download.listed > 0
    /\ download.at = "clean" => download.listed > 0 /\ Len(download.parts) = download.listed

LeftInv == \A f \in Files : chunks[f] # <<>> => f \in litter \/ Fetching(f)

(* A log's pieces are where they belong; so are its chunks, or else empty. *)
PodInvOfLog ==
    /\ \A i \in 1..Len(content["log"]) : content["log"][i] = <<0, i>>
    /\ \A i \in 1..Len(chunks["log"]) : chunks["log"][i] \in {<<0, i>>, <<0, 0>>}
    /\ Len(chunks["log"]) <= Len(content["log"])

(* A file is as good as its size: a log that is as large as it was begins  *)
(* with what was there, an archive begins as the last one does.            *)
Brings(s) ==
    /\ download.file = "log" /\ Bytes(s) = download.size =>
          \A i \in 1..download.size : i <= Len(s) /\ s[i] = <<0, i>>
    /\ download.file = "archive" /\ s # <<>> => s[1][1] = Len(archives)

Fetched(s) ==
    s # <<>> => /\ Len(s) = download.listed
                /\ \A i \in 1..Len(download.parts) : download.parts[i] = s[i]
                /\ Brings(s)

SourceInv ==
    /\ download.at \in {"split", "resolve", "try"} /\ download.file = "log" =>
          (pod # 0 /\ content["log"] = <<>>) \/ download.size <= Len(content["log"])
    /\ download.at \in {"size", "split", "resolve", "try"} /\ download.file = "archive" =>
          \A i \in 1..Len(content["archive"]) : content["archive"][i][1] = Len(archives)
    /\ download.at = "split" /\ download.file = "log" => Len(chunks["log"]) <= download.size
    /\ download.at = "split" /\ download.file = "archive" =>
          content["archive"] # <<>> \/ chunks["archive"] = <<>>

FetchInv ==
    /\ download.at \in {"resolve", "try"} /\ download.listed > 0 => Fetched(chunks[download.file])
    /\ download.at \in {"clean", "join"} => Brings(download.parts)
    /\ download.at \in {"verify", "extract"} => Brings(local)
    /\ download.at = "remove" => local = Whole(Len(archives))
    /\ DownloadIsTrue

LogsInv == LogsTypeOK /\ CountsInv /\ LeftInv /\ PodInvOfLog /\ SourceInv /\ FetchInv

-----------------------------------------------------------------------------
(* Sequences of pieces.                                                    *)

(* What a second split leaves of the chunks of a first one.                *)
LEMMA WriteOverIs ==
    ASSUME NEW new \in Seq(Piece), NEW old \in Seq(Piece)
    PROVE  LET all == WriteOver(new, old)
           IN /\ all \in Seq(Piece)
              /\ Len(all) = IF Len(new) >= Len(old) THEN Len(new) ELSE Len(old)
              /\ \A i \in 1..Len(all) : all[i] = IF i <= Len(new) THEN new[i] ELSE old[i]
<1> DEFINE rest == SubSeq(old, Len(new) + 1, Len(old))
<1>1. Len(new) \in Nat /\ Len(old) \in Nat
    BY LenProperties
<1>2. CASE Len(new) >= Len(old)
    <2>1. rest = <<>>
        BY <1>1, <1>2
    <2> HIDE DEF rest
    <2> QED BY <1>1, <1>2, <2>1 DEF WriteOver, rest
<1>3. CASE Len(new) < Len(old)
    <2>1. \A i \in (Len(new) + 1)..Len(old) : old[i] \in Piece
        BY <1>1, ElementOfSeq
    <2>2. /\ rest \in Seq(Piece) /\ Len(rest) = Len(old) - Len(new)
          /\ \A i \in 1..Len(rest) : rest[i] = old[Len(new) + i]
        BY <1>1, <1>3, <2>1, SubSeqProperties
    <2> HIDE DEF rest
    <2>3. WriteOver(new, old) = new \o rest
        BY DEF WriteOver, rest
    <2>4. /\ new \o rest \in Seq(Piece)
          /\ Len(new \o rest) = Len(new) + Len(rest)
          /\ \A i \in 1..Len(new) + Len(rest) :
                (new \o rest)[i] = IF i <= Len(new) THEN new[i] ELSE rest[i - Len(new)]
        BY <2>2, ConcatProperties
    <2>5. Len(new) + Len(rest) = Len(old)
        BY <1>1, <2>2
    <2>6. \A i \in 1..Len(old) : i > Len(new) => rest[i - Len(new)] = old[i]
        <3> SUFFICES ASSUME NEW i \in 1..Len(old), i > Len(new) PROVE rest[i - Len(new)] = old[i]
            OBVIOUS
        <3>1. i - Len(new) \in 1..Len(rest) /\ Len(new) + (i - Len(new)) = i
            BY <1>1, <1>3, <2>2
        <3> QED BY <2>2, <3>1
    <2>7. \A i \in 1..Len(old) :
             (new \o rest)[i] = IF i <= Len(new) THEN new[i] ELSE old[i]
        BY <1>1, <2>4, <2>5, <2>6
    <2>8. Len(new \o rest) = Len(old) /\ ~(Len(new) >= Len(old))
        BY <1>1, <1>3, <2>4, <2>5
    <2> QED BY <2>3, <2>4, <2>7, <2>8, SMT
<1> QED BY <1>1, <1>2, <1>3

(* A sequence that holds an empty piece counts fewer than its length.      *)
LEMMA FewerBytes ==
    ASSUME NEW s \in Seq(Piece), NEW j \in 1..Len(s), s[j][2] = 0
    PROVE  Bytes(s) < Len(s)
<1> DEFINE S == {i \in DOMAIN s : s[i][2] # 0}
<1>1. Len(s) \in Nat /\ DOMAIN s = 1..Len(s)
    BY LenProperties
<1>2. IsFiniteSet(1..Len(s)) /\ Cardinality(1..Len(s)) = Len(s)
    BY <1>1, FS_Interval
<1>3. S \subseteq (1..Len(s)) \ {j}
    BY <1>1
<1>4. /\ IsFiniteSet((1..Len(s)) \ {j})
      /\ Cardinality((1..Len(s)) \ {j}) = Len(s) - 1
    BY <1>2, FS_RemoveElement
<1>5. Cardinality(S) <= Len(s) - 1 /\ Cardinality(S) \in Nat
    <2> DEFINE T == (1..Len(s)) \ {j}
    <2>1. S \in SUBSET T /\ IsFiniteSet(T) /\ Cardinality(T) = Len(s) - 1
        BY <1>3, <1>4
    <2> HIDE DEF S, T
    <2>2. IsFiniteSet(S) /\ Cardinality(S) <= Cardinality(T)
        BY <2>1, FS_Subset
    <2> QED BY <2>1, <2>2, FS_CardinalityType
<1> QED BY <1>1, <1>5 DEF Bytes

(* The first chunk and the rest, of a split that stopped.                  *)
LEMMA StoppedIs ==
    ASSUME NEW whole \in Seq(Piece), whole # <<>>, NEW part \in Stopped(whole)
    PROVE  /\ part \in Seq(Piece) /\ Len(part) \in 1..Len(whole)
           /\ \A i \in 1..Len(part) - 1 : part[i] = whole[i]
           /\ part[Len(part)] = Cut(whole[1][1])
<1>1. PICK k \in 0..Len(whole) - 1 : part = Append(SubSeq(whole, 1, k), Cut(whole[1][1]))
    BY DEF Stopped
<1>2. Len(whole) \in Nat \ {0} /\ \A i \in 1..Len(whole) : whole[i] \in Piece
    BY EmptySeq, LenProperties, ElementOfSeq
<1>3. SubSeq(whole, 1, k) \in Seq(Piece) /\ Len(SubSeq(whole, 1, k)) = k
      /\ \A i \in 1..k : SubSeq(whole, 1, k)[i] = whole[i]
    BY <1>2, SubSeqProperties
<1>4. Cut(whole[1][1]) \in Piece
    BY <1>2, BoundsAssumption DEF Cut, Piece
<1> DEFINE begin == SubSeq(whole, 1, k)
           cut == Cut(whole[1][1])
<1>5. /\ Append(begin, cut) \in Seq(Piece) /\ Len(Append(begin, cut)) = k + 1
      /\ \A i \in 1..k : Append(begin, cut)[i] = whole[i]
      /\ Append(begin, cut)[k + 1] = cut
    <2> HIDE DEF begin, cut
    <2> QED BY <1>3, <1>4, AppendProperties DEF begin, cut
<1>6. (k + 1) - 1 = k /\ k + 1 \in 1..Len(whole)
    BY <1>2
<1> HIDE DEF begin, cut
<1> QED BY <1>1, <1>5, <1>6 DEF begin, cut

(* What is split into chunks over those of an earlier split brings a log:  *)
(* when the split stopped before the log's old size, its empty piece is    *)
(* missing from the count, and older chunks reach no further than the size.*)
LEMMA SplitBrings ==
    ASSUME NEW whole \in Seq(Piece), whole # <<>>, NEW old \in Seq(Piece), NEW size \in Nat,
           \A i \in 1..Len(whole) : whole[i] = <<0, i>>,
           size <= Len(whole), Len(old) <= size,
           NEW new \in {whole} \union Stopped(whole),
           Bytes(WriteOver(new, old)) = size
    PROVE  \A i \in 1..size : i <= Len(WriteOver(new, old)) /\ WriteOver(new, old)[i] = <<0, i>>
<1> DEFINE all == WriteOver(new, old)
<1>1. Len(whole) \in Nat /\ Len(old) \in Nat
    BY LenProperties
<1>2. CASE new = whole
    BY <1>1, <1>2, WriteOverIs
<1>3. CASE new \in Stopped(whole)
    <2>1. /\ new \in Seq(Piece) /\ Len(new) \in 1..Len(whole)
          /\ \A i \in 1..Len(new) - 1 : new[i] = whole[i]
          /\ new[Len(new)] = Cut(whole[1][1])
        BY <1>3, StoppedIs
    <2>2. /\ all \in Seq(Piece)
          /\ Len(all) = IF Len(new) >= Len(old) THEN Len(new) ELSE Len(old)
          /\ \A i \in 1..Len(all) : all[i] = IF i <= Len(new) THEN new[i] ELSE old[i]
        BY <2>1, WriteOverIs
    <2> HIDE DEF all
    <2>3. CASE Len(new) > size
        <3> SUFFICES ASSUME NEW i \in 1..size PROVE i <= Len(all) /\ all[i] = <<0, i>>
            BY DEF all
        <3>1. i \in 1..Len(new) - 1 /\ i \in 1..Len(whole) /\ i \in 1..Len(all) /\ i <= Len(new)
            BY <1>1, <2>1, <2>2, <2>3
        <3>2. all[i] = new[i] /\ new[i] = whole[i] /\ whole[i] = <<0, i>>
            BY <2>1, <2>2, <3>1
        <3> QED BY <3>1, <3>2
    <2>4. CASE Len(new) <= size
        <3>1. Len(all) <= size /\ Len(all) \in Nat /\ Len(new) \in 1..Len(all)
            BY <1>1, <2>1, <2>2, <2>4
        <3>2. all[Len(new)] = new[Len(new)]
            BY <2>1, <2>2, <3>1
        <3>3. all[Len(new)][2] = 0
            BY <2>1, <3>2 DEF Cut
        <3>4. Bytes(all) < Len(all)
            BY <2>2, <3>1, <3>3, FewerBytes
        <3>5. Bytes(all) = size
            BY DEF all
        <3> QED BY <3>1, <3>4, <3>5
    <2>5. Len(new) \in Nat
        BY <1>1, <2>1
    <2> QED BY <2>3, <2>4, <2>5
<1> QED BY <1>2, <1>3

(* The chunks begin as the file that was split does.                       *)
LEMMA SplitBegins ==
    ASSUME NEW whole \in Seq(Piece), whole # <<>>, NEW old \in Seq(Piece),
           NEW new \in {whole} \union Stopped(whole)
    PROVE  WriteOver(new, old)[1][1] = whole[1][1]
<1>1. Len(whole) \in Nat \ {0} /\ Len(old) \in Nat
    BY EmptySeq, LenProperties
<1>2. /\ new \in Seq(Piece) /\ Len(new) \in 1..Len(whole)
      /\ new[1][1] = whole[1][1]
    <2>1. CASE new = whole
        BY <1>1, <2>1
    <2>2. CASE new \in Stopped(whole)
        <3>1. /\ new \in Seq(Piece) /\ Len(new) \in 1..Len(whole)
              /\ \A i \in 1..Len(new) - 1 : new[i] = whole[i]
              /\ new[Len(new)] = Cut(whole[1][1])
            BY <2>2, StoppedIs
        <3>2. CASE Len(new) = 1
            BY <3>1, <3>2 DEF Cut
        <3>3. CASE Len(new) # 1
            <4> DEFINE n == Len(new)
            <4>0. n \in 1..Len(whole) /\ n # 1
                BY <3>1, <3>3
            <4> HIDE DEF n
            <4>1. n \in Nat /\ n > 1
                BY <1>1, <4>0
            <4>2. 1 \in 1..Len(new) - 1 /\ 1 \in 1..Len(new)
                BY <4>1 DEF n
            <4> QED BY <3>1, <4>2
        <3> QED BY <3>1, <3>2, <3>3
    <2> QED BY <2>1, <2>2
<1>3. /\ 1 \in 1..Len(WriteOver(new, old)) /\ 1 <= Len(new)
      /\ \A i \in 1..Len(WriteOver(new, old)) :
            WriteOver(new, old)[i] = IF i <= Len(new) THEN new[i] ELSE old[i]
    BY <1>1, <1>2, WriteOverIs
<1> QED BY <1>2, <1>3

-----------------------------------------------------------------------------
(* The steps of a download.                                                *)

Downloads == [file : Files \union {"none"}, at : DownloadPlaces, size : 0..MaxSize,
              listed : 0..MaxSize, parts : Pieces, pod : 0..MaxPods,
              tries : 0..MAX_DOWNLOAD_RETRIES - 1, warned : BOOLEAN]

(* A download that only goes on to another place.                          *)
LEMMA ProceedIs ==
    ASSUME LogsTypeOK, NEW place \in DownloadPlaces, Proceed(place)
    PROVE  /\ download' \in Downloads /\ download'.at = place
           /\ download'.file = download.file /\ download'.size = download.size
           /\ download'.listed = download.listed /\ download'.parts = download.parts
           /\ download'.pod = download.pod /\ download'.warned = download.warned
<1>1. download \in Downloads
    BY DEF LogsTypeOK, Downloads
<1>2. download' = [download EXCEPT !.at = place]
    BY DEF Proceed
<1> QED BY <1>1, <1>2 DEF Downloads

(* No download is under way.                                               *)
LEMMA NoDownloadIs ==
    /\ NoDownload \in Downloads /\ NoDownload.at = "none" /\ NoDownload.listed = 0
    /\ NoDownload.parts = <<>> /\ NoDownload.file = "none" /\ <<>> \in Pieces
<1>1. <<>> \in Seq(Piece) /\ Len(<<>>) = 0
    OBVIOUS
<1>2. 0 \in 0..MaxSize /\ 0 \in 0..MaxPods /\ 0 \in 0..MAX_DOWNLOAD_RETRIES - 1
    BY BoundsAssumption, RetriesAssumption
<1>3. <<>> \in Pieces
    BY <1>1, BoundsAssumption DEF Pieces
<1> QED BY <1>2, <1>3 DEF NoDownload, Downloads, DownloadPlaces

(* A download that goes on to another place while all files stay as they   *)
(* are: it fails, is interrupted, or has found the directories to pack.    *)
LEMMA MoveStep ==
    ASSUME LogsInv, KeepFiles, NEW place \in {"tar", "giveup", "failed"}, Proceed(place),
           place = "tar" => download.at = "find",
           place = "giveup" => download.at \in {"resolve", "try"} /\ download.listed > 0,
           place = "failed" => \A f \in Files : ~Fetching(f),
           download.at # "none"
    PROVE  LogsInv'
<1>1. /\ download' \in Downloads /\ download'.at = place
      /\ download'.file = download.file /\ download'.size = download.size
      /\ download'.listed = download.listed /\ download'.parts = download.parts
    BY ProceedIs DEF LogsInv, DownloadPlaces
<1>2. UNCHANGED <<local, content, chunks, archives, pod, litter>>
    BY DEF KeepFiles, KeepRemote, podVars
<1>3. LogsTypeOK'
    BY <1>1, <1>2 DEF LogsInv, LogsTypeOK, Downloads
<1>4. CountsInv'
    BY <1>1 DEF LogsInv, CountsInv
<1>5. LeftInv'
    BY <1>1, <1>2 DEF LogsInv, LeftInv, Fetching
<1>6. PodInvOfLog' /\ SourceInv'
    BY <1>1, <1>2 DEF LogsInv, PodInvOfLog, SourceInv
<1>7. FetchInv'
    BY <1>1, <1>2 DEF FetchInv, DownloadIsTrue
<1> QED BY <1>3, <1>4, <1>5, <1>6, <1>7 DEF LogsInv

(* The log grows at its end.                                               *)
LEMMA LogGrowsStep == LogsInv /\ LogGrows => LogsInv'
<1> SUFFICES ASSUME LogsInv, LogGrows PROVE LogsInv'
    OBVIOUS
<1> DEFINE old == content["log"]
           new == Append(old, <<0, Len(old) + 1>>)
<1>1. /\ old \in Seq(Piece) /\ Len(old) \in Nat /\ Len(old) < MaxSize
      /\ content \in [Files -> Pieces] /\ "log" \in Files /\ "archive" \in Files
    BY DEF LogsInv, LogsTypeOK, LogGrows, Pieces, Files
<1>2. <<0, Len(old) + 1>> \in Piece
    BY <1>1, BoundsAssumption DEF Piece
<1>3. /\ new \in Pieces /\ Len(new) = Len(old) + 1
      /\ \A i \in 1..Len(old) : new[i] = old[i]
      /\ new[Len(old) + 1] = <<0, Len(old) + 1>>
    BY <1>1, <1>2, AppendProperties, BoundsAssumption DEF Pieces
<1>4. content' = [content EXCEPT !["log"] = new]
    BY DEF LogGrows
<1>5. content'["log"] = new /\ content'["archive"] = content["archive"] /\ content' \in [Files -> Pieces]
    BY <1>1, <1>3, <1>4 DEF Files
<1> HIDE DEF new
<1>6. UNCHANGED <<download, local, chunks, archives, pod, litter>> /\ pod = 0
    BY DEF LogGrows
<1>7. LogsTypeOK'
    BY <1>5, <1>6 DEF LogsInv, LogsTypeOK
<1>8. CountsInv' /\ LeftInv' /\ FetchInv'
    BY <1>6 DEF LogsInv, CountsInv, LeftInv, Fetching, FetchInv, Fetched, Brings, DownloadIsTrue, Whole
<1>9. PodInvOfLog'
    <2>1. chunks["log"] \in Seq(Piece) /\ Len(chunks["log"]) \in Nat
        BY <1>1 DEF LogsInv, LogsTypeOK, Pieces
    <2>2. Len(chunks["log"]) <= Len(old)
        BY DEF LogsInv, PodInvOfLog
    <2>3. \A i \in 1..Len(new) : new[i] = <<0, i>>
        BY <1>1, <1>3 DEF LogsInv, PodInvOfLog
    <2>4. Len(chunks'["log"]) <= Len(content'["log"])
        BY <1>1, <1>3, <1>5, <1>6, <2>1, <2>2
    <2> QED BY <1>5, <1>6, <2>3, <2>4 DEF LogsInv, PodInvOfLog
<1>10. SourceInv'
    <2>1. download.size \in Nat
        BY BoundsAssumption DEF LogsInv, LogsTypeOK
    <2>2. download.at \in {"split", "resolve", "try"} /\ download.file = "log" => download.size <= Len(content'["log"])
        BY <1>1, <1>3, <1>5, <1>6, <2>1 DEF LogsInv, SourceInv
    <2> QED BY <1>5, <1>6, <2>2 DEF LogsInv, SourceInv
<1> QED BY <1>7, <1>8, <1>9, <1>10 DEF LogsInv

(* A new pod has no files.                                                 *)
LEMMA PodReplacedStep == LogsInv /\ PodReplaced => LogsInv'
<1> SUFFICES ASSUME LogsInv, PodReplaced PROVE LogsInv'
    OBVIOUS
<1>1. /\ \A f \in Files : content'[f] = <<>> /\ chunks'[f] = <<>>
      /\ content' \in [Files -> Pieces] /\ chunks' \in [Files -> Pieces]
    BY NoDownloadIs DEF PodReplaced
<1>2. UNCHANGED <<download, local, archives, litter>> /\ pod' = pod + 1 /\ pod < MaxPods
    BY DEF PodReplaced
<1>3. pod \in Nat /\ pod' \in 0..MaxPods /\ pod' # 0
    BY <1>2, BoundsAssumption DEF LogsInv, LogsTypeOK
<1>4. LogsTypeOK'
    BY <1>1, <1>2, <1>3 DEF LogsInv, LogsTypeOK
<1>5. CountsInv' /\ LeftInv'
    BY <1>1, <1>2 DEF LogsInv, CountsInv, LeftInv
<1>6. Len(<<>>) = 0 /\ "log" \in Files /\ "archive" \in Files
    BY DEF Files
<1>7. PodInvOfLog'
    BY <1>1, <1>6 DEF PodInvOfLog
<1>8. SourceInv'
    BY <1>1, <1>2, <1>3, <1>6, BoundsAssumption DEF LogsInv, LogsTypeOK, SourceInv
<1>9. FetchInv'
    <2>1. download.at \in {"resolve", "try"} => download.file \in Files
        BY DEF LogsInv, CountsInv
    <2>2. download.at \in {"resolve", "try"} /\ download.listed > 0 => Fetched(chunks[download.file])'
        BY <1>1, <1>2, <2>1 DEF Fetched
    <2> QED BY <1>2, <2>2 DEF LogsInv, FetchInv, Brings, DownloadIsTrue, Whole
<1> QED BY <1>4, <1>5, <1>7, <1>8, <1>9 DEF LogsInv

(* A download that is over, and one that begins.                           *)
LEMMA AskSteps ==
    ASSUME LogsInv, DownloadRunnerLogs \/ DownloadAllLogs \/ DownloadLastLogs \/ Finish
    PROVE  LogsInv'
<1>1. /\ local' = <<>> /\ KeepRemote /\ download' \in Downloads
      /\ download.at \in {"none", "done", "failed"}
      /\ download'.listed = 0 /\ download'.parts = <<>> /\ download'.at \in {"none", "find", "tar", "size"}
      /\ download'.at # "none" => download'.file \in Files
      /\ download'.at \in {"find", "tar"} => download'.file = "archive"
      /\ download'.at = "size" => download'.file = "log"
    <2>1. CASE Finish
        BY <2>1, NoDownloadIs DEF Finish
    <2>2. ASSUME NEW file \in Files, NEW at \in {"find", "tar", "size"}, Ask(file, at)
          PROVE  /\ local' = <<>> /\ KeepRemote /\ download' \in Downloads /\ download.at = "none"
                 /\ download'.listed = 0 /\ download'.parts = <<>>
                 /\ download'.at = at /\ download'.file = file
        <3>1. download' = [NoDownload EXCEPT !.file = file, !.at = at] /\ download = NoDownload
            BY <2>2 DEF Ask
        <3> QED BY <2>2, <3>1, NoDownloadIs DEF Ask, Downloads, DownloadPlaces
    <2> QED BY <2>1, <2>2 DEF DownloadRunnerLogs, DownloadAllLogs, DownloadLastLogs, Files
<1>2. UNCHANGED <<content, chunks, archives, pod, litter>>
    BY <1>1 DEF KeepRemote, podVars
<1>3. Len(<<>>) = 0
    OBVIOUS
<1>4. LogsTypeOK'
    BY <1>1, <1>2, <1>3, NoDownloadIs DEF LogsInv, LogsTypeOK, Downloads
<1>5. CountsInv' /\ LeftInv'
    BY <1>1, <1>2 DEF LogsInv, CountsInv, LeftInv, Fetching
<1>6. PodInvOfLog' /\ SourceInv' /\ FetchInv'
    BY <1>1, <1>2 DEF LogsInv, PodInvOfLog, SourceInv, FetchInv, DownloadIsTrue
<1> QED BY <1>4, <1>5, <1>6 DEF LogsInv

(* An archive is made, or only a part of it.                               *)
LEMMA TarStep == LogsInv /\ Tar => LogsInv'
<1> SUFFICES ASSUME LogsInv, Tar PROVE LogsInv'
    OBVIOUS
<1> DEFINE v == Len(archives) + 1
<1>1. PICK n \in 1..MaxSize :
        /\ archives' = Append(archives, n)
        /\ \E written \in 0..n :
             content' = [content EXCEPT !["archive"] = [i \in 1..written |-> <<v, i>>]]
    BY DEF Tar
<1>2. PICK written \in 0..n :
        content' = [content EXCEPT !["archive"] = [i \in 1..written |-> <<v, i>>]]
    BY <1>1
<1>3. /\ archives \in Seq(1..MaxSize) /\ Len(archives) \in Nat /\ Len(archives) < MaxArchives
      /\ content \in [Files -> Pieces] /\ "archive" \in Files /\ "log" \in Files
    BY DEF LogsInv, LogsTypeOK, Tar, Files
<1>4. archives' \in Seq(1..MaxSize) /\ Len(archives') = v /\ v \in 0..MaxArchives
    BY <1>1, <1>3, AppendProperties, BoundsAssumption
<1> DEFINE new == [i \in 1..written |-> <<v, i>>]
<1>5. /\ new \in Pieces
      /\ \A i \in 1..Len(new) : new[i][1] = v
    <2>1. \A i \in 1..written : <<v, i>> \in Piece
        BY <1>4, BoundsAssumption DEF Piece
    <2>2. new \in Seq(Piece) /\ Len(new) = written /\ written <= MaxSize
        BY <2>1, BoundsAssumption
    <2> QED BY <2>2 DEF Pieces
<1>6. content'["archive"] = new /\ content'["log"] = content["log"] /\ content' \in [Files -> Pieces]
    BY <1>2, <1>3, <1>5
<1> HIDE DEF new, v
<1>7. download.at = "tar" /\ UNCHANGED <<local, chunks, pod, litter>>
    BY DEF Tar
<1>8. /\ download' \in Downloads /\ download'.at \in {"size", "failed"}
      /\ download'.file = "archive" /\ download'.listed = 0 /\ download'.parts = <<>>
    BY <1>7, ProceedIs DEF Tar, Fail, DownloadPlaces, LogsInv, CountsInv
<1>9. LogsTypeOK'
    BY <1>4, <1>6, <1>7, <1>8, BoundsAssumption DEF LogsInv, LogsTypeOK, Downloads
<1>10. CountsInv' /\ LeftInv' /\ PodInvOfLog'
    BY <1>3, <1>6, <1>7, <1>8 DEF LogsInv, CountsInv, LeftInv, Fetching, PodInvOfLog
<1>11. SourceInv' /\ FetchInv'
    BY <1>4, <1>5, <1>6, <1>8 DEF SourceInv, FetchInv, DownloadIsTrue
<1> QED BY <1>9, <1>10, <1>11 DEF LogsInv

(* The size is read.                                                       *)
LEMMA SizeStep == LogsInv /\ GetRemoteFileSize => LogsInv'
<1> SUFFICES ASSUME LogsInv, GetRemoteFileSize PROVE LogsInv'
    OBVIOUS
<1> DEFINE size == Len(content[download.file])
           place == IF size > LARGE_FILE_THRESHOLD THEN "split" ELSE "resolve"
<1>1. /\ download.at = "size" /\ download.file \in Files /\ KeepFiles
      /\ download.listed = 0 /\ download.parts = <<>>
    BY DEF LogsInv, CountsInv, GetRemoteFileSize
<1>2. CASE Fail
    BY <1>1, <1>2, MoveStep DEF Fail, Fetching
<1>3. CASE size > 0 /\ download' = [download EXCEPT !.size = size, !.at = place]
    <2>1. /\ content[download.file] \in Seq(Piece) /\ size \in 0..MaxSize
          /\ download \in Downloads
        BY <1>1, BoundsAssumption DEF LogsInv, LogsTypeOK, Pieces, Downloads
    <2>2. place \in {"split", "resolve"}
        OBVIOUS
    <2>3. UNCHANGED <<local, content, chunks, archives, pod, litter>>
        BY <1>1 DEF KeepFiles, KeepRemote, podVars
    <2> HIDE DEF size, place
    <2>4. /\ download' \in Downloads /\ download'.at = place /\ download'.size = size
          /\ download'.file = download.file /\ download'.listed = 0 /\ download'.parts = <<>>
        BY <1>1, <1>3, <2>1, <2>2 DEF Downloads, DownloadPlaces
    <2>5. LogsTypeOK'
        BY <1>1, <2>3, <2>4 DEF LogsInv, LogsTypeOK, Downloads
    <2>6. CountsInv' /\ LeftInv' /\ PodInvOfLog'
        BY <1>1, <2>2, <2>3, <2>4 DEF LogsInv, CountsInv, LeftInv, Fetching, PodInvOfLog
    <2>7. size <= Len(content[download.file]) /\ content[download.file] # <<>>
        BY <1>3, <2>1 DEF size
    <2>8. Len(chunks["log"]) <= Len(content["log"])
        BY DEF LogsInv, PodInvOfLog
    <2>9. SourceInv'
        BY <1>1, <2>2, <2>3, <2>4, <2>7, <2>8 DEF LogsInv, SourceInv, size
    <2>10. FetchInv'
        BY <2>2, <2>4 DEF FetchInv, DownloadIsTrue
    <2> QED BY <2>5, <2>6, <2>9, <2>10 DEF LogsInv
<1> QED BY <1>2, <1>3 DEF GetRemoteFileSize

(* The file is split, to its end or not, over the chunks that are there.   *)
LEMMA SplitToStep ==
    ASSUME LogsInv, download.at = "split", UNCHANGED <<local, content, archives, pod>>,
           NEW new \in {content[download.file]} \union
                       {part \in Stopped(content[download.file]) : content[download.file] # <<>>},
           SplitTo(new)
    PROVE  LogsInv'
<1> DEFINE f == download.file
           whole == content[f]
           old == chunks[f]
           all == WriteOver(new, old)
<1>1. f \in Files /\ download.listed = 0 /\ download.parts = <<>>
    BY DEF LogsInv, CountsInv
<1>2. /\ whole \in Seq(Piece) /\ Len(whole) \in Nat /\ Len(whole) <= MaxSize
      /\ old \in Seq(Piece) /\ Len(old) \in Nat /\ Len(old) <= MaxSize
      /\ chunks \in [Files -> Pieces] /\ download \in Downloads /\ download.size \in Nat
    BY <1>1, BoundsAssumption DEF LogsInv, LogsTypeOK, Pieces, Downloads
<1>3. /\ new \in Seq(Piece) /\ Len(new) \in Nat /\ Len(new) <= Len(whole)
      /\ \A i \in 1..Len(new) : new[i] = whole[i] \/ new[i] = Cut(whole[1][1])
    <2>1. CASE new = whole
        BY <1>2, <2>1
    <2>2. CASE whole # <<>> /\ new \in Stopped(whole)
        <3>1. /\ new \in Seq(Piece) /\ Len(new) \in 1..Len(whole)
              /\ \A i \in 1..Len(new) - 1 : new[i] = whole[i]
              /\ new[Len(new)] = Cut(whole[1][1])
            BY <1>2, <2>2, StoppedIs
        <3>2. \A i \in 1..Len(new) : i = Len(new) \/ i \in 1..Len(new) - 1
            BY <3>1
        <3>3. Len(new) \in Nat /\ Len(new) <= Len(whole)
            BY <1>2, <3>1
        <3> QED BY <3>1, <3>2, <3>3
    <2> QED BY <2>1, <2>2
<1>4. /\ all \in Seq(Piece)
      /\ Len(all) = IF Len(new) >= Len(old) THEN Len(new) ELSE Len(old)
      /\ \A i \in 1..Len(all) : all[i] = IF i <= Len(new) THEN new[i] ELSE old[i]
    BY <1>2, <1>3, WriteOverIs
<1>5. /\ chunks' = [chunks EXCEPT ![f] = all] /\ UNCHANGED litter
      /\ IF all = <<>> THEN Fail
         ELSE download' = [download EXCEPT !.listed = Len(all), !.at = "resolve"]
    BY DEF SplitTo
<1> HIDE DEF all
<1>6. Len(all) \in 0..MaxSize /\ all \in Pieces
    <2>1. Len(new) <= MaxSize
        BY <1>2, <1>3, BoundsAssumption
    <2>2. Len(all) \in Nat /\ Len(all) <= MaxSize
        BY <1>2, <1>3, <1>4, <2>1
    <2> QED BY <1>4, <2>2, BoundsAssumption DEF Pieces
<1>7. /\ chunks' \in [Files -> Pieces] /\ chunks'[f] = all
      /\ \A g \in Files : g # f => chunks'[g] = chunks[g]
    BY <1>1, <1>2, <1>5, <1>6
<1>8. /\ download' \in Downloads /\ download'.file = f /\ download'.size = download.size
      /\ download'.parts = <<>>
      /\ IF all = <<>> THEN download'.at = "failed"
         ELSE download'.at = "resolve" /\ download'.listed = Len(all)
    <2>1. CASE all = <<>>
        BY <1>1, <1>5, <2>1, ProceedIs DEF Fail, LogsInv, DownloadPlaces
    <2>2. CASE all # <<>>
        <3>1. download' = [download EXCEPT !.listed = Len(all), !.at = "resolve"]
            BY <1>5, <2>2
        <3>2. download \in Downloads /\ Len(all) \in 0..MaxSize /\ download.parts = <<>>
            BY <1>1, <1>2, <1>6
        <3>3. /\ download' \in Downloads /\ download'.file = download.file
              /\ download'.size = download.size /\ download'.parts = download.parts
              /\ download'.at = "resolve" /\ download'.listed = Len(all)
            BY <3>1, <3>2 DEF Downloads, DownloadPlaces
        <3> QED BY <2>2, <3>2, <3>3
    <2> QED BY <2>1, <2>2
<1>9. all # <<>> => Len(all) > 0
    BY <1>4, <1>6, EmptySeq
<1>10. LogsTypeOK'
    <2>1. Len(download'.parts) <= download'.listed
        BY <1>8, BoundsAssumption DEF Downloads
    <2> QED BY <1>7, <1>8, <1>5, <2>1 DEF LogsInv, LogsTypeOK, Downloads
<1>11. CountsInv'
    <2>1. Len(<<>>) = 0
        OBVIOUS
    <2> QED BY <1>1, <1>8, <1>9, <2>1 DEF CountsInv
<1>12. LeftInv'
    BY <1>1, <1>5, <1>7, <1>8, <1>9 DEF LogsInv, LeftInv, Fetching
<1>13. \A i \in 1..Len(content["log"]) : content["log"][i] = <<0, i>>
    BY DEF LogsInv, PodInvOfLog
<1>14. PodInvOfLog'
    <2>1. CASE f # "log"
        BY <1>7, <2>1 DEF LogsInv, PodInvOfLog, Files
    <2>2. CASE f = "log"
        <3>1. /\ Len(old) <= Len(whole)
              /\ \A i \in 1..Len(old) : old[i] \in {<<0, i>>, <<0, 0>>}
            BY <2>2 DEF LogsInv, PodInvOfLog
        <3>2. Len(all) <= Len(whole)
            BY <1>2, <1>3, <1>4, <3>1
        <3>3. ASSUME NEW i \in 1..Len(all) PROVE all[i] \in {<<0, i>>, <<0, 0>>}
            <4>1. CASE i <= Len(new)
                <5>1. i \in 1..Len(new) /\ 1 \in 1..Len(whole) /\ i \in 1..Len(whole)
                    BY <1>2, <1>3, <1>6, <4>1
                <5>2. whole[1] = <<0, 1>> /\ whole[i] = <<0, i>>
                    BY <1>13, <2>2, <5>1
                <5>3. all[i] = new[i] /\ (new[i] = whole[i] \/ new[i] = Cut(whole[1][1]))
                    BY <1>3, <1>4, <4>1, <5>1
                <5>4. Cut(whole[1][1]) = <<0, 0>>
                    BY <5>2 DEF Cut
                <5> QED BY <5>2, <5>3, <5>4
            <4>2. CASE ~(i <= Len(new))
                <5>1. i \in 1..Len(old) /\ all[i] = old[i]
                    BY <1>2, <1>3, <1>4, <4>2
                <5> QED BY <3>1, <5>1
            <4> QED BY <4>1, <4>2
        <3>4. /\ \A i \in 1..Len(chunks'["log"]) : chunks'["log"][i] \in {<<0, i>>, <<0, 0>>}
              /\ Len(chunks'["log"]) <= Len(content["log"])
            BY <1>7, <2>2, <3>2, <3>3
        <3> QED BY <1>13, <3>4 DEF PodInvOfLog
    <2> QED BY <2>1, <2>2
<1>15. SourceInv'
    BY <1>8 DEF LogsInv, SourceInv
<1>16. ASSUME all # <<>>
       PROVE  /\ download'.file = "log" /\ Bytes(all) = download'.size =>
                    \A i \in 1..download'.size : i <= Len(all) /\ all[i] = <<0, i>>
              /\ download'.file = "archive" /\ all # <<>> => all[1][1] = Len(archives')
    <2>1. CASE f = "log"
        <3>1. whole # <<>>
            <4>1. SUFFICES ASSUME whole = <<>> PROVE all = <<>>
                BY <1>16
            <4>2. Len(whole) = 0 /\ Len(old) <= Len(whole)
                BY <2>1, <4>1 DEF LogsInv, PodInvOfLog
            <4>3. Len(all) = 0
                BY <1>2, <1>3, <1>4, <4>2
            <4> QED BY <1>4, <4>3, EmptySeq
        <3>2. download.size <= Len(whole) /\ Len(old) <= download.size
            BY <2>1, <3>1 DEF LogsInv, SourceInv
        <3>3. \A i \in 1..Len(whole) : whole[i] = <<0, i>>
            BY <1>13, <2>1
        <3>4. new \in {whole} \union Stopped(whole)
            OBVIOUS
        <3>5. Bytes(all) = download.size =>
                \A i \in 1..download.size : i <= Len(all) /\ all[i] = <<0, i>>
            <4> HIDE DEF whole, old
            <4> QED BY <1>2, <3>1, <3>2, <3>3, <3>4, SplitBrings DEF all
        <3> QED BY <1>8, <2>1, <3>5
    <2>2. CASE f = "archive"
        <3>1. whole # <<>>
            <4>1. SUFFICES ASSUME whole = <<>> PROVE all = <<>>
                BY <1>16
            <4>2. old = <<>> /\ new = <<>>
                BY <2>2, <4>1 DEF LogsInv, SourceInv
            <4>3. Len(all) = 0
                BY <1>4, <4>2
            <4> QED BY <1>4, <4>3, EmptySeq
        <3>2. new \in {whole} \union Stopped(whole)
            OBVIOUS
        <3>3. all[1][1] = whole[1][1]
            <4> HIDE DEF whole, old
            <4> QED BY <1>2, <3>1, <3>2, SplitBegins DEF all
        <3>4. 1 \in 1..Len(whole)
            BY <1>2, <3>1, EmptySeq
        <3>5. whole[1][1] = Len(archives)
            BY <2>2, <3>4 DEF LogsInv, SourceInv
        <3> QED BY <1>8, <2>2, <3>3, <3>5
    <2> QED BY <1>1, <2>1, <2>2 DEF Files
<1>17. FetchInv'
    <2>1. download'.at \in {"resolve", "failed"}
        BY <1>8
    <2>2. download'.at = "resolve" => all # <<>>
        BY <1>8
    <2>3. \A i \in 1..Len(download'.parts) : download'.parts[i] = all[i]
        BY <1>8
    <2>4. download'.at = "resolve" => Fetched(chunks[download.file])'
        BY <1>7, <1>8, <1>16, <2>2, <2>3 DEF Fetched, Brings
    <2> QED BY <2>1, <2>4 DEF FetchInv, DownloadIsTrue
<1> QED BY <1>10, <1>11, <1>12, <1>14, <1>15, <1>17 DEF LogsInv

(* The call that splits is lost.                                           *)
LEMMA SplitIsLostStep == LogsInv /\ SplitIsLost => LogsInv'
<1> SUFFICES ASSUME LogsInv, SplitIsLost PROVE LogsInv'
    OBVIOUS
<1> DEFINE f == download.file
           whole == content[f]
           old == chunks[f]
<1>1. PICK k \in 0..Len(whole) : chunks' = [chunks EXCEPT ![f] = WriteOver(SubSeq(whole, 1, k), @)]
    BY DEF SplitIsLost
<1>2. /\ download.at = "split" /\ litter' = litter \union {f} /\ Fail
      /\ UNCHANGED <<local, content, archives, pod>>
    BY DEF SplitIsLost
<1>3. f \in Files
    BY <1>2 DEF LogsInv, CountsInv
<1>4. /\ whole \in Seq(Piece) /\ Len(whole) \in Nat /\ Len(whole) <= MaxSize
      /\ old \in Seq(Piece) /\ Len(old) \in Nat /\ Len(old) <= MaxSize
      /\ chunks \in [Files -> Pieces]
    BY <1>3 DEF LogsInv, LogsTypeOK, Pieces
<1> DEFINE new == SubSeq(whole, 1, k)
           all == WriteOver(new, old)
<1>5. new \in Seq(Piece) /\ Len(new) = k /\ \A i \in 1..k : new[i] = whole[i]
    <2>1. \A i \in 1..k : whole[i] \in Piece
        BY <1>4, ElementOfSeq
    <2> QED BY <1>4, <2>1, SubSeqProperties
<1>6. chunks' = [chunks EXCEPT ![f] = all]
    BY <1>1, <1>3, <1>4
<1> HIDE DEF new
<1>7. /\ all \in Seq(Piece)
      /\ Len(all) = IF k >= Len(old) THEN k ELSE Len(old)
      /\ \A i \in 1..Len(all) : all[i] = IF i <= k THEN new[i] ELSE old[i]
    BY <1>4, <1>5, WriteOverIs
<1> HIDE DEF all
<1>8. all \in Pieces
    <2>1. k \in Nat /\ k <= MaxSize
        BY <1>4, BoundsAssumption
    <2>2. Len(all) <= MaxSize
        BY <1>4, <1>7, <2>1
    <2> QED BY <1>7, <2>2 DEF Pieces
<1>9. /\ chunks' \in [Files -> Pieces] /\ chunks'[f] = all
      /\ \A g \in Files : g # f => chunks'[g] = chunks[g]
    BY <1>3, <1>4, <1>6, <1>8
<1>10. /\ download' \in Downloads /\ download'.at = "failed" /\ download'.file = f
       /\ download'.listed = download.listed /\ download'.parts = download.parts
    BY <1>2, ProceedIs DEF Fail, LogsInv, DownloadPlaces
<1>11. LogsTypeOK'
    BY <1>2, <1>3, <1>9, <1>10 DEF LogsInv, LogsTypeOK, Downloads
<1>12. CountsInv' /\ LeftInv'
    BY <1>2, <1>3, <1>9, <1>10 DEF LogsInv, CountsInv, LeftInv, Fetching
<1>13. PodInvOfLog'
    <2>1. CASE f # "log"
        BY <1>2, <1>9, <2>1 DEF LogsInv, PodInvOfLog, Files
    <2>2. CASE f = "log"
        <3>1. /\ Len(old) <= Len(whole)
              /\ \A i \in 1..Len(old) : old[i] \in {<<0, i>>, <<0, 0>>}
              /\ \A i \in 1..Len(whole) : whole[i] = <<0, i>>
            BY <2>2 DEF LogsInv, PodInvOfLog
        <3>2. Len(all) <= Len(whole)
            BY <1>4, <1>7, <3>1
        <3>3. ASSUME NEW i \in 1..Len(all) PROVE all[i] \in {<<0, i>>, <<0, 0>>}
            <4>1. CASE i <= k
                <5>1. i \in 1..k /\ i \in 1..Len(whole)
                    BY <1>4, <4>1
                <5> QED BY <1>5, <1>7, <3>1, <4>1, <5>1
            <4>2. CASE ~(i <= k)
                <5>1. i \in 1..Len(old) /\ all[i] = old[i]
                    BY <1>4, <1>7, <4>2
                <5> QED BY <3>1, <5>1
            <4> QED BY <4>1, <4>2
        <3>4. /\ \A i \in 1..Len(chunks'["log"]) : chunks'["log"][i] \in {<<0, i>>, <<0, 0>>}
              /\ Len(chunks'["log"]) <= Len(content["log"])
              /\ \A i \in 1..Len(content["log"]) : content["log"][i] = <<0, i>>
            BY <1>9, <2>2, <3>1, <3>2, <3>3
        <3> QED BY <1>2, <3>4 DEF PodInvOfLog
    <2> QED BY <2>1, <2>2
<1>14. SourceInv' /\ FetchInv'
    BY <1>10 DEF SourceInv, FetchInv, DownloadIsTrue
<1> QED BY <1>11, <1>12, <1>13, <1>14 DEF LogsInv

(* A try of a copy is prepared, or another one of it.                      *)
LEMMA TryStep ==
    ASSUME LogsInv, KeepFiles, download.at \in {"resolve", "try"}, download' \in Downloads,
           download'.at = "try", download'.file = download.file, download'.size = download.size,
           download'.listed = download.listed, download'.parts = download.parts
    PROVE  LogsInv'
<1>1. UNCHANGED <<local, content, chunks, archives, pod, litter>>
    BY DEF KeepFiles, KeepRemote, podVars
<1>2. LogsTypeOK'
    BY <1>1 DEF LogsInv, LogsTypeOK, Downloads
<1>3. CountsInv' /\ LeftInv' /\ PodInvOfLog' /\ SourceInv'
    BY <1>1 DEF LogsInv, CountsInv, LeftInv, Fetching, PodInvOfLog, SourceInv
<1>4. FetchInv'
    BY <1>1 DEF LogsInv, FetchInv, Fetched, Brings, DownloadIsTrue
<1> QED BY <1>2, <1>3, <1>4 DEF LogsInv

(* A file that did not come at the last try is given up.                   *)
LEMMA GiveUpStep ==
    ASSUME LogsInv, KeepFiles, download.at \in {"resolve", "try"}, GiveUp
    PROVE  LogsInv'
<1>1. download.listed \in Nat
    BY BoundsAssumption DEF LogsInv, LogsTypeOK
<1>2. CASE Direct
    BY <1>2, MoveStep DEF GiveUp, Direct, Fail, Fetching
<1>3. CASE ~Direct
    BY <1>1, <1>3, MoveStep DEF GiveUp, Direct
<1> QED BY <1>2, <1>3

(* _resolve_pod_name names the pod for all tries of a copy, or fails.      *)
LEMMA ResolveStep == LogsInv /\ ResolvePodName => LogsInv'
<1> SUFFICES ASSUME LogsInv, ResolvePodName PROVE LogsInv'
    OBVIOUS
<1>1. download.at = "resolve" /\ KeepFiles
    BY DEF ResolvePodName
<1>2. CASE download' = [download EXCEPT !.pod = pod, !.tries = 0, !.at = "try"]
    <2>1. download \in Downloads /\ pod \in 0..MaxPods /\ 0 \in 0..MAX_DOWNLOAD_RETRIES - 1
        BY RetriesAssumption DEF LogsInv, LogsTypeOK, Downloads
    <2>2. /\ download' \in Downloads /\ download'.at = "try"
          /\ download'.file = download.file /\ download'.size = download.size
          /\ download'.listed = download.listed /\ download'.parts = download.parts
        BY <1>2, <2>1 DEF Downloads, DownloadPlaces
    <2> QED BY <1>1, <2>2, TryStep
<1>3. CASE GiveUp
    BY <1>1, <1>3, GiveUpStep
<1> QED BY <1>2, <1>3 DEF ResolvePodName

(* A try fails: _download_file_with_retry tries again, or gives up.        *)
LEMMA CopyFailsStep == LogsInv /\ CopyFails => LogsInv'
<1> SUFFICES ASSUME LogsInv, CopyFails PROVE LogsInv'
    OBVIOUS
<1>1. download.at = "try" /\ KeepFiles
    BY DEF CopyFails
<1>2. CASE download.tries < MAX_DOWNLOAD_RETRIES - 1 /\ download' = [download EXCEPT !.tries = @ + 1]
    <2>1. download \in Downloads /\ download.tries \in 0..MAX_DOWNLOAD_RETRIES - 1
        BY DEF LogsInv, LogsTypeOK, Downloads
    <2>2. download.tries + 1 \in 0..MAX_DOWNLOAD_RETRIES - 1
        BY <1>2, <2>1, RetriesAssumption
    <2>3. /\ download' \in Downloads /\ download'.at = "try"
          /\ download'.file = download.file /\ download'.size = download.size
          /\ download'.listed = download.listed /\ download'.parts = download.parts
        BY <1>1, <1>2, <2>1, <2>2 DEF Downloads
    <2> QED BY <1>1, <2>3, TryStep
<1>3. CASE GiveUp
    BY <1>1, <1>3, GiveUpStep
<1> QED BY <1>2, <1>3 DEF CopyFails

(* A file that is not split comes in one piece.                            *)
LEMMA CopyFileStep == LogsInv /\ CopyFile => LogsInv'
<1> SUFFICES ASSUME LogsInv, CopyFile PROVE LogsInv'
    OBVIOUS
<1> DEFINE f == download.file
<1>1. /\ download.at = "try" /\ Direct /\ content[f] # <<>> /\ local' = content[f]
      /\ Proceed("verify") /\ KeepRemote
    BY DEF CopyFile
<1>2. f \in Files /\ download.listed = 0
    BY <1>1 DEF LogsInv, CountsInv, Direct
<1>3. content[f] \in Pieces /\ content[f] \in Seq(Piece) /\ Len(content[f]) \in Nat
    BY <1>2 DEF LogsInv, LogsTypeOK, Pieces
<1>4. /\ download' \in Downloads /\ download'.at = "verify"
      /\ download'.file = f /\ download'.size = download.size
      /\ download'.listed = download.listed /\ download'.parts = download.parts
    BY <1>1, ProceedIs DEF LogsInv, DownloadPlaces
<1>5. UNCHANGED <<content, chunks, archives, pod, litter>>
    BY <1>1 DEF KeepRemote, podVars
<1>6. LogsTypeOK'
    BY <1>1, <1>3, <1>4, <1>5 DEF LogsInv, LogsTypeOK, Downloads
<1>7. CountsInv' /\ LeftInv' /\ PodInvOfLog' /\ SourceInv'
    BY <1>1, <1>2, <1>4, <1>5 DEF LogsInv, CountsInv, LeftInv, Fetching, PodInvOfLog, SourceInv
<1>8. Brings(local)'
    <2>1. CASE f = "log"
        <3>1. download.size <= Len(content[f]) /\ \A i \in 1..Len(content[f]) : content[f][i] = <<0, i>>
            BY <1>1, <2>1 DEF LogsInv, SourceInv, PodInvOfLog
        <3>2. download.size \in Nat
            BY BoundsAssumption DEF LogsInv, LogsTypeOK
        <3>3. \A i \in 1..download.size : i <= Len(content[f]) /\ content[f][i] = <<0, i>>
            BY <1>3, <3>1, <3>2
        <3> QED BY <1>1, <1>4, <2>1, <3>3 DEF Brings
    <2>2. CASE f = "archive"
        <3>1. 1 \in 1..Len(content[f])
            BY <1>1, <1>3, EmptySeq
        <3>2. content[f][1][1] = Len(archives)
            BY <1>1, <2>2, <3>1 DEF LogsInv, SourceInv
        <3> QED BY <1>1, <1>4, <1>5, <2>2, <3>2 DEF Brings
    <2> QED BY <1>2, <2>1, <2>2 DEF Files
<1>9. FetchInv'
    BY <1>4, <1>8 DEF FetchInv, DownloadIsTrue
<1> QED BY <1>6, <1>7, <1>9 DEF LogsInv

(* A chunk comes, or the last one of them.                                 *)
LEMMA CopyChunkStep == LogsInv /\ CopyChunk => LogsInv'
<1> SUFFICES ASSUME LogsInv, CopyChunk PROVE LogsInv'
    OBVIOUS
<1> DEFINE f == download.file
           from == chunks[f]
           parts == download.parts
           next == Len(parts) + 1
           got == Append(parts, from[next])
           place == IF next = download.listed THEN "clean" ELSE "resolve"
<1>1. /\ download.at = "try" /\ ~Direct /\ KeepFiles /\ next <= Len(from)
      /\ download' = [download EXCEPT !.parts = got, !.tries = 0, !.at = place]
    BY DEF CopyChunk
<1>2. /\ f \in Files /\ download.listed \in Nat /\ download.listed > 0 /\ Len(parts) < download.listed
      /\ download.listed <= MaxSize
    BY <1>1, BoundsAssumption DEF LogsInv, LogsTypeOK, CountsInv, Direct
<1>3. /\ from \in Seq(Piece) /\ Len(from) \in Nat /\ parts \in Seq(Piece) /\ Len(parts) \in Nat
      /\ download \in Downloads
    BY <1>2 DEF LogsInv, LogsTypeOK, Pieces, Downloads
<1>4. from # <<>> /\ next \in 1..Len(from)
    <2>1. next \in Nat /\ next > 0
        BY <1>3
    <2>2. Len(from) # 0 /\ next \in 1..Len(from)
        BY <1>1, <1>3, <2>1
    <2> QED BY <1>3, <2>2, EmptySeq
<1>5. Len(from) = download.listed /\ (\A i \in 1..Len(parts) : parts[i] = from[i]) /\ Brings(from)
    BY <1>1, <1>2, <1>4 DEF LogsInv, FetchInv, Fetched
<1>6. from[next] \in Piece
    BY <1>3, <1>4, ElementOfSeq
<1>7. /\ got \in Seq(Piece) /\ Len(got) = next
      /\ \A i \in 1..next : got[i] = from[i]
    <2>1. /\ got \in Seq(Piece) /\ Len(got) = next /\ got[next] = from[next]
          /\ \A i \in 1..Len(parts) : got[i] = parts[i]
        BY <1>3, <1>6, AppendProperties
    <2>2. \A i \in 1..next : i = next \/ i \in 1..Len(parts)
        BY <1>3
    <2> HIDE DEF got, next, parts, from
    <2> QED BY <1>5, <2>1, <2>2
<1>8. next \in Nat /\ next <= download.listed /\ next <= MaxSize
    BY <1>2, <1>3, BoundsAssumption
<1>9. got \in Pieces
    BY <1>7, <1>8 DEF Pieces
<1> HIDE DEF got, next
<1>10. /\ download' \in Downloads /\ download'.at = place
       /\ download'.file = f /\ download'.size = download.size
       /\ download'.listed = download.listed /\ download'.parts = got
    <2>1. 0 \in 0..MAX_DOWNLOAD_RETRIES - 1
        BY RetriesAssumption
    <2> QED BY <1>1, <1>3, <1>9, <2>1 DEF Downloads, DownloadPlaces
<1>11. UNCHANGED <<local, content, chunks, archives, pod, litter>>
    BY <1>1 DEF KeepFiles, KeepRemote, podVars
<1>12. LogsTypeOK'
    BY <1>7, <1>8, <1>10, <1>11 DEF LogsInv, LogsTypeOK, Downloads
<1>13. CountsInv'
    BY <1>2, <1>7, <1>8, <1>10 DEF CountsInv
<1>14. LeftInv' /\ PodInvOfLog' /\ SourceInv'
    BY <1>1, <1>2, <1>10, <1>11 DEF LogsInv, LeftInv, Fetching, PodInvOfLog, SourceInv
<1>15. FetchInv'
    <2>1. CASE next = download.listed
        <3>1. got = from
            <4>1. got \in Seq(Piece) /\ Len(got) = Len(from) /\ \A i \in 1..Len(got) : got[i] = from[i]
                BY <1>5, <1>7, <2>1
            <4>2. from \in Seq(Piece)
                BY <1>3
            <4> HIDE DEF from
            <4> QED BY <4>1, <4>2, SeqEqual
        <3>2. Brings(from)'
            BY <1>5, <1>10, <1>11 DEF Brings
        <3>3. Brings(download.parts)'
            BY <1>10, <1>11, <3>1, <3>2
        <3> QED BY <1>10, <2>1, <3>3 DEF FetchInv, DownloadIsTrue
    <2>2. CASE next # download.listed
        <3>1. Brings(from)'
            BY <1>5, <1>10, <1>11 DEF Brings
        <3>2. Fetched(from)'
            BY <1>5, <1>7, <1>10, <1>11, <3>1 DEF Fetched
        <3>3. Fetched(chunks[download.file])'
            BY <1>10, <1>11, <3>2
        <3> QED BY <1>10, <2>2, <3>3 DEF FetchInv, DownloadIsTrue
    <2> QED BY <2>1, <2>2
<1> QED BY <1>12, <1>13, <1>14, <1>15 DEF LogsInv

(* The chunks are removed from the pod, or the call that does it is lost.  *)
LEMMA CleanupStep == LogsInv /\ CleanupRemoteFiles => LogsInv'
<1> SUFFICES ASSUME LogsInv, CleanupRemoteFiles PROVE LogsInv'
    OBVIOUS
<1> DEFINE f == download.file
           place == IF download.at = "clean" THEN "join" ELSE "failed"
<1>1. /\ download.at \in {"clean", "giveup"} /\ Proceed(place)
      /\ UNCHANGED <<local, content, archives, pod>>
      /\ \/ chunks' = [chunks EXCEPT ![f] = <<>>] /\ litter' = litter \ {f}
         \/ litter' = litter \union {f} /\ UNCHANGED chunks
    BY DEF CleanupRemoteFiles
<1>2. f \in Files /\ chunks \in [Files -> Pieces]
    BY <1>1 DEF LogsInv, LogsTypeOK, CountsInv
<1>3. /\ chunks' \in [Files -> Pieces]
      /\ \A g \in Files : chunks'[g] = chunks[g] \/ chunks'[g] = <<>>
      /\ \A g \in Files : chunks'[g] # <<>> => chunks[g] # <<>> /\ (g = f => g \in litter')
      /\ \A g \in Files : g # f /\ g \in litter => g \in litter'
      /\ litter' \subseteq Files
    BY <1>1, <1>2, NoDownloadIs DEF LogsInv, LogsTypeOK
<1>4. place \in {"join", "failed"} /\ (place = "join" => download.at = "clean")
    OBVIOUS
<1> HIDE DEF place
<1>5. /\ download' \in Downloads /\ download'.at = place
      /\ download'.file = f /\ download'.size = download.size
      /\ download'.listed = download.listed /\ download'.parts = download.parts
    BY <1>1, <1>4, ProceedIs DEF LogsInv, DownloadPlaces
<1>6. LogsTypeOK'
    BY <1>1, <1>3, <1>5 DEF LogsInv, LogsTypeOK, Downloads
<1>7. CountsInv' /\ SourceInv'
    BY <1>2, <1>4, <1>5 DEF CountsInv, SourceInv
<1>8. LeftInv'
    BY <1>3 DEF LogsInv, LeftInv, Fetching
<1>9. PodInvOfLog'
    <2>1. Len(<<>>) = 0 /\ "log" \in Files
        BY DEF Files
    <2>2. Len(content["log"]) \in Nat
        BY <2>1 DEF LogsInv, LogsTypeOK, Pieces
    <2>3. chunks'["log"] = chunks["log"] \/ chunks'["log"] = <<>>
        BY <1>3, <2>1
    <2> QED BY <1>1, <2>1, <2>2, <2>3 DEF LogsInv, PodInvOfLog
<1>10. FetchInv'
    <2>1. place = "join" => Brings(download.parts)'
        BY <1>1, <1>4, <1>5 DEF LogsInv, FetchInv, Brings
    <2> QED BY <1>4, <1>5, <2>1 DEF FetchInv, DownloadIsTrue
<1> QED BY <1>6, <1>7, <1>8, <1>9, <1>10 DEF LogsInv

(* _reassemble_chunks joins the chunks, or fails.                          *)
LEMMA JoinStep == LogsInv /\ ReassembleChunks => LogsInv'
<1> SUFFICES ASSUME LogsInv, ReassembleChunks PROVE LogsInv'
    OBVIOUS
<1>1. download.at = "join" /\ KeepRemote
    BY DEF ReassembleChunks
<1>2. CASE Fail /\ UNCHANGED local
    BY <1>1, <1>2, MoveStep DEF KeepFiles, Fail, Fetching
<1>3. CASE local' = download.parts /\ Proceed("verify")
    <2>1. /\ download' \in Downloads /\ download'.at = "verify"
          /\ download'.file = download.file /\ download'.size = download.size
          /\ download'.listed = download.listed /\ download'.parts = download.parts
        BY <1>3, ProceedIs DEF LogsInv, DownloadPlaces
    <2>2. UNCHANGED <<content, chunks, archives, pod, litter>>
        BY <1>1 DEF KeepRemote, podVars
    <2>3. LogsTypeOK'
        BY <1>3, <2>1, <2>2 DEF LogsInv, LogsTypeOK, Downloads
    <2>4. CountsInv' /\ LeftInv' /\ PodInvOfLog' /\ SourceInv'
        BY <1>1, <2>1, <2>2 DEF LogsInv, CountsInv, LeftInv, Fetching, PodInvOfLog, SourceInv
    <2>5. Brings(local)'
        BY <1>1, <1>3, <2>1, <2>2 DEF LogsInv, FetchInv, Brings
    <2>6. FetchInv'
        BY <2>1, <2>5 DEF FetchInv, DownloadIsTrue
    <2> QED BY <2>3, <2>4, <2>6 DEF LogsInv
<1> QED BY <1>2, <1>3 DEF ReassembleChunks

(* _download_large_file compares the size with the one it read, and warns. *)
LEMMA VerifyStep == LogsInv /\ Verify => LogsInv'
<1> SUFFICES ASSUME LogsInv, Verify PROVE LogsInv'
    OBVIOUS
<1> DEFINE place == IF download.file = "log" THEN "done" ELSE "extract"
           differs == Bytes(local) # download.size
<1>1. /\ download.at = "verify" /\ KeepFiles
      /\ download' = [download EXCEPT !.warned = differs, !.at = place]
    BY DEF Verify
<1>2. UNCHANGED <<local, content, chunks, archives, pod, litter>>
    BY <1>1 DEF KeepFiles, KeepRemote, podVars
<1>3. differs \in BOOLEAN
    BY Zenon
<1>4. place \in {"done", "extract"} /\ (place = "done" <=> download.file = "log")
    OBVIOUS
<1> HIDE DEF differs, place
<1>5. download \in Downloads /\ download.file \in Files
    BY <1>1 DEF LogsInv, LogsTypeOK, CountsInv, Downloads
<1>6. /\ download' \in Downloads /\ download'.at = place /\ download'.warned = differs
      /\ download'.file = download.file /\ download'.size = download.size
      /\ download'.listed = download.listed /\ download'.parts = download.parts
    BY <1>1, <1>3, <1>4, <1>5 DEF Downloads, DownloadPlaces
<1>7. LogsTypeOK'
    BY <1>2, <1>6 DEF LogsInv, LogsTypeOK, Downloads
<1>8. CountsInv' /\ LeftInv' /\ PodInvOfLog' /\ SourceInv'
    BY <1>1, <1>2, <1>4, <1>5, <1>6 DEF LogsInv, CountsInv, LeftInv, Fetching, PodInvOfLog, SourceInv, Files
<1>9. Brings(local)
    BY <1>1 DEF LogsInv, FetchInv
<1>10. Brings(local)'
    BY <1>2, <1>6, <1>9 DEF Brings
<1>11. DownloadIsTrue'
    <2>1. download'.file = "log" /\ ~download'.warned =>
             \A i \in 1..download'.size : i <= Len(local') /\ local'[i] = <<0, i>>
        BY <1>2, <1>6, <1>9 DEF Brings, differs
    <2>2. download'.at = "done" => download'.file # "archive"
        BY <1>4, <1>6
    <2> QED BY <2>1, <2>2 DEF DownloadIsTrue
<1>12. FetchInv'
    BY <1>4, <1>6, <1>10, <1>11 DEF FetchInv
<1> QED BY <1>7, <1>8, <1>12 DEF LogsInv

(* download_logs unpacks a whole archive, which is the one made last.      *)
LEMMA ExtractStep == LogsInv /\ Extract => LogsInv'
<1> SUFFICES ASSUME LogsInv, Extract PROVE LogsInv'
    OBVIOUS
<1>1. download.at = "extract" /\ KeepFiles
    BY DEF Extract
<1>2. CASE Fail
    BY <1>1, <1>2, MoveStep DEF Fail, Fetching
<1>3. ASSUME NEW v \in DOMAIN archives, local = Whole(v), Proceed("remove")
      PROVE  LogsInv'
    <2>1. /\ download' \in Downloads /\ download'.at = "remove"
          /\ download'.file = download.file /\ download'.size = download.size
          /\ download'.listed = download.listed /\ download'.parts = download.parts
        BY <1>3, ProceedIs DEF LogsInv, DownloadPlaces
    <2>2. UNCHANGED <<local, content, chunks, archives, pod, litter>>
        BY <1>1 DEF KeepFiles, KeepRemote, podVars
    <2>3. LogsTypeOK'
        BY <2>1, <2>2 DEF LogsInv, LogsTypeOK, Downloads
    <2>4. CountsInv' /\ LeftInv' /\ PodInvOfLog' /\ SourceInv'
        BY <1>1, <2>1, <2>2 DEF LogsInv, CountsInv, LeftInv, Fetching, PodInvOfLog, SourceInv
    <2>5. archives[v] \in 1..MaxSize
        <3>1. archives \in Seq(1..MaxSize)
            BY DEF LogsInv, LogsTypeOK
        <3> QED BY <1>3, <3>1, LenProperties, ElementOfSeq
    <2>6. 1 \in 1..archives[v]
        BY <2>5, BoundsAssumption
    <2>7. Whole(v)[1] = <<v, 1>> /\ 1 \in DOMAIN Whole(v)
        BY <2>6 DEF Whole
    <2>8. local # <<>> /\ local[1][1] = v
        BY <1>3, <2>7
    <2>9. v = Len(archives)
        BY <1>1, <2>8 DEF LogsInv, CountsInv, FetchInv, Brings
    <2>10. (local = Whole(Len(archives)))'
        BY <1>3, <2>2, <2>9 DEF Whole
    <2>11. FetchInv'
        BY <2>1, <2>10 DEF FetchInv, DownloadIsTrue
    <2> QED BY <2>3, <2>4, <2>11 DEF LogsInv
<1> QED BY <1>2, <1>3 DEF Extract

(* download_logs removes the remote archive, and is done.                  *)
LEMMA RemoveStep == LogsInv /\ RemoveArchive => LogsInv'
<1> SUFFICES ASSUME LogsInv, RemoveArchive PROVE LogsInv'
    OBVIOUS
<1>1. /\ download.at = "remove" /\ Proceed("done") /\ UNCHANGED <<local, chunks, archives, pod, litter>>
      /\ content' \in {content, [content EXCEPT !["archive"] = <<>>]}
    BY DEF RemoveArchive
<1>2. /\ download' \in Downloads /\ download'.at = "done"
      /\ download'.file = download.file /\ download'.size = download.size
      /\ download'.listed = download.listed /\ download'.parts = download.parts
    BY <1>1, ProceedIs DEF LogsInv, DownloadPlaces
<1>3. content' \in [Files -> Pieces] /\ content'["log"] = content["log"]
    BY <1>1, NoDownloadIs DEF LogsInv, LogsTypeOK, Files
<1>4. LogsTypeOK'
    BY <1>1, <1>2, <1>3 DEF LogsInv, LogsTypeOK, Downloads
<1>5. CountsInv' /\ LeftInv' /\ PodInvOfLog' /\ SourceInv'
    BY <1>1, <1>2, <1>3 DEF LogsInv, CountsInv, LeftInv, Fetching, PodInvOfLog, SourceInv
<1>6. download.file = "archive" /\ local = Whole(Len(archives))
    BY <1>1 DEF LogsInv, CountsInv, FetchInv
<1>7. (local = Whole(Len(archives)))'
    BY <1>1, <1>6 DEF Whole
<1>8. FetchInv'
    BY <1>2, <1>6, <1>7 DEF FetchInv, DownloadIsTrue
<1> QED BY <1>4, <1>5, <1>8 DEF LogsInv

(* At first there are no files.                                            *)
LEMMA InitLogsInv == LogsInit => LogsInv
<1> SUFFICES ASSUME LogsInit PROVE LogsInv
    OBVIOUS
<1>1. /\ download = NoDownload /\ local = <<>> /\ archives = <<>> /\ pod = 0 /\ litter = {}
      /\ \A f \in Files : content[f] = <<>> /\ chunks[f] = <<>>
      /\ content \in [Files -> Pieces] /\ chunks \in [Files -> Pieces]
    BY NoDownloadIs DEF LogsInit
<1>2. Len(<<>>) = 0 /\ <<>> \in Seq(1..MaxSize) /\ "log" \in Files
    BY DEF Files
<1>3. LogsTypeOK
    BY <1>1, <1>2, NoDownloadIs, BoundsAssumption DEF LogsTypeOK, Downloads
<1>4. CountsInv /\ LeftInv /\ PodInvOfLog /\ SourceInv /\ FetchInv
    BY <1>1, <1>2, NoDownloadIs
       DEF CountsInv, LeftInv, PodInvOfLog, SourceInv, FetchInv, DownloadIsTrue
<1> QED BY <1>3, <1>4 DEF LogsInv

(* No step of a download breaks it.                                        *)
LEMMA StepLogsInv == LogsInv /\ [LogsNext]_logsVars => LogsInv'
<1> SUFFICES ASSUME LogsInv, [LogsNext]_logsVars PROVE LogsInv'
    OBVIOUS
<1>1. CASE UNCHANGED logsVars
    <2>1. UNCHANGED <<download, local, content, chunks, archives, pod, litter>>
        BY <1>1 DEF logsVars, podVars
    <2>2. LogsTypeOK' /\ CountsInv'
        BY <2>1 DEF LogsInv, LogsTypeOK, CountsInv
    <2>3. LeftInv' /\ PodInvOfLog' /\ SourceInv'
        BY <2>1 DEF LogsInv, LeftInv, Fetching, PodInvOfLog, SourceInv
    <2>4. FetchInv'
        BY <2>1 DEF LogsInv, FetchInv, Fetched, Brings, DownloadIsTrue, Whole
    <2> QED BY <2>2, <2>3, <2>4 DEF LogsInv
<1>2. CASE Interrupt
    <2>1. /\ download.at \notin {"none", "done", "failed", "clean", "giveup"} /\ KeepFiles
          /\ Proceed(IF download.at \in {"resolve", "try"} /\ download.listed > 0 THEN "giveup" ELSE "failed")
        BY <1>2 DEF Interrupt
    <2>2. CASE download.at \in {"resolve", "try"} /\ download.listed > 0
        BY <2>1, <2>2, MoveStep
    <2>3. CASE ~(download.at \in {"resolve", "try"} /\ download.listed > 0)
        BY <2>1, <2>3, MoveStep DEF Fetching
    <2> QED BY <2>2, <2>3
<1>3. CASE FindDirectories
    BY <1>3, MoveStep DEF FindDirectories, Fail, Fetching
<1>4. CASE SplitRemoteFile
    <2>1. PICK new \in {content[download.file]} \union
                       {part \in Stopped(content[download.file]) : content[download.file] # <<>>} :
            SplitTo(new)
        BY <1>4 DEF SplitRemoteFile
    <2> QED BY <1>4, <2>1, SplitToStep DEF SplitRemoteFile
<1> QED BY <1>1, <1>2, <1>3, <1>4, LogGrowsStep, PodReplacedStep, AskSteps, TarStep, SizeStep,
        SplitIsLostStep, ResolveStep, CopyFileStep, CopyChunkStep, CopyFailsStep, CleanupStep,
        JoinStep, VerifyStep, ExtractStep, RemoveStep DEF LogsNext

(* The invariant of the downloads, one after another: in every state.      *)
THEOREM LogsInvariant == LogsSpec => []LogsInv
BY InitLogsInv, StepLogsInv, PTL DEF LogsSpec

(* The state of the downloads keeps its types.                             *)
THEOREM LogsTypeCorrect == LogsSpec => []LogsTypeOK
<1>1. LogsInv => LogsTypeOK
    BY DEF LogsInv
<1> QED BY LogsInvariant, <1>1, PTL

(* A download that is reported done and without a warning brought what was *)
(* asked for, whatever chunks were left and whatever split wrote over them.*)
THEOREM DownloadsAreTrue == LogsSpec => []DownloadIsTrue
<1>1. LogsInv => DownloadIsTrue
    BY DEF LogsInv, FetchInv
<1> QED BY LogsInvariant, <1>1, PTL

(* The "finally" of _download_large_file_chunked leaves no chunks behind   *)
(* unless the call that makes or removes them was lost.                    *)
THEOREM NoChunksAreLeft == LogsSpec => []ChunksAreCleaned
<1>1. LogsInv => ChunksAreCleaned
    BY DEF LogsInv, LeftInv, Fetching, ChunksAreCleaned
<1> QED BY LogsInvariant, <1>1, PTL
===============================================================================
