------------------------------ MODULE RemoteRun ------------------------------
(***************************************************************************)
(* Runs in the orchestrator pod, driven from the operator's machine by     *)
(* remote_cli.py, manager_remote.py and manager_remote_batch.py through    *)
(* KubernetesLocalProxy.  A command is a shell script sent by "kubectl     *)
(* exec"; the pod goes on between two lines of it, and a connection that   *)
(* breaks ends the command but not the script.                             *)
(*                                                                         *)
(* A simulation ("single") is a shell that runs manager.py and writes its  *)
(* exit code to exit_status; the pid file names the shell.  A batch is     *)
(* scenario_runner.py itself.  What a runner does with a signal is module  *)
(* Batch.  The operator gives one command at a time.                       *)
(*                                                                         *)
(* A pid is taken not to be given to another process while its pod lives.  *)
(* Left out: status.json, which nothing reads, whose progress the runners' *)
(* common file holds, and the tailing of logs.                             *)
(***************************************************************************)
EXTENDS Naturals, FiniteSets

CONSTANTS
    Ids,            \* the ids uuid4 gives, each to one run
    NoId,           \* no id
    PodInits,       \* may the first process of the pod collect orphans?
    MaxReplaced,    \* bound on the pods that are replaced
    MaxAdrift       \* bound on the scripts that go on unheard

ASSUME IdsAssumption == IsFiniteSet(Ids) /\ NoId \notin Ids
ASSUME PodInitsAssumption == PodInits \subseteq BOOLEAN
ASSUME MaxReplacedAssumption == MaxReplaced \in Nat /\ MaxAdrift \in Nat

VARIABLES
    command,        \* the command under way
    savedRun,       \* .run-<namespace>: kind and id
    saved,          \* .simulation-<namespace> and .runner-<namespace>
    collects,       \* whether this pod's first process collects orphans
    replaced,       \* pods replaced so far
    kind,           \* what each id was given to
    stage,          \* how far the script that starts it came
    process,        \* the process its pid file is to name
    manager,        \* manager.py of a simulation
    exitStatus,     \* its file exit_status
    progress,       \* scenario-runner-status.json, which all runners share
    adrift,         \* scripts of a stop or a skip that lost their command
    signalled       \* the runs a stop or a skip hit, a history

operatorVars == <<command, savedRun, saved>>
startVars == <<kind, stage>>
processVars == <<process, manager, exitStatus, progress>>
vars == <<operatorVars, startVars, processVars, collects, replaced, adrift, signalled>>

Kinds == {"single", "batch"}
Verbs == {"none", "run", "status", "stop", "skip", "deploy"}
Saved == [kind : Kinds \union {"none"}, id : Ids \union {NoId}]
NothingSaved == [kind |-> "none", id |-> NoId]

(* over, early: whether the run had ended, or its start had not, when the  *)
(* command was given (history).                                            *)
NoCommand == [verb |-> "none", kind |-> "none", id |-> NoId, at |-> "none", said |-> "none",
              over |-> FALSE, early |-> FALSE]

Places == {"none", "wait", "save", "sent", "ps", "exit", "progress", "kill", "apply", "told"}
InPod == {"ps", "exit", "progress", "kill"}
Answers == {"none", "not_found", "error", "running", "completed", "failed", "terminated",
            "not_running", "signalled", "stopped"}
SignalScripts == [verb : {"stop", "skip"}, kind : Kinds, id : Ids]

TypeOK ==
    /\ command \in [verb : Verbs, kind : Kinds \union {"none"}, id : Ids \union {NoId},
                    at : Places, said : Answers, over : BOOLEAN, early : BOOLEAN]
    /\ savedRun \in Saved
    /\ saved \in [Kinds -> Ids \union {NoId}]
    /\ collects \in BOOLEAN /\ replaced \in 0..MaxReplaced
    /\ kind \in [Ids -> Kinds \union {"none"}]
    /\ stage \in [Ids -> {"none", "sent", "made", "launched", "opened", "recorded", "wiped"}]
    /\ process \in [Ids -> {"none", "boot", "running", "stopping", "zombie", "gone"}]
    /\ manager \in [Ids -> {"none", "running", "ok", "error"}]
    /\ exitStatus \in [Ids -> {"none", "empty", "ok", "error"}]
    /\ progress \in {"none", "empty", "written"}
    /\ adrift \subseteq SignalScripts
    /\ signalled \subseteq Ids
    /\ \A r \in Ids : process[r] # "none" => stage[r] \notin {"none", "sent", "made"}

Init ==
    /\ command = NoCommand
    /\ savedRun = NothingSaved
    /\ saved = [k \in Kinds |-> NoId]
    /\ collects \in PodInits
    /\ replaced = 0
    /\ kind = [r \in Ids |-> "none"]
    /\ stage = [r \in Ids |-> "none"]
    /\ process = [r \in Ids |-> "none"]
    /\ manager = [r \in Ids |-> "none"]
    /\ exitStatus = [r \in Ids |-> "none"]
    /\ progress = "none"
    /\ adrift = {}
    /\ signalled = {}

Alive(r) == process[r] \in {"boot", "running", "stopping"}

(* A simulation runs as long as its manager does, whoever waits for it.    *)
Runs(r) == Alive(r) \/ manager[r] = "running"

(* "ps -p": a dead process stays listed until its parent collects it.  The *)
(* script that started it has ended, so that is the pod's first process.   *)
Listed(r) == Alive(r) \/ process[r] = "zombie"
Ended == IF collects THEN "gone" ELSE "zombie"

-----------------------------------------------------------------------------
(* The commands, on the operator's machine.                                *)

Give(verb, k, r, at) ==
    command' = [verb |-> verb, kind |-> k, id |-> r, at |-> at, said |-> "none",
                over |-> ~Runs(r) /\ process[r] # "none", early |-> stage[r] # "recorded"]

Goto(place) == command' = [command EXCEPT !.at = place]
Tell(answer) == command' = [command EXCEPT !.at = "told", !.said = answer]

(* stop_simulation answers "stopped" whatever its script printed.          *)
TellSignal(answer) == Tell(IF command.kind = "single" THEN "stopped" ELSE answer)

KeepPod == UNCHANGED <<startVars, processVars, collects, replaced, adrift, signalled>>
KeepProcesses == UNCHANGED <<processVars, collects, replaced, adrift, signalled>>

(* _load_run: the run a verb without --id is about.                        *)
ActiveRun ==
    IF savedRun.id # NoId THEN savedRun
    ELSE IF saved["batch"] # NoId THEN [kind |-> "batch", id |-> saved["batch"]]
    ELSE IF saved["single"] # NoId THEN [kind |-> "single", id |-> saved["single"]]
    ELSE NothingSaved

(* The runs a verb for runs of kind k can be about: one named with --id,   *)
(* of whatever kind it is, the active one, or the older CLI's own.         *)
Targets(k) ==
    {r \in Ids : kind[r] # "none"}
        \union ({saved[k]} \ {NoId})
        \union {r \in Ids : ActiveRun = [kind |-> k, id |-> r]}

(* run: the script that starts the run is sent to the pod.                 *)
StartCommand(k, r) ==
    /\ command = NoCommand
    /\ kind[r] = "none"
    /\ Give("run", k, r, "wait")
    /\ kind' = [kind EXCEPT ![r] = k]
    /\ stage' = [stage EXCEPT ![r] = "sent"]
    /\ UNCHANGED <<savedRun, saved>>
    /\ KeepProcesses

RunSimulation(r) == StartCommand("single", r)
RunScenarioBatch(r) == StartCommand("batch", r)

(* The older CLI saves the id in the file of its kind.                     *)
SaveId ==
    /\ command.at = "wait" /\ stage[command.id] = "recorded"
    /\ saved' = [saved EXCEPT ![command.kind] = command.id]
    /\ Goto("save")
    /\ UNCHANGED savedRun
    /\ KeepPod

(* cmd_run reads that file again and saves kind and id; the older CLIs are *)
(* done without it.                                                        *)
SaveRun ==
    /\ command.at = "save"
    /\ savedRun' \in {savedRun, [kind |-> command.kind, id |-> saved[command.kind]]}
    /\ command' = NoCommand
    /\ UNCHANGED saved
    /\ KeepPod

(* The other verbs send a script that looks at the run.                    *)
Send(verb, k) ==
    /\ command = NoCommand
    /\ \E r \in Targets(k) : Give(verb, k, r, "sent")
    /\ UNCHANGED <<savedRun, saved>>
    /\ KeepPod

AskSimulation == Send("status", "single")
AskRunner == Send("status", "batch")
StopSimulationCommand == Send("stop", "single")
StopRunnerCommand == Send("stop", "batch")
SkipCommand == Send("skip", "batch")

(* No connection, a connection that breaks, or the operator interrupts.    *)
(* The script of a stop or a skip may go on, or never have begun; one that *)
(* only looks has nobody left to answer.                                   *)
CutOff ==
    /\ command.at \notin {"none", "told"}
    /\ command' = NoCommand
    /\ \/ UNCHANGED adrift
       \/ /\ command.verb \in {"stop", "skip"} /\ Cardinality(adrift) < MaxAdrift
          /\ adrift' = adrift \union
                {[verb |-> command.verb, kind |-> command.kind, id |-> command.id]}
    /\ UNCHANGED <<savedRun, saved, startVars, processVars, collects, replaced, signalled>>

Done ==
    /\ command.at = "told"
    /\ command' = NoCommand
    /\ UNCHANGED <<savedRun, saved>>
    /\ KeepPod

-----------------------------------------------------------------------------
(* The script that starts a run: a directory, the process in the           *)
(* background, and its pid in a file, which ">" creates empty first.       *)

KeepCommand == UNCHANGED operatorVars

MakeDirectory(r) ==
    /\ stage[r] = "sent"
    /\ stage' = [stage EXCEPT ![r] = "made"]
    /\ UNCHANGED kind
    /\ KeepCommand /\ KeepProcesses

Started(r) ==
    /\ stage[r] = "made"
    /\ stage' = [stage EXCEPT ![r] = "launched"]
    /\ UNCHANGED <<kind, exitStatus, progress, collects, replaced, adrift, signalled>>
    /\ KeepCommand

LaunchSimulation(r) ==
    /\ kind[r] = "single" /\ Started(r)
    /\ process' = [process EXCEPT ![r] = "running"]
    /\ manager' = [manager EXCEPT ![r] = "running"]

LaunchRunner(r) ==
    /\ kind[r] = "batch" /\ Started(r)
    /\ process' = [process EXCEPT ![r] = "boot"]
    /\ UNCHANGED manager

OpenPidFile(r) ==
    /\ stage[r] = "launched"
    /\ stage' = [stage EXCEPT ![r] = "opened"]
    /\ UNCHANGED kind
    /\ KeepCommand /\ KeepProcesses

WritePid(r) ==
    /\ stage[r] = "opened"
    /\ stage' = [stage EXCEPT ![r] = "recorded"]
    /\ UNCHANGED kind
    /\ KeepCommand /\ KeepProcesses

-----------------------------------------------------------------------------
(* The processes in the pod.                                               *)

KeepOthers == KeepCommand /\ UNCHANGED <<startVars, collects, replaced, adrift, signalled>>

(* External: manager.py ends, on its own or for a signal, see ManagerRun.  *)
ManagerEnds(r) ==
    /\ manager[r] = "running"
    /\ \E code \in {"ok", "error"} : manager' = [manager EXCEPT ![r] = code]
    /\ UNCHANGED <<process, exitStatus, progress>>
    /\ KeepOthers

(* The completion wrapper records the exit code in a file that ">" creates *)
(* empty first, and exits.                                                 *)
OpenExit(r) ==
    /\ kind[r] = "single" /\ process[r] = "running"
    /\ manager[r] \in {"ok", "error"} /\ exitStatus[r] = "none"
    /\ exitStatus' = [exitStatus EXCEPT ![r] = "empty"]
    /\ UNCHANGED <<process, manager, progress>>
    /\ KeepOthers

RecordExit(r) ==
    /\ kind[r] = "single" /\ process[r] = "running"
    /\ exitStatus[r] = "empty"
    /\ exitStatus' = [exitStatus EXCEPT ![r] = manager[r]]
    /\ UNCHANGED <<process, manager, progress>>
    /\ KeepOthers

(* Wrong variant: the wrapper ends with its manager.                       *)
WrapperExitsFirst(r) ==
    /\ kind[r] = "single" /\ process[r] = "running"
    /\ manager[r] \in {"ok", "error"}
    /\ process' = [process EXCEPT ![r] = Ended]
    /\ UNCHANGED <<manager, exitStatus, progress>>
    /\ KeepOthers

WrapperExits(r) ==
    /\ kind[r] = "single" /\ process[r] = "running"
    /\ exitStatus[r] \in {"ok", "error"}
    /\ process' = [process EXCEPT ![r] = Ended]
    /\ UNCHANGED <<manager, exitStatus, progress>>
    /\ KeepOthers

(* The runner installs its handlers once it has been constructed.          *)
RunnerReady(r) ==
    /\ process[r] = "boot"
    /\ process' = [process EXCEPT ![r] = "running"]
    /\ UNCHANGED <<manager, exitStatus, progress>>
    /\ KeepOthers

RunnerEnds(r) ==
    /\ kind[r] = "batch" /\ Alive(r)
    /\ process' = [process EXCEPT ![r] = Ended]
    /\ UNCHANGED <<manager, exitStatus, progress>>
    /\ KeepOthers

(* _write_current_status: the file is truncated, and then written.         *)
OpenProgress(r) ==
    /\ kind[r] = "batch" /\ process[r] \in {"running", "stopping"}
    /\ progress # "empty"
    /\ progress' = "empty"
    /\ UNCHANGED <<process, manager, exitStatus>>
    /\ KeepOthers

WriteProgress(r) ==
    /\ kind[r] = "batch" /\ process[r] \in {"running", "stopping"}
    /\ progress = "empty"
    /\ progress' = "written"
    /\ UNCHANGED <<process, manager, exitStatus>>
    /\ KeepOthers

(* What a new pod has of the old one: the volume with the run archives.    *)
NewPod ==
    /\ replaced < MaxReplaced
    /\ replaced' = replaced + 1
    /\ stage' = [r \in Ids |-> IF stage[r] = "none" THEN "none" ELSE "wiped"]
    /\ process' = [r \in Ids |-> IF process[r] = "none" THEN "none" ELSE "gone"]
    /\ manager' = [r \in Ids |-> IF manager[r] = "running" THEN "error" ELSE manager[r]]
    /\ exitStatus' = [r \in Ids |-> "none"]
    /\ progress' = "none"
    /\ adrift' = {}
    /\ UNCHANGED <<kind, collects, signalled>>

(* External: the pod is evicted or killed, and its deployment starts one.  *)
(* A script that runs in it is lost with it.                               *)
PodDies ==
    /\ NewPod
    /\ command' = IF command.at \in InPod THEN NoCommand ELSE command
    /\ UNCHANGED <<savedRun, saved>>

(* deploy: the manifests are applied; when the deployment has changed, a   *)
(* new pod takes the old one's place, whatever runs there.                 *)
DeployCommand ==
    /\ command = NoCommand
    /\ command' = [NoCommand EXCEPT !.verb = "deploy", !.at = "apply"]
    /\ UNCHANGED <<savedRun, saved>>
    /\ KeepPod

Apply ==
    /\ command.at = "apply"
    /\ Tell("none")
    /\ UNCHANGED <<savedRun, saved>>
    /\ (NewPod \/ KeepPod)

-----------------------------------------------------------------------------
(* The scripts that look at a run, in the pod.  Another process may act    *)
(* between any two of their tests.                                         *)

Looking == command.at = "sent"
KeepSaved == UNCHANGED <<savedRun, saved>>
KeepAll == KeepSaved /\ KeepPod

(* The directories and pid files of the two kinds are apart.               *)
HasDirectory(r) == kind[r] = command.kind /\ stage[r] \in {"made", "launched", "opened", "recorded"}
HasPidFile(r) == HasDirectory(r) /\ stage[r] \in {"opened", "recorded"}

LookForStatus ==
    /\ Looking /\ command.verb = "status"
    /\ IF ~HasDirectory(command.id) THEN Tell("not_found")
       ELSE IF ~HasPidFile(command.id) THEN Tell("error")
       ELSE Goto("ps")
    /\ KeepAll

LookForSignal ==
    /\ Looking /\ command.verb \in {"stop", "skip"}
    /\ IF HasPidFile(command.id) THEN Goto("ps") ELSE TellSignal("not_found")
    /\ KeepAll

(* With an empty pid file "ps -p" fails, as it does for an unknown pid.    *)
PsFinds(r) == stage[r] = "recorded" /\ Listed(r)

PsOfSimulation ==
    /\ command.at = "ps" /\ command.verb = "status" /\ command.kind = "single"
    /\ IF PsFinds(command.id) THEN Tell("running") ELSE Goto("exit")
    /\ KeepAll

PsOfRunner ==
    /\ command.at = "ps" /\ command.verb = "status" /\ command.kind = "batch"
    /\ IF PsFinds(command.id) THEN Goto("progress") ELSE Tell("completed")
    /\ KeepAll

PsToSignal ==
    /\ command.at = "ps" /\ command.verb \in {"stop", "skip"}
    /\ IF PsFinds(command.id) THEN Goto("kill") ELSE TellSignal("not_running")
    /\ KeepAll

(* Wrong variant: whatever is not the code 0 is a failure.                 *)
ReadExitUnlessZero ==
    /\ command.at = "exit"
    /\ Tell(CASE exitStatus[command.id] = "ok" -> "completed"
              [] exitStatus[command.id] = "none" -> "terminated"
              [] OTHER -> "failed")
    /\ KeepAll

(* An empty file leaves the answer without its value, and json.loads fails.*)
ReadExit ==
    /\ command.at = "exit"
    /\ Tell(CASE exitStatus[command.id] = "ok" -> "completed"
              [] exitStatus[command.id] = "error" -> "failed"
              [] exitStatus[command.id] = "empty" -> "error"
              [] OTHER -> "terminated")
    /\ KeepAll

ReadProgress ==
    /\ command.at = "progress"
    /\ Tell(IF progress = "empty" THEN "error" ELSE "running")
    /\ KeepAll

(* kill fails without a word on a process that has been collected.         *)
Signal(r, after) ==
    /\ process' = [process EXCEPT ![r] = IF @ \in DOMAIN after THEN after[@] ELSE @]
    /\ signalled' = signalled \union {r}
    /\ UNCHANGED <<manager, exitStatus, progress, collects, replaced, startVars>>

(* SIGTERM ends the wrapper, which passes it on to nobody.  A runner still *)
(* without handlers is ended by either signal; SIGUSR1 otherwise leaves it *)
(* running.                                                                *)
OnWrapper == [running |-> Ended]
OnStop == [boot |-> Ended, running |-> "stopping"]
OnSkip == [boot |-> Ended]

Killed(after) ==
    /\ Signal(command.id, after)
    /\ TellSignal("signalled")
    /\ KeepSaved /\ UNCHANGED adrift

KillWrapper ==
    /\ command.at = "kill" /\ command.kind = "single"
    /\ Killed(OnWrapper)

StopRunner ==
    /\ command.at = "kill" /\ command.verb = "stop" /\ command.kind = "batch"
    /\ Killed(OnStop)

SkipScenario ==
    /\ command.at = "kill" /\ command.verb = "skip"
    /\ Killed(OnSkip)

(* A script that nobody hears: its looks change nothing, so they are one   *)
(* step with its kill.                                                     *)
AdriftKills(script) ==
    /\ adrift' = adrift \ {script}
    /\ kind[script.id] = script.kind /\ PsFinds(script.id)
    /\ Signal(script.id, CASE script.kind = "single" -> OnWrapper
                          [] script.verb = "stop" -> OnStop
                          [] OTHER -> OnSkip)
    /\ KeepCommand

AdriftEnds(script) ==
    /\ adrift' = adrift \ {script}
    /\ UNCHANGED <<startVars, processVars, collects, replaced, signalled>>
    /\ KeepCommand

-----------------------------------------------------------------------------
Scripts ==
    \/ LookForStatus \/ LookForSignal
    \/ PsOfSimulation \/ PsOfRunner \/ PsToSignal
    \/ ReadExit \/ ReadProgress
    \/ KillWrapper \/ StopRunner \/ SkipScenario
    \/ \E script \in adrift : AdriftKills(script) \/ AdriftEnds(script)

Operator ==
    \/ \E r \in Ids : RunSimulation(r) \/ RunScenarioBatch(r)
    \/ SaveId \/ SaveRun
    \/ AskSimulation \/ AskRunner
    \/ StopSimulationCommand \/ StopRunnerCommand \/ SkipCommand
    \/ DeployCommand \/ Apply
    \/ Done

Pod(r) ==
    \/ MakeDirectory(r) \/ LaunchSimulation(r) \/ LaunchRunner(r)
    \/ OpenPidFile(r) \/ WritePid(r)
    \/ ManagerEnds(r) \/ OpenExit(r) \/ RecordExit(r) \/ WrapperExits(r)
    \/ RunnerReady(r) \/ RunnerEnds(r) \/ OpenProgress(r) \/ WriteProgress(r)

Connected == Operator \/ Scripts \/ PodDies \/ \E r \in Ids : Pod(r)
Next == Connected \/ CutOff
Spec == Init /\ [][Next]_vars

(* While every connection holds, and nobody interrupts a command.          *)
UnbrokenSpec == Init /\ [][Connected]_vars

-----------------------------------------------------------------------------
Said(answers) == command.at = "told" /\ command.said \in answers
Ends == {"completed", "failed", "terminated", "not_running"}

(* What the operator is told is true of the run: an end that is told has   *)
(* come, of the manager too, and a run that is told to be running had not  *)
(* ended when the command was given, get_status: "Read the PID and check   *)
(* if process is running", "Process ended but no exit status recorded".    *)
(* It is not so: see the next property.                                    *)
StatusIsTrue ==
    /\ Said(Ends) => ~Runs(command.id)
    /\ Said({"running"}) => ~command.over

(* The ways in which an answer is false, and no other, although a run is   *)
(* looked at in several steps while the pod goes on and scripts may be at  *)
(* work that nobody hears: a run that goes on is called ended before its   *)
(* pid is on record, or after a signal that reached only the shell of a    *)
(* simulation; one that ended is called running where the pod's first      *)
(* process does not collect orphans; and only a run that was signalled or  *)
(* asked about too early has no exit code, get_status, get_runner_status.  *)
FalseAnswersExplained ==
    LET r == command.id
        onlyShell == kind[r] = "single" /\ r \in signalled /\ ~Alive(r)
    IN /\ Said(Ends) /\ Runs(r) => command.early \/ onlyShell
       /\ Said({"running"}) /\ command.over => ~collects
       /\ Said({"terminated"}) => command.early \/ r \in signalled

(* An exit code that is told is the manager's own, although the file is    *)
(* empty for a while and its writer may be killed then, get_status:        *)
(* "the manager's exit code has to be recorded when it ends".              *)
ExitCodeIsTrue ==
    /\ Said({"completed"}) /\ command.kind = "single" => manager[command.id] = "ok"
    /\ Said({"failed"}) => manager[command.id] = "error"
=============================================================================
