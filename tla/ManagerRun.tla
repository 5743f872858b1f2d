----------------------------- MODULE ManagerRun -----------------------------
(***************************************************************************)
(* One process of manager.py "run": the engine, and the clean-up that      *)
(* follows it.  SIGTERM may land anywhere.  Its handler raises SystemExit  *)
(* wherever the main thread is, so what a signal does depends on which     *)
(* except clause is around that point:                                     *)
(*   - before the handler is installed the process simply dies;            *)
(*   - in the engine it ends the engine, and the clean-up follows;         *)
(*   - inside a step of the clean-up it spoils that step only;             *)
(*   - while the infrastructure is reported (only Exception is caught),    *)
(*     and between two steps of the clean-up, it ends the process.         *)
(* The driver's clean-up only asks for deletions: what it deletes takes    *)
(* its time to go, and a list or a delete that the API server refuses is   *)
(* printed and passed over, so that the step counts as a success all the   *)
(* same (KubernetesDriver shows that clean-up call by call).               *)
(* Left out: the log file of the run, the marker files of the pipeline,    *)
(* the download of the Bitcoin data (the batch asks for none of them).     *)
(***************************************************************************)
EXTENDS Naturals, Sequences

VARIABLES
    phase,      \* where the process is
    step,       \* the clean-up step it is in, or has just left
    code,       \* run_engine's exit_code, and then the process's own
    failed,     \* cleanup's failed
    done,       \* the clean-up steps begun, a history
    hits,       \* the phases in which a signal landed, a history
    refused,    \* was a call of the driver's clean-up refused? a history
    left        \* of a run, in the cluster: nothing, or what is on its way
                \* out, or something that nobody has asked to go

managerVars == <<phase, step, code, failed, done, hits, refused, left>>

Steps == <<"stop_coinjoins", "shut_down_engine", "store_logs", "clean_up_driver">>

Phases == {"none", "boot", "engine", "report", "between", "inside", "exited"}

Signalled == 143                        \* 128 + SIGTERM

ManagerTypeOK ==
    /\ phase \in Phases
    /\ step \in 0..Len(Steps)
    /\ code \in {0, 1, Signalled}
    /\ failed \in BOOLEAN
    /\ done \in SUBSET (1..Len(Steps))
    /\ hits \in Seq(Phases)
    /\ refused \in BOOLEAN
    /\ left \in {"none", "leaving", "kept"}

ManagerInit ==
    /\ phase = "none"
    /\ step = 0
    /\ code = 0
    /\ failed = FALSE
    /\ done = {}
    /\ hits = <<>>
    /\ refused = FALSE
    /\ left \in {"none", "leaving", "kept"}

Alive == phase \notin {"none", "exited"}

(* The process starts; what an earlier one left in the cluster stays.      *)
Start ==
    /\ phase' = "boot"
    /\ step' = 0
    /\ code' = 0
    /\ failed' = FALSE
    /\ done' = {}
    /\ hits' = <<>>
    /\ refused' = FALSE
    /\ UNCHANGED left

Exit(status) ==
    /\ phase' = "exited"
    /\ code' = status

(* The scenario is loaded and the handlers are installed, or the scenario  *)
(* is refused and the process ends before it has made anything.            *)
Boot ==
    /\ phase = "boot"
    /\ \/ phase' = "engine" /\ left' = "kept" /\ UNCHANGED code
       \/ Exit(1) /\ UNCHANGED left
    /\ UNCHANGED <<step, failed, done, hits, refused>>

EngineReturns ==
    /\ phase = "engine"
    /\ phase' = "between"
    /\ UNCHANGED <<step, code, failed, done, hits, refused, left>>

EngineRaises ==
    /\ phase = "engine"
    /\ phase' = "report"
    /\ code' = 1
    /\ UNCHANGED <<step, failed, done, hits, refused, left>>

Report ==
    /\ phase = "report"
    /\ phase' = "between"
    /\ UNCHANGED <<step, code, failed, done, hits, refused, left>>

BeginStep ==
    /\ phase = "between"
    /\ step < Len(Steps)
    /\ phase' = "inside"
    /\ step' = step + 1
    /\ done' = done \union {step'}
    /\ UNCHANGED <<code, failed, hits, refused, left>>

InDriver == Steps[step] = "clean_up_driver"

(* What is left once all of it has been asked to go.                       *)
Released == IF left = "none" THEN "none" ELSE "leaving"

(* A step that raises nothing.  The driver's leaves behind what it was     *)
(* refused, and what a thread of a failed engine's pool makes after it.    *)
StepSucceeds ==
    /\ phase = "inside"
    /\ phase' = "between"
    /\ \/ ~InDriver /\ UNCHANGED <<refused, left>>
       \/ InDriver /\ left' = Released /\ UNCHANGED refused
       \/ InDriver /\ refused' = TRUE /\ UNCHANGED left
       \/ InDriver /\ code # 0 /\ UNCHANGED <<refused, left>>
    /\ UNCHANGED <<step, code, failed, done, hits>>

(* A step torn off midway: the driver's has asked all to go, or not all.   *)
TornOff ==
    /\ left' \in {left} \union (IF InDriver THEN {Released} ELSE {})
    /\ UNCHANGED refused

(* A step that raises is recorded, and the next one still runs.            *)
StepFails ==
    /\ phase = "inside"
    /\ phase' = "between"
    /\ failed' = TRUE
    /\ TornOff
    /\ UNCHANGED <<step, code, done, hits>>

(* Wrong variant: failed clean-up steps do not count.                      *)
FinishIgnoringSteps ==
    /\ phase = "between"
    /\ step = Len(Steps)
    /\ Exit(code)
    /\ UNCHANGED <<step, failed, done, hits, refused, left>>

Finish ==
    /\ phase = "between"
    /\ step = Len(Steps)
    /\ Exit(IF failed THEN 1 ELSE code)
    /\ UNCHANGED <<step, failed, done, hits, refused, left>>

(* SIGTERM lands in the engine: run_engine catches the SystemExit.         *)
SignalInEngine ==
    /\ phase = "engine"
    /\ phase' = "report"
    /\ code' = Signalled
    /\ UNCHANGED <<failed, refused, left>>

(* In a clean-up step: cleanup_step catches every BaseException.           *)
SignalInStep ==
    /\ phase = "inside"
    /\ phase' = "between"
    /\ failed' = TRUE
    /\ TornOff
    /\ UNCHANGED code

(* Where nothing catches it: the process ends there.                       *)
SignalEscapes ==
    /\ phase \in {"boot", "report", "between"}
    /\ Exit(Signalled)
    /\ UNCHANGED <<failed, refused, left>>

(* A signal lands in the process, wherever it is.                          *)
Signal ==
    /\ SignalInEngine \/ SignalInStep \/ SignalEscapes
    /\ hits' = Append(hits, phase)
    /\ UNCHANGED <<step, done>>

(* All that the process does by itself.                                    *)
ManagerStep ==
    \/ Boot
    \/ EngineReturns
    \/ EngineRaises
    \/ Report
    \/ BeginStep
    \/ StepSucceeds
    \/ StepFails
    \/ Finish

(* What the process does once the engine is over.                          *)
Winding == ManagerStep /\ phase \in {"report", "between", "inside"}

=============================================================================
