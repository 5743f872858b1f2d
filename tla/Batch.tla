-------------------------------- MODULE Batch --------------------------------
(***************************************************************************)
(* A batch of scenarios: scenario_runner.py, and the manager process it    *)
(* runs for one scenario at a time.  The operator sends SIGTERM ("stop")   *)
(* or SIGUSR1 ("skip") to the runner at any moment.  The handlers set a    *)
(* flag, and pass SIGTERM on to the manager if the runner already knows a  *)
(* process that is still alive; the main thread looks at the flags only    *)
(* between its steps.  A failed scenario is retried once, after a clean-up *)
(* that reported success.                                                  *)
(*                                                                         *)
(* Left out: output streaming, result and status files, the summary.  No   *)
(* file operation of the runner and no call between Popen and the return   *)
(* of wait raises: an exception there would end the batch, or leave a      *)
(* manager running that the runner takes for a failed one.                 *)
(***************************************************************************)
EXTENDS ManagerRun

CONSTANTS
    Scenarios,      \* how many scenarios the batch has
    MaxSignals      \* bound on the signals the operator sends

ASSUME ScenariosAssumption == Scenarios \in Nat \ {0}
ASSUME MaxSignalsAssumption == MaxSignals \in Nat

VARIABLES
    pc,             \* where run_all or run_scenario is
    current,        \* the scenario of the loop, 0 before the first
    retrying,       \* is it the retry of the scenario?
    tracked,        \* current_process is the manager just started
    stop,           \* stop_requested
    skip,           \* skip_requested
    results,        \* self.results
    signals,        \* signals sent, a bound
    skipped,        \* the results that were next when a skip came, a history
    stopping,       \* when the stop came, a history
    launches        \* managers started since, a history

runnerVars == <<pc, current, retrying, tracked, stop, skip, results>>
historyVars == <<signals, skipped, stopping, launches>>
vars == <<managerVars, runnerVars, historyVars>>

Locations == {"check", "launch", "track", "wait", "judge", "decide", "tidy",
              "clean_first", "clean_retry", "clean_next", "clean_last", "over"}

Result == [success : BOOLEAN, skipped : BOOLEAN, retry : {"none", "failed", "succeeded"}]

TypeOK ==
    /\ ManagerTypeOK
    /\ pc \in Locations
    /\ current \in 0..Scenarios
    /\ retrying \in BOOLEAN /\ tracked \in BOOLEAN
    /\ stop \in BOOLEAN /\ skip \in BOOLEAN
    /\ results \in Seq(Result) /\ Len(results) <= Scenarios
    /\ signals \in 0..MaxSignals
    /\ skipped \subseteq 1..(Scenarios + 1)
    /\ stopping \in {"no", "idle", "unnoticed", "forwarded"}
    /\ launches \in Nat
    /\ (pc = "wait") => Alive \/ phase = "exited"

Init ==
    /\ ManagerInit
    /\ pc = "clean_first"
    /\ current = 0
    /\ retrying = FALSE /\ tracked = FALSE
    /\ stop = FALSE /\ skip = FALSE
    /\ results = <<>>
    /\ signals = 0
    /\ skipped = {}
    /\ stopping = "no"
    /\ launches = 0

-----------------------------------------------------------------------------
(* The runner's main thread.                                               *)

Advance == current' = current + 1 /\ pc' = "check"

(* The loop is left for run_all's finally clause.                          *)
LeaveLoop == pc' = "clean_last" /\ UNCHANGED current

(* Wrong variant: the loop goes once too often.                            *)
NextScenarioOnceMore ==
    /\ retrying' = FALSE
    /\ IF current <= Scenarios THEN Advance ELSE LeaveLoop

NextScenario ==
    /\ retrying' = FALSE
    /\ IF current < Scenarios THEN Advance ELSE LeaveLoop

(* cleanup_kubernetes: "manager.py clean", which may fail or time out.     *)
(* Its success says no more than that nothing was raised: it too may have  *)
(* been refused some deletions, and what it deleted may still be there.    *)
Cleaned == left' \in {left, Released}

KeepManager == UNCHANGED <<phase, step, code, failed, done, hits, refused>>

CleanFirst ==
    /\ pc = "clean_first"
    /\ Cleaned
    /\ NextScenario
    /\ KeepManager
    /\ UNCHANGED <<tracked, stop, skip, results, historyVars>>

(* Wrong variant: the loop does not look at the stop.                      *)
CheckNothing ==
    /\ pc = "check"
    /\ pc' = "launch"
    /\ UNCHANGED <<managerVars, current, retrying, tracked, stop, skip, results, historyVars>>

Check ==
    /\ pc = "check"
    /\ IF stop THEN LeaveLoop ELSE pc' = "launch" /\ UNCHANGED current
    /\ UNCHANGED <<managerVars, retrying, tracked, stop, skip, results, historyVars>>

(* Popen: the manager runs, but is not yet the current_process.            *)
Launch ==
    /\ pc = "launch"
    /\ Start
    /\ pc' = "track"
    /\ launches' = IF stop THEN launches + 1 ELSE launches
    /\ UNCHANGED <<current, retrying, tracked, stop, skip, results, signals, skipped, stopping>>

(* Popen raises: run_scenario returns False.                               *)
LaunchFails ==
    /\ pc = "launch"
    /\ phase' = "none" /\ code' = 1
    /\ pc' = "judge"
    /\ UNCHANGED <<step, failed, done, hits, refused, left, current, retrying, tracked, stop, skip,
                   results, historyVars>>

Track ==
    /\ pc = "track"
    /\ tracked' = TRUE
    /\ pc' = "wait"
    /\ UNCHANGED <<managerVars, current, retrying, stop, skip, results, historyVars>>

(* process.wait returns, and current_process is cleared.                   *)
Reap ==
    /\ pc = "wait"
    /\ phase = "exited"
    /\ tracked' = FALSE
    /\ pc' = "judge"
    /\ UNCHANGED <<managerVars, current, retrying, stop, skip, results, historyVars>>

(* Wrong variant: a skipped scenario is retried like a failed one.         *)
JudgeAndRetrySkipped ==
    /\ pc = "judge"
    /\ ~retrying
    /\ results' = Append(results, [success |-> code = 0 /\ ~skip, skipped |-> skip, retry |-> "none"])
    /\ skip' = FALSE
    /\ pc' = IF code # 0 THEN "decide" ELSE "tidy"
    /\ UNCHANGED <<managerVars, current, retrying, tracked, stop, historyVars>>

(* Wrong variant: the skip is not used up.                                 *)
JudgeKeepingSkip ==
    /\ pc = "judge"
    /\ ~retrying
    /\ results' = Append(results, [success |-> code = 0 /\ ~skip, skipped |-> skip, retry |-> "none"])
    /\ pc' = IF ~skip /\ code # 0 THEN "decide" ELSE "tidy"
    /\ UNCHANGED <<managerVars, current, retrying, tracked, stop, skip, historyVars>>

(* The result of a scenario's main run.  A skip is used up by it.          *)
Judge ==
    /\ pc = "judge"
    /\ ~retrying
    /\ results' = Append(results, [success |-> code = 0 /\ ~skip, skipped |-> skip, retry |-> "none"])
    /\ skip' = FALSE
    /\ pc' = IF ~skip /\ code # 0 THEN "decide" ELSE "tidy"
    /\ UNCHANGED <<managerVars, current, retrying, tracked, stop, historyVars>>

(* The result of the retry; neither flag is looked at.                     *)
JudgeRetry ==
    /\ pc = "judge"
    /\ retrying
    /\ results' = [results EXCEPT ![Len(results)].retry = IF code = 0 THEN "succeeded" ELSE "failed"]
    /\ pc' = "tidy"
    /\ UNCHANGED <<managerVars, current, retrying, tracked, stop, skip, historyVars>>

(* Wrong variant: a stopped scenario is retried like a failed one.         *)
DecideIgnoringStop ==
    /\ pc = "decide"
    /\ pc' = "clean_retry"
    /\ UNCHANGED <<managerVars, current, retrying, tracked, stop, skip, results, historyVars>>

(* A failed scenario is retried, but not when a stop was requested.        *)
Decide ==
    /\ pc = "decide"
    /\ pc' = IF stop THEN "tidy" ELSE "clean_retry"
    /\ UNCHANGED <<managerVars, current, retrying, tracked, stop, skip, results, historyVars>>

(* The retry is given up when its clean-up fails.                          *)
CleanForRetry ==
    /\ pc = "clean_retry"
    /\ Cleaned
    /\ \E ok \in BOOLEAN :
        /\ retrying' = ok
        /\ pc' = IF ok THEN "launch" ELSE "tidy"
    /\ KeepManager
    /\ UNCHANGED <<current, tracked, stop, skip, results, historyVars>>

(* The cluster is cleaned between two scenarios, unless a stop was         *)
(* requested; the result of that clean-up is not looked at.                *)
Tidy ==
    /\ pc = "tidy"
    /\ IF ~stop /\ current < Scenarios
       THEN pc' = "clean_next" /\ UNCHANGED <<current, retrying>>
       ELSE NextScenario
    /\ UNCHANGED <<managerVars, tracked, stop, skip, results, historyVars>>

CleanNext ==
    /\ pc = "clean_next"
    /\ Cleaned
    /\ NextScenario
    /\ KeepManager
    /\ UNCHANGED <<tracked, stop, skip, results, historyVars>>

CleanLast ==
    /\ pc = "clean_last"
    /\ Cleaned
    /\ pc' = "over"
    /\ KeepManager
    /\ UNCHANGED <<current, retrying, tracked, stop, skip, results, historyVars>>

-----------------------------------------------------------------------------
(* The operator.                                                           *)

Forward == tracked /\ Alive

Send ==
    /\ pc # "over"
    /\ signals < MaxSignals
    /\ signals' = signals + 1
    /\ IF Forward THEN Signal ELSE UNCHANGED managerVars

(* Where in the run a stop came.                                           *)
Arrival ==
    IF Forward THEN "forwarded"
    ELSE IF pc \in {"launch", "track", "clean_retry"} THEN "unnoticed"
    ELSE "idle"

RequestStop ==
    /\ Send
    /\ stop' = TRUE
    /\ stopping' = IF stop THEN stopping ELSE Arrival
    /\ UNCHANGED <<pc, current, retrying, tracked, skip, results, skipped, launches>>

RequestSkip ==
    /\ Send
    /\ skip' = TRUE
    /\ skipped' = skipped \union {Len(results) + 1}
    /\ UNCHANGED <<pc, current, retrying, tracked, stop, results, stopping, launches>>

-----------------------------------------------------------------------------
(* Deleted pods and services are gone in the end.                          *)
Vanish ==
    /\ left = "leaving"
    /\ left' = "none"
    /\ KeepManager
    /\ UNCHANGED <<runnerVars, historyVars>>

ManagerProcess ==
    /\ ManagerStep
    /\ UNCHANGED <<runnerVars, historyVars>>

(* The manager after its engine; the engine itself may run for ever.       *)
ManagerWinding ==
    /\ Winding
    /\ UNCHANGED <<runnerVars, historyVars>>

Runner ==
    \/ CleanFirst
    \/ Check
    \/ Launch
    \/ LaunchFails
    \/ Track
    \/ Reap
    \/ Judge
    \/ JudgeRetry
    \/ Decide
    \/ CleanForRetry
    \/ Tidy
    \/ CleanNext
    \/ CleanLast

Over == pc = "over" /\ UNCHANGED vars

Next == Runner \/ ManagerProcess \/ Vanish \/ RequestStop \/ RequestSkip \/ Over

Spec == Init /\ [][Next]_vars

(* The runner's thread goes on: its clean-ups have a timeout.  A manager   *)
(* that has begun to wind up ends: every step of it is bounded.            *)
FairSpec == Spec /\ WF_vars(Runner) /\ WF_vars(ManagerWinding)

-----------------------------------------------------------------------------
(* A stop that finds no run in hand, or passes its SIGTERM on to the one   *)
(* in hand, is the end of it: no manager is started after it.  One that    *)
(* comes while a run is about to start lets that one run start, no other.  *)
(* (Stop checks at the head of the loop and before the retry only.)        *)
StopIsPrompt ==
    /\ stopping \in {"idle", "forwarded"} => launches = 0
    /\ stopping = "unnoticed" => launches <= 1

(* A stop passed on to the running manager ends the batch, even when the   *)
(* scenario has no limit and its engine would run for ever.                *)
StopEndsBatch == (stopping = "forwarded") ~> (pc = "over")

(* A skip marks the result that is next when it comes, whatever happens in *)
(* between, and that scenario is never retried.  The next result is that   *)
(* of the scenario at hand, or that of the scenario after it if the skip   *)
(* comes during a retry or a clean-up.                                     *)
SkipIsKept ==
    \A k \in 1..Len(results) :
        k \in skipped => results[k].skipped /\ results[k].retry = "none"

(* And it marks no other: the retry and the clean-ups after a result do    *)
(* not carry a skip on to a second scenario.                               *)
SkipMarksOne == \A k \in 1..Len(results) : results[k].skipped => k \in skipped

(* A run taken for successful went through every clean-up step without a   *)
(* failure and saw no signal at any time; what it leaves in the cluster is *)
(* on its way out, unless a list or a delete was refused, which            *)
(* kubernetes.py prints and passes over.                                   *)
SuccessIsWhole ==
    (pc = "judge" /\ code = 0) =>
        /\ ~failed /\ hits = <<>> /\ done = 1..Len(Steps)
        /\ left = "kept" => refused

=============================================================================
