----------------------------- MODULE BatchProofs -----------------------------
(***************************************************************************)
(* Theorems about Batch, for every number of scenarios and of signals.     *)
(*                                                                         *)
(* The argument.  A manager runs only while the runner starts or awaits    *)
(* it, so the runner's other steps meet a finished process whose exit code *)
(* tells how its clean-up went (ProcessInv).  PlaceInv says how many       *)
(* results there are at each place of the runner; with it a stop is seen   *)
(* to leave no way to a further launch (StopInv).  The skip flag is up     *)
(* exactly while a skip is due at the next result (SkipInv), so that every *)
(* result takes its own skip and no other.                                 *)
(***************************************************************************)
EXTENDS Batch, SequenceTheorems, TLAPS

\* The places where a manager is about to run, runs, or has just run.
Running == {"launch", "track", "wait", "judge"}

\* The clean-up steps begun are a prefix; a signal spoils the exit code, at the end; the
\* driver's clean-up of a good run leaves only what it was refused; exit code 0 means all
\* of it.
ProcessInv ==
  /\ done = 1..step
  /\ phase \in {"boot", "engine", "report"} => step = 0
  /\ phase = "inside" => step > 0
  /\ hits # <<>> => code # 0 \/ (failed /\ phase # "exited")
  /\ phase = "between" /\ step = Len(Steps) => failed \/ code # 0 \/ left # "kept" \/ refused
  /\ phase = "exited" /\ code = 0 => ~failed /\ step = Len(Steps) /\ (left = "kept" => refused)

\* Where the runner is, what the manager does, and how many results there are.
PlaceInv ==
  /\ Alive => pc \in {"track", "wait"}
  /\ tracked => pc = "wait"
  /\ pc \in {"track", "wait"} => phase # "none"
  /\ pc = "judge" /\ code = 0 => phase = "exited"
  /\ current = 0 <=> pc = "clean_first"
  /\ pc \in {"clean_first", "check", "decide", "clean_retry"} => ~retrying
  /\ pc = "clean_first" => Len(results) = 0
  /\ pc = "check" => Len(results) = current - 1
  /\ pc \in Running => Len(results) = (IF retrying THEN current ELSE current - 1)
  /\ pc \in {"decide", "clean_retry", "tidy", "clean_next"} => Len(results) = current
  /\ pc \in {"clean_last", "over"} => Len(results) \in {current - 1, current}

\* A stop that is noticed leaves no way to a launch, one that is not leaves one.
StopInv ==
  /\ stopping = "no" <=> ~stop
  /\ ~stop => launches = 0
  /\ stopping \in {"idle", "forwarded"} => launches = 0 /\ pc \notin {"launch", "clean_retry"}
  /\ stopping = "unnoticed" =>
       launches = 0 \/ (launches = 1 /\ pc \notin {"launch", "clean_retry"})

\* A skip waits for the next result, and keeps its scenario from being run again.
SkipInv ==
  /\ SkipIsKept /\ SkipMarksOne
  /\ skipped \subseteq 1..(Len(results) + 1)
  /\ skip <=> Len(results) + 1 \in skipped
  /\ pc \in {"decide", "clean_retry"} \/ (retrying /\ pc \in Running) => Len(results) \notin skipped

IInv == TypeOK /\ ProcessInv /\ PlaceInv /\ StopInv /\ SkipInv


(***************************************************************************)
(* The manager process.                                                    *)
(***************************************************************************)

\* cleanup has four steps, of which the last releases the containers.
LEMMA FourSteps == Len(Steps) = 4 /\ Steps[4] = "clean_up_driver"
  BY DEF Steps

\* What the process does by itself keeps its types.
LEMMA ManagerTypes ==
  ASSUME ManagerTypeOK, ManagerStep
  PROVE  ManagerTypeOK'
<1>1. Len(Steps) = 4
  BY FourSteps
<1>2. CASE Boot
  BY <1>2 DEF Boot, Exit, ManagerTypeOK, Phases
<1>3. CASE EngineReturns \/ EngineRaises \/ Report
  BY <1>3 DEF EngineReturns, EngineRaises, Report, ManagerTypeOK, Phases
<1>4. CASE BeginStep
  <2>1. step \in 0..3 /\ step' = step + 1 /\ done' = done \cup {step'} /\ done \in SUBSET (1..4)
    BY <1>1, <1>4 DEF BeginStep, ManagerTypeOK
  <2>2. done' \in SUBSET (1..4) /\ step' \in 0..4
    BY <2>1
  <2> QED BY <1>1, <1>4, <2>2 DEF BeginStep, ManagerTypeOK, Phases
<1>5. CASE StepSucceeds
  <2>1. refused' \in BOOLEAN /\ left' \in {"none", "leaving", "kept"}
    BY <1>5 DEF StepSucceeds, Released, ManagerTypeOK
  <2> QED BY <1>5, <2>1 DEF StepSucceeds, ManagerTypeOK, Phases
<1>6. CASE StepFails
  <2>1. refused' \in BOOLEAN /\ left' \in {"none", "leaving", "kept"}
    BY <1>6 DEF StepFails, TornOff, Released, ManagerTypeOK
  <2> QED BY <1>6, <2>1 DEF StepFails, ManagerTypeOK, Phases
<1>7. CASE Finish
  BY <1>7 DEF Finish, Exit, ManagerTypeOK, Phases
<1> QED BY <1>2, <1>3, <1>4, <1>5, <1>6, <1>7 DEF ManagerStep

\* And it keeps what the exit code tells.
LEMMA ManagerSteps ==
  ASSUME ManagerTypeOK, ProcessInv, ManagerStep
  PROVE  ProcessInv'
<1>1. Len(Steps) = 4
  BY FourSteps
<1>2. CASE Boot
  BY <1>1, <1>2 DEF Boot, Exit, ProcessInv
<1>3. CASE EngineReturns
  BY <1>1, <1>3 DEF EngineReturns, ProcessInv
<1>4. CASE EngineRaises \/ Report
  BY <1>1, <1>4 DEF EngineRaises, Report, ProcessInv
<1>5. CASE BeginStep
  <2>1. step \in 0..3 /\ step' = step + 1 /\ done' = done \cup {step'} /\ done = 1..step
    BY <1>1, <1>5 DEF BeginStep, ManagerTypeOK, ProcessInv
  <2>2. done' = 1..step' /\ step' > 0
    BY <2>1
  <2> QED BY <1>5, <2>2 DEF BeginStep, ProcessInv
<1>6. CASE StepSucceeds
  <2>1. step = 4 => code # 0 \/ left' # "kept" \/ refused'
    BY <1>6, FourSteps DEF StepSucceeds, InDriver, Released
  <2>2. phase = "inside" /\ phase' = "between" /\ UNCHANGED <<step, code, failed, done, hits>>
    BY <1>6 DEF StepSucceeds
  <2> QED BY <1>1, <2>1, <2>2 DEF ProcessInv
<1>7. CASE StepFails
  BY <1>1, <1>7 DEF StepFails, ProcessInv
<1>8. CASE Finish
  <2>1. /\ code' = (IF failed THEN 1 ELSE code) /\ phase' = "exited" /\ phase = "between"
        /\ step = Len(Steps) /\ UNCHANGED <<step, failed, done, hits, refused, left>>
    BY <1>8 DEF Finish, Exit
  <2> QED BY <1>1, <2>1 DEF ProcessInv
<1> QED BY <1>2, <1>3, <1>4, <1>5, <1>6, <1>7, <1>8 DEF ManagerStep

\* A signal spoils the exit code or a clean-up step, wherever it lands.
LEMMA SignalSteps ==
  ASSUME ManagerTypeOK, ProcessInv, Signal
  PROVE  /\ ManagerTypeOK' /\ ProcessInv'
         /\ Alive /\ phase' # "none"
<1>1. hits' = Append(hits, phase) /\ UNCHANGED <<step, done>> /\ Len(Steps) = 4
  BY FourSteps DEF Signal
<1>2. hits' \in Seq(Phases)
  BY <1>1 DEF ManagerTypeOK
<1>3. CASE SignalInEngine
  <2>1. ManagerTypeOK'
    BY <1>1, <1>2, <1>3 DEF SignalInEngine, ManagerTypeOK, Phases
  <2> QED BY <1>1, <1>3, <2>1 DEF SignalInEngine, ProcessInv, Signalled, Alive
<1>4. CASE SignalInStep
  <2>1. refused' \in BOOLEAN /\ left' \in {"none", "leaving", "kept"}
    BY <1>4 DEF SignalInStep, TornOff, Released, ManagerTypeOK
  <2>2. ManagerTypeOK'
    BY <1>1, <1>2, <1>4, <2>1 DEF SignalInStep, ManagerTypeOK, Phases
  <2> QED BY <1>1, <1>4, <2>2 DEF SignalInStep, ProcessInv, Alive
<1>5. CASE SignalEscapes
  <2>1. ManagerTypeOK'
    BY <1>1, <1>2, <1>5 DEF SignalEscapes, Exit, ManagerTypeOK, Phases
  <2> QED BY <1>1, <1>5, <2>1 DEF SignalEscapes, Exit, ProcessInv, Signalled, Alive
<1> QED BY <1>3, <1>4, <1>5 DEF Signal

\* A new process starts afresh, in the cluster as it is.
LEMMA StartSteps ==
  ASSUME ManagerTypeOK, Start
  PROVE  ManagerTypeOK' /\ ProcessInv'
<1>1. Len(Steps) = 4
  BY FourSteps
<1>2. hits' \in Seq(Phases)
  BY EmptySeq DEF Start
<1>3. ManagerTypeOK'
  <2>1. /\ phase' = "boot" /\ step' = 0 /\ code' = 0 /\ failed' = FALSE /\ done' = {}
        /\ refused' = FALSE /\ left' = left
    BY DEF Start
  <2>2. step' \in 0..Len(Steps)
    BY <1>1, <2>1
  <2>3. done' \in SUBSET (1..Len(Steps))
    BY <2>1
  <2>4. failed' \in BOOLEAN
    BY <2>1
  <2>5. refused' \in BOOLEAN /\ left' \in {"none", "leaving", "kept"}
    BY <2>1 DEF ManagerTypeOK
  <2>6. phase' \in Phases /\ code' \in {0, 1, Signalled}
    BY <2>1 DEF Phases
  <2> QED BY <1>2, <2>2, <2>3, <2>4, <2>5, <2>6 DEF ManagerTypeOK
<1>4. 1..0 = {}
  OBVIOUS
<1> QED BY <1>3, <1>4 DEF Start, ProcessInv

\* Neither the passing of deleted resources nor a clean-up between two runs leaves more.
LEMMA CleanSteps ==
  ASSUME ManagerTypeOK, ProcessInv, KeepManager, Cleaned \/ left' = "none"
  PROVE  ManagerTypeOK' /\ ProcessInv'
<1>1. left' \in {left, "none", "leaving"} /\ UNCHANGED <<phase, step, code, failed, done, hits, refused>>
  BY DEF Cleaned, Released, KeepManager
<1>2. left' \in {"none", "leaving", "kept"} /\ (left' = "kept" => left = "kept")
  BY <1>1 DEF ManagerTypeOK
<1> QED BY <1>1, <1>2 DEF ManagerTypeOK, ProcessInv


(***************************************************************************)
(* The runner.                                                             *)
(***************************************************************************)

\* The process is untouched by what leaves its variables alone.
LEMMA ProcessRests ==
  ASSUME ManagerTypeOK, ProcessInv, UNCHANGED managerVars
  PROVE  ManagerTypeOK' /\ ProcessInv'
<1>1. ManagerTypeOK'
  BY DEF managerVars, ManagerTypeOK
<1> QED BY <1>1 DEF managerVars, ProcessInv

\* What is due at the next result stays due while no result and no skip comes in.
LEMMA SkipRests ==
  ASSUME SkipInv, UNCHANGED <<skip, results, skipped>>,
         pc' \in {"decide", "clean_retry"} \/ (retrying' /\ pc' \in Running) => Len(results) \notin skipped
  PROVE  SkipInv'
BY DEF SkipInv, SkipIsKept, SkipMarksOne

\* The loop goes on with the next scenario, or is left after the last.
LEMMA LoopGoesOn ==
  ASSUME TypeOK, NextScenario
  PROVE  /\ retrying' = FALSE
         /\ current' \in 0..Scenarios
         /\ \/ current < Scenarios /\ current' = current + 1 /\ pc' = "check"
            \/ current = Scenarios /\ current' = current /\ pc' = "clean_last"
<1>1. current \in 0..Scenarios /\ Scenarios \in Nat /\ retrying' = FALSE
  BY ScenariosAssumption DEF NextScenario, TypeOK
<1>2. \/ current < Scenarios /\ current' = current + 1 /\ pc' = "check"
      \/ ~(current < Scenarios) /\ current' = current /\ pc' = "clean_last"
  BY <1>1 DEF NextScenario, Advance, LeaveLoop
<1>3. current' \in 0..Scenarios
  BY <1>1, <1>2
<1> QED BY <1>1, <1>2, <1>3

\* The three clean-ups around the loop, of which two go on with a scenario.
LEMMA CleanUpInv == IInv /\ (CleanFirst \/ CleanNext \/ CleanLast) => IInv'
<1> SUFFICES ASSUME IInv, CleanFirst \/ CleanNext \/ CleanLast PROVE IInv'
  OBVIOUS
<1>1. TypeOK /\ ManagerTypeOK /\ ProcessInv /\ PlaceInv /\ StopInv /\ SkipInv
  BY DEF IInv, TypeOK
<1>2. /\ UNCHANGED <<tracked, stop, skip, results, historyVars, phase, code>>
      /\ ManagerTypeOK' /\ ProcessInv'
  BY <1>1, CleanSteps DEF CleanFirst, CleanNext, CleanLast, KeepManager
<1>3. \/ /\ pc \in {"clean_first", "clean_next"} /\ pc' = "check" /\ current' = current + 1
         /\ current < Scenarios /\ retrying' = FALSE
      \/ /\ pc \in {"clean_first", "clean_next"} /\ pc' = "clean_last" /\ current' = current
         /\ current = Scenarios /\ retrying' = FALSE
      \/ pc = "clean_last" /\ pc' = "over" /\ UNCHANGED <<current, retrying>>
  BY <1>1, LoopGoesOn DEF CleanFirst, CleanNext, CleanLast
<1>4. current \in 0..Scenarios /\ Scenarios \in Nat \ {0} /\ Len(results) \in Nat
  BY <1>1, ScenariosAssumption DEF TypeOK
<1>5. TypeOK'
  <2>1. current' \in 0..Scenarios
    BY <1>3, <1>4
  <2>2. retrying' \in BOOLEAN
    BY <1>1, <1>3 DEF TypeOK
  <2>3. pc' \in Locations /\ pc' # "wait"
    BY <1>3 DEF Locations
  <2> QED BY <1>1, <1>2, <2>1, <2>2, <2>3 DEF TypeOK, historyVars
<1>6. PlaceInv'
  <2>1. Alive' = Alive
    BY <1>2 DEF Alive
  <2>2. PlaceInv /\ UNCHANGED <<results, tracked, phase, code>>
    BY <1>1, <1>2
  <2>3. CASE pc' = "check"
    BY <1>3, <1>4, <2>1, <2>2, <2>3 DEF PlaceInv, Running
  <2>4. CASE pc' = "clean_last"
    BY <1>3, <1>4, <2>1, <2>2, <2>4 DEF PlaceInv, Running
  <2>5. CASE pc' = "over"
    BY <1>3, <1>4, <2>1, <2>2, <2>5 DEF PlaceInv, Running
  <2> QED BY <1>3, <2>3, <2>4, <2>5
<1>7. StopInv'
  BY <1>1, <1>2, <1>3 DEF StopInv, historyVars
<1>8. SkipInv'
  BY <1>1, <1>2, <1>3, SkipRests DEF historyVars, Running, PlaceInv
<1> QED BY <1>2, <1>5, <1>6, <1>7, <1>8 DEF IInv

\* The stop checks at the head of the loop and before the retry, and the step to the
\* next scenario.
LEMMA DecisionInv == IInv /\ (Check \/ Decide \/ Tidy) => IInv'
<1> SUFFICES ASSUME IInv, Check \/ Decide \/ Tidy PROVE IInv'
  OBVIOUS
<1>1. TypeOK /\ ManagerTypeOK /\ ProcessInv /\ PlaceInv /\ StopInv /\ SkipInv
  BY DEF IInv, TypeOK
<1>2. /\ UNCHANGED <<managerVars, tracked, stop, skip, results, historyVars>>
      /\ ManagerTypeOK' /\ ProcessInv'
  BY <1>1, ProcessRests DEF Check, Decide, Tidy
<1>3. \/ /\ pc = "check" /\ pc' = (IF stop THEN "clean_last" ELSE "launch")
         /\ UNCHANGED <<current, retrying>>
      \/ /\ pc = "decide" /\ pc' = (IF stop THEN "tidy" ELSE "clean_retry")
         /\ UNCHANGED <<current, retrying>>
      \/ /\ pc = "tidy" /\ pc' = "clean_next" /\ UNCHANGED <<current, retrying>>
      \/ /\ pc = "tidy" /\ pc' = "check" /\ retrying' = FALSE
         /\ current' = current + 1 /\ current < Scenarios
      \/ /\ pc = "tidy" /\ pc' = "clean_last" /\ retrying' = FALSE /\ current' = current
  BY <1>1, LoopGoesOn DEF Check, Decide, Tidy, LeaveLoop
<1>4. current \in 0..Scenarios /\ Scenarios \in Nat \ {0} /\ Len(results) \in Nat
  BY <1>1, ScenariosAssumption DEF TypeOK
<1>5. TypeOK'
  <2>1. current' \in 0..Scenarios
    BY <1>3, <1>4
  <2>2. retrying' \in BOOLEAN
    BY <1>1, <1>3 DEF TypeOK
  <2>3. pc' \in Locations /\ pc' # "wait"
    BY <1>3 DEF Locations
  <2> QED BY <1>1, <1>2, <2>1, <2>2, <2>3 DEF TypeOK, historyVars
<1>6. PlaceInv'
  BY <1>1, <1>2, <1>3, <1>4 DEF PlaceInv, Alive, Running, managerVars
<1>7. StopInv'
  BY <1>1, <1>2, <1>3 DEF StopInv, historyVars, TypeOK
<1>8. SkipInv'
  BY <1>1, <1>2, <1>3, SkipRests DEF historyVars, Running, PlaceInv, SkipInv
<1> QED BY <1>2, <1>5, <1>6, <1>7, <1>8 DEF IInv

\* The clean-up before a retry, which is given up when that fails.
LEMMA RetryInv == IInv /\ CleanForRetry => IInv'
<1> SUFFICES ASSUME IInv, CleanForRetry PROVE IInv'
  OBVIOUS
<1>1. TypeOK /\ ManagerTypeOK /\ ProcessInv /\ PlaceInv /\ StopInv /\ SkipInv
  BY DEF IInv, TypeOK
<1>2. PICK ok \in BOOLEAN : retrying' = ok /\ pc' = (IF ok THEN "launch" ELSE "tidy")
  BY DEF CleanForRetry
<1>3. /\ UNCHANGED <<current, tracked, stop, skip, results, historyVars, phase, code>>
      /\ ManagerTypeOK' /\ ProcessInv' /\ pc = "clean_retry"
  BY <1>1, CleanSteps DEF CleanForRetry, KeepManager
<1>4. current \in 0..Scenarios /\ Scenarios \in Nat \ {0} /\ Len(results) \in Nat
  BY <1>1, ScenariosAssumption DEF TypeOK
<1>5. TypeOK'
  BY <1>1, <1>2, <1>3 DEF TypeOK, Locations, historyVars
<1>6. PlaceInv'
  BY <1>1, <1>2, <1>3, <1>4 DEF PlaceInv, Alive, Running
<1>7. StopInv'
  BY <1>1, <1>2, <1>3 DEF StopInv, historyVars
<1>8. SkipInv'
  BY <1>1, <1>2, <1>3, SkipRests DEF historyVars, Running, SkipInv
<1> QED BY <1>3, <1>5, <1>6, <1>7, <1>8 DEF IInv


\* A manager is started, awaited and reaped; or it cannot be started.
LEMMA LaunchInv == IInv /\ (Launch \/ LaunchFails \/ Track \/ Reap) => IInv'
<1> SUFFICES ASSUME IInv, Launch \/ LaunchFails \/ Track \/ Reap PROVE IInv'
  OBVIOUS
<1>1. TypeOK /\ ManagerTypeOK /\ ProcessInv /\ PlaceInv /\ StopInv /\ SkipInv
  BY DEF IInv, TypeOK
<1>2. UNCHANGED <<current, retrying, stop, skip, results, signals, skipped, stopping, left>>
  BY DEF Launch, LaunchFails, Track, Reap, Start, managerVars, historyVars
<1>3. current \in Nat /\ Len(results) \in Nat /\ launches \in Nat /\ phase \in Phases
  BY <1>1 DEF TypeOK, ManagerTypeOK
<1>5. CASE Launch
  <2>1. /\ ManagerTypeOK' /\ ProcessInv' /\ phase' = "boot" /\ code' = 0 /\ pc = "launch"
        /\ pc' = "track" /\ tracked' = tracked
        /\ launches' = IF stop THEN launches + 1 ELSE launches
    BY <1>1, <1>5, StartSteps DEF Launch, Start
  <2>2. launches' \in Nat
    BY <1>3, <2>1
  <2>3. TypeOK'
    BY <1>1, <1>2, <2>1, <2>2 DEF TypeOK, Locations
  <2>4. PlaceInv'
    BY <1>1, <1>2, <1>3, <2>1 DEF PlaceInv, Running, Alive
  <2>5. StopInv'
    BY <1>1, <1>2, <1>3, <2>1 DEF StopInv, TypeOK
  <2>6. SkipInv'
    BY <1>1, <1>2, <2>1, SkipRests DEF SkipInv, Running
  <2> QED BY <2>1, <2>3, <2>4, <2>5, <2>6 DEF IInv
<1>6. CASE LaunchFails
  <2>1. /\ phase' = "none" /\ code' = 1 /\ pc = "launch" /\ pc' = "judge"
        /\ UNCHANGED <<step, failed, done, hits, refused, tracked, launches>>
    BY <1>6 DEF LaunchFails, historyVars
  <2>2. ManagerTypeOK' /\ ProcessInv'
    BY <1>1, <1>2, <2>1 DEF ManagerTypeOK, ProcessInv, Phases
  <2>3. TypeOK'
    BY <1>1, <1>2, <2>1, <2>2 DEF TypeOK, Locations
  <2>4. PlaceInv'
    BY <1>1, <1>2, <1>3, <2>1 DEF PlaceInv, Running, Alive
  <2>5. StopInv'
    BY <1>1, <1>2, <2>1 DEF StopInv
  <2>6. SkipInv'
    BY <1>1, <1>2, <2>1, SkipRests DEF SkipInv, Running
  <2> QED BY <2>2, <2>3, <2>4, <2>5, <2>6 DEF IInv
<1>7. CASE Track \/ Reap
  <2>1. /\ UNCHANGED <<managerVars, phase, code, launches>>
        /\ \/ pc = "track" /\ pc' = "wait" /\ tracked' = TRUE
           \/ pc = "wait" /\ pc' = "judge" /\ tracked' = FALSE /\ phase = "exited"
    BY <1>7 DEF Track, Reap, historyVars, managerVars
  <2>2. ManagerTypeOK' /\ ProcessInv'
    BY <1>1, <2>1, ProcessRests
  <2>3. pc' = "wait" => (Alive' \/ phase' = "exited")
    BY <1>1, <2>1 DEF PlaceInv, Alive
  <2>4. TypeOK'
    BY <1>1, <1>2, <2>1, <2>2, <2>3 DEF TypeOK, Locations
  <2>5. PlaceInv'
    BY <1>1, <1>2, <1>3, <2>1 DEF PlaceInv, Running, Alive
  <2>6. StopInv'
    BY <1>1, <1>2, <2>1 DEF StopInv
  <2>7. SkipInv'
    BY <1>1, <1>2, <2>1, SkipRests DEF SkipInv, Running
  <2> QED BY <2>2, <2>4, <2>5, <2>6, <2>7 DEF IInv
<1> QED BY <1>5, <1>6, <1>7

\* The result of the main run is recorded, with the skip that came in before it.
LEMMA JudgeInv == IInv /\ Judge => IInv'
<1> SUFFICES ASSUME IInv, Judge PROVE IInv'
  OBVIOUS
<1> DEFINE result == [success |-> code = 0 /\ ~skip, skipped |-> skip, retry |-> "none"]
<1>1. TypeOK /\ ManagerTypeOK /\ ProcessInv /\ PlaceInv /\ StopInv /\ SkipInv
  BY DEF IInv, TypeOK
<1>2. /\ UNCHANGED <<managerVars, current, retrying, tracked, stop, historyVars>>
      /\ pc = "judge" /\ ~retrying /\ skip' = FALSE
      /\ pc' = IF ~skip /\ code # 0 THEN "decide" ELSE "tidy"
      /\ results' = Append(results, result)
      /\ ManagerTypeOK' /\ ProcessInv'
  BY <1>1, ProcessRests DEF Judge
<1>3. result \in Result
  BY <1>1 DEF TypeOK, Result
<1>4. result.skipped = skip /\ result.retry = "none"
  OBVIOUS
<1>5. /\ current \in 0..Scenarios /\ Scenarios \in Nat /\ Len(results) \in Nat
      /\ results \in Seq(Result) /\ Len(results) = current - 1
  BY <1>1, <1>2, ScenariosAssumption DEF TypeOK, PlaceInv, Running
<1> HIDE DEF result
<1>6. /\ results' \in Seq(Result) /\ Len(results') = Len(results) + 1
      /\ \A k \in 1..Len(results) : results'[k] = results[k]
      /\ results'[Len(results) + 1] = result
  BY <1>2, <1>3, <1>5, AppendProperties
<1>7. TypeOK'
  <2>1. Len(results') <= Scenarios
    BY <1>5, <1>6
  <2>2. pc' \in Locations /\ pc' # "wait" /\ skip' \in BOOLEAN
    BY <1>2 DEF Locations
  <2> QED BY <1>1, <1>2, <1>6, <2>1, <2>2 DEF TypeOK, historyVars
<1>8. PlaceInv'
  BY <1>1, <1>2, <1>5, <1>6 DEF PlaceInv, Running, Alive, managerVars
<1>9. StopInv'
  BY <1>1, <1>2 DEF StopInv, historyVars
<1>10. SkipInv'
  <2>1. skipped' = skipped /\ current' = current
    BY <1>2 DEF historyVars
  <2>2. current \in skipped <=> skip
    BY <1>1, <1>5 DEF SkipInv
  <2>3. ASSUME NEW k \in 1..Len(results')
        PROVE  /\ k \in skipped => results'[k].skipped /\ results'[k].retry = "none"
               /\ results'[k].skipped => k \in skipped
    <3>1. CASE k = current
      <4>1. results'[k] = result
        BY <1>5, <1>6, <3>1
      <4> QED BY <1>4, <2>2, <3>1, <4>1
    <3>2. CASE k # current
      <4>1. k \in 1..Len(results) /\ results'[k] = results[k]
        BY <1>5, <1>6, <2>3, <3>2
      <4> QED BY <1>1, <4>1 DEF SkipInv, SkipIsKept, SkipMarksOne
    <3> QED BY <3>1, <3>2
  <2>4. SkipIsKept' /\ SkipMarksOne'
    BY <2>1, <2>3 DEF SkipIsKept, SkipMarksOne
  <2>5. skipped \subseteq 1..current /\ Len(results') = current
    BY <1>1, <1>5, <1>6 DEF SkipInv
  <2>6. skipped \subseteq 1..(current + 1) /\ current + 1 \notin skipped
    BY <1>5, <2>5
  <2> QED BY <1>2, <2>1, <2>2, <2>4, <2>5, <2>6 DEF SkipInv, Running
<1> QED BY <1>2, <1>7, <1>8, <1>9, <1>10 DEF IInv

\* The result of a retry is noted with its scenario, which was not skipped.
LEMMA JudgeRetryInv == IInv /\ JudgeRetry => IInv'
<1> SUFFICES ASSUME IInv, JudgeRetry PROVE IInv'
  OBVIOUS
<1> DEFINE n == Len(results)
           outcome == IF code = 0 THEN "succeeded" ELSE "failed"
           noted == [results[n] EXCEPT !.retry = outcome]
<1>1. TypeOK /\ ManagerTypeOK /\ ProcessInv /\ PlaceInv /\ StopInv /\ SkipInv
  BY DEF IInv, TypeOK
<1>2. /\ UNCHANGED <<managerVars, current, retrying, tracked, stop, skip, historyVars>>
      /\ pc = "judge" /\ retrying /\ pc' = "tidy"
      /\ results' = [results EXCEPT ![n] = noted]
      /\ ManagerTypeOK' /\ ProcessInv'
  BY <1>1, ProcessRests DEF JudgeRetry
<1>3. n \in Nat /\ n = current /\ current # 0 /\ results \in Seq(Result) /\ n \notin skipped
  BY <1>1, <1>2 DEF TypeOK, PlaceInv, Running, SkipInv
<1>4. n \in 1..Len(results) /\ results[n] \in Result
  BY <1>3
<1>5. noted \in Result
  BY <1>4 DEF Result
<1> HIDE DEF noted
<1>6. /\ results' \in Seq(Result) /\ Len(results') = Len(results)
      /\ \A k \in 1..Len(results) : results'[k] = IF k = n THEN noted ELSE results[k]
  <2> HIDE DEF n
  <2> QED BY <1>2, <1>3, <1>4, <1>5, ExceptSeq
<1>7. TypeOK'
  BY <1>1, <1>2, <1>6 DEF TypeOK, historyVars, Locations
<1>8. PlaceInv'
  BY <1>1, <1>2, <1>3, <1>6 DEF PlaceInv, Running, Alive, managerVars
<1>9. StopInv'
  BY <1>1, <1>2 DEF StopInv, historyVars
<1>10. SkipInv'
  <2>1. skipped' = skipped /\ current' = current
    BY <1>2 DEF historyVars
  <2>2. ASSUME NEW k \in 1..Len(results')
        PROVE  /\ k \in skipped => results'[k].skipped /\ results'[k].retry = "none"
               /\ results'[k].skipped => k \in skipped
    <3>1. CASE k = n
      <4>1. results'[k] = noted /\ ~results[n].skipped /\ k \notin skipped
        BY <1>1, <1>3, <1>4, <1>6, <3>1 DEF SkipInv, SkipMarksOne
      <4>2. noted.skipped = results[n].skipped
        BY <1>4 DEF noted, Result
      <4> QED BY <4>1, <4>2
    <3>2. CASE k # n
      <4>1. k \in 1..Len(results) /\ results'[k] = results[k]
        BY <1>6, <2>2, <3>2
      <4> QED BY <1>1, <4>1 DEF SkipInv, SkipIsKept, SkipMarksOne
    <3> QED BY <3>1, <3>2
  <2>3. SkipIsKept' /\ SkipMarksOne'
    BY <2>1, <2>2 DEF SkipIsKept, SkipMarksOne
  <2> QED BY <1>1, <1>2, <1>6, <2>1, <2>3 DEF SkipInv, Running
<1> QED BY <1>2, <1>7, <1>8, <1>9, <1>10 DEF IInv


(***************************************************************************)
(* The operator and the manager process, at any moment.                    *)
(***************************************************************************)

\* The manager goes on only where the runner has started it.
LEMMA ManagerInv == IInv /\ ManagerProcess => IInv'
<1> SUFFICES ASSUME IInv, ManagerProcess PROVE IInv'
  OBVIOUS
<1>1. TypeOK /\ ManagerTypeOK /\ ProcessInv /\ PlaceInv /\ StopInv /\ SkipInv
  BY DEF IInv, TypeOK
<1>2. ManagerStep /\ UNCHANGED <<runnerVars, historyVars>> /\ ManagerTypeOK' /\ ProcessInv'
  BY <1>1, ManagerTypes, ManagerSteps DEF ManagerProcess
<1>3. UNCHANGED <<pc, current, retrying, tracked, stop, skip, results, signals, skipped,
                  stopping, launches>>
  BY <1>2 DEF runnerVars, historyVars
<1>4. Alive /\ phase' # "none"
  BY <1>2 DEF ManagerStep, Boot, EngineReturns, EngineRaises, Report, BeginStep, StepSucceeds,
     StepFails, Finish, Exit, Alive
<1>5. pc \in {"track", "wait"}
  BY <1>1, <1>4 DEF PlaceInv
<1>6. pc' = "wait" => (Alive' \/ phase' = "exited")
  BY <1>4 DEF Alive
<1>7. TypeOK'
  BY <1>1, <1>2, <1>3, <1>6 DEF TypeOK
<1>8. PlaceInv'
  BY <1>1, <1>3, <1>4, <1>5 DEF PlaceInv, Running
<1>9. StopInv' /\ SkipInv'
  BY <1>1, <1>3 DEF StopInv, SkipInv, SkipIsKept, SkipMarksOne
<1> QED BY <1>2, <1>7, <1>8, <1>9 DEF IInv

\* What was deleted is gone.
LEMMA VanishInv == IInv /\ Vanish => IInv'
<1> SUFFICES ASSUME IInv, Vanish PROVE IInv'
  OBVIOUS
<1>1. TypeOK /\ ManagerTypeOK /\ ProcessInv /\ PlaceInv /\ StopInv /\ SkipInv
  BY DEF IInv, TypeOK
<1>2. UNCHANGED <<runnerVars, historyVars, phase, code>> /\ ManagerTypeOK' /\ ProcessInv'
  BY <1>1, CleanSteps DEF Vanish, KeepManager
<1>3. UNCHANGED <<pc, current, retrying, tracked, stop, skip, results, signals, skipped,
                  stopping, launches>>
  BY <1>2 DEF runnerVars, historyVars
<1>4. TypeOK'
  BY <1>1, <1>2, <1>3 DEF TypeOK, Alive
<1>5. PlaceInv'
  BY <1>1, <1>2, <1>3 DEF PlaceInv, Running, Alive
<1>6. StopInv' /\ SkipInv'
  BY <1>1, <1>3 DEF StopInv, SkipInv, SkipIsKept, SkipMarksOne
<1> QED BY <1>2, <1>4, <1>5, <1>6 DEF IInv

\* A signal reaches only a manager the runner awaits.
LEMMA SendSteps ==
  ASSUME IInv, Send, UNCHANGED <<pc, current, retrying, tracked, results, launches>>
  PROVE  /\ ManagerTypeOK' /\ ProcessInv' /\ PlaceInv'
         /\ signals' \in 0..MaxSignals
         /\ pc' = "wait" => (Alive' \/ phase' = "exited")
         /\ Forward => pc = "wait"
         /\ pc # "over"
<1>1. TypeOK /\ ManagerTypeOK /\ ProcessInv /\ PlaceInv
  BY DEF IInv, TypeOK
<1>2. signals' \in 0..MaxSignals /\ pc # "over"
  BY <1>1, MaxSignalsAssumption DEF Send, TypeOK
<1>3. Forward => pc = "wait"
  BY <1>1 DEF Forward, PlaceInv
<1>4. CASE Forward
  <2>1. ManagerTypeOK' /\ ProcessInv' /\ phase' # "none"
    BY <1>1, <1>4, SignalSteps DEF Send
  <2>2. PlaceInv'
    BY <1>1, <1>3, <1>4, <2>1 DEF PlaceInv, Running
  <2> QED BY <1>2, <1>3, <2>1, <2>2 DEF Alive
<1>5. CASE ~Forward
  <2>1. UNCHANGED managerVars
    BY <1>5 DEF Send
  <2>2. UNCHANGED <<phase, code>>
    BY <2>1 DEF managerVars
  <2>3. PlaceInv'
    BY <1>1, <2>2 DEF PlaceInv, Running, Alive
  <2>4. pc' = "wait" => (Alive' \/ phase' = "exited")
    BY <1>1, <2>2 DEF TypeOK, Alive
  <2> QED BY <1>1, <1>2, <1>3, <2>1, <2>3, <2>4, ProcessRests
<1> QED BY <1>4, <1>5

\* SIGTERM to the runner.
LEMMA RequestStopInv == IInv /\ RequestStop => IInv'
<1> SUFFICES ASSUME IInv, RequestStop PROVE IInv'
  OBVIOUS
<1>1. TypeOK /\ StopInv /\ SkipInv
  BY DEF IInv
<1>2. /\ Send /\ stop' = TRUE /\ stopping' = (IF stop THEN stopping ELSE Arrival)
      /\ UNCHANGED <<pc, current, retrying, tracked, skip, results, skipped, launches>>
  BY DEF RequestStop
<1>3. /\ ManagerTypeOK' /\ ProcessInv' /\ PlaceInv' /\ signals' \in 0..MaxSignals
      /\ pc' = "wait" => (Alive' \/ phase' = "exited")
      /\ Forward => pc = "wait"
  BY <1>2, SendSteps
<1>4. Arrival \in {"idle", "unnoticed", "forwarded"}
  BY DEF Arrival
<1>5. TypeOK'
  BY <1>1, <1>2, <1>3, <1>4 DEF TypeOK
<1>6. Arrival \in {"idle", "forwarded"} => pc \notin {"launch", "clean_retry"}
  BY <1>3 DEF Arrival
<1>7. StopInv'
  BY <1>1, <1>2, <1>4, <1>6 DEF StopInv, TypeOK
<1>8. SkipInv'
  BY <1>1, <1>2 DEF SkipInv, SkipIsKept, SkipMarksOne
<1> QED BY <1>3, <1>5, <1>7, <1>8 DEF IInv

\* SIGUSR1 to the runner.
LEMMA RequestSkipInv == IInv /\ RequestSkip => IInv'
<1> SUFFICES ASSUME IInv, RequestSkip PROVE IInv'
  OBVIOUS
<1>1. TypeOK /\ StopInv /\ SkipInv /\ PlaceInv
  BY DEF IInv
<1>2. /\ Send /\ skip' = TRUE
      /\ skipped' = skipped \cup {Len(results) + 1}
      /\ UNCHANGED <<pc, current, retrying, tracked, stop, results, stopping, launches>>
  BY DEF RequestSkip
<1>3. /\ ManagerTypeOK' /\ ProcessInv' /\ PlaceInv' /\ signals' \in 0..MaxSignals
      /\ pc' = "wait" => (Alive' \/ phase' = "exited")
  BY <1>2, SendSteps
<1>4. Len(results) \in 0..Scenarios /\ Scenarios \in Nat
  BY <1>1, ScenariosAssumption DEF TypeOK
<1>5. skipped' \subseteq 1..(Len(results) + 1)
  <2>1. skipped \subseteq 1..(Len(results) + 1) /\ Len(results) + 1 \in 1..(Len(results) + 1)
    BY <1>1, <1>4 DEF SkipInv
  <2> QED BY <1>2, <2>1
<1>6. TypeOK'
  <2>1. skipped' \subseteq 1..(Scenarios + 1)
    BY <1>4, <1>5
  <2> QED BY <1>1, <1>2, <1>3, <2>1 DEF TypeOK
<1>7. StopInv'
  BY <1>1, <1>2 DEF StopInv
<1>8. SkipInv'
  <2>1. \A k \in 1..Len(results) : k \in skipped' <=> k \in skipped
    BY <1>2, <1>4
  <2>2. SkipIsKept' /\ SkipMarksOne'
    BY <1>1, <1>2, <2>1 DEF SkipInv, SkipIsKept, SkipMarksOne
  <2>3. Len(results) \in skipped' <=> Len(results) \in skipped
    BY <1>2, <1>4
  <2> QED BY <1>1, <1>2, <1>5, <2>2, <2>3 DEF SkipInv
<1> QED BY <1>3, <1>6, <1>7, <1>8 DEF IInv

(***************************************************************************)
(* The theorems.                                                           *)
(***************************************************************************)

\* No manager has been started, and nothing asked for.
LEMMA InitInv == Init => IInv
<1> SUFFICES ASSUME Init PROVE IInv
  OBVIOUS
<1>1. Len(Steps) = 4 /\ 1..0 = {} /\ Scenarios \in Nat \ {0} /\ MaxSignals \in Nat
  BY FourSteps, ScenariosAssumption, MaxSignalsAssumption
<1>2. hits = <<>> /\ results = <<>> /\ hits \in Seq(Phases) /\ results \in Seq(Result) /\ Len(results) = 0
  BY EmptySeq DEF Init, ManagerInit
<1>3. /\ phase = "none" /\ step = 0 /\ code = 0 /\ failed = FALSE /\ done = {}
      /\ refused = FALSE /\ left \in {"none", "leaving", "kept"}
      /\ pc = "clean_first" /\ current = 0 /\ retrying = FALSE /\ tracked = FALSE
      /\ stop = FALSE /\ skip = FALSE /\ signals = 0 /\ skipped = {} /\ stopping = "no" /\ launches = 0
  BY DEF Init, ManagerInit
<1>4. ManagerTypeOK
  <2>1. done \in SUBSET (1..Len(Steps))
    BY <1>3
  <2>2. step \in 0..Len(Steps) /\ phase \in Phases /\ code \in {0, 1, Signalled}
    BY <1>1, <1>3 DEF Phases
  <2>3. failed \in BOOLEAN /\ refused \in BOOLEAN /\ left \in {"none", "leaving", "kept"}
    BY <1>3
  <2> QED BY <1>2, <2>1, <2>2, <2>3 DEF ManagerTypeOK
<1>5. TypeOK
  <2>1. current \in 0..Scenarios /\ signals \in 0..MaxSignals /\ Len(results) <= Scenarios
    BY <1>1, <1>2, <1>3
  <2>2. skipped \subseteq 1..(Scenarios + 1) /\ launches \in Nat /\ pc \in Locations /\ pc # "wait"
    BY <1>3 DEF Locations
  <2>3. results \in Seq(Result)
    BY <1>2
  <2> QED BY <1>3, <1>4, <2>1, <2>2, <2>3 DEF TypeOK
<1>6. ProcessInv
  BY <1>1, <1>2, <1>3 DEF ProcessInv
<1>7. PlaceInv /\ StopInv
  BY <1>2, <1>3 DEF PlaceInv, StopInv, Alive, Running
<1>8. SkipInv
  BY <1>2, <1>3 DEF SkipInv, SkipIsKept, SkipMarksOne, Running
<1> QED BY <1>5, <1>6, <1>7, <1>8 DEF IInv

\* Every step of the runner, of its manager and of the operator keeps the invariant.
LEMMA StepInv == IInv /\ [Next]_vars => IInv'
<1>1. IInv /\ UNCHANGED vars => IInv'
  <2> SUFFICES ASSUME IInv, UNCHANGED vars PROVE IInv'
    OBVIOUS
  <2>1. TypeOK /\ ManagerTypeOK /\ ProcessInv /\ PlaceInv /\ StopInv /\ SkipInv
    BY DEF IInv, TypeOK
  <2>2. ManagerTypeOK' /\ ProcessInv' /\ UNCHANGED <<phase, code>>
    BY <2>1, ProcessRests DEF vars, managerVars
  <2>3. UNCHANGED <<pc, current, retrying, tracked, stop, skip, results, signals, skipped,
                    stopping, launches>>
    BY DEF vars, runnerVars, historyVars
  <2>4. TypeOK'
    BY <2>1, <2>2, <2>3 DEF TypeOK, Alive
  <2>5. PlaceInv'
    BY <2>1, <2>2, <2>3 DEF PlaceInv, Alive, Running
  <2>6. StopInv' /\ SkipInv'
    BY <2>1, <2>3 DEF StopInv, SkipInv, SkipIsKept, SkipMarksOne
  <2> QED BY <2>2, <2>4, <2>5, <2>6 DEF IInv
<1> QED BY <1>1, CleanUpInv, DecisionInv, RetryInv, LaunchInv, JudgeInv, JudgeRetryInv, ManagerInv, VanishInv,
        RequestStopInv, RequestSkipInv DEF Next, Runner, Over

\* The inductive invariant holds in every batch.
THEOREM Invariant == Spec => []IInv
<1> QED BY InitInv, StepInv, PTL DEF Spec

\* Every variable keeps a value the runner and its manager can give it.
THEOREM TypeCorrect == Spec => []TypeOK
<1>1. IInv => TypeOK
  BY DEF IInv
<1> QED BY Invariant, <1>1, PTL

\* A stop that is noticed or forwarded starts no further manager, one that comes while a
\* manager is about to start lets that one start alone: request_stop and its checks.
THEOREM StopsPromptly == Spec => []StopIsPrompt
<1>1. IInv => StopIsPrompt
  BY DEF IInv, StopInv, StopIsPrompt
<1> QED BY Invariant, <1>1, PTL

\* A skip marks the result that is next when it comes, and its scenario is never retried.
THEOREM SkipsAreKept == Spec => []SkipIsKept
<1>1. IInv => SkipIsKept
  BY DEF IInv, SkipInv
<1> QED BY Invariant, <1>1, PTL

\* And it marks no other: run_all's reset leaves nothing of it for a second scenario.
THEOREM SkipsMarkOne == Spec => []SkipMarksOne
<1>1. IInv => SkipMarksOne
  BY DEF IInv, SkipInv
<1> QED BY Invariant, <1>1, PTL

\* Exit code 0 means that every step of the clean-up was gone through without a failure or
\* a signal, and that what stays behind was refused by the API server.
THEOREM SuccessMeansWhole == Spec => []SuccessIsWhole
<1>1. IInv => SuccessIsWhole
  <2> SUFFICES ASSUME IInv, pc = "judge", code = 0
               PROVE  /\ ~failed /\ hits = <<>> /\ done = 1..Len(Steps)
                      /\ left = "kept" => refused
    BY DEF SuccessIsWhole
  <2>1. phase = "exited"
    BY DEF IInv, PlaceInv
  <2> QED BY <2>1 DEF IInv, ProcessInv
<1> QED BY Invariant, <1>1, PTL
===============================================================================
