------------------------------- MODULE WasabiRun -------------------------------
(***************************************************************************)
(* One Wasabi run, from the wait for the node to the stored artifacts.     *)
(*                                                                         *)
(*   life cycle   EngineBase.run of src/manager/engine/engine_base.py and  *)
(*                cleanup of src/manager.py                                *)
(*   engine       src/manager/engine/wasabi_engine.py                      *)
(*   start-up     modules NodeReadiness and ClientStartup                  *)
(*   external     the coordinator and its entry script, the rounds of the  *)
(*                wallets, the miner, containers that end                  *)
(*                                                                         *)
(* The engine sees rounds as successful broadcasts in the coordinator's    *)
(* log (in a legacy run, in the backend's).  Invoices and post-mix spends  *)
(* are modules of their own; here they only take time or raise.            *)
(***************************************************************************)
EXTENDS NodeReadiness, ClientStartup

CONSTANTS
  Limits,            \* possible [rounds, blocks] of the scenario, 0 for none
  Schedule,          \* of each wallet: delay, stop and skip_rounds of its client
  CoordinatorTries,  \* WASABI_COORDINATOR_START_ATTEMPTS
  SettlementBlocks,  \* WASABI_SETTLEMENT_BLOCKS_AFTER_LIMIT
  EarlyBlocks,       \* bounds: blocks mined before the loop, in it and after it
  LoopBlocks,
  LateBlocks,
  MaxRounds,         \* bound: rounds broadcast
  MaxEnded           \* bound: containers that end by themselves

ASSUME WasabiAssumption ==
  /\ \A l \in Limits : l.rounds \in Nat /\ l.blocks \in 0..LoopBlocks
  /\ \A i \in Wallets :
       /\ {Schedule[i].delay_blocks, Schedule[i].delay_rounds} \subseteq Nat
       /\ {Schedule[i].stop_blocks, Schedule[i].stop_rounds} \subseteq Nat
       /\ Schedule[i].skip_rounds \subseteq Nat
  /\ CoordinatorTries \in Nat \ {0} /\ SettlementBlocks \in Nat
  /\ {EarlyBlocks, LoopBlocks, LateBlocks, MaxRounds, MaxEnded} \subseteq Nat

VARIABLES
  limit,          \* the scenario's rounds and blocks
  split,          \* a coordinator of its own (2.6.0), or a legacy backend
  pc,             \* where the run is
  coordinator,    \* the coordinator's container
  files,          \* what was uploaded to it
  started,        \* attempt, and 0 outside start_wasabi_coordinator
  address,        \* engine.coordinator: None, of the last container or one before it
  gave,           \* the coordinator that each client's container was told
  initial,        \* initial_block
  currentBlock,   \* engine.current_block
  currentRound,   \* engine.current_round
  calls,          \* the clients the pool still has to call
  raised,         \* one of its calls raised
  mixing,         \* what each client's wallet was told, and does
  phase, inRound, \* the coordinator's round, and the wallets in it
  broadcast,      \* rounds broadcast
  stored,         \* what the archive of store_logs holds
  spare,          \* bound: blocks still to be mined in this part of the run
  ended           \* bound: containers that have ended

coordinatorVars == <<coordinator, files, started, address>>
loopVars == <<initial, currentBlock, currentRound, calls, raised>>
roundVars == <<mixing, phase, inRound, broadcast>>
wasabiVars == <<limit, split, pc, coordinatorVars, gave, loopVars, roundVars, stored, spare, ended>>
vars == <<nodeVars, startVars, wasabiVars>>

Init ==
  /\ NodeInit /\ StartInit
  /\ limit \in Limits /\ split \in BOOLEAN
  /\ pc = "node"
  /\ coordinator = "none" /\ files = {} /\ started = 0 /\ address = "none"
  /\ gave = [i \in Wallets |-> "none"]
  /\ initial = 0 /\ currentBlock = 0 /\ currentRound = 0 /\ calls = {} /\ raised = FALSE
  /\ mixing = [i \in Wallets |-> "no"]
  /\ phase = "input" /\ inRound = {} /\ broadcast = 0
  /\ stored = {}
  /\ spare = EarlyBlocks /\ ended = 0

\* An exception leaves EngineBase.run, and the clean-up follows.
Abort == pc' = "stop_all" /\ calls' = {} /\ raised' = FALSE

--------------------------------------------------------------------------------
(***************************************************************************)
(* Start-up: node, backend, coordinator, distributor, clients.             *)
(***************************************************************************)
WaitNode ==
  /\ pc = "node" /\ NodeWait
  /\ UNCHANGED <<startVars, wasabiVars>>

\* The node is ready, or its wait timed out; the backend may fail to start.
NodeWaited ==
  /\ pc = "node" /\ nodePc \in {"ready", "failed"}
  /\ \/ nodePc = "ready" /\ pc' = (IF split THEN "run" ELSE "distributor") /\ UNCHANGED <<calls, raised>>
     \/ Abort
  /\ UNCHANGED <<nodeVars, startVars, limit, split, coordinatorVars, gave, initial, currentBlock,
                 currentRound, roundVars, stored, spare, ended>>

\* Wrong variant: the object of the first coordinator is kept.
KnowFirst == address' = IF address = "none" THEN "current" ELSE address

KnowCoordinator == address' = "current"

\* start_wasabi_coordinator, one attempt: the container, its configuration, the wait.
RunCoordinator ==
  /\ pc = "run" /\ coordinator = "none"
  /\ coordinator' = "waiting" /\ files' = {} /\ started' = started + 1
  /\ address' = (IF address = "current" THEN "old" ELSE address)
  /\ pc' = "config"
  /\ UNCHANGED <<nodeVars, startVars, limit, split, gave, loopVars, roundVars, stored, spare, ended>>

Upload ==
  /\ pc \in {"config", "ready_file"}
  /\ files' = files \union {pc}
  /\ IF pc = "config" THEN pc' = "ready_file" /\ UNCHANGED address
     ELSE pc' = "await" /\ KnowCoordinator
  /\ UNCHANGED <<nodeVars, startVars, limit, split, coordinator, started, gave, loopVars, roundVars,
                 stored, spare, ended>>

CoordinatorReady ==
  /\ pc = "await" /\ coordinator = "running"
  /\ pc' = "distributor" /\ started' = 0
  /\ UNCHANGED <<nodeVars, startVars, limit, split, coordinator, files, address, gave, loopVars, roundVars,
                 stored, spare, ended>>

\* Wrong variant: one attempt too many.
MayRetryAgain == coordinator = "known_failure" /\ started <= CoordinatorTries

MayRetry == coordinator = "known_failure" /\ started < CoordinatorTries

\* wait_ready timed out.  A known reason in the log, while attempts are left: again.
CoordinatorTimesOut ==
  /\ pc = "await"
  /\ \/ /\ MayRetry
        /\ coordinator' = "none" /\ pc' = "run"
        /\ UNCHANGED <<started, calls, raised>>
     \/ /\ ~MayRetry
        /\ Abort /\ started' = 0
        /\ UNCHANGED coordinator
  /\ UNCHANGED <<nodeVars, startVars, limit, split, files, address, gave, initial, currentBlock,
                 currentRound, roundVars, stored, spare, ended>>

\* The distributor starts and is funded, which takes a block to confirm.
Distributor ==
  /\ pc = "distributor"
  /\ pc' = "clients" /\ StartClients
  /\ UNCHANGED <<nodeVars, limit, split, coordinatorVars, gave, loopVars, roundVars, stored, spare, ended>>

\* start_clients; a container is told the coordinator that the engine knows.
StartUp ==
  /\ pc = "clients" /\ Startup
  /\ gave' = [i \in Wallets |-> IF i \in booting' \ booting THEN address ELSE gave[i]]
  /\ UNCHANGED <<nodeVars, limit, split, pc, coordinatorVars, loopVars, roundVars, stored, spare, ended>>

StartFailed ==
  /\ pc = "clients" /\ startPc = "failed"
  /\ Abort
  /\ UNCHANGED <<nodeVars, startVars, limit, split, coordinatorVars, gave, initial, currentBlock,
                 currentRound, roundVars, stored, spare, ended>>

\* Wallets are funded; run_engine begins with the height it finds.
BeginLoop ==
  /\ pc = "clients" /\ startPc = "valid"
  /\ pc' = "rounds" /\ initial' = height /\ spare' = LoopBlocks
  /\ UNCHANGED <<nodeVars, startVars, limit, split, coordinatorVars, gave, currentBlock, currentRound, calls,
                 raised, roundVars, stored, ended>>

\* A step before or in the loop raises: an upload, a payment, a refresh tried thrice.
Raises ==
  /\ \/ pc \in {"run", "config", "ready_file", "distributor", "rounds", "blocks", "work", "settle"}
     \/ pc = "clients" /\ startPc = "valid"
  /\ Abort
  /\ UNCHANGED <<nodeVars, startVars, limit, split, coordinatorVars, gave, initial, currentBlock,
                 currentRound, roundVars, stored, spare, ended>>

--------------------------------------------------------------------------------
(***************************************************************************)
(* run_engine.                                                             *)
(***************************************************************************)
Loop == {"rounds", "blocks", "work", "start", "stop"}

\* Wrong variant: the limit in blocks is forgotten.
RoundsReached == limit.rounds > 0 /\ currentRound >= limit.rounds

\* _run_limit_reached
LimitReached ==
  \/ limit.rounds > 0 /\ currentRound >= limit.rounds
  \/ limit.blocks > 0 /\ currentBlock >= limit.blocks

\* The loop's condition, and _get_current_round.
RefreshRound ==
  /\ pc = "rounds" /\ ~LimitReached
  /\ pc' = "blocks" /\ currentRound' = broadcast
  /\ UNCHANGED <<nodeVars, startVars, limit, split, coordinatorVars, gave, initial, currentBlock, calls, raised,
                 roundVars, stored, spare, ended>>

RefreshBlock ==
  /\ pc = "blocks"
  /\ pc' = "work" /\ currentBlock' = height - initial
  /\ UNCHANGED <<nodeVars, startVars, limit, split, coordinatorVars, gave, initial, currentRound, calls, raised,
                 roundVars, stored, spare, ended>>

\* start_condition
MayMix(i) ==
  /\ ~LimitReached
  /\ Schedule[i].delay_blocks <= currentBlock /\ Schedule[i].delay_rounds <= currentRound
  /\ Schedule[i].stop_blocks = 0 \/ currentBlock < Schedule[i].stop_blocks
  /\ Schedule[i].stop_rounds = 0 \/ currentRound < Schedule[i].stop_rounds
  /\ currentRound \notin Schedule[i].skip_rounds

\* Invoices and spends are done: update_coinjoins starts some clients first.
UpdateCoinjoins ==
  /\ pc = "work"
  /\ pc' = "start" /\ calls' = {i \in Wallets : MayMix(i)}
  /\ UNCHANGED <<nodeVars, startVars, limit, split, coordinatorVars, gave, initial, currentBlock,
                 currentRound, raised, roundVars, stored, spare, ended>>

\* The threads of a pool are done with some of the calls; an error is raised by
\* starmap when all are.
Called(those, failed) ==
  /\ calls' = calls \ those
  /\ raised' = (raised \/ failed)
  /\ UNCHANGED <<nodeVars, startVars, limit, split, pc, coordinatorVars, gave, initial, currentBlock,
                 currentRound, phase, broadcast, stored, spare, ended>>

StartMixing(i) ==
  /\ pc = "start" /\ i \in calls /\ up[i]
  /\ mixing' = [mixing EXCEPT ![i] = "yes"]
  /\ Called({i}, FALSE)
  /\ UNCHANGED inRound

\* stopcoinjoin takes a wallet out of the round, unless the round is critical.
StopMixing(i) ==
  /\ pc = "stop" /\ i \in calls /\ up[i]
  /\ IF i \in inRound /\ phase = "critical"
     THEN mixing' = [mixing EXCEPT ![i] = "ending"] /\ UNCHANGED inRound
     ELSE mixing' = [mixing EXCEPT ![i] = "no"] /\ inRound' = inRound \ {i}
  /\ Called({i}, FALSE)

\* Wrong variant: an unreachable client is passed over.
CallIgnored(i) ==
  /\ pc \in {"start", "stop"} /\ i \in calls
  /\ Called({i}, FALSE)
  /\ UNCHANGED <<mixing, inRound>>

\* The client is unreachable, or its answer is an error: the thread leaves the rest of
\* its chunk.
CallRaises(i) ==
  /\ pc \in {"start", "stop"} /\ i \in calls
  /\ \E chunk \in SUBSET calls : Called(chunk \union {i}, TRUE)
  /\ UNCHANGED <<mixing, inRound>>

\* The pool of starts is done, and that of stops follows.
StartsDone ==
  /\ pc = "start" /\ calls = {}
  /\ IF raised THEN Abort
     ELSE pc' = "stop" /\ calls' = {i \in Wallets : ~MayMix(i)} /\ UNCHANGED raised
  /\ UNCHANGED <<nodeVars, startVars, limit, split, coordinatorVars, gave, initial, currentBlock,
                 currentRound, roundVars, stored, spare, ended>>

StopsDone ==
  /\ pc = "stop" /\ calls = {}
  /\ IF raised THEN Abort ELSE pc' = "rounds" /\ UNCHANGED <<calls, raised>>
  /\ UNCHANGED <<nodeVars, startVars, limit, split, coordinatorVars, gave, initial, currentBlock,
                 currentRound, roundVars, stored, spare, ended>>

LeaveLoop ==
  /\ pc = "rounds" /\ LimitReached
  /\ pc' = "settle"
  /\ UNCHANGED <<nodeVars, startVars, limit, split, coordinatorVars, gave, loopVars, roundVars, stored,
                 spare, ended>>

\* mine_settlement_blocks, whose answer may be lost.
MineSettlement ==
  /\ pc = "settle"
  /\ pc' = "stop_all"
  /\ height' = height + SettlementBlocks
  /\ UNCHANGED <<flushed, paused, nodeWaits, nodeCopies, startVars, limit, split, coordinatorVars, gave, loopVars,
                 mixing, phase, inRound, broadcast, stored, spare, ended>>

--------------------------------------------------------------------------------
(***************************************************************************)
(* cleanup: each step may fail, and the next one follows.                  *)
(***************************************************************************)
\* stop_coinjoins, whose errors are only printed; then store_logs begins.
StopAll ==
  /\ pc = "stop_all"
  /\ pc' = "blocks_of_chain" /\ spare' = LateBlocks
  /\ \E told \in SUBSET {i \in Wallets : up[i] /\ client[i] # "none"} :
       LET leaves == {i \in told : phase = "input" \/ i \notin inRound}
       IN  /\ mixing' = [i \in Wallets |-> IF i \in leaves THEN "no"
                                           ELSE IF i \in told THEN "ending" ELSE mixing[i]]
           /\ inRound' = inRound \ leaves
  /\ UNCHANGED <<nodeVars, startVars, limit, split, coordinatorVars, gave, loopVars, phase, broadcast,
                 stored, ended>>

\* store_logs: the blocks of the chain first, the coordinator's log after them.  Without
\* a block count no block is exported.
ExportBlocks ==
  /\ pc = "blocks_of_chain"
  /\ pc' = "logs"
  /\ stored' \in {stored, {"blocks"}}
  /\ UNCHANGED <<nodeVars, startVars, limit, split, coordinatorVars, gave, loopVars, roundVars,
                 spare, ended>>

\* store_logs is over, and the copy of the data begins.  What the wallets do from then
\* on is not followed.
EndStore ==
  /\ pc' = "data" /\ BeginCopies
  /\ mixing' = [i \in Wallets |-> "no"] /\ phase' = "input" /\ inRound' = {}
  /\ UNCHANGED <<height, flushed, paused, quietHeight, streak, tip, copy, snapshot, startVars, limit, split,
                 coordinatorVars, gave, loopVars, broadcast, spare, ended>>

\* Without the coordinator's log the evidence is marked as incomplete.
ExportLogs ==
  /\ pc = "logs" /\ EndStore
  /\ stored' \in {stored, stored \union {"labels"}}

\* A file or a call of store_logs fails: the rest is not stored, and there is no archive.
StoreFails ==
  /\ pc \in {"blocks_of_chain", "logs"} /\ EndStore
  /\ stored' = {}

\* download_btc_data, if asked for; then the driver removes everything.
CopyData ==
  /\ pc = "data" /\ NodeCopy
  /\ UNCHANGED <<startVars, wasabiVars>>

CleanUp ==
  /\ pc = "data" /\ nodePc \in {"height", "copied", "failed"}
  /\ nodePc = "height" => copyTry = 1
  /\ pc' = "done"
  /\ UNCHANGED <<nodeVars, startVars, limit, split, coordinatorVars, gave, loopVars, roundVars, stored, spare, ended>>

Engine ==
  \/ WaitNode \/ NodeWaited \/ RunCoordinator \/ Upload \/ CoordinatorReady \/ CoordinatorTimesOut
  \/ Distributor \/ StartUp \/ StartFailed \/ BeginLoop \/ Raises
  \/ RefreshRound \/ RefreshBlock \/ UpdateCoinjoins
  \/ \E i \in Wallets : StartMixing(i) \/ StopMixing(i) \/ CallRaises(i)
  \/ StartsDone \/ StopsDone \/ LeaveLoop \/ MineSettlement
  \/ StopAll \/ ExportBlocks \/ ExportLogs \/ StoreFails \/ CopyData \/ CleanUp

--------------------------------------------------------------------------------
(***************************************************************************)
(* External.                                                               *)
(***************************************************************************)
\* What the rounds do is followed until the log is stored.
Watched == Loop \union {"settle", "stop_all", "blocks_of_chain", "logs"}

\* The miner goes on by itself.
Miner ==
  /\ pc # "done" /\ spare > 0 /\ spare' = spare - 1
  /\ Mine
  /\ UNCHANGED <<startVars, limit, split, pc, coordinatorVars, gave, loopVars, mixing, phase, inRound, broadcast,
                 stored, ended>>

\* The entry script takes the configuration once the ready file is there; the
\* coordinator then starts, or ends for a reason that its log may name.
CoordinatorStarts ==
  /\ coordinator = "waiting" /\ "ready_file" \in files
  /\ coordinator' \in IF "config" \in files THEN {"running", "known_failure", "other_failure"} ELSE {"other_failure"}
  /\ UNCHANGED <<nodeVars, startVars, limit, split, pc, files, started, address, gave, loopVars, roundVars,
                 stored, spare, ended>>

Container(i) ==
  /\ pc \notin {"data", "done"} /\ ended < MaxEnded /\ ended' = ended + 1
  /\ ContainerEnds(i)
  /\ mixing' = [mixing EXCEPT ![i] = "no"] /\ inRound' = inRound \ {i}
  /\ UNCHANGED <<nodeVars, limit, split, pc, coordinatorVars, gave, loopVars, phase, broadcast,
                 stored, spare>>

\* Wallets join a round, it becomes critical, and is broadcast or fails.
Join(i) ==
  /\ pc \in Watched /\ mixing[i] = "yes" /\ phase = "input"
  /\ inRound' = inRound \union {i}
  /\ UNCHANGED <<nodeVars, startVars, limit, split, pc, coordinatorVars, gave, loopVars, mixing, phase, broadcast, stored, spare, ended>>

Close ==
  /\ pc \in Watched /\ phase = "input" /\ inRound # {}
  /\ phase' = "critical"
  /\ UNCHANGED <<nodeVars, startVars, limit, split, pc, coordinatorVars, gave, loopVars, mixing, inRound,
                 broadcast, stored, spare, ended>>

EndRound ==
  /\ pc \in Watched /\ phase = "critical"
  /\ broadcast' \in {broadcast, broadcast + 1} /\ broadcast' <= MaxRounds
  /\ phase' = "input" /\ inRound' = {}
  /\ mixing' = [i \in Wallets |-> IF mixing[i] = "ending" THEN "no" ELSE mixing[i]]
  /\ UNCHANGED <<nodeVars, startVars, limit, split, pc, coordinatorVars, gave, loopVars, stored,
                 spare, ended>>

External ==
  \/ Miner \/ CoordinatorStarts \/ Close \/ EndRound
  \/ \E i \in Wallets : Container(i) \/ Join(i)

Done == pc = "done" /\ UNCHANGED vars

Next == Engine \/ External \/ Done

Spec == Init /\ [][Next]_vars

\* The deadline of a readiness wait, which is checked between its samples.
WaitTimesOut ==
  /\ pc = "node" /\ ReadinessTimesOut
  /\ UNCHANGED <<startVars, wasabiVars>>

\* The engine's thread goes on, its waits have deadlines, and the miner mines.
FairSpec == Spec /\ WF_vars(Engine) /\ WF_vars(WaitTimesOut) /\ WF_vars(Miner)

--------------------------------------------------------------------------------
(***************************************************************************)
(* Properties.                                                             *)
(***************************************************************************)
\* The types; what is known of the pools and of the rounds.
TypeOK ==
  /\ NodeTypeOK /\ StartTypeOK
  /\ limit \in Limits /\ split \in BOOLEAN
  /\ pc \in Loop \union {"node", "run", "config", "ready_file", "await", "distributor", "clients", "settle",
                         "stop_all", "blocks_of_chain", "logs", "data", "done"}
  /\ coordinator \in {"none", "waiting", "running", "known_failure", "other_failure"}
  /\ files \subseteq {"config", "ready_file"} /\ started \in 0..CoordinatorTries
  /\ address \in {"none", "current", "old"} /\ gave \in [Wallets -> {"none", "current", "old"}]
  /\ initial \in 0..height /\ currentBlock \in 0..height /\ currentRound \in 0..broadcast
  /\ calls \subseteq Wallets /\ raised \in BOOLEAN /\ (calls # {} => pc \in {"start", "stop"})
  /\ mixing \in [Wallets -> {"no", "yes", "ending"}]
  /\ phase \in {"input", "critical"} /\ inRound \subseteq {i \in Wallets : mixing[i] # "no"}
  /\ broadcast \in 0..MaxRounds
  /\ stored \subseteq {"blocks", "labels"}
  /\ spare \in Nat /\ ended \in 0..MaxEnded

\* In the loop every wallet has an object for the container started for it last, which
\* answered a health check and was told the coordinator that runs.
EveryWalletIsServed ==
  pc \in Loop \union {"settle"} =>
    \A i \in Wallets :
      /\ client[i] = "current" /\ answered[i]
      /\ split => gave[i] = "current" /\ coordinator = "running"

\* A snapshot is the chain at the height it is stored with, blocks and state alike,
\* whatever the miner did between the calls.
SnapshotIsOneHeight == snapshot > 0 => copy = [blocks |-> snapshot, state |-> snapshot]

\* A run limited in blocks ends, however its rounds and clients fare.
RunEnds == limit.blocks > 0 ~> pc = "done"

\* A client whose container is gone ends the run's loop, even with no limit in blocks.
GoneClientEndsRun == (pc \in Loop /\ \E i \in Wallets : ~up[i]) ~> pc \notin Loop

================================================================================
