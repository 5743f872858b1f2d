---------------------------- MODULE WasabiRunProofs ----------------------------
(***************************************************************************)
(* Proofs about WasabiRun and the two modules it is built from: its types, *)
(* that the run's loop works with clients that answered and were told the  *)
(* coordinator that runs, and that a stored copy of the node's data is the *)
(* chain at one height.                                                    *)
(*                                                                         *)
(* The inductive invariant has a part for each actor: NodeInv of the       *)
(* node's wait and copies, StartInv of the start of the clients, and       *)
(* RunInv of the engine, which says at which of its places the others are  *)
(* still, and what it knows of the coordinator there.                      *)
(***************************************************************************)
EXTENDS WasabiRun, TLAPS

NodeWaiting == {"chain", "fee", "quiet", "ready", "failed"}
NodeCopying == {"height", "flush", "pause", "copy", "unpause", "check", "copied", "failed"}

\* What the copy under way is worth: it began at tip, the chain state was flushed after
\* that and copied after the flush, with the blocks no earlier than the state.
NodeInv ==
  /\ nodePc \in {"pause", "copy", "unpause", "check"} => tip <= flushed
  /\ nodePc \in {"unpause", "check"} => flushed <= copy.state /\ copy.state <= copy.blocks
  /\ snapshot # 0 => nodePc = "copied" /\ copy = [blocks |-> snapshot, state |-> snapshot]

\* An object for an earlier container is only held while the next one boots; between two
\* passes nothing boots; and a valid start has an answer from every client.
StartInv ==
  /\ startPc # "start" => batch = {}
  /\ startPc = "off" => \A i \in Wallets : client[i] = "none"
  /\ startPc = "stop" => retry < Retries
  /\ \A i \in Wallets : client[i] = "old" => i \in booting
  /\ startPc = "valid" => \A i \in Wallets : client[i] = "current" /\ answered[i]

\* Where the node and the clients are while the engine is at each of its places, and
\* what it knows of a coordinator of its own.
RunInv ==
  /\ pc = "node" => nodePc \in NodeWaiting
  /\ pc \in {"data", "done"} => nodePc \in NodeCopying
  /\ pc \notin {"node", "data", "done"} => nodePc \in {"ready", "failed"}
  /\ pc \in {"node", "run", "config", "ready_file", "await", "distributor"} => startPc = "off"
  /\ pc \in Loop \union {"settle"} => startPc = "valid"
  /\ pc = "node" => started = 0
  /\ pc = "run" => started < CoordinatorTries
  /\ pc = "await" => address = "current"
  /\ split /\ pc \in Loop \union {"distributor", "clients", "settle"} =>
       address = "current" /\ coordinator = "running"
  /\ split => \A i \in Wallets : client[i] # "none" \/ i \in booting => gave[i] = "current"

IInv == TypeOK /\ NodeInv /\ StartInv /\ RunInv

-----------------------------------------------------------------------------
(***************************************************************************)
(* The node.                                                               *)
(***************************************************************************)
\* More blocks change nothing but the height.
LEMMA MoreBlocks ==
  ASSUME NodeTypeOK, NodeInv, NEW n \in Nat, height' = height + n,
         UNCHANGED <<flushed, paused, nodeWaits, nodeCopies>>
  PROVE  NodeTypeOK' /\ NodeInv'
<1> USE DEF nodeWaits, nodeCopies
<1>1. height' \in Nat \ {0} /\ 0..height \subseteq 0..height' /\ 1..height \subseteq 1..height'
  BY DEF NodeTypeOK
<1>2. copy' \in [blocks : 0..height', state : 0..height']
  BY <1>1 DEF NodeTypeOK
<1>3. NodeTypeOK'
  BY <1>1, <1>2 DEF NodeTypeOK
<1>4. NodeInv'
  BY DEF NodeInv
<1> QED
  BY <1>3, <1>4

\* wait_for_node_ready copies nothing, and counts no more samples than it needs.
LEMMA NodeWaits ==
  ASSUME NodeTypeOK, NodeInv, NodeWait
  PROVE  NodeTypeOK' /\ NodeInv' /\ nodePc \in NodeWaiting /\ nodePc' \in NodeWaiting
<1> USE NodeAssumption DEF NodeTypeOK, NodeInv, NodeWaiting, nodeCopies
<1>1. CASE ChainReady
  BY <1>1 DEF ChainReady
<1>2. CASE SampleFails
  BY <1>2 DEF SampleFails
<1>3. CASE SampleTip
  BY <1>3 DEF SampleTip
<1>4. CASE TipIsQuiet
  BY <1>4 DEF TipIsQuiet
<1>5. CASE ReadinessTimesOut
  BY <1>5 DEF ReadinessTimesOut
<1> QED
  BY <1>1, <1>2, <1>3, <1>4, <1>5 DEF NodeWait

\* A copy that began and ended at the same tip is of that height: the chain state was
\* flushed at the tip or later, the blocks are none above it.
LEMMA NodeCopies ==
  ASSUME NodeTypeOK, NodeInv, NodeCopy
  PROVE  NodeTypeOK' /\ NodeInv' /\ nodePc' \in NodeCopying
<1> USE NodeAssumption DEF NodeTypeOK, NodeInv, NodeCopying, nodeCopies
<1>1. CASE ReadTip
  BY <1>1 DEF ReadTip
<1>2. CASE FlushState
  BY <1>2 DEF FlushState
<1>3. CASE Pause
  BY <1>3 DEF Pause
<1>4. CASE Copy
  <2>1. PICK written \in flushed..height : copy' = [blocks |-> height, state |-> written]
    BY <1>4 DEF Copy
  <2> QED
    BY <1>4, <2>1 DEF Copy
<1>5. CASE Unpause
  BY <1>5 DEF Unpause
<1>6. CASE CheckTip
  <2>1. CASE height = tip
    <3>1. copy.blocks = tip /\ copy.state = tip
      BY <1>6, <2>1 DEF CheckTip
    <3>2. copy = [blocks |-> tip, state |-> tip]
      BY <3>1
    <3> QED
      BY <1>6, <2>1, <3>2 DEF CheckTip
  <2>2. CASE height # tip
    BY <1>6, <2>2 DEF CheckTip, NoCopy
  <2> QED
    BY <2>1, <2>2
<1>7. CASE CopyFails
  <2>1. nodePc' = "failed" /\ paused' = FALSE /\ copyTry' = 0 /\ tip' = 0 /\ snapshot = 0
    BY <1>7 DEF CopyFails
  <2>2. UNCHANGED <<height, flushed, quietHeight, streak, copy, snapshot>>
    BY <1>7 DEF CopyFails
  <2>3. (paused <=> nodePc \in {"copy", "unpause"})'
    BY <2>1
  <2>4. paused' \in BOOLEAN
    BY <2>1
  <2>7. copyTry' \in 0..CopyTries
    BY <2>1
  <2>8. tip' \in 0..height'
    BY <2>1, <2>2
  <2>5. NodeTypeOK'
    BY <2>1, <2>2, <2>3, <2>4, <2>7, <2>8
  <2>6. NodeInv'
    BY <2>1, <2>2
  <2> QED
    BY <2>1, <2>5, <2>6
<1> QED
  BY <1>1, <1>2, <1>3, <1>4, <1>5, <1>6, <1>7 DEF NodeCopy

-----------------------------------------------------------------------------
(***************************************************************************)
(* The clients.                                                            *)
(***************************************************************************)
\* What start_clients does keeps its types and StartInv.
LEMMA StartSteps ==
  ASSUME StartTypeOK, StartInv, Startup
  PROVE  StartTypeOK' /\ StartInv'
<1> USE WalletsAssumption DEF StartTypeOK, StartInv
<1>1. CASE NextBatch
  <2>1. batch' \subseteq Wallets /\ todo' \subseteq Wallets /\ booting' = {}
    BY <1>1 DEF NextBatch, FirstBonded
  <2> QED
    BY <1>1, <2>1 DEF NextBatch
<1>2. CASE ProbeClients
  BY <1>2 DEF ProbeClients, Unhealthy
<1>3. CASE StopFailed
  BY <1>3 DEF StopFailed
<1>4. CASE StopRaises
  BY <1>4 DEF StopRaises, GiveUp
<1>5. CASE CountMissing
  <2>1. CASE \E i \in Wallets : client[i] = "none"
    <3>1. GiveUp /\ up' = up
      BY <1>5, <2>1 DEF CountMissing
    <3> QED
      BY <3>1 DEF GiveUp
  <2>2. CASE \A i \in Wallets : client[i] # "none"
    BY <1>5, <2>2 DEF CountMissing
  <2> QED
    BY <2>1, <2>2
<1>6. CASE ValidateClients
  BY <1>6 DEF ValidateClients, Unhealthy
<1>7. ASSUME NEW i \in Wallets, RunContainer(i) PROVE StartTypeOK' /\ StartInv'
  BY <1>7 DEF RunContainer
<1>8. ASSUME NEW i \in Wallets, RunFails(i) PROVE StartTypeOK' /\ StartInv'
  BY <1>8 DEF RunFails, NoClient
<1>9. ASSUME NEW i \in Wallets, WalletStarts(i) PROVE StartTypeOK' /\ StartInv'
  BY <1>9 DEF WalletStarts
<1>10. ASSUME NEW i \in Wallets, WalletTimesOut(i) PROVE StartTypeOK' /\ StartInv'
  BY <1>10 DEF WalletTimesOut, NoClient
<1> QED
  BY <1>1, <1>2, <1>3, <1>4, <1>5, <1>6, <1>7, <1>8, <1>9, <1>10 DEF Startup

\* An object or a container comes from no other step of start_clients than those of its
\* own wallet: the next object of a wallet is one of a container that was booting.
LEMMA ClientsCome ==
  ASSUME StartTypeOK, StartInv, Startup, NEW i \in Wallets,
         client'[i] # "none" \/ i \in booting'
  PROVE  client[i] # "none" \/ i \in booting \/ i \in booting' \ booting
<1> USE DEF StartTypeOK, StartInv
<1>1. CASE NextBatch
  BY <1>1 DEF NextBatch
<1>2. CASE ProbeClients \/ StopFailed \/ ValidateClients
  BY <1>2 DEF ProbeClients, StopFailed, ValidateClients
<1>3. CASE StopRaises \/ CountMissing
  BY <1>3 DEF StopRaises, CountMissing, GiveUp
<1>4. ASSUME NEW j \in Wallets, RunContainer(j) \/ RunFails(j)
      PROVE  client[i] # "none" \/ i \in booting \/ i \in booting' \ booting
  BY <1>4 DEF RunContainer, RunFails, NoClient
<1>5. ASSUME NEW j \in Wallets, WalletStarts(j) \/ WalletTimesOut(j)
      PROVE  client[i] # "none" \/ i \in booting \/ i \in booting' \ booting
  BY <1>5 DEF WalletStarts, WalletTimesOut, NoClient
<1> QED
  BY <1>1, <1>2, <1>3, <1>4, <1>5 DEF Startup

\* start_clients begins with no object and no container.
LEMMA StartBegins ==
  ASSUME StartTypeOK, StartInv, StartClients
  PROVE  StartTypeOK' /\ StartInv' /\ client' = client /\ booting' = booting
BY DEF StartTypeOK, StartInv, StartClients

\* A container that ends takes no object with it.
LEMMA ContainersEnd ==
  ASSUME StartTypeOK, StartInv, NEW i \in Wallets, ContainerEnds(i)
  PROVE  StartTypeOK' /\ StartInv' /\ UNCHANGED <<startPc, client, booting>>
BY DEF StartTypeOK, StartInv, ContainerEnds

-----------------------------------------------------------------------------
(***************************************************************************)
(* The engine.  Its own types are the conjuncts of TypeOK that are not     *)
(* those of the node or of the clients.                                    *)
(***************************************************************************)
Places == Loop \union {"node", "run", "config", "ready_file", "await", "distributor", "clients", "settle",
                       "stop_all", "blocks_of_chain", "logs", "data", "done"}

SetupTypeOK ==
  /\ limit \in Limits /\ split \in BOOLEAN /\ pc \in Places
  /\ coordinator \in {"none", "waiting", "running", "known_failure", "other_failure"}
  /\ files \subseteq {"config", "ready_file"} /\ started \in 0..CoordinatorTries
  /\ address \in {"none", "current", "old"} /\ gave \in [Wallets -> {"none", "current", "old"}]

LoopTypeOK ==
  /\ initial \in 0..height /\ currentBlock \in 0..height /\ currentRound \in 0..broadcast
  /\ calls \subseteq Wallets /\ raised \in BOOLEAN /\ (calls # {} => pc \in {"start", "stop"})

RoundTypeOK ==
  /\ mixing \in [Wallets -> {"no", "yes", "ending"}]
  /\ phase \in {"input", "critical"} /\ inRound \subseteq {i \in Wallets : mixing[i] # "no"}
  /\ broadcast \in 0..MaxRounds
  /\ stored \subseteq {"blocks", "labels"}
  /\ spare \in Nat /\ ended \in 0..MaxEnded

\* TypeOK is made of the types of the three.
LEMMA TypeParts ==
  TypeOK <=> NodeTypeOK /\ StartTypeOK /\ SetupTypeOK /\ LoopTypeOK /\ RoundTypeOK
BY DEF TypeOK, SetupTypeOK, LoopTypeOK, RoundTypeOK, Places

EngineInv == SetupTypeOK /\ LoopTypeOK /\ RoundTypeOK /\ RunInv
NodePart == NodeTypeOK /\ NodeInv
StartPart == StartTypeOK /\ StartInv

\* IInv has a part for each.
LEMMA Parts == IInv <=> NodePart /\ StartPart /\ EngineInv
BY TypeParts DEF IInv, EngineInv, NodePart, StartPart

\* And so it has in the next state.
LEMMA NextParts ==
  ASSUME NodePart', StartPart', EngineInv'
  PROVE  IInv'
<1>1. (IInv <=> NodePart /\ StartPart /\ EngineInv)'
  BY Parts, PTL
<1> QED
  BY <1>1

\* A step that leaves the node and the clients alone keeps their parts.
LEMMA Unmoved ==
  ASSUME IInv, UNCHANGED <<nodeVars, startVars>>, EngineInv'
  PROVE  IInv'
<1>1. NodePart' /\ StartPart'
  BY Parts DEF NodePart, StartPart, NodeTypeOK, NodeInv, StartTypeOK, StartInv, nodeVars, nodeWaits,
     nodeCopies, startVars
<1> QED
  BY <1>1, NextParts

\* The coordinator is started, again if its log names a known reason, and known by the
\* address of the last container: start_wasabi_coordinator.
LEMMA CoordinatorSteps ==
  ASSUME IInv,
         RunCoordinator \/ Upload \/ CoordinatorReady \/ CoordinatorTimesOut \/ CoordinatorStarts
  PROVE  IInv'
<1> SUFFICES EngineInv' /\ UNCHANGED <<nodeVars, startVars>>
  BY Unmoved
<1> EngineInv /\ StartPart
  BY Parts
<1> USE WasabiAssumption DEF EngineInv, SetupTypeOK, LoopTypeOK, RoundTypeOK, RunInv, Places, Loop, coordinatorVars,
        loopVars, roundVars, nodeVars, nodeWaits, nodeCopies, startVars
<1>1. CASE RunCoordinator
  BY <1>1 DEF RunCoordinator, StartPart, StartTypeOK, StartInv
<1>2. CASE Upload
  BY <1>2 DEF Upload, KnowCoordinator
<1>3. CASE CoordinatorReady
  BY <1>3 DEF CoordinatorReady
<1>4. CASE CoordinatorTimesOut
  <2>1. CASE MayRetry
    BY <1>4, <2>1 DEF CoordinatorTimesOut, MayRetry
  <2>2. CASE ~MayRetry
    <3>1. Abort /\ started' = 0 /\ coordinator' = coordinator
      BY <1>4, <2>2 DEF CoordinatorTimesOut
    <3>2. UNCHANGED <<nodeVars, startVars, limit, split, files, address, gave, initial, currentBlock,
                      currentRound, roundVars, stored, spare, ended>>
      BY <1>4 DEF CoordinatorTimesOut
    <3>3. pc' = "stop_all" /\ calls' = {} /\ raised' = FALSE
      BY <3>1 DEF Abort
    <3>4. SetupTypeOK'
      BY <3>1, <3>2, <3>3
    <3>5. LoopTypeOK' /\ RoundTypeOK'
      BY <3>2, <3>3
    <3>6. RunInv'
      <4>1. pc = "await"
        BY <1>4 DEF CoordinatorTimesOut
      <4> QED
        BY <3>2, <3>3, <4>1
    <3> QED
      BY <3>2, <3>4, <3>5, <3>6
  <2> QED
    BY <2>1, <2>2
<1>5. CASE CoordinatorStarts
  BY <1>5 DEF CoordinatorStarts
<1> QED
  BY <1>1, <1>2, <1>3, <1>4, <1>5

\* The loop's refreshes and calls, and an exception that ends it: run_engine.
LEMMA LoopSteps ==
  ASSUME IInv,
         \/ Raises \/ RefreshRound \/ RefreshBlock \/ UpdateCoinjoins
         \/ StartsDone \/ StopsDone \/ LeaveLoop
  PROVE  IInv'
<1> SUFFICES EngineInv' /\ UNCHANGED <<nodeVars, startVars>>
  BY Unmoved
<1> EngineInv /\ NodeTypeOK
  BY Parts DEF NodePart
<1> USE WasabiAssumption DEF EngineInv, SetupTypeOK, LoopTypeOK, RoundTypeOK, RunInv, Places, Loop, coordinatorVars,
        loopVars, roundVars, nodeVars, nodeWaits, nodeCopies, startVars
<1>1. CASE Raises
  BY <1>1 DEF Raises, Abort
<1>2. CASE RefreshRound
  BY <1>2 DEF RefreshRound
<1>3. CASE RefreshBlock
  BY <1>3 DEF RefreshBlock, NodeTypeOK
<1>4. CASE UpdateCoinjoins
  BY <1>4 DEF UpdateCoinjoins
<1>5. CASE StartsDone
  BY <1>5 DEF StartsDone, Abort
<1>6. CASE StopsDone
  BY <1>6 DEF StopsDone, Abort
<1>7. CASE LeaveLoop
  BY <1>7 DEF LeaveLoop
<1> QED
  BY <1>1, <1>2, <1>3, <1>4, <1>5, <1>6, <1>7

\* The calls of a pool, and the rounds of the coordinator meanwhile: start_coinjoin,
\* stop_coinjoin.
LEMMA MixingSteps ==
  ASSUME IInv,
         \/ \E i \in Wallets : StartMixing(i) \/ StopMixing(i) \/ CallRaises(i) \/ Join(i)
         \/ Close \/ EndRound \/ StopAll
  PROVE  IInv'
<1> SUFFICES EngineInv' /\ UNCHANGED <<nodeVars, startVars>>
  BY Unmoved
<1> EngineInv
  BY Parts
<1> USE WasabiAssumption DEF EngineInv, SetupTypeOK, LoopTypeOK, RoundTypeOK, RunInv, Places, Loop, coordinatorVars,
        loopVars, roundVars, nodeVars, nodeWaits, nodeCopies, startVars
<1>1. ASSUME NEW i \in Wallets, StartMixing(i)
      PROVE  EngineInv' /\ UNCHANGED <<nodeVars, startVars>>
  BY <1>1 DEF StartMixing, Called
<1>2. ASSUME NEW i \in Wallets, StopMixing(i)
      PROVE  EngineInv' /\ UNCHANGED <<nodeVars, startVars>>
  BY <1>2 DEF StopMixing, Called
<1>3. ASSUME NEW i \in Wallets, CallRaises(i)
      PROVE  EngineInv' /\ UNCHANGED <<nodeVars, startVars>>
  BY <1>3 DEF CallRaises, Called
<1>4. ASSUME NEW i \in Wallets, Join(i)
      PROVE  EngineInv' /\ UNCHANGED <<nodeVars, startVars>>
  BY <1>4 DEF Join
<1>5. CASE Close
  BY <1>5 DEF Close
<1>6. CASE EndRound
  BY <1>6 DEF EndRound
<1>7. CASE StopAll
  BY <1>7 DEF StopAll
<1> QED
  BY <1>1, <1>2, <1>3, <1>4, <1>5, <1>6, <1>7

\* What is stored and copied at the end, and the clean-up: store_logs, download_btc_data.
LEMMA StoreSteps ==
  ASSUME IInv, NodeWaited \/ StartFailed \/ BeginLoop \/ ExportBlocks \/ CleanUp \/ Done
  PROVE  IInv'
<1> SUFFICES EngineInv' /\ UNCHANGED <<nodeVars, startVars>>
  BY Unmoved
<1> EngineInv /\ NodeTypeOK
  BY Parts DEF NodePart
<1> USE WasabiAssumption DEF EngineInv, SetupTypeOK, LoopTypeOK, RoundTypeOK, RunInv, Places, Loop, coordinatorVars,
        loopVars, roundVars, nodeVars, nodeWaits, nodeCopies, startVars
<1>1. CASE NodeWaited
  <2>1. CASE Abort
    BY <1>1, <2>1 DEF NodeWaited, Abort
  <2>2. CASE ~Abort
    <3>1. nodePc = "ready" /\ pc' = (IF split THEN "run" ELSE "distributor") /\ UNCHANGED <<calls, raised>>
      BY <1>1, <2>2 DEF NodeWaited
    <3> QED
      BY <1>1, <3>1 DEF NodeWaited
  <2> QED
    BY <2>1, <2>2
<1>2. CASE StartFailed
  BY <1>2 DEF StartFailed, Abort
<1>3. CASE BeginLoop
  BY <1>3 DEF BeginLoop, NodeTypeOK
<1>4. CASE ExportBlocks
  BY <1>4 DEF ExportBlocks
<1>5. CASE CleanUp
  BY <1>5 DEF CleanUp
<1>6. CASE Done
  BY <1>6 DEF Done, vars, wasabiVars
<1> QED
  BY <1>1, <1>2, <1>3, <1>4, <1>5, <1>6

-----------------------------------------------------------------------------
(***************************************************************************)
(* Steps in which the node, or the clients, move too.                      *)
(***************************************************************************)
\* The node's wait and its copies go on while the engine waits for them, and the miner
\* goes on always: wait_for_node_ready, snapshot_btc_datadir.
LEMMA NodeMoves ==
  ASSUME IInv, WaitNode \/ CopyData \/ Miner \/ MineSettlement
  PROVE  IInv'
<1> USE WasabiAssumption DEF EngineInv, SetupTypeOK, LoopTypeOK, RoundTypeOK, RunInv, Places, Loop, coordinatorVars,
        loopVars, roundVars, wasabiVars
<1>1. EngineInv /\ NodeTypeOK /\ NodeInv /\ StartPart
  BY Parts DEF NodePart
<1>2. UNCHANGED startVars
  BY DEF WaitNode, CopyData, Miner, MineSettlement
<1>3. StartPart'
  BY <1>1, <1>2 DEF StartPart, StartTypeOK, StartInv, startVars
<1>4. ASSUME WaitNode PROVE NodePart' /\ EngineInv'
  <2>1. NodeTypeOK' /\ NodeInv' /\ nodePc' \in NodeWaiting
    BY <1>1, <1>4, NodeWaits DEF WaitNode
  <2>2. height' = height
    BY <1>4 DEF WaitNode, NodeWait, ChainReady, SampleFails, SampleTip, TipIsQuiet, ReadinessTimesOut
  <2> QED
    BY <1>1, <1>4, <2>1, <2>2 DEF WaitNode, NodePart, startVars
<1>5. ASSUME CopyData PROVE NodePart' /\ EngineInv'
  <2>1. NodeTypeOK' /\ NodeInv' /\ nodePc' \in NodeCopying
    BY <1>1, <1>5, NodeCopies DEF CopyData
  <2>2. height' = height
    BY <1>5 DEF CopyData, NodeCopy, ReadTip, FlushState, Pause, Copy, Unpause, CheckTip, CopyFails
  <2> QED
    BY <1>1, <1>5, <2>1, <2>2 DEF CopyData, NodePart, startVars
<1>6. ASSUME Miner PROVE NodePart' /\ EngineInv'
  <2>1. height' = height + 1 /\ UNCHANGED <<flushed, paused, nodeWaits, nodeCopies>>
    BY <1>6 DEF Miner, Mine
  <2>2. NodeTypeOK' /\ NodeInv'
    BY <1>1, <2>1, MoreBlocks
  <2> QED
    BY <1>1, <1>6, <2>1, <2>2 DEF Miner, NodePart, NodeTypeOK, startVars, nodeWaits
<1>7. ASSUME MineSettlement PROVE NodePart' /\ EngineInv'
  <2>1. height' = height + SettlementBlocks /\ UNCHANGED <<flushed, paused, nodeWaits, nodeCopies>>
    BY <1>7 DEF MineSettlement, nodeWaits
  <2>2. NodeTypeOK' /\ NodeInv'
    BY <1>1, <2>1, MoreBlocks
  <2> QED
    BY <1>1, <1>7, <2>1, <2>2 DEF MineSettlement, NodePart, NodeTypeOK, startVars, nodeWaits
<1>8. NodePart' /\ StartPart' /\ EngineInv'
  BY <1>3, <1>4, <1>5, <1>6, <1>7
<1> QED
  BY <1>8, NextParts

\* store_logs is over, and the copies begin with nothing copied.
LEMMA StoreEnds ==
  ASSUME IInv, ExportLogs \/ StoreFails
  PROVE  IInv'
<1> USE WasabiAssumption, NodeAssumption DEF EngineInv, SetupTypeOK, LoopTypeOK, RoundTypeOK, RunInv, Places, Loop,
        coordinatorVars, loopVars, roundVars
<1>1. EngineInv /\ NodeTypeOK /\ NodeInv /\ StartPart
  BY Parts DEF NodePart
<1>2. pc \in {"blocks_of_chain", "logs"} /\ EndStore /\ stored' \subseteq {"blocks", "labels"}
  BY <1>1 DEF ExportLogs, StoreFails
<1>3. StartPart'
  BY <1>1, <1>2 DEF EndStore, StartPart, StartTypeOK, StartInv, startVars
<1>4. NodeTypeOK'
  BY <1>1, <1>2 DEF EndStore, BeginCopies, NodeTypeOK
<1>5. NodeInv'
  BY <1>1, <1>2 DEF EndStore, BeginCopies, NodeInv
<1>6. EngineInv'
  BY <1>1, <1>2 DEF EndStore, BeginCopies, NodeCopying, startVars
<1>7. NodePart'
  BY <1>4, <1>5 DEF NodePart
<1> QED
  BY <1>3, <1>6, <1>7, NextParts

\* Every client that boots is told the coordinator that the engine knows then:
\* start_clients, start_client.
LEMMA ClientMoves ==
  ASSUME IInv, Distributor \/ StartUp \/ \E i \in Wallets : Container(i)
  PROVE  IInv'
<1> USE WasabiAssumption DEF EngineInv, SetupTypeOK, LoopTypeOK, RoundTypeOK, RunInv, Places, Loop, coordinatorVars,
        loopVars, roundVars
<1>1. EngineInv /\ StartTypeOK /\ StartInv /\ NodePart
  BY Parts DEF StartPart
<1>2. UNCHANGED nodeVars
  BY DEF Distributor, StartUp, Container
<1>3. NodePart'
  BY <1>1, <1>2 DEF NodePart, NodeTypeOK, NodeInv, nodeVars, nodeWaits, nodeCopies
<1>4. ASSUME Distributor PROVE StartPart' /\ EngineInv'
  <2>1. StartTypeOK' /\ StartInv' /\ client' = client /\ booting' = booting
    BY <1>1, <1>4, StartBegins DEF Distributor
  <2> QED
    BY <1>1, <1>2, <1>4, <2>1 DEF Distributor, StartPart, nodeVars, nodeWaits
<1>5. ASSUME StartUp PROVE StartPart' /\ EngineInv'
  <2>1. StartTypeOK' /\ StartInv'
    BY <1>1, <1>5, StartSteps DEF StartUp
  <2>2. ASSUME split, NEW i \in Wallets, client'[i] # "none" \/ i \in booting'
        PROVE  gave'[i] = "current"
    <3>1. client[i] # "none" \/ i \in booting \/ i \in booting' \ booting
      BY <1>1, <1>5, <2>2, ClientsCome DEF StartUp
    <3> QED
      BY <1>1, <1>5, <2>2, <3>1 DEF StartUp
  <2>3. gave' \in [Wallets -> {"none", "current", "old"}]
    BY <1>1, <1>5 DEF StartUp
  <2>4. pc = "clients" /\ UNCHANGED <<limit, split, pc, coordinatorVars, loopVars, roundVars, stored, spare, ended>>
    BY <1>5 DEF StartUp
  <2>5. EngineInv'
    BY <1>1, <1>2, <2>2, <2>3, <2>4 DEF nodeVars, nodeWaits
  <2> QED
    BY <2>1, <2>5 DEF StartPart
<1>6. ASSUME NEW i \in Wallets, Container(i) PROVE StartPart' /\ EngineInv'
  <2>1. StartTypeOK' /\ StartInv' /\ UNCHANGED <<startPc, client, booting>>
    BY <1>1, <1>6, ContainersEnd DEF Container
  <2> QED
    BY <1>1, <1>2, <1>6, <2>1 DEF Container, StartPart, nodeVars, nodeWaits
<1> QED
  BY <1>3, <1>4, <1>5, <1>6, NextParts

-----------------------------------------------------------------------------
(***************************************************************************)
(* The theorems.                                                           *)
(***************************************************************************)
\* The state EngineBase.run begins in satisfies the invariant.
LEMMA InitIInv == Init => IInv
<1> SUFFICES ASSUME Init PROVE NodePart /\ StartPart /\ EngineInv
  BY Parts
<1>1. NodePart
  <2>1. NodeTypeOK
    <3>1. height = 1 /\ flushed = 1 /\ paused = FALSE /\ nodePc = "chain" /\ quietHeight = 0
          /\ streak = 0 /\ copyTry = 0 /\ tip = 0 /\ snapshot = 0 /\ copy = [blocks |-> 0, state |-> 0]
      BY DEF Init, NodeInit, NoCopy
    <3>2. paused <=> nodePc \in {"copy", "unpause"}
      BY <3>1
    <3>3. copy \in [blocks : 0..height, state : 0..height]
      BY <3>1
    <3>4. paused \in BOOLEAN
      BY <3>1
    <3> QED
      BY <3>1, <3>2, <3>3, <3>4, NodeAssumption DEF NodeTypeOK
  <2>2. NodeInv
    BY DEF Init, NodeInit, NodeInv
  <2> QED
    BY <2>1, <2>2 DEF NodePart
<1>2. StartPart
  BY WalletsAssumption DEF Init, StartInit, StartPart, StartTypeOK, StartInv
<1>3. EngineInv
  <2>1. SetupTypeOK
    BY WasabiAssumption DEF Init, SetupTypeOK, Places
  <2>2. LoopTypeOK
    <3>1. initial = 0 /\ currentBlock = 0 /\ currentRound = 0 /\ calls = {} /\ height = 1 /\ broadcast = 0
      BY DEF Init, NodeInit
    <3>2. raised \in BOOLEAN
      BY DEF Init
    <3> QED
      BY <3>1, <3>2 DEF LoopTypeOK
  <2>3. RoundTypeOK
    BY WasabiAssumption DEF Init, RoundTypeOK
  <2>4. RunInv
    BY DEF Init, NodeInit, StartInit, RunInv, Loop, NodeWaiting
  <2> QED
    BY <2>1, <2>2, <2>3, <2>4 DEF EngineInv
<1> QED
  BY <1>1, <1>2, <1>3

\* No step of engine, node, coordinator or clients breaks the invariant.
LEMMA NextIInv == IInv /\ [Next]_vars => IInv'
<1> SUFFICES ASSUME IInv, [Next]_vars PROVE IInv'
  OBVIOUS
<1>1. CASE UNCHANGED vars
  BY <1>1, StoreSteps, WasabiAssumption DEF Done, vars, IInv, TypeOK, NodeTypeOK, NodeInv, StartTypeOK, StartInv, RunInv,
     nodeVars, nodeWaits, nodeCopies, startVars, wasabiVars, coordinatorVars, loopVars, roundVars
<1>2. CASE Engine
  BY <1>2, CoordinatorSteps, LoopSteps, MixingSteps, StoreSteps, NodeMoves, StoreEnds, ClientMoves DEF Engine
<1>3. CASE External
  BY <1>3, CoordinatorSteps, MixingSteps, NodeMoves, ClientMoves DEF External
<1>4. CASE Done
  BY <1>4, StoreSteps
<1> QED
  BY <1>1, <1>2, <1>3, <1>4 DEF Next

\* The invariant of a run, EngineBase.run with cleanup: in every state.
THEOREM Invariant == Spec => []IInv
BY InitIInv, NextIInv, PTL DEF Spec

\* The variables of run, node and clients keep their types; a pool has calls left only
\* while it runs, and no wallet is in a round that does not mix: update_coinjoins.
THEOREM TypeCorrect == Spec => []TypeOK
<1>1. IInv => TypeOK
  BY DEF IInv
<1> QED
  BY Invariant, <1>1, PTL

\* run_engine only ever works with clients that answered, each of whose containers was
\* told the coordinator that runs: start_wasabi_coordinator, start_clients and
\* validate_clients, whatever was started again and whatever ended.
THEOREM LoopIsServed == Spec => []EveryWalletIsServed
<1>1. IInv => EveryWalletIsServed
  BY DEF IInv, EveryWalletIsServed, StartInv, RunInv
<1> QED
  BY Invariant, <1>1, PTL

\* snapshot_btc_datadir returns a height only with blocks and chain state of that height,
\* however many blocks are mined between its calls.
THEOREM SnapshotIsTrue == Spec => []SnapshotIsOneHeight
<1>1. IInv => SnapshotIsOneHeight
  BY DEF IInv, SnapshotIsOneHeight, NodeInv, TypeOK, NodeTypeOK
<1> QED
  BY Invariant, <1>1, PTL
===============================================================================
