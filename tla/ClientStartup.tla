----------------------------- MODULE ClientStartup -----------------------------
(***************************************************************************)
(* The start of the clients of a run: start_clients and                    *)
(* _start_classified_wallets of src/manager/engine/engine_base.py.  Every  *)
(* wallet gets a container of its own and an object that talks to it;      *)
(* clients that did not start, or do not answer, are stopped and started   *)
(* again.  Wallets with a fidelity bond are started after the others, a    *)
(* few at a time.                                                          *)
(*                                                                         *)
(* A container may end by itself at any moment.  A wallet is named by its  *)
(* index.                                                                  *)
(***************************************************************************)
EXTENDS Naturals, FiniteSets

CONSTANTS
  Wallets,     \* the indexes of scenario.wallets
  Bonded,      \* those of them with a fidelity bond
  BondBatch,   \* fb_batch_size
  Retries      \* how often missing clients are started again

ASSUME WalletsAssumption ==
  /\ Wallets \subseteq Nat /\ IsFiniteSet(Wallets) /\ Bonded \subseteq Wallets
  /\ BondBatch \in Nat \ {0} /\ Retries \in Nat

VARIABLES
  startPc,    \* where start_clients is
  retry,      \* retry_attempt, counted from 1, and 0 outside start_clients
  todo,       \* the wallets this pass is to start
  batch,      \* those of them handed to the thread pool
  booting,    \* those of them whose container was started
  up,         \* whether the last container of each wallet runs
  client,     \* new_clients: None, made for the last container, or for one before it
  answered    \* whether the last container has answered a health check, a history

startVars == <<startPc, retry, todo, batch, booting, up, client, answered>>

StartInit ==
  /\ startPc = "off" /\ retry = 0
  /\ todo = {} /\ batch = {} /\ booting = {}
  /\ up = [i \in Wallets |-> FALSE]
  /\ client = [i \in Wallets |-> "none"]
  /\ answered = [i \in Wallets |-> FALSE]

StartClients ==
  /\ startPc = "off"
  /\ startPc' = "start" /\ todo' = Wallets
  /\ UNCHANGED <<retry, batch, booting, up, client, answered>>

\* The BondBatch first wallets of a set.
FirstBonded(set) == {i \in set : Cardinality({j \in set : j < i}) < BondBatch}

\* Regular wallets all at once, then bonded ones in batches.
NextBatch ==
  /\ startPc = "start" /\ batch = {} /\ todo # {}
  /\ batch' = IF todo \ Bonded # {} THEN todo \ Bonded ELSE FirstBonded(todo)
  /\ todo' = todo \ batch'
  /\ UNCHANGED <<startPc, retry, booting, up, client, answered>>

\* start_client: the driver starts a container, or the client is None.
RunContainer(i) ==
  /\ startPc = "start" /\ i \in batch \ booting
  /\ up' = [up EXCEPT ![i] = TRUE] /\ answered' = [answered EXCEPT ![i] = FALSE]
  /\ client' = [client EXCEPT ![i] = IF @ = "current" THEN "old" ELSE @]
  /\ booting' = booting \union {i}
  /\ UNCHANGED <<startPc, retry, todo, batch>>

\* Wrong variant: only a client that started replaces the one before it.
KeepOldClient(i) == client

NoClient(i) == [client EXCEPT ![i] = "none"]

RunFails(i) ==
  /\ startPc = "start" /\ i \in batch \ booting
  /\ client' = NoClient(i)
  /\ batch' = batch \ {i}
  /\ UNCHANGED <<startPc, retry, todo, booting, up, answered>>

\* wait_wallet: the wallet answers in time, or the client is None.
WalletStarts(i) ==
  /\ startPc = "start" /\ i \in booting /\ up[i]
  /\ client' = [client EXCEPT ![i] = "current"]
  /\ batch' = batch \ {i} /\ booting' = booting \ {i}
  /\ UNCHANGED <<startPc, retry, todo, up, answered>>

WalletTimesOut(i) ==
  /\ startPc = "start" /\ i \in booting
  /\ client' = NoClient(i)
  /\ batch' = batch \ {i} /\ booting' = booting \ {i}
  /\ UNCHANGED <<startPc, retry, todo, up, answered>>

\* The clients that a health check of all finds missing or not answering.  An object
\* reaches whatever container has its wallet's name.
Unhealthy(failed) ==
  /\ failed \subseteq Wallets
  /\ \A i \in Wallets : client[i] = "none" \/ ~up[i] => i \in failed
  /\ answered' = [i \in Wallets |-> answered[i] \/ i \notin failed]

\* The pass is over: missing clients are looked for, as long as retries are left.
ProbeClients ==
  /\ startPc = "start" /\ batch = {} /\ todo = {} /\ retry < Retries
  /\ \E failed \in SUBSET Wallets :
       /\ Unhealthy(failed)
       /\ IF failed = {} THEN startPc' = "up" /\ UNCHANGED todo
          ELSE startPc' = "stop" /\ todo' = failed
  /\ UNCHANGED <<retry, batch, booting, up, client>>

\* stop_client for each of them; a client object stays until its result replaces it.
StopFailed ==
  /\ startPc = "stop"
  /\ startPc' = "start" /\ retry' = retry + 1
  /\ up' = [i \in Wallets |-> up[i] /\ i \notin todo]
  /\ UNCHANGED <<todo, batch, booting, client, answered>>

\* start_clients raises: its new_clients and all else it held are gone.
GiveUp ==
  /\ startPc' = "failed"
  /\ retry' = 0 /\ todo' = {} /\ batch' = {} /\ booting' = {}
  /\ client' = [i \in Wallets |-> "none"] /\ answered' = [i \in Wallets |-> FALSE]

StopRaises ==
  /\ startPc = "stop" /\ GiveUp
  /\ UNCHANGED up

\* After the last pass only clients that are None fail the start.
CountMissing ==
  /\ startPc = "start" /\ batch = {} /\ todo = {} /\ retry = Retries
  /\ IF \E i \in Wallets : client[i] = "none" THEN GiveUp
     ELSE startPc' = "up" /\ UNCHANGED <<retry, todo, batch, booting, client, answered>>
  /\ UNCHANGED up

\* Wrong variant: every client is taken for healthy.
ValidateNothing ==
  /\ startPc = "up"
  /\ startPc' = "valid" /\ retry' = 0
  /\ UNCHANGED <<todo, batch, booting, up, client, answered>>

\* validate_clients: every client answers, or the run is given up.
ValidateClients ==
  /\ startPc = "up"
  /\ \E failed \in SUBSET Wallets :
       /\ Unhealthy(failed)
       /\ startPc' = IF failed = {} THEN "valid" ELSE "failed"
  /\ retry' = 0
  /\ UNCHANGED <<todo, batch, booting, up, client>>

Startup ==
  \/ NextBatch \/ ProbeClients \/ StopFailed \/ StopRaises \/ CountMissing \/ ValidateClients
  \/ \E i \in Wallets : RunContainer(i) \/ RunFails(i) \/ WalletStarts(i) \/ WalletTimesOut(i)

\* External: a container ends.
ContainerEnds(i) ==
  /\ up[i]
  /\ up' = [up EXCEPT ![i] = FALSE]
  /\ UNCHANGED <<startPc, retry, todo, batch, booting, client, answered>>

--------------------------------------------------------------------------------
StartTypeOK ==
  /\ startPc \in {"off", "start", "stop", "up", "valid", "failed"}
  /\ retry \in 0..Retries
  /\ todo \subseteq Wallets /\ batch \subseteq Wallets /\ booting \subseteq batch
  /\ up \in [Wallets -> BOOLEAN]
  /\ client \in [Wallets -> {"none", "current", "old"}] /\ answered \in [Wallets -> BOOLEAN]

================================================================================
