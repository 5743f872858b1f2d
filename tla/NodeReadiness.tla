----------------------------- MODULE NodeReadiness -----------------------------
(***************************************************************************)
(* The Bitcoin node as the engines start on it and leave it: the wait for  *)
(* a quiet chain tip before anything else is started, and the copy of its  *)
(* data directory at the end, both while the node's own miner goes on.     *)
(*                                                                         *)
(*   readiness   src/manager/bitcoin_readiness.py                          *)
(*   snapshot    src/manager/btc_datadir_snapshot.py, called by            *)
(*               download_btc_data of src/manager.py                       *)
(*                                                                         *)
(* External: the miner, and what the node has on disk.  A block is on disk *)
(* at once, the chain state when it is flushed or at any time after.       *)
(***************************************************************************)
EXTENDS Naturals, Sequences

CONSTANTS
  QuietSamples,   \* QUIET_SAMPLE_COUNT
  CopyTries       \* CHAIN_TIP_RACE_RETRIES

ASSUME NodeAssumption == QuietSamples \in Nat \ {0} /\ CopyTries \in Nat \ {0}

VARIABLES
  height,      \* the chain
  flushed,     \* the height the chain state was last flushed at
  paused,      \* the container is frozen
  nodePc,      \* where wait_for_node_ready or the snapshot is
  quietHeight, \* quiet_height, 0 for None
  streak,      \* streak
  copyTry,     \* attempt, and 0 outside snapshot_btc_datadir
  tip,         \* its height, the one the attempt began with
  copy,        \* what was copied
  snapshot     \* the height that was returned, 0 for none

nodeWaits == <<nodePc, quietHeight, streak>>
nodeCopies == <<copyTry, tip, copy, snapshot>>
nodeVars == <<height, flushed, paused, nodeWaits, nodeCopies>>

NoCopy == [blocks |-> 0, state |-> 0]

NodeInit ==
  /\ height = 1 /\ flushed = 1 /\ paused = FALSE
  /\ nodePc = "chain"
  /\ quietHeight = 0 /\ streak = 0
  /\ copyTry = 0 /\ tip = 0 /\ copy = NoCopy /\ snapshot = 0

\* The miner adds a block.
Mine ==
  /\ ~paused
  /\ height' = height + 1
  /\ UNCHANGED <<flushed, paused, nodeWaits, nodeCopies>>

--------------------------------------------------------------------------------
(***************************************************************************)
(* wait_for_node_ready.                                                    *)
(***************************************************************************)
\* The chain is long enough and the wallet is loaded; then there is a fee estimate.
ChainReady ==
  /\ nodePc \in {"chain", "fee"}
  /\ nodePc' = IF nodePc = "chain" THEN "fee" ELSE "quiet"
  /\ UNCHANGED <<height, flushed, paused, quietHeight, streak, nodeCopies>>

\* The call fails, or the node is not synchronized.
SampleFails ==
  /\ nodePc = "quiet" /\ streak < QuietSamples
  /\ quietHeight' = 0 /\ streak' = 0
  /\ UNCHANGED <<height, flushed, paused, nodePc, nodeCopies>>

SampleTip ==
  /\ nodePc = "quiet" /\ streak < QuietSamples
  /\ quietHeight' = height
  /\ streak' = IF height = quietHeight THEN streak + 1 ELSE 1
  /\ UNCHANGED <<height, flushed, paused, nodePc, nodeCopies>>

TipIsQuiet ==
  /\ nodePc = "quiet" /\ streak >= QuietSamples
  /\ nodePc' = "ready"
  /\ quietHeight' = 0 /\ streak' = 0
  /\ UNCHANGED <<height, flushed, paused, nodeCopies>>

\* The deadline passes in any of the waits.
ReadinessTimesOut ==
  /\ nodePc \in {"chain", "fee", "quiet"}
  /\ nodePc' = "failed"
  /\ quietHeight' = 0 /\ streak' = 0
  /\ UNCHANGED <<height, flushed, paused, nodeCopies>>

--------------------------------------------------------------------------------
(***************************************************************************)
(* snapshot_btc_datadir.                                                   *)
(***************************************************************************)
BeginCopies == nodePc' = "height" /\ copyTry' = 1

ReadTip ==
  /\ nodePc = "height"
  /\ nodePc' = "flush" /\ tip' = height
  /\ UNCHANGED <<height, flushed, paused, quietHeight, streak, copyTry, copy, snapshot>>

FlushState ==
  /\ nodePc = "flush"
  /\ nodePc' = "pause" /\ flushed' = height
  /\ UNCHANGED <<height, paused, quietHeight, streak, nodeCopies>>

Pause ==
  /\ nodePc = "pause"
  /\ nodePc' = "copy" /\ paused' = TRUE
  /\ UNCHANGED <<height, flushed, quietHeight, streak, nodeCopies>>

\* The chain state on disk is that of the flush, or one the node wrote since.
Copy ==
  /\ nodePc = "copy"
  /\ nodePc' = "unpause"
  /\ \E written \in flushed..height : copy' = [blocks |-> height, state |-> written]
  /\ UNCHANGED <<height, flushed, paused, quietHeight, streak, copyTry, tip, snapshot>>

Unpause ==
  /\ nodePc = "unpause"
  /\ nodePc' = "check" /\ paused' = FALSE
  /\ UNCHANGED <<height, flushed, quietHeight, streak, nodeCopies>>

\* Wrong variant: the first copy is taken for good.
CheckNoTip ==
  /\ nodePc = "check"
  /\ nodePc' = "copied" /\ snapshot' = tip /\ copyTry' = 0 /\ tip' = 0
  /\ UNCHANGED <<height, flushed, paused, quietHeight, streak, copy>>

\* The copy is good if the tip is still the same, else it is discarded and repeated.
CheckTip ==
  /\ nodePc = "check"
  /\ IF height = tip
     THEN nodePc' = "copied" /\ snapshot' = tip /\ copyTry' = 0 /\ UNCHANGED copy
     ELSE /\ copy' = NoCopy /\ UNCHANGED snapshot
          /\ IF copyTry < CopyTries THEN nodePc' = "height" /\ copyTry' = copyTry + 1
             ELSE nodePc' = "failed" /\ copyTry' = 0
  /\ tip' = 0
  /\ UNCHANGED <<height, flushed, paused, quietHeight, streak>>

\* A call fails; the container is unpaused if it was paused.  What was copied stays.
CopyFails ==
  /\ nodePc \in {"height", "flush", "pause", "copy", "check"}
  /\ nodePc' = "failed" /\ paused' = FALSE /\ copyTry' = 0 /\ tip' = 0
  /\ UNCHANGED <<height, flushed, quietHeight, streak, copy, snapshot>>

NodeWait == ChainReady \/ SampleFails \/ SampleTip \/ TipIsQuiet \/ ReadinessTimesOut

NodeCopy == ReadTip \/ FlushState \/ Pause \/ Copy \/ Unpause \/ CheckTip \/ CopyFails

--------------------------------------------------------------------------------
NodeTypeOK ==
  /\ height \in Nat \ {0} /\ flushed \in 1..height /\ paused \in BOOLEAN
  /\ nodePc \in {"chain", "fee", "quiet", "ready", "height", "flush", "pause", "copy", "unpause", "check",
                 "copied", "failed"}
  /\ quietHeight \in 0..height /\ streak \in 0..QuietSamples
  /\ copyTry \in 0..CopyTries /\ tip \in 0..height /\ snapshot \in 0..height
  /\ copy \in [blocks : 0..height, state : 0..height]
  /\ paused <=> nodePc \in {"copy", "unpause"}

================================================================================
