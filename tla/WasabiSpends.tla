----------------------------- MODULE WasabiSpends -----------------------------
(***************************************************************************)
(* The scheduled postmix spends of one Wasabi wallet, in the engine's loop *)
(* that first works on the spends that are due and then starts or stops    *)
(* the wallet's mixing.  A spend pays all its coins in one transaction.    *)
(*                                                                         *)
(*   schedule   src/manager/engine/postmix_spends.py                       *)
(*   wallet     src/manager/wasabi_clients/wasabi_client_base.py           *)
(*   loop       src/manager/engine/wasabi_engine.py                        *)
(*                                                                         *)
(* External: the coordinator's rounds, the node with its mempool, and what *)
(* the Wasabi daemon knows of both.  A CoinJoin that was broadcast is      *)
(* known to the node at once, and to the wallet later: mostly with the     *)
(* block that confirms it, so that until then its inputs are listed.       *)
(*                                                                         *)
(* Left out: fees, payments to the wallet, coin_selection "amount".        *)
(***************************************************************************)
EXTENDS Naturals, FiniteSets, FiniteSetsExt, Sequences

CONSTANTS
  Coins,        \* all coins the wallet may ever hold
  AtStart,      \* those it starts with
  Output,       \* the coin each of its rounds creates, a sequence
  Amount, Score,
  Spends,       \* the schedule: [block, round, value, min]; value 0 for "all", min 0 for None
  Stops,        \* the possible stop blocks of the client, 0 for none
  Blocks, MaxFaults     \* bounds on the chain and on failed calls

ASSUME CoinsAssumption ==
  /\ IsFiniteSet(Coins) /\ AtStart \subseteq Coins /\ Output \in Seq(Coins \ AtStart)
  /\ \A i, j \in DOMAIN Output : Output[i] = Output[j] => i = j
  /\ Amount \in [Coins -> Nat \ {0}] /\ Score \in [Coins -> Nat \ {0}]
  /\ \A c, d \in Coins : Score[c] = Score[d] => c = d    \* no ties, which the list's order breaks
ASSUME SpendsAssumption ==
  Spends \in Seq([block : Nat, round : Nat, value : Nat, min : Nat])
ASSUME BoundsAssumption == Stops \subseteq Nat /\ Blocks \in Nat /\ MaxFaults \in Nat

Keys == DOMAIN Spends

VARIABLES
  settles, stop,    \* the client: version >= "2.6.0", and its stop block
  current,          \* the engine's current_block
  pc, stage,        \* where the loop, or the spend in hand, is
  status,           \* of each spend: not due, failed or sent
  todo, spend,      \* the due spends still to be tried, and the one in hand, 0 for none
  asked, kept,      \* listed coins the node is still to be asked about; those that count
  mixing,           \* the wallet mixes, does not, or stops with the end of its round
  phase, inputs,    \* its round: none, input or critical, and its coins in it
  confirmed, unconfirmed,   \* the coins the wallet lists
  created, spent,   \* of each coin, what the node knows
  height, rounds,   \* blocks mined, rounds broadcast
  faults,           \* bound
  sends, unsure     \* per spend, its transactions and the sends that raised, a history

client == <<settles, stop, current>>
attempt == <<stage, todo, spend, asked, kept>>
round == <<mixing, phase, inputs>>
wallet == <<confirmed, unconfirmed>>
chain == <<created, spent, height, rounds>>
history == <<sends, unsure>>
vars == <<client, pc, attempt, status, round, wallet, chain, faults, history>>

Init ==
  /\ settles \in BOOLEAN /\ stop \in Stops /\ current = 0
  /\ pc = "loop" /\ stage = "none" /\ todo = {} /\ spend = 0 /\ asked = {} /\ kept = {}
  /\ status = [s \in Keys |-> "not_due"]
  /\ mixing = "no" /\ phase = "none" /\ inputs = {}
  /\ confirmed = AtStart /\ unconfirmed = {}
  /\ created = [c \in Coins |-> IF c \in AtStart THEN "mined" ELSE "none"]
  /\ spent = [c \in Coins |-> "no"]
  /\ height = 0 /\ rounds = 0 /\ faults = 0
  /\ sends = [s \in Keys |-> 0] /\ unsure = [s \in Keys |-> 0]

Fault == faults < MaxFaults /\ faults' = faults + 1

--------------------------------------------------------------------------------
(***************************************************************************)
(* The selection (_select_mixed_coins).                                    *)
(***************************************************************************)
Value == Spends[spend].value

IsMixed(c) == IF Spends[spend].min = 0 THEN Score[c] > 1 ELSE Score[c] >= Spends[spend].min

\* is_unspent of the node, which counts the mempool.
IsUnspent(c) == created[c] # "none" /\ spent[c] = "no"

Total(set) == MapThenSumSet(LAMBDA c : Amount[c], set)

\* The most private coins until they cover the value, or all of them.
Selected(set) ==
  IF Value = 0 THEN set
  ELSE {c \in set : Total({d \in set : Score[d] > Score[c]}) < Value}

Short(set) == set = {} \/ Total(set) < Value

--------------------------------------------------------------------------------
(***************************************************************************)
(* The schedule (PostmixSpendSchedule.update and _send).                   *)
(***************************************************************************)
\* Wrong variant: a spend that was sent is due again.
DueAgain(s) == Spends[s].block <= height /\ Spends[s].round <= rounds

Due(s) == status[s] # "sent" /\ Spends[s].block <= height /\ Spends[s].round <= rounds

\* A new iteration: a spend that failed is left alone until POSTMIX_RETRY_SECONDS have
\* passed.
Iterate ==
  /\ pc = "loop"
  /\ pc' = "pick" /\ current' = height
  /\ \E pausing \in SUBSET {s \in Keys : status[s] = "failed"} : todo' = {s \in Keys : Due(s)} \ pausing
  /\ UNCHANGED <<settles, stop, stage, spend, asked, kept, status, round, wallet, chain, faults, history>>

\* The next due spend is tried, or the loop goes on to the wallet's mixing.
Pick ==
  /\ pc = "pick"
  /\ IF todo = {} THEN pc' = "mix" /\ stage' = "none" /\ spend' = 0 /\ UNCHANGED todo
     ELSE /\ pc' = "list" /\ stage' = "check"
          /\ spend' = Min(todo) /\ todo' = todo \ {spend'}
  /\ UNCHANGED <<client, asked, kept, status, round, wallet, chain, faults, history>>

\* The attempt is over, with an error or without one.
Over(outcome) ==
  /\ pc' = "pick" /\ stage' = "none" /\ asked' = {} /\ kept' = {}
  /\ status' = [status EXCEPT ![spend] = outcome]
  /\ UNCHANGED <<todo, spend>>

\* A call to the wallet or to the node fails.
CallFails ==
  /\ pc \in {"list", "ask", "address", "info"} /\ (pc = "ask" => asked # {})
  /\ Fault
  /\ Over("failed")
  /\ UNCHANGED <<client, round, wallet, chain, history>>

Goto(place, at) == pc' = place /\ stage' = at /\ UNCHANGED <<todo, spend, status>>

\* What stopcoinjoin does: it takes the wallet out of a round, but not out of one in its
\* critical phase.
Stopped ==
  IF phase = "critical" THEN mixing' = "ending" /\ UNCHANGED <<phase, inputs>>
  ELSE mixing' = "no" /\ phase' = "none" /\ inputs' = {}

\* stop_coinjoin, carried out or not when its call fails.
StopCoinjoin ==
  /\ pc = "stop"
  /\ \/ Stopped /\ Goto("address", "none") /\ UNCHANGED <<asked, kept, faults>>
     \/ (Stopped \/ UNCHANGED round) /\ Fault /\ Over("failed")
  /\ UNCHANGED <<client, wallet, chain, history>>

\* get_new_address; the sweep of a 2.6 wallet waits for the settlement first.
NewAddress ==
  /\ pc = "address"
  /\ IF Value = 0 /\ settles THEN Goto("info", "settle") ELSE Goto("list", "select")
  /\ UNCHANGED <<client, asked, kept, round, wallet, chain, faults, history>>

--------------------------------------------------------------------------------
(***************************************************************************)
(* The coins that count: listed first, and then looked up one by one, to   *)
(* check that there are enough, to see that the last CoinJoin has settled, *)
(* and to select.                                                          *)
(***************************************************************************)
\* Wrong variant: the settlement does not look at the state of the wallet.
SettleAnyway ==
  /\ pc = "info"
  /\ Goto("list", "settle")
  /\ UNCHANGED <<client, asked, kept, round, wallet, chain, faults, history>>

\* _wait_for_postmix_settlement: another look while coinjoinStatus is not Idle.
GetWalletInfo ==
  /\ pc = "info" /\ mixing = "no"
  /\ Goto("list", "settle")
  /\ UNCHANGED <<client, asked, kept, round, wallet, chain, faults, history>>

\* The settlement is about every coin, a selection about the confirmed mixed ones.
ListUnspentCoins ==
  /\ pc = "list"
  /\ IF stage = "settle" /\ unconfirmed # {}
     THEN Goto("info", stage) /\ asked' = {}
     ELSE /\ Goto("ask", stage)
          /\ asked' = IF stage = "settle" THEN confirmed ELSE {c \in confirmed : IsMixed(c)}
  /\ kept' = {}
  /\ UNCHANGED <<client, round, wallet, chain, faults, history>>

\* A coin that is spent is not selected; the settlement starts again.
AskNode ==
  /\ pc = "ask"
  /\ \E c \in asked :
       IF stage = "settle" /\ ~IsUnspent(c)
       THEN Goto("info", stage) /\ asked' = {} /\ UNCHANGED kept
       ELSE /\ Goto("ask", stage) /\ asked' = asked \ {c}
            /\ kept' = IF stage # "settle" /\ IsUnspent(c) THEN kept \union {c} ELSE kept
  /\ UNCHANGED <<client, round, wallet, chain, faults, history>>

Asked == pc = "ask" /\ asked = {} /\ UNCHANGED <<client, round, wallet, chain, faults, history>>

Settled ==
  /\ Asked /\ stage = "settle"
  /\ Goto("list", "select")
  /\ UNCHANGED <<asked, kept>>

\* check_mixed_coins: a wallet that is short of mixed coins is not stopped.
Checked ==
  /\ Asked /\ stage = "check"
  /\ IF Short(kept) THEN Over("failed")
     ELSE Goto("stop", "none") /\ kept' = {} /\ UNCHANGED asked

Select ==
  /\ Asked /\ stage = "select"
  /\ IF Short(kept) THEN Over("failed")
     ELSE Goto("send", "none") /\ kept' = Selected(kept) /\ UNCHANGED asked

\* The deadline of the settlement, which is looked at in every turn of its loops.
SettlementTimesOut ==
  /\ stage = "settle" /\ (pc = "ask" => asked # {})
  /\ Over("failed")
  /\ UNCHANGED <<client, round, wallet, chain, faults, history>>

--------------------------------------------------------------------------------
(***************************************************************************)
(* The send call of send_mixed_coins.                                      *)
(***************************************************************************)
\* The node takes the transaction, and the wallet knows of it.
Pay ==
  /\ pc = "send" /\ \A c \in kept : IsUnspent(c)
  /\ spent' = [c \in Coins |-> IF c \in kept THEN "known" ELSE spent[c]]
  /\ confirmed' = confirmed \ kept
  /\ sends' = [sends EXCEPT ![spend] = @ + 1]
  /\ UNCHANGED <<client, round, unconfirmed, created, height, rounds>>

SendMixedCoins == Pay /\ Over("sent") /\ UNCHANGED <<faults, unsure>>

SendAnswerLost ==
  /\ Pay /\ Fault
  /\ Over("failed") /\ unsure' = [unsure EXCEPT ![spend] = @ + 1]

\* A coin has gone in the meantime, or is in a round, or the call fails.
SendRefused ==
  /\ pc = "send"
  /\ \/ (\E c \in kept : ~IsUnspent(c) \/ c \in inputs) /\ UNCHANGED faults
     \/ Fault
  /\ Over("failed")
  /\ UNCHANGED <<client, round, wallet, chain, history>>

--------------------------------------------------------------------------------
(***************************************************************************)
(* The wallet's mixing (update_coinjoins).                                 *)
(***************************************************************************)
MayMix == stop = 0 \/ current < stop

\* Wrong variant: a wallet that owes a spend is left alone.
MixUnlessFailed ==
  /\ pc = "mix" /\ pc' = "loop"
  /\ IF \E s \in Keys : status[s] = "failed" THEN UNCHANGED round
     ELSE IF MayMix THEN mixing' = "yes" /\ UNCHANGED <<phase, inputs>> ELSE Stopped
  /\ UNCHANGED <<client, attempt, status, wallet, chain, faults, history>>

\* start_coinjoin or stop_coinjoin, in every iteration.
UpdateCoinjoins ==
  /\ pc = "mix" /\ pc' = "loop"
  /\ IF MayMix THEN mixing' = "yes" /\ UNCHANGED <<phase, inputs>> ELSE Stopped
  /\ UNCHANGED <<client, attempt, status, wallet, chain, faults, history>>

\* An error of these calls ends the run.
UpdateFails ==
  /\ pc = "mix" /\ pc' = "ended"
  /\ Fault
  /\ UNCHANGED <<client, attempt, status, round, wallet, chain, history>>

--------------------------------------------------------------------------------
(***************************************************************************)
(* External.                                                               *)
(***************************************************************************)
engine == <<client, pc, attempt, status, faults, history>>

\* The wallet registers some of its coins; the coordinator refuses those that are spent.
Join ==
  /\ mixing = "yes" /\ phase = "none" /\ rounds < Len(Output)
  /\ inputs' \in (SUBSET {c \in confirmed : IsUnspent(c)}) \ {{}}
  /\ phase' = "input"
  /\ UNCHANGED <<engine, mixing, wallet, chain>>

Close ==
  /\ phase = "input" /\ phase' = "critical"
  /\ UNCHANGED <<engine, mixing, inputs, wallet, chain>>

RoundOver ==
  /\ phase = "critical" /\ phase' = "none" /\ inputs' = {}
  /\ mixing' = IF mixing = "ending" THEN "no" ELSE mixing

RoundBroadcast ==
  /\ RoundOver /\ \A c \in inputs : IsUnspent(c)
  /\ rounds' = rounds + 1
  /\ spent' = [c \in Coins |-> IF c \in inputs THEN "hidden" ELSE spent[c]]
  /\ created' = [created EXCEPT ![Output[rounds']] = "mempool"]
  /\ UNCHANGED <<engine, wallet, height>>

RoundFails == RoundOver /\ UNCHANGED <<engine, wallet, chain>>

MineBlock ==
  /\ height < Blocks /\ height' = height + 1
  /\ created' = [c \in Coins |-> IF created[c] = "mempool" THEN "mined" ELSE created[c]]
  /\ spent' = [c \in Coins |-> IF spent[c] = "no" THEN "no" ELSE "mined"]
  /\ UNCHANGED <<engine, round, wallet, rounds>>

\* The wallet processes the blocks.
WalletSeesBlocks ==
  /\ confirmed' = {c \in Coins : created[c] = "mined" /\ spent[c] \in {"no", "hidden"}}
  /\ unconfirmed' = {c \in unconfirmed : created[c] = "mempool"}
  /\ UNCHANGED <<engine, round, chain>>

\* It gets to know a CoinJoin before a block confirms it.
WalletSeesRound ==
  /\ spent' = [c \in Coins |-> IF spent[c] = "hidden" THEN "known" ELSE spent[c]]
  /\ confirmed' = {c \in confirmed : spent[c] # "hidden"}
  /\ unconfirmed' = unconfirmed \union {c \in Coins : created[c] = "mempool"}
  /\ UNCHANGED <<engine, round, created, height, rounds>>

Engine ==
  \/ Iterate \/ Pick \/ CallFails \/ StopCoinjoin \/ NewAddress
  \/ GetWalletInfo \/ ListUnspentCoins \/ AskNode \/ Settled \/ Checked \/ Select
  \/ SendMixedCoins \/ SendAnswerLost \/ SendRefused
  \/ UpdateCoinjoins \/ UpdateFails

External ==
  \/ Join \/ Close \/ RoundBroadcast \/ RoundFails
  \/ MineBlock \/ WalletSeesBlocks \/ WalletSeesRound

Next == Engine \/ SettlementTimesOut \/ External

Spec == Init /\ [][Next]_vars

\* The engine's thread goes on, and the settlement has a deadline.
FairSpec == Spec /\ WF_vars(Engine) /\ WF_vars(SettlementTimesOut)

--------------------------------------------------------------------------------
(***************************************************************************)
(* Properties.                                                             *)
(***************************************************************************)
TypeOK ==
  /\ settles \in BOOLEAN /\ stop \in Stops /\ current \in 0..height
  /\ pc \in {"loop", "pick", "list", "ask", "stop", "address", "info", "send", "mix", "ended"}
  /\ stage \in {"none", "check", "settle", "select"}
  /\ status \in [Keys -> {"not_due", "failed", "sent"}]
  /\ todo \subseteq Keys /\ spend \in Keys \union {0} /\ asked \subseteq Coins
  /\ kept \subseteq Coins
  /\ mixing \in {"no", "yes", "ending"} /\ phase \in {"none", "input", "critical"} /\ inputs \subseteq Coins
  /\ confirmed \subseteq Coins /\ unconfirmed \subseteq Coins
  /\ created \in [Coins -> {"none", "mempool", "mined"}]
  /\ spent \in [Coins -> {"no", "hidden", "known", "mined"}]
  /\ height \in 0..Blocks /\ rounds \in 0..Len(Output) /\ faults \in 0..MaxFaults
  /\ sends \in [Keys -> Nat] /\ unsure \in [Keys -> 0..MaxFaults]

\* When an "all" spend of a 2.6 wallet is sent, no mixed coin is left and none is on its
\* way: the rounds the wallet was in when it was stopped have settled before the coins
\* are selected, _wait_for_postmix_settlement, although state, list and coins are read in
\* separate calls while blocks confirm.
SweepIsComplete ==
  [][(settles /\ pc = "send" /\ status' # status /\ status'[spend] = "sent" /\ Value = 0) =>
       /\ phase = "none"
       /\ \A c \in Coins : IsMixed(c) /\ created'[c] # "none" => spent'[c] # "no"]_vars

\* A value is paid again only after a send whose call ended in an error, PostmixSpend.due.
PaidAgainOnlyIfUnsure == \A s \in Keys : Spends[s].value > 0 => sends[s] <= 1 + unsure[s]

\* README.md: "resumes mixing if its schedule allows": a wallet without a stop block that
\* a spend stopped mixes again, however often its spends fail.
MixingResumes == (stop = 0 /\ mixing # "yes") ~> (mixing = "yes" \/ pc = "ended")

================================================================================
