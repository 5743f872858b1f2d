-------------------------- MODULE WasabiSpendsProofs --------------------------
(***************************************************************************)
(* Proofs about WasabiSpends: an "all" spend of a wallet that settles      *)
(* first leaves no mixed coin behind, and a value is paid again only after *)
(* a send whose call ended in an error.                                    *)
(*                                                                         *)
(* The first is about what the wallet does not list yet.  ListingInv says  *)
(* that coins that are missing from the list give themselves away: as long *)
(* as the wallet knows nothing of a round, the round's inputs are still    *)
(* listed, and the node calls them spent.  So a list without unconfirmed   *)
(* coins that the node agrees with, coin by coin, lists every coin there   *)
(* is (Shown), and no new one comes while the wallet does not mix.         *)
(***************************************************************************)
EXTENDS WasabiSpends, FiniteSetTheorems, TLAPS

\* A wallet that does not mix is in no round, and a round has inputs.
MixingInv ==
  /\ mixing = "no" => phase = "none"
  /\ phase = "none" <=> inputs = {}
  /\ phase # "none" => rounds < Len(Output)

ListingInv ==
  /\ \A c \in confirmed : created[c] = "mined"
  /\ \A k \in DOMAIN Output : k > rounds => created[Output[k]] = "none"
  /\ \A c \in inputs : created[c] = "mined" /\ (spent[c] = "no" => c \in confirmed)
  /\ \A c \in Coins : spent[c] = "hidden" => c \in confirmed
  /\ \A c \in Coins \ unconfirmed : created[c] = "mempool" => \E d \in Coins : spent[d] = "hidden"
  /\ \A c \in Coins \ (confirmed \union unconfirmed) :
       created[c] = "mined" /\ spent[c] = "no" => \E d \in confirmed : spent[d] = "mined"

\* Every unspent coin is listed as confirmed.
Shown == \A c \in Coins : IsUnspent(c) => c \in confirmed

\* Every unspent coin of which the settlement decides is in a set.
MixedIn(set) == \A c \in Coins : IsMixed(c) /\ IsUnspent(c) => c \in set

Sweeps == spend \in Keys /\ settles /\ Value = 0

\* What has been found out about the coins, at each place of a sweep.
SweepInv ==
  /\ pc \in {"list", "ask"} <=> stage \in {"check", "select"} \/ (stage = "settle" /\ pc # "info")
  /\ pc = "info" => stage = "settle"
  /\ stage = "settle" => Sweeps
  /\ stage = "settle" /\ pc # "info" => mixing = "no"
  /\ stage = "settle" /\ pc = "ask" => Shown \/ \E d \in asked : ~IsUnspent(d)
  /\ Sweeps /\ (stage = "select" \/ pc = "send") => mixing = "no" /\ Shown
  /\ Sweeps /\ stage = "select" /\ pc = "ask" => MixedIn(asked \union kept)
  /\ Sweeps /\ pc = "send" => MixedIn(kept)

\* A spend that was sent is not tried again, so each has at most one answered send.
PayInv ==
  /\ pc \in {"list", "ask", "stop", "address", "info", "send"} =>
       spend \in Keys \ todo /\ status[spend] # "sent"
  /\ \A s \in todo : status[s] # "sent"
  /\ \A s \in Keys : unsure[s] <= faults
  /\ \A s \in Keys : sends[s] <= unsure[s] + (IF status[s] = "sent" THEN 1 ELSE 0)

IInv == TypeOK /\ MixingInv /\ ListingInv /\ SweepInv /\ PayInv

-----------------------------------------------------------------------------
(***************************************************************************)
(* Operators.                                                              *)
(***************************************************************************)
\* A set of naturals has a least element: in which order PostmixSpendSchedule.update
\* tries the spends.  The intervals up to its elements are ordered as they are, and
\* inclusion is well founded on finite sets.
LEMMA LeastOne ==
  ASSUME NEW T, T \subseteq Nat, T # {}
  PROVE  Min(T) \in T /\ \A y \in T : Min(T) <= y
<1> DEFINE B == {1..k : k \in T}
<1>1. B \subseteq FiniteSubsetsOf(Nat) /\ B # {}
  <2>1. ASSUME NEW k \in T PROVE 1..k \in SUBSET Nat /\ IsFiniteSet(1..k)
    BY <2>1, FS_Interval
  <2> QED
    BY <2>1 DEF FiniteSubsetsOf
<1>2. PICK x \in B : \A y \in B : ~(<<y, x>> \in StrictSubsetOrdering(Nat))
  <2> HIDE DEF B
  <2> QED
    BY <1>1, FS_StrictSubsetOrderingWellFounded, WFMin
<1>3. PICK k \in T : x = 1..k
  BY <1>2
<1>4. ASSUME NEW y \in T, y < k PROVE FALSE
  <2>1. 1..y \in B /\ 1..y \subseteq 1..k /\ k \in 1..k /\ k \notin 1..y
    BY <1>4
  <2>2. <<1..y, 1..k>> \in StrictSubsetOrdering(Nat)
    BY <2>1 DEF StrictSubsetOrdering
  <2> QED
    BY <1>2, <1>3, <2>1, <2>2
<1>5. k \in T /\ \A y \in T : k <= y
  BY <1>4
<1> QED
  BY <1>5 DEF Min

\* The spends are numbered, and each is a record of the schedule.
LEMMA KeysAreNumbers ==
  /\ Keys \subseteq Nat /\ 0 \notin Keys
  /\ \A s \in Keys : Spends[s] \in [block : Nat, round : Nat, value : Nat, min : Nat]
<1>1. DOMAIN Spends = 1..Len(Spends) /\ Len(Spends) \in Nat
  BY SpendsAssumption
<1>2. \A s \in Keys : Spends[s] \in [block : Nat, round : Nat, value : Nat, min : Nat]
  <2> DEFINE Entry == [block : Nat, round : Nat, value : Nat, min : Nat]
  <2>1. Spends \in Seq(Entry)
    BY SpendsAssumption
  <2> HIDE DEF Entry
  <2>2. \A s \in Keys : Spends[s] \in Entry
    BY <1>1, <2>1 DEF Keys
  <2> QED
    BY <2>2 DEF Entry
<1> QED
  BY <1>1, <1>2 DEF Keys

\* The coins of the rounds are coins of the wallet, each of one round.
LEMMA OutputsAreCoins ==
  /\ Len(Output) \in Nat /\ DOMAIN Output = 1..Len(Output)
  /\ \A k \in DOMAIN Output : Output[k] \in Coins
  /\ \A i, j \in DOMAIN Output : Output[i] = Output[j] => i = j
BY CoinsAssumption

-----------------------------------------------------------------------------
(***************************************************************************)
(* Types.                                                                  *)
(***************************************************************************)
ClientTypeOK == settles \in BOOLEAN /\ stop \in Stops /\ current \in 0..height

AttemptTypeOK ==
  /\ pc \in {"loop", "pick", "list", "ask", "stop", "address", "info", "send", "mix", "ended"}
  /\ stage \in {"none", "check", "settle", "select"}
  /\ status \in [Keys -> {"not_due", "failed", "sent"}]
  /\ todo \subseteq Keys /\ spend \in Keys \union {0} /\ asked \subseteq Coins
  /\ kept \subseteq Coins

RoundTypeOK ==
  mixing \in {"no", "yes", "ending"} /\ phase \in {"none", "input", "critical"} /\ inputs \subseteq Coins

ChainTypeOK ==
  /\ confirmed \subseteq Coins /\ unconfirmed \subseteq Coins
  /\ created \in [Coins -> {"none", "mempool", "mined"}]
  /\ spent \in [Coins -> {"no", "hidden", "known", "mined"}]
  /\ height \in 0..Blocks /\ rounds \in 0..Len(Output)

HistoryTypeOK ==
  faults \in 0..MaxFaults /\ sends \in [Keys -> Nat] /\ unsure \in [Keys -> 0..MaxFaults]

\* TypeOK is made of those of the client, the attempt, the round, the chain and the history.
LEMMA TypeParts ==
  TypeOK <=> ClientTypeOK /\ AttemptTypeOK /\ RoundTypeOK /\ ChainTypeOK /\ HistoryTypeOK
BY DEF TypeOK, ClientTypeOK, AttemptTypeOK, RoundTypeOK, ChainTypeOK, HistoryTypeOK

\* And so it is in the next state.
LEMMA NextTypeParts ==
  ASSUME ClientTypeOK', AttemptTypeOK', RoundTypeOK', ChainTypeOK', HistoryTypeOK'
  PROVE  TypeOK'
<1>1. (TypeOK <=> ClientTypeOK /\ AttemptTypeOK /\ RoundTypeOK /\ ChainTypeOK /\ HistoryTypeOK)'
  BY TypeParts, PTL
<1> QED
  BY <1>1

\* The ways an attempt goes on or ends: _send.
LEMMA AttemptMoves ==
  ASSUME AttemptTypeOK
  PROVE  /\ \A outcome \in {"failed", "sent"} : Over(outcome) => AttemptTypeOK'
         /\ \A place \in {"list", "ask", "stop", "address", "info", "send"},
              at \in {"none", "check", "settle", "select"} :
              Goto(place, at) /\ asked' \subseteq Coins /\ kept' \subseteq Coins => AttemptTypeOK'
         /\ UNCHANGED <<pc, attempt, status>> => AttemptTypeOK'
<1> USE DEF AttemptTypeOK
<1>1. ASSUME NEW outcome \in {"failed", "sent"}, Over(outcome) PROVE AttemptTypeOK'
  BY <1>1 DEF Over
<1>2. ASSUME NEW place \in {"list", "ask", "stop", "address", "info", "send"},
             NEW at \in {"none", "check", "settle", "select"},
             Goto(place, at), asked' \subseteq Coins, kept' \subseteq Coins
      PROVE  AttemptTypeOK'
  BY <1>2 DEF Goto
<1>3. ASSUME UNCHANGED <<pc, attempt, status>> PROVE AttemptTypeOK'
  BY <1>3 DEF attempt
<1> QED
  BY <1>1, <1>2, <1>3

\* A failed call is one more fault, and stopcoinjoin leaves a round or waits for its end.
LEMMA PartsKept ==
  ASSUME ClientTypeOK, RoundTypeOK, ChainTypeOK, HistoryTypeOK
  PROVE  /\ UNCHANGED <<client, chain>> => ClientTypeOK'
         /\ UNCHANGED round \/ Stopped => RoundTypeOK'
         /\ UNCHANGED <<wallet, chain>> => ChainTypeOK'
         /\ UNCHANGED <<faults, history>> \/ (Fault /\ UNCHANGED history) => HistoryTypeOK'
<1>1. UNCHANGED <<client, chain>> => ClientTypeOK'
  BY DEF ClientTypeOK, client, chain
<1>2. UNCHANGED round \/ Stopped => RoundTypeOK'
  BY DEF RoundTypeOK, round, Stopped
<1>3. UNCHANGED <<wallet, chain>> => ChainTypeOK'
  BY DEF ChainTypeOK, wallet, chain
<1>4. UNCHANGED <<faults, history>> \/ (Fault /\ UNCHANGED history) => HistoryTypeOK'
  BY BoundsAssumption DEF HistoryTypeOK, Fault, history
<1> QED
  BY <1>1, <1>2, <1>3, <1>4

\* The engine's steps keep the types: an attempt at a spend, send_mixed_coins.
LEMMA AttemptTypes ==
  ASSUME TypeOK, PayInv,
         \/ Iterate \/ Pick \/ CallFails \/ NewAddress \/ GetWalletInfo \/ ListUnspentCoins \/ AskNode
         \/ Settled \/ Checked \/ Select \/ SettlementTimesOut
  PROVE  TypeOK'
<1>1. ClientTypeOK /\ AttemptTypeOK /\ RoundTypeOK /\ ChainTypeOK /\ HistoryTypeOK
  BY TypeParts
<1>2. ClientTypeOK' /\ RoundTypeOK' /\ ChainTypeOK' /\ HistoryTypeOK'
  <2>1. CASE Iterate
    BY <1>1, <2>1, PartsKept DEF Iterate, ClientTypeOK, ChainTypeOK, chain
  <2>2. CASE ~Iterate
    <3>1. /\ UNCHANGED <<client, chain>> /\ UNCHANGED round /\ UNCHANGED <<wallet, chain>>
          /\ UNCHANGED <<faults, history>> \/ (Fault /\ UNCHANGED history)
      BY <2>2 DEF Pick, CallFails, NewAddress, GetWalletInfo, ListUnspentCoins, AskNode, Settled, Checked, Select,
         Asked, SettlementTimesOut
    <3> QED
      BY <1>1, <3>1, PartsKept
  <2> QED
    BY <2>1, <2>2
<1>3. AttemptTypeOK'
  <2> USE <1>1, AttemptMoves
  <2>1. CASE Iterate
    BY <2>1 DEF Iterate, AttemptTypeOK
  <2>2. CASE Pick
    <3>1. CASE todo = {}
      BY <2>2, <3>1 DEF Pick, AttemptTypeOK
    <3>2. CASE todo # {}
      <4>1. Min(todo) \in todo
        BY <3>2, LeastOne, KeysAreNumbers DEF AttemptTypeOK
      <4> QED
        BY <2>2, <3>2, <4>1 DEF Pick, AttemptTypeOK
    <3> QED
      BY <3>1, <3>2
  <2>3. CASE CallFails
    BY <2>3 DEF CallFails
  <2>4. CASE NewAddress
    BY <2>4 DEF NewAddress, AttemptTypeOK
  <2>5. CASE GetWalletInfo
    BY <2>5 DEF GetWalletInfo, AttemptTypeOK
  <2>6. CASE ListUnspentCoins
    <3>1. asked' \subseteq Coins /\ kept' \subseteq Coins
      BY <2>6 DEF ListUnspentCoins, ChainTypeOK
    <3>2. Goto("info", stage) \/ Goto("ask", stage)
      BY <2>6 DEF ListUnspentCoins
    <3> QED
      BY <3>1, <3>2 DEF AttemptTypeOK
  <2>7. CASE AskNode
    <3>1. asked' \subseteq Coins /\ kept' \subseteq Coins
      BY <2>7 DEF AskNode, AttemptTypeOK
    <3>2. Goto("info", stage) \/ Goto("ask", stage)
      BY <2>7 DEF AskNode
    <3> QED
      BY <3>1, <3>2 DEF AttemptTypeOK
  <2>8. CASE Settled
    BY <2>8 DEF Settled, AttemptTypeOK
  <2>9. CASE Checked
    BY <2>9 DEF Checked, AttemptTypeOK
  <2>10. CASE Select
    <3>1. Selected(kept) \subseteq Coins
      BY DEF Selected, AttemptTypeOK
    <3> QED
      BY <2>10, <3>1 DEF Select, AttemptTypeOK
  <2>11. CASE SettlementTimesOut
    BY <2>11 DEF SettlementTimesOut
  <2> QED
    BY <2>1, <2>2, <2>3, <2>4, <2>5, <2>6, <2>7, <2>8, <2>9, <2>10, <2>11
<1> QED
  BY <1>2, <1>3, NextTypeParts

\* And so do its calls that change the wallet or the chain, and what is external.
LEMMA OtherTypes ==
  ASSUME TypeOK, MixingInv, PayInv,
         \/ StopCoinjoin \/ SendMixedCoins \/ SendAnswerLost \/ SendRefused
         \/ UpdateCoinjoins \/ UpdateFails \/ External
  PROVE  TypeOK'
<1>1. ClientTypeOK /\ AttemptTypeOK /\ RoundTypeOK /\ ChainTypeOK /\ HistoryTypeOK
  BY TypeParts
<1>2. ClientTypeOK'
  <2>1. CASE StopCoinjoin \/ SendRefused \/ UpdateCoinjoins \/ UpdateFails
    BY <1>1, <2>1, PartsKept DEF StopCoinjoin, SendRefused, UpdateCoinjoins, UpdateFails
  <2>2. CASE SendMixedCoins \/ SendAnswerLost
    BY <1>1, <2>2 DEF SendMixedCoins, SendAnswerLost, Pay, ClientTypeOK, client
  <2>3. CASE External
    <3>1. UNCHANGED client /\ (UNCHANGED height \/ MineBlock)
      BY <2>3 DEF External, Join, Close, RoundBroadcast, RoundFails, WalletSeesBlocks, WalletSeesRound, MineBlock,
         engine, chain
    <3> QED
      BY <1>1, <3>1 DEF ClientTypeOK, ChainTypeOK, client, MineBlock
  <2> QED
    BY <2>1, <2>2, <2>3
<1>3. AttemptTypeOK'
  <2>1. CASE StopCoinjoin
    BY <1>1, <2>1, AttemptMoves DEF StopCoinjoin, AttemptTypeOK
  <2>2. CASE UpdateCoinjoins \/ UpdateFails
    BY <1>1, <2>2 DEF UpdateCoinjoins, UpdateFails, AttemptTypeOK, attempt
  <2>3. CASE SendMixedCoins \/ SendAnswerLost \/ SendRefused
    BY <1>1, <2>3, AttemptMoves DEF SendMixedCoins, SendAnswerLost, SendRefused
  <2>4. CASE External
    BY <1>1, <2>4, AttemptMoves DEF External, Join, Close, RoundBroadcast, RoundFails, MineBlock, WalletSeesBlocks,
       WalletSeesRound, engine
  <2> QED
    BY <2>1, <2>2, <2>3, <2>4
<1>4. RoundTypeOK'
  <2>1. CASE Join \/ Close \/ RoundBroadcast \/ RoundFails
    BY <1>1, <2>1 DEF Join, Close, RoundBroadcast, RoundFails, RoundOver, RoundTypeOK, ChainTypeOK
  <2>2. CASE UpdateCoinjoins
    BY <1>1, <2>2, PartsKept DEF UpdateCoinjoins, RoundTypeOK
  <2>3. UNCHANGED round \/ Stopped \/ Join \/ Close \/ RoundBroadcast \/ RoundFails \/ UpdateCoinjoins
    BY DEF StopCoinjoin, SendMixedCoins, SendAnswerLost, SendRefused, Pay, UpdateFails, External, MineBlock,
       WalletSeesBlocks, WalletSeesRound
  <2> QED
    BY <1>1, <2>1, <2>2, <2>3, PartsKept
<1>5. ChainTypeOK'
  <2> USE BoundsAssumption, OutputsAreCoins DEF ChainTypeOK
  <2>1. CASE Pay
    BY <1>1, <2>1 DEF Pay
  <2>2. CASE RoundBroadcast
    BY <1>1, <2>2 DEF RoundBroadcast, RoundOver, MixingInv, wallet
  <2>3. CASE MineBlock
    BY <1>1, <2>3 DEF MineBlock, wallet
  <2>4. CASE WalletSeesBlocks
    BY <1>1, <2>4 DEF WalletSeesBlocks, chain
  <2>5. CASE WalletSeesRound
    BY <1>1, <2>5 DEF WalletSeesRound
  <2>6. UNCHANGED <<wallet, chain>> \/ Pay \/ RoundBroadcast \/ MineBlock \/ WalletSeesBlocks \/ WalletSeesRound
    BY DEF StopCoinjoin, SendMixedCoins, SendAnswerLost, SendRefused, UpdateCoinjoins, UpdateFails, External, Join,
       Close, RoundFails
  <2> QED
    BY <1>1, <2>1, <2>2, <2>3, <2>4, <2>5, <2>6, PartsKept
<1>6. HistoryTypeOK'
  <2> USE BoundsAssumption DEF HistoryTypeOK, Fault
  <2>1. CASE SendMixedCoins
    <3>1. sends' = [sends EXCEPT ![spend] = @ + 1] /\ faults' = faults /\ unsure' = unsure
      BY <2>1 DEF SendMixedCoins, Pay
    <3>2. sends' \in [Keys -> Nat]
      <4>1. spend \in Keys /\ sends[spend] + 1 \in Nat
        BY <1>1, <2>1 DEF SendMixedCoins, Pay, PayInv
      <4> QED
        BY <1>1, <3>1, <4>1
    <3>3. (faults \in 0..MaxFaults /\ unsure \in [Keys -> 0..MaxFaults])'
      BY <1>1, <3>1
    <3> QED
      BY <3>2, <3>3
  <2>2. CASE SendAnswerLost
    <3>1. \A s \in Keys : unsure[s] + 1 \in 0..MaxFaults
      BY <1>1, <2>2 DEF SendAnswerLost, PayInv
    <3>2. /\ sends' = [sends EXCEPT ![spend] = @ + 1] /\ unsure' = [unsure EXCEPT ![spend] = @ + 1]
          /\ faults < MaxFaults /\ faults' = faults + 1
      BY <2>2 DEF SendAnswerLost, Pay
    <3>3. sends' \in [Keys -> Nat]
      <4>1. spend \in Keys /\ sends[spend] + 1 \in Nat
        BY <1>1, <2>2 DEF SendAnswerLost, Pay, PayInv
      <4> QED
        BY <1>1, <3>2, <4>1
    <3>4. unsure' \in [Keys -> 0..MaxFaults]
      BY <1>1, <3>1, <3>2
    <3>5. faults' \in 0..MaxFaults
      BY <1>1, <3>2
    <3> QED
      BY <3>3, <3>4, <3>5
  <2>3. UNCHANGED <<faults, history>> \/ (Fault /\ UNCHANGED history) \/ SendMixedCoins \/ SendAnswerLost
    BY DEF StopCoinjoin, SendRefused, UpdateCoinjoins, UpdateFails, External, Join, Close, RoundBroadcast, RoundFails,
       MineBlock, WalletSeesBlocks, WalletSeesRound, engine
  <2> QED
    BY <1>1, <2>1, <2>2, <2>3, PartsKept
<1> QED
  BY <1>2, <1>3, <1>4, <1>5, <1>6, NextTypeParts

-----------------------------------------------------------------------------
(***************************************************************************)
(* The wallet's round and what the wallet lists.                           *)
(***************************************************************************)
\* A wallet that stopped mixing has left its round: stop_coinjoin and the round's end.
LEMMA MixingSteps ==
  ASSUME TypeOK, MixingInv, [Next]_vars
  PROVE  MixingInv'
<1> USE DEF TypeOK, MixingInv, round
<1>1. CASE UNCHANGED round /\ rounds' = rounds
  BY <1>1
<1>2. CASE Stopped /\ rounds' = rounds
  BY <1>2 DEF Stopped
<1>3. CASE UpdateCoinjoins
  BY <1>2, <1>3 DEF UpdateCoinjoins, chain
<1>4. CASE Join
  BY <1>4 DEF Join, chain
<1>5. CASE Close
  BY <1>5 DEF Close, chain
<1>6. CASE RoundBroadcast \/ RoundFails
  BY <1>6 DEF RoundBroadcast, RoundFails, RoundOver
<1>7. \/ UNCHANGED round /\ rounds' = rounds
      \/ Stopped /\ rounds' = rounds
      \/ UpdateCoinjoins \/ Join \/ Close \/ RoundBroadcast \/ RoundFails
  <2>1. CASE UNCHANGED vars
    BY <2>1 DEF vars, chain
  <2>2. CASE Iterate \/ Pick \/ CallFails \/ NewAddress \/ GetWalletInfo \/ ListUnspentCoins \/ AskNode
    BY <2>2 DEF Iterate, Pick, CallFails, NewAddress, GetWalletInfo, ListUnspentCoins, AskNode, chain
  <2>3. CASE Settled \/ Checked \/ Select \/ SettlementTimesOut \/ StopCoinjoin
    BY <2>3 DEF Settled, Checked, Select, Asked, SettlementTimesOut, StopCoinjoin, chain
  <2>4. CASE SendMixedCoins \/ SendAnswerLost \/ SendRefused \/ UpdateCoinjoins \/ UpdateFails
    BY <2>4 DEF SendMixedCoins, SendAnswerLost, Pay, SendRefused, UpdateFails, chain
  <2>5. CASE External
    BY <2>5 DEF External, MineBlock, WalletSeesBlocks, WalletSeesRound, chain
  <2> QED
    BY <2>1, <2>2, <2>3, <2>4, <2>5 DEF Next, Engine
<1> QED
  BY <1>1, <1>2, <1>3, <1>4, <1>5, <1>6, <1>7

\* What a step does to coins and list: nothing, or it is one of these.
LEMMA ListEffects ==
  ASSUME [Next]_vars
  PROVE  \/ UNCHANGED <<wallet, chain>> /\ (inputs' = inputs \/ inputs' = {} \/ Join)
         \/ Pay \/ RoundBroadcast \/ MineBlock \/ WalletSeesBlocks \/ WalletSeesRound
<1>1. CASE UNCHANGED vars
  BY <1>1 DEF vars, round
<1>2. CASE Iterate \/ Pick \/ CallFails \/ NewAddress \/ GetWalletInfo \/ ListUnspentCoins \/ AskNode
  BY <1>2 DEF Iterate, Pick, CallFails, NewAddress, GetWalletInfo, ListUnspentCoins, AskNode, round
<1>3. CASE Settled \/ Checked \/ Select \/ SettlementTimesOut \/ StopCoinjoin
  BY <1>3 DEF Settled, Checked, Select, Asked, SettlementTimesOut, StopCoinjoin, Stopped, round
<1>4. CASE SendMixedCoins \/ SendAnswerLost \/ SendRefused
  BY <1>4 DEF SendMixedCoins, SendAnswerLost, SendRefused, round
<1>5. CASE UpdateCoinjoins \/ UpdateFails
  BY <1>5 DEF UpdateCoinjoins, UpdateFails, Stopped, round
<1>6. CASE External
  BY <1>6 DEF External, Join, Close, RoundFails, RoundOver, round
<1> QED
  BY <1>1, <1>2, <1>3, <1>4, <1>5, <1>6 DEF Next, Engine

\* Whatever the wallet is told or finds out of a round, and when, coins missing from its
\* list give themselves away.
LEMMA ListingSteps ==
  ASSUME TypeOK, MixingInv, ListingInv, [Next]_vars
  PROVE  ListingInv'
<1> USE OutputsAreCoins DEF TypeOK, ListingInv, IsUnspent
<1>1. CASE UNCHANGED <<wallet, chain>> /\ (inputs' = inputs \/ inputs' = {})
  BY <1>1 DEF wallet, chain
<1>2. CASE Join
  BY <1>2 DEF Join, wallet, chain
<1>3. CASE Pay
  BY <1>3 DEF Pay, round
<1>4. CASE RoundBroadcast
  <2>1. /\ rounds' = rounds + 1 /\ rounds + 1 \in DOMAIN Output /\ inputs # {} /\ inputs' = {}
        /\ UNCHANGED <<confirmed, unconfirmed>>
    BY <1>4 DEF RoundBroadcast, RoundOver, MixingInv, wallet
  <2> DEFINE new == Output[rounds + 1]
  <2>2. new \in Coins /\ created[new] = "none" /\ new \notin confirmed
    <3>1. rounds + 1 > rounds
      OBVIOUS
    <3> QED
      BY <2>1, <3>1
  <2>3. \A c \in Coins : created'[c] = IF c = new THEN "mempool" ELSE created[c]
    BY <1>4, <2>1 DEF RoundBroadcast
  <2>4. \A c \in Coins : spent'[c] = IF c \in inputs THEN "hidden" ELSE spent[c]
    BY <1>4 DEF RoundBroadcast
  <2>5. \A c \in inputs : spent[c] = "no" /\ c \in confirmed /\ c \in Coins
    BY <1>4 DEF RoundBroadcast
  <2>6. \A k \in DOMAIN Output : k > rounds' => created'[Output[k]] = "none"
    <3>1. ASSUME NEW k \in DOMAIN Output, k > rounds' PROVE created'[Output[k]] = "none"
      <4>1. k > rounds /\ k # rounds + 1 /\ k \in Nat
        BY <2>1, <3>1
      <4>2. Output[k] # new /\ created[Output[k]] = "none" /\ Output[k] \in Coins
        BY <2>1, <4>1
      <4> QED
        BY <2>3, <4>2
    <3> QED
      BY <3>1
  <2> HIDE DEF new
  <2>7. \A c \in confirmed' : created'[c] = "mined"
    BY <2>1, <2>2, <2>3
  <2>8. \A c \in Coins : spent'[c] = "hidden" => c \in confirmed'
    BY <2>1, <2>4, <2>5
  <2>9. \E d \in Coins : spent'[d] = "hidden"
    BY <2>1, <2>4, <2>5
  <2>10. \A c \in Coins \ (confirmed' \union unconfirmed') :
           created'[c] = "mined" /\ spent'[c] = "no" => \E d \in confirmed' : spent'[d] = "mined"
    <3>1. ASSUME NEW c \in Coins \ (confirmed \union unconfirmed), created'[c] = "mined", spent'[c] = "no"
          PROVE  \E d \in confirmed : spent'[d] = "mined"
      <4>1. created[c] = "mined" /\ spent[c] = "no"
        BY <2>3, <2>4, <3>1
      <4>2. PICK d \in confirmed : spent[d] = "mined"
        BY <4>1
      <4>3. spent'[d] = "mined"
        BY <2>4, <2>5, <4>2
      <4> QED
        BY <4>3
    <3> QED
      BY <2>1, <3>1
  <2> QED
    BY <2>1, <2>6, <2>7, <2>8, <2>9, <2>10
<1>5. CASE MineBlock
  BY <1>5 DEF MineBlock, round, wallet
<1>6. CASE WalletSeesBlocks
  BY <1>6 DEF WalletSeesBlocks, round, chain
<1>7. CASE WalletSeesRound
  BY <1>7 DEF WalletSeesRound, round
<1> QED
  BY <1>1, <1>2, <1>3, <1>4, <1>5, <1>6, <1>7, ListEffects

\* A list without unconfirmed coins, of which the node says that each is unspent, is
\* complete: _wait_for_postmix_settlement.
LEMMA ListIsComplete ==
  ASSUME TypeOK, ListingInv, unconfirmed = {}
  PROVE  Shown \/ \E d \in confirmed : ~IsUnspent(d)
<1> SUFFICES ASSUME \A d \in confirmed : IsUnspent(d) PROVE Shown
  OBVIOUS
<1>1. \A c \in Coins : created[c] # "mempool"
  BY DEF TypeOK, ListingInv, IsUnspent
<1> QED
  BY <1>1 DEF TypeOK, ListingInv, IsUnspent, Shown

\* While the wallet does not mix, nothing that is listed, or known to be spent, changes:
\* no step makes an unspent coin that is not listed.
LEMMA ShownStays ==
  ASSUME TypeOK, MixingInv, ListingInv, mixing = "no", [Next]_vars
  PROVE  /\ \A c \in Coins : IsUnspent(c)' => IsUnspent(c)
         /\ Shown => Shown'
<1> USE DEF TypeOK, IsUnspent
<1>1. CASE UNCHANGED <<wallet, chain>>
  BY <1>1 DEF Shown, wallet, chain
<1>2. CASE Pay
  BY <1>2 DEF Pay, Shown
<1>3. CASE RoundBroadcast
  BY <1>3 DEF RoundBroadcast, RoundOver, MixingInv
<1>4. CASE MineBlock
  BY <1>4 DEF MineBlock, Shown, wallet
<1>5. CASE WalletSeesBlocks
  BY <1>5 DEF WalletSeesBlocks, Shown, ListingInv, chain
<1>6. CASE WalletSeesRound
  BY <1>6 DEF WalletSeesRound, Shown
<1> QED
  BY <1>1, <1>2, <1>3, <1>4, <1>5, <1>6, ListEffects DEF Join

-----------------------------------------------------------------------------
(***************************************************************************)
(* The settlement and the selection of a sweep.                            *)
(***************************************************************************)
\* Which coins count depends on the spend in hand only.
LEMMA SameSpend ==
  ASSUME UNCHANGED <<settles, spend>>
  PROVE  /\ Sweeps' <=> Sweeps
         /\ \A c \in Coins : IsMixed(c)' <=> IsMixed(c)
BY DEF Sweeps, Value, IsMixed

\* A step that is not the engine's leaves what it found out about the coins true.
LEMMA OutsideSweeps ==
  ASSUME TypeOK, MixingInv, ListingInv, SweepInv, [Next]_vars,
         UNCHANGED <<settles, pc, attempt>>, mixing = "no" => mixing' = "no"
  PROVE  SweepInv'
<1>1. UNCHANGED <<stage, asked, kept, spend>> /\ (Sweeps' <=> Sweeps) /\ \A c \in Coins : IsMixed(c)' <=> IsMixed(c)
  BY SameSpend DEF attempt
<1>2. mixing = "no" => (\A c \in Coins : IsUnspent(c)' => IsUnspent(c)) /\ (Shown => Shown')
  BY ShownStays
<1>3. mixing = "no" => \A set \in SUBSET Coins : MixedIn(set) => MixedIn(set)'
  BY <1>1, <1>2 DEF MixedIn
<1> QED
  BY <1>1, <1>2, <1>3 DEF SweepInv, TypeOK

\* The attempt goes on, or is over: _wait_for_postmix_settlement, _select_mixed_coins.
LEMMA AttemptSweeps ==
  ASSUME TypeOK, MixingInv, ListingInv, SweepInv, PayInv,
         \/ NewAddress \/ GetWalletInfo \/ ListUnspentCoins \/ AskNode \/ Settled \/ Checked \/ Select
  PROVE  SweepInv'
<1> SUFFICES SweepInv'
  OBVIOUS
<1>1. UNCHANGED <<client, round, wallet, chain, spend, settles, mixing, unconfirmed, confirmed, created, spent>>
  BY DEF NewAddress, GetWalletInfo, ListUnspentCoins, AskNode, Settled, Checked, Select, Asked, Goto, Over, client,
     round, wallet, chain
<1>2. (Sweeps' <=> Sweeps) /\ \A c \in Coins : (IsMixed(c)' <=> IsMixed(c)) /\ (IsUnspent(c)' <=> IsUnspent(c))
  BY <1>1, SameSpend DEF IsUnspent
<1>3. Shown' <=> Shown
  BY <1>1, <1>2 DEF Shown
<1>4. CASE NewAddress
  BY <1>1, <1>2, <1>3, <1>4 DEF NewAddress, Goto, SweepInv, Sweeps, PayInv
<1>5. CASE GetWalletInfo
  BY <1>1, <1>2, <1>3, <1>5 DEF GetWalletInfo, Goto, SweepInv
<1>6. CASE ListUnspentCoins
  <2>1. CASE stage = "settle"
    <3>1. CASE unconfirmed # {}
      BY <1>1, <1>2, <1>3, <1>6, <2>1, <3>1 DEF ListUnspentCoins, Goto, SweepInv
    <3>2. CASE unconfirmed = {}
      <4>1. pc' = "ask" /\ stage' = "settle" /\ asked' = confirmed
        BY <1>6, <2>1, <3>2 DEF ListUnspentCoins, Goto
      <4>2. Shown' \/ \E d \in asked' : ~IsUnspent(d)'
        BY <1>2, <1>3, <3>2, <4>1, ListIsComplete DEF TypeOK
      <4>3. Sweeps' /\ mixing' = "no"
        BY <1>1, <1>2, <1>6, <2>1 DEF SweepInv, ListUnspentCoins
      <4> QED
        BY <4>1, <4>2, <4>3 DEF SweepInv
    <3> QED
      BY <3>1, <3>2
  <2>2. CASE stage # "settle"
    BY <1>1, <1>2, <1>3, <1>6, <2>2 DEF ListUnspentCoins, Goto, SweepInv, MixedIn, Shown
  <2> QED
    BY <2>1, <2>2
<1>7. CASE AskNode
  <2>1. PICK c \in asked :
          IF stage = "settle" /\ ~IsUnspent(c)
          THEN Goto("info", stage) /\ asked' = {} /\ UNCHANGED kept
          ELSE /\ Goto("ask", stage) /\ asked' = asked \ {c}
               /\ kept' = IF stage # "settle" /\ IsUnspent(c) THEN kept \union {c} ELSE kept
    BY <1>7 DEF AskNode
  <2>2. pc = "ask"
    BY <1>7 DEF AskNode
  <2>3. CASE stage = "settle" /\ ~IsUnspent(c)
    BY <1>1, <1>2, <2>1, <2>2, <2>3 DEF Goto, SweepInv
  <2>4. CASE stage = "settle" /\ IsUnspent(c)
    <3>1. pc' = "ask" /\ stage' = "settle" /\ asked' = asked \ {c}
      BY <2>1, <2>4 DEF Goto
    <3>2. Shown' \/ \E d \in asked' : ~IsUnspent(d)'
      BY <1>2, <1>3, <2>2, <2>4, <3>1 DEF SweepInv, TypeOK
    <3> QED
      BY <1>1, <1>2, <2>2, <2>4, <3>1, <3>2 DEF SweepInv
  <2>5. CASE stage # "settle"
    <3>1. pc' = "ask" /\ stage' = stage
      BY <2>1, <2>5 DEF Goto
    <3>2. MixedIn(asked \union kept) => MixedIn(asked \union kept)'
      <4>1. asked' = asked \ {c} /\ kept' = IF IsUnspent(c) THEN kept \union {c} ELSE kept
        BY <2>1, <2>5
      <4> QED
        BY <1>2, <4>1 DEF MixedIn
    <3> QED
      BY <1>1, <1>2, <1>3, <2>2, <2>5, <3>1, <3>2 DEF SweepInv
  <2> QED
    BY <2>3, <2>4, <2>5
<1>8. CASE Settled
  BY <1>1, <1>2, <1>3, <1>8 DEF Settled, Asked, Goto, SweepInv
<1>9. CASE Checked
  BY <1>1, <1>2, <1>3, <1>9 DEF Checked, Asked, Goto, Over, SweepInv
<1>10. CASE Select
  BY <1>1, <1>2, <1>3, <1>10 DEF Select, Asked, Goto, Over, Selected, SweepInv, MixedIn, Sweeps
<1> QED
  BY <1>4, <1>5, <1>6, <1>7, <1>8, <1>9, <1>10

\* No step loses what the settlement found out before the coins are sent.
LEMMA SweepSteps ==
  ASSUME TypeOK, MixingInv, ListingInv, SweepInv, PayInv, [Next]_vars
  PROVE  SweepInv'
<1>1. CASE UNCHANGED vars
  BY <1>1, OutsideSweeps DEF vars, client, round
<1>2. CASE External
  BY <1>2, OutsideSweeps DEF External, Join, Close, RoundBroadcast, RoundFails, RoundOver, MineBlock, WalletSeesBlocks,
     WalletSeesRound, engine, round, client, MixingInv
<1>3. CASE NewAddress \/ GetWalletInfo \/ ListUnspentCoins \/ AskNode \/ Settled \/ Checked \/ Select
  BY <1>3, AttemptSweeps
<1>4. ASSUME NEW outcome, Over(outcome) PROVE SweepInv'
  BY <1>4 DEF Over, SweepInv
<1>5. CASE CallFails \/ SettlementTimesOut \/ SendMixedCoins \/ SendAnswerLost \/ SendRefused
  BY <1>4, <1>5 DEF CallFails, SettlementTimesOut, SendMixedCoins, SendAnswerLost, SendRefused
<1>6. CASE StopCoinjoin
  <2>1. CASE Goto("address", "none")
    BY <2>1 DEF Goto, SweepInv
  <2>2. CASE Over("failed")
    BY <1>4, <2>2
  <2> QED
    BY <1>6, <2>1, <2>2 DEF StopCoinjoin
<1>7. CASE Iterate \/ UpdateCoinjoins \/ UpdateFails
  BY <1>7 DEF Iterate, UpdateCoinjoins, UpdateFails, SweepInv, attempt
<1>8. CASE Pick
  BY <1>8 DEF Pick, SweepInv, Sweeps
<1> QED
  BY <1>1, <1>2, <1>3, <1>5, <1>6, <1>7, <1>8 DEF Next, Engine

-----------------------------------------------------------------------------
(***************************************************************************)
(* What is sent.                                                           *)
(***************************************************************************)
\* A spend is picked once in an iteration, and not after it was sent: update.
LEMMA PaySteps ==
  ASSUME TypeOK, SweepInv, PayInv, [Next]_vars
  PROVE  PayInv'
<1> USE BoundsAssumption, KeysAreNumbers DEF TypeOK, PayInv
<1>1. CASE UNCHANGED <<pc, todo, spend, status, faults, history>>
  BY <1>1 DEF history
<1>2. ASSUME Over("failed"), UNCHANGED history, UNCHANGED faults \/ Fault, pc # "loop", pc # "pick", pc # "mix",
             pc # "ended"
      PROVE  PayInv'
  BY <1>2 DEF Over, history, Fault
<1>3. ASSUME NEW place, NEW at, Goto(place, at), UNCHANGED <<faults, history>>, pc # "loop", pc # "pick", pc # "mix",
             pc # "ended"
      PROVE  PayInv'
  BY <1>3 DEF Goto, history
<1>4. CASE Iterate
  BY <1>4 DEF Iterate, Due, history
<1>5. CASE Pick
  <2>1. CASE todo = {}
    BY <1>5, <2>1 DEF Pick, history
  <2>2. CASE todo # {}
    <3>1. Min(todo) \in todo
      BY <2>2, LeastOne
    <3> QED
      BY <1>5, <2>2, <3>1 DEF Pick, history
  <2> QED
    BY <2>1, <2>2
<1>6. CASE SendMixedCoins
  BY <1>6 DEF SendMixedCoins, Pay, Over
<1>7. CASE SendAnswerLost
  <2>1. /\ pc = "send" /\ pc' = "pick" /\ status' = [status EXCEPT ![spend] = "failed"]
        /\ sends' = [sends EXCEPT ![spend] = @ + 1] /\ unsure' = [unsure EXCEPT ![spend] = @ + 1]
        /\ faults' = faults + 1 /\ UNCHANGED <<todo, spend>>
    BY <1>7 DEF SendAnswerLost, Pay, Over, Fault
  <2>2. \A s \in todo' : status'[s] # "sent"
    BY <2>1
  <2>3. ASSUME NEW s \in Keys
        PROVE  /\ unsure'[s] <= faults'
               /\ sends'[s] <= unsure'[s] + (IF status'[s] = "sent" THEN 1 ELSE 0)
    BY <2>1
  <2> QED
    BY <2>1, <2>2, <2>3
<1>8. CASE CallFails \/ SettlementTimesOut \/ SendRefused
  <2>1. Over("failed") /\ UNCHANGED history /\ (UNCHANGED faults \/ Fault)
    BY <1>8 DEF CallFails, SettlementTimesOut, SendRefused
  <2>2. pc \in {"list", "ask", "address", "info", "send"}
    BY <1>8 DEF CallFails, SettlementTimesOut, SendRefused, SweepInv
  <2> QED
    BY <1>2, <2>1, <2>2
<1>9. CASE NewAddress \/ GetWalletInfo \/ ListUnspentCoins \/ AskNode \/ Settled
  BY <1>3, <1>9 DEF NewAddress, GetWalletInfo, ListUnspentCoins, AskNode, Settled, Asked
<1>10. CASE Checked \/ Select \/ StopCoinjoin
  BY <1>2, <1>3, <1>10 DEF Checked, Select, Asked, StopCoinjoin
<1>11. CASE UpdateCoinjoins \/ UpdateFails
  <2>1. pc' \in {"loop", "ended"} /\ UNCHANGED <<todo, status, sends, unsure>> /\ faults' >= faults
    BY <1>11 DEF UpdateCoinjoins, UpdateFails, Fault, attempt, history
  <2>2. faults' \in Nat
    BY <1>11 DEF UpdateCoinjoins, UpdateFails, Fault
  <2>3. ASSUME NEW s \in Keys PROVE unsure'[s] <= faults'
    <3>1. unsure[s] \in Nat /\ faults \in Nat /\ unsure[s] <= faults
      OBVIOUS
    <3> QED
      BY <2>1, <2>2, <3>1
  <2> QED
    BY <2>1, <2>3
<1>12. CASE External \/ UNCHANGED vars
  BY <1>1, <1>12 DEF External, Join, Close, RoundBroadcast, RoundFails, MineBlock, WalletSeesBlocks,
     WalletSeesRound, engine, vars, attempt
<1> QED
  BY <1>4, <1>5, <1>6, <1>7, <1>8, <1>9, <1>10, <1>11, <1>12 DEF Next, Engine

-----------------------------------------------------------------------------
(***************************************************************************)
(* The theorems.                                                           *)
(***************************************************************************)
\* The wallet and the schedule the engine's loop begins with satisfy the invariant.
LEMMA InitIInv == Init => IInv
<1> SUFFICES ASSUME Init PROVE IInv
  OBVIOUS
<1> USE CoinsAssumption, OutputsAreCoins, BoundsAssumption DEF Init
<1>1. TypeOK
  <2>1. ClientTypeOK
    BY DEF ClientTypeOK
  <2>2. AttemptTypeOK
    BY DEF AttemptTypeOK
  <2>3. RoundTypeOK
    BY DEF RoundTypeOK
  <2>4. ChainTypeOK
    BY DEF ChainTypeOK
  <2>5. HistoryTypeOK
    BY DEF HistoryTypeOK
  <2> QED
    BY <2>1, <2>2, <2>3, <2>4, <2>5, TypeParts
<1>2. MixingInv
  BY DEF MixingInv
<1>3. ListingInv
  <2>1. \A k \in DOMAIN Output : Output[k] \in Coins \ AtStart
    BY CoinsAssumption
  <2> QED
    BY <2>1 DEF ListingInv
<1>4. SweepInv
  BY KeysAreNumbers DEF SweepInv, Sweeps
<1>5. PayInv
  BY DEF PayInv
<1> QED
  BY <1>1, <1>2, <1>3, <1>4, <1>5 DEF IInv

\* No step of the engine, of the rounds or of the wallet breaks it.
LEMMA NextIInv == IInv /\ [Next]_vars => IInv'
<1> SUFFICES ASSUME IInv, [Next]_vars PROVE IInv'
  OBVIOUS
<1>1. TypeOK /\ MixingInv /\ ListingInv /\ SweepInv /\ PayInv
  BY DEF IInv
<1>2. TypeOK'
  <2>1. CASE UNCHANGED vars
    BY <1>1, <2>1 DEF vars, client, attempt, round, wallet, chain, history, TypeOK
  <2>2. CASE Next
    BY <1>1, <2>2, AttemptTypes, OtherTypes DEF Next, Engine
  <2> QED
    BY <2>1, <2>2
<1>3. MixingInv' /\ ListingInv' /\ SweepInv' /\ PayInv'
  BY <1>1, MixingSteps, ListingSteps, SweepSteps, PaySteps
<1> QED
  BY <1>2, <1>3 DEF IInv

\* The invariant of the engine's loop over a Wasabi wallet's spends: in every state.
THEOREM Invariant == Spec => []IInv
BY InitIInv, NextIInv, PTL DEF Spec

\* The variables keep their types.
THEOREM TypeCorrect == Spec => []TypeOK
<1>1. IInv => TypeOK
  BY DEF IInv
<1> QED
  BY Invariant, <1>1, PTL

\* PostmixSpendSchedule.update sends a spend again only after a send whose call ended in
\* an error.
THEOREM PaidOnceIfSure == Spec => []PaidAgainOnlyIfUnsure
<1>1. IInv => PaidAgainOnlyIfUnsure
  BY DEF IInv, TypeOK, PayInv, PaidAgainOnlyIfUnsure
<1> QED
  BY Invariant, <1>1, PTL

\* send_mixed_coins of an "all" spend, after _wait_for_postmix_settlement: no mixed coin
\* is left in the wallet, and no round is under way that could bring one.
THEOREM SweepsAreComplete == Spec => SweepIsComplete
<1> DEFINE Sweep == settles /\ pc = "send" /\ status' # status /\ status'[spend] = "sent" /\ Value = 0
           Left == phase = "none" /\ \A c \in Coins : IsMixed(c) /\ created'[c] # "none" => spent'[c] # "no"
<1>1. IInv /\ [Next]_vars => [Sweep => Left]_vars
  <2> SUFFICES ASSUME IInv, Next, Sweep PROVE Left
    BY DEF vars
  <2>1. TypeOK /\ MixingInv /\ SweepInv /\ PayInv
    BY DEF IInv
  <2>2. spend \in Keys /\ status[spend] # "sent"
    BY <2>1 DEF PayInv
  <2>3. SendMixedCoins
    BY <2>1, <2>2 DEF Next, Engine, External, Iterate, Pick, CallFails, StopCoinjoin, NewAddress, GetWalletInfo,
       ListUnspentCoins, AskNode, Settled, Checked, Select, Asked, SendAnswerLost, SendRefused, UpdateCoinjoins,
       UpdateFails, SettlementTimesOut, Over, TypeOK, SweepInv, Join, Close, RoundBroadcast, RoundFails, MineBlock,
       WalletSeesBlocks, WalletSeesRound, engine
  <2>4. Sweeps /\ mixing = "no" /\ MixedIn(kept)
    BY <2>1, <2>2 DEF Sweeps, SweepInv
  <2>5. created' = created /\ spent' = [c \in Coins |-> IF c \in kept THEN "known" ELSE spent[c]]
    BY <2>3 DEF SendMixedCoins, Pay
  <2> QED
    BY <2>1, <2>4, <2>5 DEF MixingInv, MixedIn, IsUnspent
<1> QED
  BY Invariant, <1>1, PTL DEF Spec, SweepIsComplete
===============================================================================
