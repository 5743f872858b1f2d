------------------------- MODULE PostmixSpendsProofs -------------------------
(***************************************************************************)
(* Proofs about PostmixSpends: the wallet is idle while it is swept, a     *)
(* sweep takes no coin that was held back for it, an attempt leaves no     *)
(* coin frozen, and a value is paid again only after a payment whose call  *)
(* ended in an error.                                                      *)
(*                                                                         *)
(* The last one rests on what the selection returns: a value is paid from  *)
(* one mixdepth, so that one sweep is all it takes.  SelectByAmount is a   *)
(* recursive function, and that it is one (SelectByAmountIs) and returns   *)
(* some of the coins it is given (TakenAreGiven) are shown by a least      *)
(* counterexample: strict inclusion is well founded on finite sets.        *)
(***************************************************************************)
EXTENDS PostmixSpends, FiniteSetTheorems, TLAPS

\* A service that was found idle stays idle until the clients are updated.
IdleInv == pc \in {"address", "list", "freeze", "unfreeze"} => service = "idle"

\* An attempt begins with no coin held.  Before a sweep the listed coins it is not to take
\* are frozen or wait to be; after it those that are still frozen wait to be unfrozen.
HoldInv ==
  /\ pc \in {"check", "stop", "poll", "address", "list"} => held = {}
  /\ pc = "freeze" =>
       \A c \in listing \ chosen : Mixdepth[c] = Least(depths) => c \in frozen \union waiting
  /\ pc = "unfreeze" => held \intersect frozen \subseteq waiting

\* A spend's sweep that was answered, and after which nothing has failed.
Answered(s) == IF status[s] = "sent" \/ (s = spend /\ pc = "unfreeze" /\ ~raised) THEN 1 ELSE 0

\* The spend in hand was not sent; one that pays a value has one mixdepth to sweep; and
\* of its sweeps at most the one answered last is not among those that are unsure.
PayInv ==
  /\ pc \notin {"loop", "pick", "clients"} => spend \in Keys /\ status[spend] # "sent"
  /\ pc \in {"freeze", "unfreeze"} /\ Spends[spend].value > 0 => \A d, e \in depths : d = e
  /\ sweeps \in [Keys -> SUBSET SUBSET Coins]
  /\ \A s \in Keys :
       /\ unsure[s] <= faults
       /\ Spends[s].value > 0 => Cardinality(sweeps[s]) <= unsure[s] + Answered(s)

IInv == TypeOK /\ IdleInv /\ HoldInv /\ PayInv

-----------------------------------------------------------------------------
(***************************************************************************)
(* The selection.                                                          *)
(***************************************************************************)
\* A set of naturals has a least element: which spend and which mixdepth is next.  The
\* intervals up to its elements are ordered as they are.
LEMMA LeastOne ==
  ASSUME NEW T, T \subseteq Nat, T # {}
  PROVE  Least(T) \in T /\ \A y \in T : Least(T) <= y
<1> DEFINE B == {1..k : k \in T}
<1>1. B \subseteq FiniteSubsetsOf(Nat) /\ B # {}
  <2>1. ASSUME NEW k \in T PROVE 1..k \in SUBSET Nat /\ IsFiniteSet(1..k)
    BY <2>1, FS_Interval
  <2> QED
    BY <2>1 DEF FiniteSubsetsOf
<1>2. PICK x \in B : \A y \in B : ~(<<y, x>> \in StrictSubsetOrdering(Nat))
  <2> HIDE DEF B
  <2> QED
    BY <1>1, FS_StrictSubsetOrderingWellFounded, WFMin
<1>3. PICK k \in T : x = 1..k
  BY <1>2
<1>4. ASSUME NEW y \in T, y < k PROVE FALSE
  <2>1. 1..y \in B /\ 1..y \subseteq 1..k /\ k \in 1..k /\ k \notin 1..y
    BY <1>4
  <2>2. <<1..y, 1..k>> \in StrictSubsetOrdering(Nat)
    BY <2>1 DEF StrictSubsetOrdering
  <2> QED
    BY <1>2, <1>3, <2>1, <2>2
<1>5. k \in T /\ \A y \in T : k <= y
  BY <1>4
<1> QED
  BY <1>5 DEF Least

\* A set of sets of coins has a member with no other member inside it.
LEMMA SmallestSet ==
  ASSUME NEW B \in SUBSET SUBSET Coins, B # {}
  PROVE  \E R \in B : \A S \in SUBSET R : S # R => S \notin B
<1>1. FiniteSubsetsOf(Coins) = SUBSET Coins
  BY CoinsAssumption, FS_FiniteSubsetsOfFinite
<1>2. PICK R \in B : \A S \in B : ~(<<S, R>> \in StrictSubsetOrdering(Coins))
  BY <1>1, FS_StrictSubsetOrderingWellFounded, WFMin
<1>3. ASSUME NEW S \in SUBSET R, S # R, S \in B PROVE FALSE
  BY <1>2, <1>3 DEF StrictSubsetOrdering
<1> QED
  BY <1>3

\* The coin that is taken next is one of those left: _select_by_amount.
LEMMA BestCoinIsThere ==
  ASSUME NEW rest \in SUBSET Coins, rest # {}, NEW need \in Nat
  PROVE  BestCoin(rest, need) \in rest
<1> DEFINE covering == {c \in rest : Amount[c] >= need}
<1>1. \A c \in rest : Amount[c] \in Nat
  BY CoinsAssumption
<1>2. CASE covering # {}
  <2> DEFINE T == {Amount[c] : c \in covering}
  <2>1. T \subseteq Nat /\ T # {}
    BY <1>1, <1>2
  <2>2. Least(T) \in T /\ \A y \in T : Least(T) <= y
    BY <2>1, LeastOne
  <2>3. \E c \in covering : \A other \in covering : Amount[c] <= Amount[other]
    BY <2>2
  <2> QED
    BY <1>2, <2>3 DEF BestCoin
<1>3. CASE covering = {}
  <2> DEFINE T == {need - Amount[c] : c \in rest}
  <2>1. \A c \in rest : need - Amount[c] \in Nat
    BY <1>1, <1>3
  <2>2. T \subseteq Nat /\ T # {}
    BY <2>1
  <2>3. Least(T) \in T /\ \A y \in T : Least(T) <= y
    BY <2>2, LeastOne
  <2>4. \E c \in rest : \A other \in rest : need - Amount[c] <= need - Amount[other]
    BY <2>3
  <2>5. \E c \in rest : \A other \in rest : Amount[c] >= Amount[other]
    BY <1>1, <2>4
  <2> QED
    BY <1>3, <2>5 DEF BestCoin
<1> QED
  BY <1>2, <1>3

\* What is still to be paid after a coin.
Left(c, need) == IF Amount[c] >= need THEN 0 ELSE need - Amount[c]

\* One step of the selection, given what the next ones return.
Take(f, rest, need) ==
  IF need = 0 \/ rest = {} THEN {}
  ELSE {BestCoin(rest, need)} \union f[rest \ {BestCoin(rest, need)}][Left(BestCoin(rest, need), need)]

\* A function that selects among the coins of a set as the code does.
Selects(f, set) ==
  \A rest \in SUBSET set, need \in Nat : f[rest][need] = Take(f, rest, need)

\* An amount left to be paid is one.
LEMMA LeftIsNat ==
  ASSUME NEW c \in Coins, NEW need \in Nat
  PROVE  Left(c, need) \in Nat
BY CoinsAssumption DEF Left

\* Two such functions agree wherever both select.
LEMMA SelectsAgree ==
  ASSUME NEW A \in SUBSET Coins, NEW f, NEW g, Selects(f, A), Selects(g, A),
         NEW rest \in SUBSET A, NEW need \in Nat
  PROVE  f[rest][need] = g[rest][need]
<1> DEFINE B == {S \in SUBSET A : \E n \in Nat : f[S][n] # g[S][n]}
<1>1. SUFFICES B = {}
  BY <1>1
<1>2. SUFFICES ASSUME B # {} PROVE FALSE
  OBVIOUS
<1>3. B \in SUBSET SUBSET Coins
  OBVIOUS
<1>4. PICK R \in B : \A S \in SUBSET R : S # R => S \notin B
  <2> HIDE DEF B
  <2> QED
    BY <1>2, <1>3, SmallestSet
<1>5. PICK n \in Nat : f[R][n] # g[R][n]
  BY <1>4
<1>6. f[R][n] = Take(f, R, n) /\ g[R][n] = Take(g, R, n) /\ R \in SUBSET Coins
  BY <1>4 DEF Selects
<1>7. R # {} /\ n # 0
  BY <1>5, <1>6 DEF Take
<1> DEFINE c == BestCoin(R, n)
<1>8. c \in R /\ c \in Coins
  BY <1>6, <1>7, BestCoinIsThere
<1>9. Left(c, n) \in Nat
  BY <1>8, LeftIsNat
<1>10. f[R \ {c}][Left(c, n)] = g[R \ {c}][Left(c, n)]
  BY <1>4, <1>8, <1>9
<1> QED
  BY <1>5, <1>6, <1>7, <1>10 DEF Take

\* A function that selects among the coins of a set does so among those of a part of it.
LEMMA SelectsPart ==
  ASSUME NEW A, NEW B \in SUBSET A, NEW f, Selects(f, A)
  PROVE  Selects(f, B)
BY DEF Selects

\* There is such a function for every set of coins.  In a least set without one, each
\* smaller set has a function, these agree, and they give the one for the set itself.
LEMMA SelectsExists ==
  ASSUME NEW A \in SUBSET Coins
  PROVE  \E f : Selects(f, A)
<1> DEFINE B == {S \in SUBSET Coins : ~ \E f : Selects(f, S)}
<1>1. SUFFICES ASSUME B # {} PROVE FALSE
  OBVIOUS
<1>2. PICK R \in B : \A S \in SUBSET R : S # R => S \notin B
  <2>1. B \in SUBSET SUBSET Coins
    OBVIOUS
  <2> HIDE DEF B
  <2> QED
    BY <1>1, <2>1, SmallestSet
<1> DEFINE without == [c \in R |-> CHOOSE f : Selects(f, R \ {c})]
           missing(rest) == CHOOSE c \in R : c \notin rest
           part == [rest \in SUBSET R |-> [n \in Nat |-> without[missing(rest)][rest][n]]]
           whole == [rest \in SUBSET R |-> IF rest = R THEN [n \in Nat |-> Take(part, R, n)] ELSE part[rest]]
<1>3. ASSUME NEW c \in R PROVE Selects(without[c], R \ {c})
  <2>1. R \ {c} \notin B /\ R \ {c} \in SUBSET Coins
    BY <1>2, <1>3
  <2>2. \E f : Selects(f, R \ {c})
    BY <2>1
  <2> QED
    BY <1>3, <2>2
<1>4. ASSUME NEW rest \in SUBSET R, NEW c \in R, c \notin rest, NEW n \in Nat
      PROVE  part[rest][n] = without[c][rest][n]
  <2> DEFINE d == missing(rest)
  <2>1. d \in R /\ d \notin rest
    BY <1>4
  <2> HIDE DEF without
  <2>2. part[rest][n] = without[d][rest][n]
    OBVIOUS
  <2> HIDE DEF missing, part, d
  <2>3. Selects(without[c], R \ {c}) /\ Selects(without[d], R \ {d})
    BY <1>3, <1>4, <2>1
  <2>4. rest \in SUBSET (R \ {c}) /\ rest \in SUBSET (R \ {d}) /\ rest \in SUBSET Coins
    BY <1>2, <1>4, <2>1
  <2>5. Selects(without[c], rest) /\ Selects(without[d], rest)
    BY <2>3, <2>4, SelectsPart
  <2>6. rest \in SUBSET rest
    OBVIOUS
  <2>7. without[c][rest][n] = without[d][rest][n]
    BY <1>4, <2>4, <2>5, <2>6, SelectsAgree
  <2> QED
    BY <2>2, <2>7
<1>5. ASSUME NEW rest \in SUBSET R, rest # R, NEW n \in Nat
      PROVE  whole[rest][n] = part[rest][n]
  <2> HIDE DEF part
  <2> QED
    BY <1>5
<1>6. \A n \in Nat : whole[R][n] = Take(part, R, n)
  <2> HIDE DEF part
  <2> QED
    OBVIOUS
<1> HIDE DEF B, without, missing, part, whole
<1>7. ASSUME NEW rest \in SUBSET R, NEW n \in Nat
      PROVE  whole[rest][n] = Take(whole, rest, n)
  <2>1. CASE n = 0 \/ rest = {}
    <3>1. CASE rest = R
      BY <1>6, <2>1, <3>1 DEF Take
    <3>2. CASE rest # R
      <4>1. PICK c \in R : c \notin rest
        BY <1>7, <3>2
      <4>2. whole[rest][n] = without[c][rest][n]
        BY <1>4, <1>5, <1>7, <3>2, <4>1
      <4>3. without[c][rest][n] = Take(without[c], rest, n)
        BY <1>3, <1>7, <4>1 DEF Selects
      <4> QED
        BY <2>1, <4>2, <4>3 DEF Take
    <3> QED
      BY <3>1, <3>2
  <2>2. CASE n # 0 /\ rest # {}
    <3> DEFINE b == BestCoin(rest, n)
               next == rest \ {b}
               m == Left(b, n)
    <3>1. rest \in SUBSET Coins /\ b \in rest /\ b \in R /\ b \in Coins
      BY <1>2, <1>7, <2>2, BestCoinIsThere DEF B
    <3>2. m \in Nat /\ next \in SUBSET R /\ next # R
      BY <1>7, <3>1, LeftIsNat
    <3>3. \A f : Take(f, rest, n) = {b} \union f[next][m]
      BY <2>2 DEF Take
    <3> HIDE DEF b, next, m
    <3>4. whole[next][m] = part[next][m]
      BY <1>5, <3>2
    <3>5. CASE rest = R
      <4>1. whole[rest][n] = Take(part, rest, n)
        BY <1>6, <1>7, <3>5
      <4> QED
        BY <3>3, <3>4, <4>1
    <3>6. CASE rest # R
      <4>1. PICK c \in R : c \notin rest
        BY <1>7, <3>6
      <4>2. c \notin next
        BY <4>1 DEF next
      <4>3. whole[rest][n] = without[c][rest][n] /\ part[next][m] = without[c][next][m]
        BY <1>4, <1>5, <1>7, <3>2, <3>6, <4>1, <4>2
      <4>4. without[c][rest][n] = Take(without[c], rest, n)
        BY <1>3, <1>7, <4>1 DEF Selects
      <4> QED
        BY <3>3, <3>4, <4>3, <4>4
    <3> QED
      BY <3>5, <3>6
  <2> QED
    BY <2>1, <2>2
<1>8. Selects(whole, R)
  BY <1>7 DEF Selects
<1> QED
  BY <1>2, <1>8 DEF B

\* SelectByAmount is the function its definition describes: _select_by_amount takes coin
\* after coin, and ends.
THEOREM SelectByAmountIs == Selects(SelectByAmount, Coins)
<1> DEFINE Selecting(f) == f = [rest \in SUBSET Coins |-> [need \in Nat |-> Take(f, rest, need)]]
<1>1. PICK g : Selects(g, Coins)
  BY SelectsExists
<1> DEFINE f == [rest \in SUBSET Coins |-> [need \in Nat |-> g[rest][need]]]
<1>2. ASSUME NEW rest \in SUBSET Coins, NEW need \in Nat
      PROVE  f[rest][need] = Take(f, rest, need)
  <2>1. f[rest][need] = Take(g, rest, need)
    BY <1>1 DEF Selects
  <2>2. CASE need = 0 \/ rest = {}
    BY <2>1, <2>2 DEF Take
  <2>3. CASE need # 0 /\ rest # {}
    <3> DEFINE b == BestCoin(rest, need)
    <3>1. b \in rest /\ b \in Coins
      BY <2>3, BestCoinIsThere
    <3>2. Left(b, need) \in Nat /\ rest \ {b} \in SUBSET Coins
      BY <3>1, LeftIsNat
    <3> HIDE DEF b
    <3>3. f[rest \ {b}][Left(b, need)] = g[rest \ {b}][Left(b, need)]
      BY <3>2
    <3> HIDE DEF f
    <3> QED
      BY <2>1, <2>3, <3>3 DEF Take, b
  <2> QED
    BY <2>2, <2>3
<1>3. f = [rest \in SUBSET Coins |-> [need \in Nat |-> f[rest][need]]]
  OBVIOUS
<1> HIDE DEF f
<1>4. Selecting(f)
  BY <1>2, <1>3
<1>5. SelectByAmount = CHOOSE h : Selecting(h)
  BY DEF SelectByAmount, Take, Left
<1>6. Selecting(SelectByAmount)
  BY <1>4, <1>5
<1> QED
  BY <1>6 DEF Selects

\* Only coins of the given set are taken: _select_by_amount.
LEMMA TakenAreGiven ==
  ASSUME NEW rest \in SUBSET Coins, NEW need \in Nat
  PROVE  SelectByAmount[rest][need] \subseteq rest
<1> DEFINE B == {S \in SUBSET Coins : \E n \in Nat : ~(SelectByAmount[S][n] \subseteq S)}
<1>1. SUFFICES ASSUME B # {} PROVE FALSE
  OBVIOUS
<1>2. PICK R \in B : \A S \in SUBSET R : S # R => S \notin B
  <2>1. B \in SUBSET SUBSET Coins
    OBVIOUS
  <2> HIDE DEF B
  <2> QED
    BY <1>1, <2>1, SmallestSet
<1>3. PICK n \in Nat : ~(SelectByAmount[R][n] \subseteq R)
  BY <1>2
<1>4. SelectByAmount[R][n] = Take(SelectByAmount, R, n)
  BY <1>2, SelectByAmountIs DEF Selects
<1>5. n # 0 /\ R # {} /\ R \in SUBSET Coins
  BY <1>2, <1>3, <1>4 DEF Take
<1> DEFINE c == BestCoin(R, n)
           next == R \ {c}
<1>6. c \in R /\ c \in Coins /\ Left(c, n) \in Nat
  BY <1>5, BestCoinIsThere, LeftIsNat
<1>7. SelectByAmount[next][Left(c, n)] \subseteq next
  BY <1>2, <1>6
<1> QED
  BY <1>3, <1>4, <1>5, <1>6, <1>7 DEF Take

\* What a spend selects is listed, and a value is paid from one mixdepth: _select.
LEMMA SelectionIsPart ==
  ASSUME NEW coins \in SUBSET Coins, NEW value \in Nat
  PROVE  /\ Selection(coins, value) \subseteq coins
         /\ value > 0 => \A c, d \in Selection(coins, value) : Mixdepth[c] = Mixdepth[d]
<1>1. ASSUME NEW e
      PROVE  /\ SelectByAmount[Candidates(coins, e)][value] \subseteq coins
             /\ \A c \in SelectByAmount[Candidates(coins, e)][value] : Mixdepth[c] = e
  <2>1. Candidates(coins, e) \in SUBSET Coins
    BY DEF Candidates
  <2>2. SelectByAmount[Candidates(coins, e)][value] \subseteq Candidates(coins, e)
    BY <2>1, TakenAreGiven
  <2> QED
    BY <2>2 DEF Candidates
<1>2. CASE value = 0
  BY <1>2 DEF Selection
<1>3. CASE value > 0
  <2> DEFINE pay(d) == SelectByAmount[Candidates(coins, d)][value]
             covering == {d \in Depths : Total(pay(d)) >= value}
             best == CHOOSE d \in covering : \A other \in covering :
                       \/ Total(pay(d)) < Total(pay(other))
                       \/ Total(pay(d)) = Total(pay(other)) /\ d <= other
  <2>1. value # 0
    BY <1>3
  <2>2. Selection(coins, value) = IF covering = {} THEN {} ELSE pay(best)
    BY <2>1, Zenon DEF Selection
  <2>3. Selection(coins, value) = {} \/ Selection(coins, value) = SelectByAmount[Candidates(coins, best)][value]
    BY <2>2
  <2> HIDE DEF best
  <2> QED
    BY <1>1, <2>3
<1> QED
  BY <1>2, <1>3

\* The spends are numbered, and each is a record of the schedule.
LEMMA KeysAreNumbers ==
  /\ Keys \subseteq Nat /\ 0 \notin Keys
  /\ \A s \in Keys : Spends[s] \in [block : Nat, round : Nat, value : Nat]
<1>1. DOMAIN Spends = 1..Len(Spends) /\ Len(Spends) \in Nat
  BY SpendsAssumption
<1>2. \A s \in Keys : Spends[s] \in [block : Nat, round : Nat, value : Nat]
  <2> DEFINE Entry == [block : Nat, round : Nat, value : Nat]
  <2>1. Spends \in Seq(Entry)
    BY SpendsAssumption
  <2> HIDE DEF Entry
  <2>2. \A s \in Keys : Spends[s] \in Entry
    BY <1>1, <2>1 DEF Keys
  <2> QED
    BY <2>2 DEF Entry
<1> QED
  BY <1>1, <1>2 DEF Keys

\* The next spend is one of those that are due, and the mixdepth in hand one of those left.
LEMMA LeastOfSome ==
  /\ \A T \in SUBSET Keys : T # {} => Least(T) \in T
  /\ \A T \in SUBSET Depths : T # {} => Least(T) \in T
<1>1. Keys \subseteq Nat /\ Depths \subseteq Nat
  BY KeysAreNumbers, CoinsAssumption DEF Depths
<1> QED
  BY <1>1, LeastOne

-----------------------------------------------------------------------------
(***************************************************************************)
(* Types.                                                                  *)
(***************************************************************************)
ClockTypeOK ==
  role \in Roles /\ block \in 0..Blocks /\ round \in 0..Rounds /\ service \in {"idle", "running", "stopping"}

WalletTypeOK == coin \in [Coins -> {"coming", "there", "swept", "joined"}] /\ frozen \subseteq Coins

AttemptTypeOK ==
  /\ pc \in {"loop", "pick", "check", "stop", "poll", "address", "list", "freeze", "unfreeze", "clients"}
  /\ todo \subseteq Keys /\ spend \in Keys \union {0} /\ raised \in BOOLEAN
  /\ waiting \subseteq held /\ held \subseteq listing /\ chosen \subseteq listing /\ listing \subseteq Coins
  /\ pc \in {"freeze", "unfreeze"} => spend \in Keys /\ depths # {} /\ depths \subseteq Depths

OutcomeTypeOK ==
  /\ status \in [Keys -> {"not_due", "failed", "sent"}]
  /\ recorded \in [Keys -> SUBSET SUBSET Coins] /\ answers \subseteq SUBSET Coins

HistoryTypeOK == faults \in 0..MaxFaults /\ leaving \in 0..MaxLeaving /\ unsure \in [Keys -> 0..MaxFaults]

\* TypeOK is made of those of the clock, the wallet, the attempt, the outcome and the history.
LEMMA TypeParts ==
  TypeOK <=> ClockTypeOK /\ WalletTypeOK /\ AttemptTypeOK /\ OutcomeTypeOK /\ HistoryTypeOK
BY DEF TypeOK, ClockTypeOK, WalletTypeOK, AttemptTypeOK, OutcomeTypeOK, HistoryTypeOK

\* And so it is in the next state.
LEMMA NextTypeParts ==
  ASSUME ClockTypeOK', WalletTypeOK', AttemptTypeOK', OutcomeTypeOK', HistoryTypeOK'
  PROVE  TypeOK'
<1>1. (TypeOK <=> ClockTypeOK /\ WalletTypeOK /\ AttemptTypeOK /\ OutcomeTypeOK /\ HistoryTypeOK)'
  BY TypeParts, PTL
<1> QED
  BY <1>1

\* The clock moves with the loop, and jmwalletd is started, stopped or left alone.
LEMMA ClockTypes ==
  ASSUME ClockTypeOK, [Next]_vars
  PROVE  ClockTypeOK'
<1> USE RunAssumption DEF ClockTypeOK
<1>1. CASE Iterate
  BY <1>1 DEF Iterate, wallet
<1>2. CASE UpdateClients
  BY <1>2 DEF UpdateClients
<1>3. CASE StopMaker \/ ServiceEnds
  BY <1>3 DEF StopMaker, ServiceEnds
<1>4. CASE UNCHANGED <<role, block, round, service>>
  BY <1>4
<1> QED
  BY <1>1, <1>2, <1>3, <1>4
     DEF Next, Schedule, Environment, Pick, CallFails, CheckMixedCoins, PollIdle, PollBusy, NewAddress, ListCoins,
         Freeze, FreezeFails, Broadcast, Sweep, SweepAnswerLost, SweepFails, Unfreeze, UnfreezeFails, SweptDepth,
         ClientsFail, Arrive, Leave, vars, wallet

\* Coins arrive, leave or are swept, and are frozen and unfrozen.
LEMMA WalletTypes ==
  ASSUME TypeOK, [Next]_vars
  PROVE  WalletTypeOK'
<1> USE DEF WalletTypeOK, TypeOK
<1>1. CASE Freeze \/ FreezeFails \/ Unfreeze \/ UnfreezeFails
  <2>1. coin' = coin /\ \E c \in waiting : frozen' \in {frozen, frozen \union {c}, frozen \ {c}}
    BY <1>1 DEF Freeze, FreezeFails, Unfreeze, UnfreezeFails
  <2> QED
    BY <2>1
<1>2. CASE Broadcast
  BY <1>2 DEF Broadcast
<1>3. CASE Arrive
  BY <1>3 DEF Arrive
<1>4. CASE Leave
  BY <1>4 DEF Leave, There
<1>5. CASE UNCHANGED <<coin, frozen>>
  BY <1>5
<1> QED
  BY <1>1, <1>2, <1>3, <1>4, <1>5
     DEF Next, Schedule, Environment, Iterate, Pick, CallFails, CheckMixedCoins, StopMaker, PollIdle, PollBusy,
         NewAddress, ListCoins, Sweep, SweepAnswerLost, SweepFails, SweptDepth, UpdateClients, ClientsFail,
         ServiceEnds, vars, wallet

\* The spend in hand is marked.
LEMMA OutcomeTypes ==
  ASSUME OutcomeTypeOK, [Next]_vars
  PROVE  OutcomeTypeOK'
<1> USE DEF OutcomeTypeOK
<1>1. CASE MarkFailed /\ UNCHANGED answers
  BY <1>1 DEF MarkFailed
<1>2. CASE MarkSent /\ UNCHANGED answers
  BY <1>2 DEF MarkSent
<1>3. CASE UNCHANGED outcome /\ answers' \in {answers, {}}
  BY <1>3 DEF outcome
<1>4. CASE Sweep
  BY <1>4 DEF Sweep, Broadcast, Sweepable, There, outcome
<1> QED
  BY <1>1, <1>2, <1>3, <1>4
     DEF Next, Schedule, Environment, Iterate, Pick, CallFails, CheckMixedCoins, StopMaker, PollIdle, PollBusy,
         NewAddress, ListCoins, Freeze, FreezeFails, Broadcast, SweepAnswerLost, SweepFails, Unfreeze, UnfreezeFails,
         SweptDepth, UpdateClients, ClientsFail, ServiceEnds, Arrive, Leave, vars, attempt

\* A failed call is one more fault, and at most one payment more is unsure.
LEMMA HistoryTypes ==
  ASSUME TypeOK, PayInv, [Next]_vars
  PROVE  HistoryTypeOK' /\ \A s \in Keys : unsure'[s] <= faults'
<1> USE RunAssumption DEF HistoryTypeOK
<1>1. HistoryTypeOK /\ \A s \in Keys : unsure[s] <= faults
  BY TypeParts DEF PayInv
<1>2. CASE UNCHANGED <<faults, leaving, unsure>>
  BY <1>1, <1>2
<1>3. CASE Fault /\ UNCHANGED unsure
  BY <1>1, <1>3 DEF Fault
<1>4. CASE Fault /\ unsure' = [unsure EXCEPT ![spend] = @ + 1]
  <2>1. faults' = faults + 1 /\ faults' \in 0..MaxFaults /\ leaving' = leaving
    BY <1>1, <1>4 DEF Fault
  <2>2. ASSUME NEW s \in Keys PROVE unsure'[s] \in Nat /\ unsure'[s] <= faults'
    BY <1>1, <1>4, <2>1
  <2>3. unsure' \in [Keys -> 0..MaxFaults]
    <3>1. \A s \in Keys : unsure'[s] \in 0..MaxFaults
      BY <2>1, <2>2
    <3> QED
      BY <1>1, <1>4, <3>1
  <2> QED
    BY <1>1, <2>1, <2>2, <2>3
<1>5. CASE Leave
  BY <1>1, <1>5 DEF Leave, history
<1> QED
  BY <1>2, <1>3, <1>4, <1>5
     DEF Next, Schedule, Environment, Iterate, Pick, CallFails, CheckMixedCoins, StopMaker, PollIdle, PollBusy,
         NewAddress, ListCoins, Freeze, FreezeFails, Sweep, SweepAnswerLost, SweepFails, Unfreeze, UnfreezeFails,
         SweptDepth, UpdateClients, ClientsFail, ServiceEnds, Arrive, vars, bounds, history

\* The attempt's places, and the coins and mixdepths it holds: send_mixed_coins, _sweep.
LEMMA AttemptTypes ==
  ASSUME TypeOK, HoldInv, PayInv, [Next]_vars
  PROVE  AttemptTypeOK'
<1>1. AttemptTypeOK
  BY TypeParts
<1> USE <1>1 DEF AttemptTypeOK
<1>2. CASE UNCHANGED <<pc, attempt>>
  BY <1>2 DEF attempt
<1>3. CASE UNCHANGED attempt /\ pc' \in {"loop", "pick", "stop", "poll", "address", "list"}
  BY <1>3 DEF attempt
<1>4. CASE Iterate
  BY <1>4 DEF Iterate
<1>5. CASE Pick
  <2> DEFINE due == {s \in todo : Due(s)}
  <2>1. CASE due = {}
    BY <1>5, <2>1 DEF Pick
  <2>2. CASE due # {}
    <3>1. Least(due) \in Keys
      BY <2>2, LeastOfSome
    <3> QED
      BY <1>5, <2>2, <3>1 DEF Pick
  <2> QED
    BY <2>1, <2>2
<1>6. CASE ListCoins
  <2>1. There \in SUBSET Coins /\ spend \in Keys
    BY <1>6 DEF There, ListCoins, PayInv
  <2>2. chosen' \subseteq There
    BY <1>6, <2>1, KeysAreNumbers, SelectionIsPart DEF ListCoins
  <2>3. UNCHANGED <<todo, spend, raised>> /\ listing' = There /\ depths' = {Mixdepth[c] : c \in chosen'}
    BY <1>6 DEF ListCoins
  <2>4. CASE chosen' = {}
    <3>1. held = {} /\ pc' = "pick" /\ UNCHANGED <<held, waiting>>
      BY <1>6, <2>4 DEF ListCoins, MarkFailed, HoldInv
    <3> QED
      BY <2>1, <2>2, <2>3, <3>1
  <2>5. CASE chosen' # {}
    <3>1. pc' = "freeze" /\ held' = Others(There, chosen', Least(depths')) /\ waiting' = held'
      BY <1>6, <2>5 DEF ListCoins
    <3>2. held' \subseteq There
      BY <3>1 DEF Others
    <3>3. depths' # {} /\ depths' \subseteq Depths
      BY <2>1, <2>2, <2>3, <2>5 DEF Depths
    <3> QED
      BY <2>1, <2>2, <2>3, <3>1, <3>2, <3>3
  <2> QED
    BY <2>4, <2>5
<1>7. CASE Freeze \/ Unfreeze
  BY <1>7 DEF Freeze, Unfreeze
<1>8. CASE FreezeFails \/ Sweep \/ SweepAnswerLost \/ SweepFails
  <2>1. /\ pc = "freeze" /\ pc' = "unfreeze" /\ waiting' = held /\ raised' \in BOOLEAN
        /\ UNCHANGED <<todo, spend, listing, chosen, depths, held>>
    BY <1>8 DEF FreezeFails, Sweep, SweepAnswerLost, SweepFails, Broadcast, Unwind
  <2> QED
    BY <2>1
<1>9. CASE SweptDepth
  <2>1. UNCHANGED <<todo, spend, listing, chosen, raised>> /\ depths' = depths \ {Depth} /\ pc = "unfreeze"
    BY <1>9 DEF SweptDepth
  <2>2. CASE raised \/ depths' = {}
    BY <1>9, <2>1, <2>2 DEF SweptDepth, MarkFailed, MarkSent
  <2>3. CASE ~raised /\ depths' # {}
    <3>1. pc' = "freeze" /\ held' = Others(listing, chosen, Least(depths')) /\ waiting' = held'
      BY <1>9, <2>3 DEF SweptDepth
    <3>2. held' \subseteq listing
      BY <3>1 DEF Others
    <3> QED
      BY <2>1, <2>3, <3>1, <3>2
  <2> QED
    BY <2>2, <2>3
<1> QED
  BY <1>2, <1>3, <1>4, <1>5, <1>6, <1>7, <1>8, <1>9
     DEF Next, Schedule, Environment, CallFails, CheckMixedCoins, StopMaker, PollIdle, PollBusy, NewAddress, MarkFailed,
         UnfreezeFails, UpdateClients, ClientsFail, ServiceEnds, Arrive, Leave, vars

-----------------------------------------------------------------------------
(***************************************************************************)
(* The wallet in a sweep.                                                  *)
(***************************************************************************)
\* A jmwalletd that was polled idle is started by the clients' update alone: stop_coinjoin.
LEMMA IdleSteps ==
  ASSUME TypeOK, IdleInv, [Next]_vars
  PROVE  IdleInv'
<1> USE DEF IdleInv
<1>1. CASE pc' \in {"loop", "pick", "check", "stop", "poll", "clients"}
  BY <1>1
<1>2. CASE PollIdle
  BY <1>2 DEF PollIdle, wallet
<1>3. CASE ServiceEnds
  BY <1>3 DEF ServiceEnds
<1>4. CASE UNCHANGED service /\ pc \in {"address", "list", "freeze", "unfreeze"}
  BY <1>4
<1>5. CASE UNCHANGED <<service, pc>>
  BY <1>5
<1> QED
  BY <1>1, <1>2, <1>3, <1>4, <1>5
     DEF Next, Schedule, Environment, Iterate, Pick, CallFails, CheckMixedCoins, StopMaker, PollBusy, NewAddress,
         ListCoins, Freeze, FreezeFails, Broadcast, Sweep, SweepAnswerLost, SweepFails, Unfreeze, UnfreezeFails,
         SweptDepth, UpdateClients, ClientsFail, Arrive, Leave, MarkFailed, Unwind, vars, wallet

\* _sweep holds a mixdepth's other coins back before it, and lets go of them after it.
LEMMA HoldSteps ==
  ASSUME TypeOK, HoldInv, PayInv, [Next]_vars
  PROVE  HoldInv'
<1> USE DEF HoldInv
<1>1. CASE pc' \in {"loop", "pick", "clients"}
  BY <1>1
<1>2. CASE Pick
  BY <1>2 DEF Pick
<1>3. CASE UNCHANGED attempt /\ pc' \in {"stop", "poll", "address", "list"}
           /\ pc \in {"check", "stop", "poll", "address"}
  BY <1>3 DEF attempt
<1>4. CASE UNCHANGED <<pc, frozen, attempt>>
  BY <1>4 DEF attempt
<1>5. CASE ListCoins
  <2>1. CASE chosen' = {}
    BY <1>5, <2>1 DEF ListCoins, MarkFailed
  <2>2. CASE chosen' # {}
    <3>1. /\ pc' = "freeze" /\ frozen' = frozen /\ listing' = There
          /\ waiting' = Others(There, chosen', Least(depths'))
      BY <1>5, <2>2 DEF ListCoins, wallet
    <3> QED
      BY <3>1 DEF Others
  <2> QED
    BY <2>1, <2>2
<1>6. CASE Freeze
  BY <1>6 DEF Freeze
<1>7. CASE FreezeFails \/ Sweep \/ SweepAnswerLost \/ SweepFails
  <2>1. pc' = "unfreeze" /\ waiting' = held /\ held' = held
    BY <1>7 DEF FreezeFails, Sweep, SweepAnswerLost, SweepFails, Broadcast, Unwind
  <2> QED
    BY <2>1
<1>8. CASE Unfreeze
  BY <1>8 DEF Unfreeze
<1>9. CASE SweptDepth
  <2>1. CASE raised \/ depths' = {}
    BY <1>9, <2>1 DEF SweptDepth, MarkFailed, MarkSent
  <2>2. CASE ~raised /\ depths' # {}
    <3>1. /\ pc' = "freeze" /\ frozen' = frozen /\ listing' = listing /\ chosen' = chosen
          /\ waiting' = Others(listing, chosen, Least(depths'))
      BY <1>9, <2>2 DEF SweptDepth, wallet
    <3> QED
      BY <3>1 DEF Others
  <2> QED
    BY <2>1, <2>2
<1> QED
  BY <1>1, <1>2, <1>3, <1>4, <1>5, <1>6, <1>7, <1>8, <1>9
     DEF Next, Schedule, Environment, Iterate, CallFails, CheckMixedCoins, StopMaker, PollIdle, PollBusy, NewAddress,
         UnfreezeFails, UpdateClients, ClientsFail, ServiceEnds, Arrive, Leave, MarkFailed, vars, wallet

-----------------------------------------------------------------------------
(***************************************************************************)
(* What is paid.                                                           *)
(***************************************************************************)
\* One more sweep is one set of coins more.
LEMMA OneSweepMore ==
  ASSUME NEW S \in SUBSET SUBSET Coins, NEW x \in SUBSET Coins
  PROVE  /\ Cardinality(S) \in Nat
         /\ Cardinality(S \union {x}) \in Nat /\ Cardinality(S \union {x}) <= Cardinality(S) + 1
<1>1. IsFiniteSet(SUBSET Coins)
  BY CoinsAssumption, FS_SUBSET
<1>2. IsFiniteSet(S)
  BY <1>1, FS_Subset
<1>3. Cardinality(S) \in Nat
  BY <1>2, FS_CardinalityType
<1>4. Cardinality(S \union {x}) = Cardinality(S) \/ Cardinality(S \union {x}) = Cardinality(S) + 1
  BY <1>2, FS_AddElement
<1> QED
  BY <1>3, <1>4

\* What pays a value has one mixdepth to be swept: _select_by_amount.
LEMMA OneDepth ==
  ASSUME TypeOK, PayInv, ListCoins, Spends[spend].value > 0
  PROVE  \A d, e \in depths' : d = e
<1>1. There \in SUBSET Coins /\ Spends[spend].value \in Nat
  BY KeysAreNumbers DEF There, ListCoins, PayInv
<1>2. chosen' = Selection(There, Spends[spend].value) /\ depths' = {Mixdepth[c] : c \in chosen'}
  BY DEF ListCoins
<1>3. \A c, d \in chosen' : Mixdepth[c] = Mixdepth[d]
  BY <1>1, <1>2, SelectionIsPart
<1> QED
  BY <1>2, <1>3

\* The spend in hand is picked while it is due, and marked when it is over: _send.
LEMMA SpendSteps ==
  ASSUME TypeOK, PayInv, [Next]_vars
  PROVE  pc' \notin {"loop", "pick", "clients"} => spend' \in Keys /\ status'[spend'] # "sent"
<1> USE DEF TypeOK, PayInv
<1>1. CASE pc' \in {"loop", "pick", "clients"}
  BY <1>1
<1>2. CASE Pick
  <2> DEFINE due == {s \in todo : Due(s)}
  <2>1. CASE due = {}
    BY <1>2, <2>1 DEF Pick
  <2>2. CASE due # {}
    <3>1. Least(due) \in due
      BY <2>2, LeastOfSome
    <3>2. spend' = Least(due) /\ status' = status
      BY <1>2, <2>2 DEF Pick, outcome
    <3> HIDE DEF due
    <3>3. \A s \in due : s \in Keys /\ status[s] # "sent"
      BY DEF due, Due
    <3> QED
      BY <3>1, <3>2, <3>3
  <2> QED
    BY <2>1, <2>2
<1>3. CASE UNCHANGED <<spend, status>> /\ pc \notin {"loop", "pick", "clients"}
  BY <1>3
<1>4. CASE UNCHANGED <<spend, status, pc>>
  BY <1>4
<1>5. CASE ListCoins \/ SweptDepth \/ CheckMixedCoins
  <2>1. spend' = spend /\ pc \in {"list", "unfreeze", "check"} /\ (pc' = "pick" \/ status' = status)
    BY <1>5 DEF ListCoins, SweptDepth, CheckMixedCoins, MarkFailed, MarkSent, outcome, attempt
  <2> QED
    BY <2>1
<1> QED
  BY <1>1, <1>2, <1>3, <1>4, <1>5
     DEF Next, Schedule, Environment, Iterate, CallFails, StopMaker, PollIdle, PollBusy, NewAddress, Freeze,
         FreezeFails, Broadcast, Sweep, SweepAnswerLost, SweepFails, Unfreeze, UnfreezeFails, UpdateClients,
         ClientsFail, ServiceEnds, Arrive, Leave, MarkFailed, vars, attempt, outcome

\* A value leaves one mixdepth to be swept: send_mixed_coins.
LEMMA DepthSteps ==
  ASSUME TypeOK, PayInv, [Next]_vars
  PROVE  pc' \in {"freeze", "unfreeze"} /\ Spends[spend'].value > 0 => \A d, e \in depths' : d = e
<1> USE DEF PayInv
<1>1. CASE pc' \notin {"freeze", "unfreeze"}
  BY <1>1
<1>2. CASE ListCoins
  BY <1>2, OneDepth DEF ListCoins
<1>3. CASE UNCHANGED <<spend, depths>> /\ (pc \in {"freeze", "unfreeze"} \/ pc' = pc)
  BY <1>3
<1>4. CASE SweptDepth
  BY <1>4 DEF SweptDepth
<1> QED
  BY <1>1, <1>2, <1>3, <1>4
     DEF Next, Schedule, Environment, Iterate, Pick, CallFails, CheckMixedCoins, StopMaker, PollIdle, PollBusy,
         NewAddress, Freeze, FreezeFails, Broadcast, Sweep, SweepAnswerLost, SweepFails, Unfreeze, UnfreezeFails,
         UpdateClients, ClientsFail, ServiceEnds, Arrive, Leave, MarkFailed, vars, attempt

\* What a spend has swept is a set of sets of coins.
LEMMA SweepsTypes ==
  ASSUME TypeOK, PayInv, [Next]_vars
  PROVE  sweeps' \in [Keys -> SUBSET SUBSET Coins]
<1> USE DEF PayInv
<1>1. CASE UNCHANGED sweeps
  BY <1>1
<1>2. CASE Broadcast
  <2>1. Sweepable \in SUBSET Coins
    BY DEF Sweepable, There
  <2> QED
    BY <1>2, <2>1 DEF Broadcast
<1> QED
  BY <1>1, <1>2
     DEF Next, Schedule, Environment, Iterate, Pick, CallFails, CheckMixedCoins, StopMaker, PollIdle, PollBusy,
         NewAddress, ListCoins, Freeze, FreezeFails, Sweep, SweepAnswerLost, SweepFails, Unfreeze, UnfreezeFails,
         SweptDepth, UpdateClients, ClientsFail, ServiceEnds, Arrive, Leave, vars, history

\* A sweep more is answered, or its error is counted; an answer counts until the spend
\* is sent or unfreezing fails: _sweep, mark_sent.
LEMMA CountSteps ==
  ASSUME TypeOK, PayInv, [Next]_vars, NEW s \in Keys, Spends[s].value > 0
  PROVE  Cardinality(sweeps'[s]) <= unsure'[s] + Answered(s)'
<1> SUFFICES Cardinality(sweeps'[s]) <= unsure'[s] + Answered(s)'
  OBVIOUS
<1>1. /\ Cardinality(sweeps[s]) <= unsure[s] + Answered(s)
      /\ Cardinality(sweeps[s]) \in Nat /\ unsure[s] \in Nat /\ Answered(s) \in {0, 1}
      /\ Answered(s)' \in {0, 1}
  <2>1. Answered(s)' \in {0, 1}
    BY DEF Answered
  <2>2. sweeps[s] \in SUBSET SUBSET Coins
    BY DEF PayInv
  <2>3. Cardinality(sweeps[s]) \in Nat
    BY <2>2, OneSweepMore
  <2> QED
    BY <2>1, <2>3 DEF PayInv, TypeOK, Answered
<1>2. CASE UNCHANGED <<sweeps, unsure>> /\ Answered(s)' >= Answered(s)
  BY <1>1, <1>2
<1>3. CASE UNCHANGED <<sweeps, unsure, status>> /\ pc # "unfreeze"
  <2>1. Answered(s)' >= Answered(s)
    BY <1>3 DEF Answered
  <2> QED
    BY <1>2, <1>3, <2>1
<1>4. CASE UNCHANGED <<sweeps, unsure, status, spend, pc, raised>>
  <2>1. Answered(s)' = Answered(s)
    BY <1>4 DEF Answered
  <2> QED
    BY <1>1, <1>4, <2>1
<1>5. CASE UNCHANGED <<sweeps, unsure>> /\ MarkFailed /\ (pc # "unfreeze" \/ raised)
           /\ pc \notin {"loop", "pick", "clients"}
  <2>1. spend \in Keys /\ status[spend] # "sent" /\ status' = [status EXCEPT ![spend] = "failed"]
    BY <1>5 DEF MarkFailed, PayInv
  <2>2. Answered(s)' >= Answered(s)
    BY <1>5, <2>1 DEF Answered, TypeOK
  <2> QED
    BY <1>2, <1>5, <2>2
<1>6. CASE Sweep \/ SweepAnswerLost
  <2>1. /\ spend \in Keys /\ status[spend] # "sent" /\ pc = "freeze"
        /\ sweeps' = [sweeps EXCEPT ![spend] = @ \union {Sweepable}] /\ spend' = spend /\ status' = status
    BY <1>6 DEF Sweep, SweepAnswerLost, Broadcast, PayInv, outcome
  <2>2. Sweepable \in SUBSET Coins /\ sweeps \in [Keys -> SUBSET SUBSET Coins]
    BY DEF Sweepable, There, TypeOK, PayInv
  <2>3. CASE s # spend
    <3>1. sweeps'[s] = sweeps[s]
      BY <2>1, <2>2, <2>3
    <3>2. unsure'[s] = unsure[s]
      BY <1>6, <2>3 DEF Sweep, SweepAnswerLost, TypeOK
    <3>3. Answered(s)' = Answered(s)
      BY <2>1, <2>3 DEF Answered
    <3> QED
      BY <1>1, <3>1, <3>2, <3>3
  <2>4. CASE s = spend
    <3>1. sweeps'[s] = sweeps[s] \union {Sweepable}
      BY <2>1, <2>2, <2>4
    <3>2. Cardinality(sweeps'[s]) <= Cardinality(sweeps[s]) + 1 /\ Cardinality(sweeps'[s]) \in Nat
      <4>1. sweeps[s] \in SUBSET SUBSET Coins
        BY <2>2
      <4> QED
        BY <2>2, <3>1, <4>1, OneSweepMore
    <3>3. Answered(s) = 0
      BY <2>1, <2>4 DEF Answered
    <3>4. CASE Sweep
      <4>1. pc' = "unfreeze" /\ raised' = FALSE /\ unsure' = unsure
        BY <3>4 DEF Sweep, Unwind
      <4>2. Answered(s)' = 1
        BY <2>1, <2>4, <4>1 DEF Answered
      <4> QED
        BY <1>1, <3>2, <3>3, <4>1, <4>2
    <3>5. CASE SweepAnswerLost
      <4>1. unsure'[s] = unsure[s] + 1
        BY <2>4, <3>5 DEF SweepAnswerLost, TypeOK
      <4> QED
        BY <1>1, <3>2, <3>3, <4>1
    <3> QED
      BY <1>6, <3>4, <3>5
  <2> QED
    BY <2>3, <2>4
<1>7. CASE UnfreezeFails
  <2>1. spend \in Keys /\ status[spend] # "sent" /\ pc = "unfreeze" /\ MarkFailed /\ UNCHANGED <<sweeps, spend>>
    BY <1>7 DEF UnfreezeFails, PayInv, attempt
  <2>2. CASE raised
    BY <1>5, <1>7, <2>1, <2>2 DEF UnfreezeFails
  <2>3. CASE ~raised
    <3>1. unsure' = [unsure EXCEPT ![spend] = @ + 1]
      BY <1>7, <2>3 DEF UnfreezeFails
    <3>2. CASE s = spend
      BY <1>1, <2>1, <3>1, <3>2 DEF TypeOK
    <3>3. CASE s # spend
      <4>1. unsure'[s] = unsure[s] /\ Answered(s)' >= Answered(s)
        BY <2>1, <3>1, <3>3 DEF Answered, TypeOK, MarkFailed
      <4> QED
        BY <1>1, <2>1, <4>1
    <3> QED
      BY <3>2, <3>3
  <2> QED
    BY <2>2, <2>3
<1>8. CASE SweptDepth
  <2>1. pc = "unfreeze" /\ UNCHANGED <<sweeps, unsure, spend, raised>> /\ spend \in Keys /\ status[spend] # "sent"
    BY <1>8 DEF SweptDepth, PayInv, history
  <2>2. CASE raised
    BY <1>5, <1>8, <2>1, <2>2 DEF SweptDepth
  <2>3. CASE ~raised /\ depths' = {}
    <3>1. status' = [status EXCEPT ![spend] = "sent"]
      BY <1>8, <2>3 DEF SweptDepth, MarkSent
    <3>2. Answered(s)' >= Answered(s)
      BY <2>1, <3>1 DEF Answered, TypeOK
    <3> QED
      BY <1>2, <2>1, <3>2
  <2>4. CASE ~raised /\ depths' # {}
    <3>1. Depth \in depths /\ depths' = depths \ {Depth} /\ status' = status /\ pc' = "freeze"
      BY <1>8, <2>1, <2>4, LeastOfSome DEF SweptDepth, Depth, TypeOK, outcome
    <3>2. s # spend
      BY <2>1, <2>4, <3>1 DEF PayInv
    <3>3. Answered(s)' = Answered(s)
      BY <2>1, <3>1, <3>2 DEF Answered
    <3> QED
      BY <1>1, <2>1, <3>3
  <2> QED
    BY <2>2, <2>3, <2>4
<1>9. CASE CallFails \/ CheckMixedCoins \/ PollBusy \/ ListCoins
  <2>1. UNCHANGED <<sweeps, unsure>> /\ pc \in {"check", "stop", "poll", "address", "list"}
    BY <1>9 DEF CallFails, CheckMixedCoins, PollBusy, ListCoins, history
  <2>2. MarkFailed \/ status' = status
    BY <1>9 DEF CallFails, CheckMixedCoins, PollBusy, ListCoins, outcome
  <2> QED
    BY <1>3, <1>5, <2>1, <2>2
<1>10. CASE ServiceEnds \/ Arrive \/ Leave \/ Unfreeze \/ UNCHANGED vars
  BY <1>4, <1>10 DEF ServiceEnds, Arrive, Leave, Unfreeze, vars, attempt, outcome, history
<1>11. CASE \/ Iterate \/ Pick \/ StopMaker \/ PollIdle \/ NewAddress \/ Freeze \/ FreezeFails \/ SweepFails
            \/ UpdateClients \/ ClientsFail
  BY <1>3, <1>11 DEF Iterate, Pick, StopMaker, PollIdle, NewAddress, Freeze, FreezeFails, SweepFails, UpdateClients,
     ClientsFail, outcome, history
<1> QED
  BY <1>6, <1>7, <1>8, <1>9, <1>10, <1>11 DEF Next, Schedule, Environment

\* No step pays a value once more than its record and its errors say.
LEMMA PaySteps ==
  ASSUME TypeOK, PayInv, [Next]_vars
  PROVE  PayInv'
<1>1. \A s \in Keys : unsure'[s] <= faults'
  BY HistoryTypes
<1>2. \A s \in Keys : Spends[s].value > 0 => Cardinality(sweeps'[s]) <= unsure'[s] + Answered(s)'
  BY CountSteps
<1> QED
  BY <1>1, <1>2, SpendSteps, DepthSteps, SweepsTypes DEF PayInv

-----------------------------------------------------------------------------
(***************************************************************************)
(* The theorems.                                                           *)
(***************************************************************************)
\* The wallet and the schedule the loop begins with satisfy the invariant.
LEMMA InitIInv == Init => IInv
<1> SUFFICES ASSUME Init PROVE IInv
  OBVIOUS
<1> USE CoinsAssumption, RunAssumption DEF Init
<1>1. TypeOK
  <2>1. ClockTypeOK
    BY DEF ClockTypeOK
  <2>2. WalletTypeOK
    BY DEF WalletTypeOK
  <2>3. AttemptTypeOK
    BY DEF AttemptTypeOK
  <2>4. OutcomeTypeOK
    BY DEF OutcomeTypeOK
  <2>5. HistoryTypeOK
    BY DEF HistoryTypeOK
  <2> QED
    BY <2>1, <2>2, <2>3, <2>4, <2>5, TypeParts
<1>2. IdleInv /\ HoldInv
  BY DEF IdleInv, HoldInv
<1>3. PayInv
  <2>1. \A s \in Keys : sweeps[s] = {} /\ unsure[s] = 0 /\ faults = 0 /\ Answered(s) \in {0, 1}
    BY DEF Answered
  <2>2. Cardinality({}) = 0
    BY FS_EmptySet
  <2> QED
    BY <2>1, <2>2 DEF PayInv
<1> QED
  BY <1>1, <1>2, <1>3 DEF IInv

\* No step of the loop, of jmwalletd or of the chain breaks it.
LEMMA NextIInv == IInv /\ [Next]_vars => IInv'
<1> SUFFICES ASSUME IInv, [Next]_vars PROVE IInv'
  OBVIOUS
<1>1. TypeOK /\ IdleInv /\ HoldInv /\ PayInv
  BY DEF IInv
<1>2. ClockTypeOK /\ OutcomeTypeOK
  BY <1>1, TypeParts
<1>3. TypeOK'
  BY <1>1, <1>2, ClockTypes, WalletTypes, AttemptTypes, OutcomeTypes, HistoryTypes, NextTypeParts
<1>4. IdleInv' /\ HoldInv' /\ PayInv'
  BY <1>1, IdleSteps, HoldSteps, PaySteps
<1> QED
  BY <1>3, <1>4 DEF IInv

\* The invariant of the loop over a JoinMarket wallet's postmix spends: in every state.
THEOREM Invariant == Spec => []IInv
BY InitIInv, NextIInv, PTL DEF Spec

\* The variables keep their types.
THEOREM TypeCorrect == Spec => []TypeOK
<1>1. IInv => TypeOK
  BY DEF IInv
<1> QED
  BY Invariant, <1>1, PTL

\* _sweep freezes, sweeps and unfreezes coins only while jmwalletd runs neither a maker
\* nor a CoinJoin: stop_coinjoin polled it idle, and nothing starts it in between.
THEOREM SweepsWhileIdle == Spec => []SweptWhileIdle
<1>1. IInv => SweptWhileIdle
  BY DEF IInv, IdleInv, SweptWhileIdle
<1> QED
  BY Invariant, <1>1, PTL

\* PostmixSpendSchedule.update pays a value again only after a payment whose call ended
\* in an error.
THEOREM PaidOnceIfSure == Spec => []PaidAgainOnlyIfUnsure
<1>1. IInv => PaidAgainOnlyIfUnsure
  <2> SUFFICES ASSUME IInv, NEW s \in Keys, Spends[s].value > 0 PROVE Cardinality(sweeps[s]) <= 1 + unsure[s]
    BY DEF PaidAgainOnlyIfUnsure
  <2>1. sweeps[s] \in SUBSET SUBSET Coins /\ unsure[s] \in Nat /\ Answered(s) \in {0, 1}
    BY DEF IInv, TypeOK, PayInv, Answered
  <2>2. Cardinality(sweeps[s]) \in Nat /\ Cardinality(sweeps[s]) <= unsure[s] + Answered(s)
    BY <2>1, OneSweepMore DEF IInv, PayInv
  <2> QED
    BY <2>1, <2>2
<1> QED
  BY Invariant, <1>1, PTL

\* A sweep of a mixdepth (_sweep) takes no listed coin that was not selected.
THEOREM SweepsKeepOthers == Spec => OthersAreKept
<1> DEFINE Kept == \A c \in Coins : coin[c] = "there" /\ coin'[c] = "swept" => c \in chosen \/ c \notin listing
<1>1. IInv /\ [Next]_vars => [Kept]_vars
  <2> SUFFICES ASSUME IInv, Next, NEW c \in Coins, coin[c] = "there", coin'[c] = "swept", c \in listing
               PROVE  c \in chosen
    BY DEF vars
  <2>1. coin \in [Coins -> {"coming", "there", "swept", "joined"}]
    BY DEF IInv, TypeOK
  <2>2. Broadcast
    BY <2>1 DEF Next, Schedule, Environment, Iterate, Pick, CallFails, CheckMixedCoins, StopMaker, PollIdle, PollBusy,
       NewAddress, ListCoins, Freeze, FreezeFails, Sweep, SweepAnswerLost, SweepFails, Unfreeze, UnfreezeFails,
       SweptDepth, UpdateClients, ClientsFail, ServiceEnds, Arrive, Leave, wallet
  <2>3. c \in Sweepable /\ pc = "freeze" /\ waiting = {}
    BY <2>2 DEF Broadcast
  <2> QED
    BY <2>3 DEF IInv, HoldInv, Sweepable, Depth
<1> QED
  BY Invariant, <1>1, PTL DEF Spec, OthersAreKept

\* The finally clause of _sweep: an attempt that ends with every coin's turn over has
\* unfrozen all that it held back.
THEOREM UnfreezesAll == Spec => NothingStaysFrozen
<1> DEFINE Free == (pc \in {"freeze", "unfreeze"} /\ pc' = "pick" /\ waiting = {}) => held \intersect frozen' = {}
<1>1. IInv /\ [Next]_vars => [Free]_vars
  <2> SUFFICES ASSUME IInv, Next, pc \in {"freeze", "unfreeze"}, pc' = "pick", waiting = {}
               PROVE  held \intersect frozen' = {}
    BY DEF vars
  <2>1. SweptDepth
    BY DEF Next, Schedule, Environment, Iterate, Pick, CallFails, CheckMixedCoins, StopMaker, PollIdle, PollBusy,
       NewAddress, ListCoins, Freeze, FreezeFails, Sweep, SweepAnswerLost, SweepFails, Unfreeze, UnfreezeFails, Unwind,
       UpdateClients, ClientsFail, ServiceEnds, Arrive, Leave
  <2>2. pc = "unfreeze" /\ frozen' = frozen
    BY <2>1 DEF SweptDepth, wallet
  <2> QED
    BY <2>2 DEF IInv, HoldInv
<1> QED
  BY Invariant, <1>1, PTL DEF Spec, NothingStaysFrozen
===============================================================================
