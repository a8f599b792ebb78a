------------------------- MODULE TransactionProofs -------------------------
(***************************************************************************)
(* Two things that happen inside a transaction of Arenaton.sol and that    *)
(* module Arenaton takes as one step each, both for instances of any size: *)
(* the clean-up loop on the array of requests, and the arithmetic of a     *)
(* payout.                                                                 *)
(***************************************************************************)
EXTENDS CleanRequests, EventPayout, DataLemmas

-----------------------------------------------------------------------------
(* The clean-up loop: it loses no request, ends with exactly the requests  *)
(* that stay, and each of its steps is a step of the queue seen as a set.  *)

\* Where the transaction stands: the answered request leaves first, and the
\* loop ends past the end of the array.
Progress ==
    /\ pc = "remove" => queue = initial /\ i = 1 /\ answered \in Elements(queue)
    /\ pc # "remove" => answered \notin Elements(queue)
    /\ pc = "done" => i > Len(queue)
    /\ i >= 1

LoopInv == LoopTypeOK /\ OnlyLeaversLeave /\ NothingExpiredBehind /\ Progress

LEMMA LoopInvInit == LoopInit => LoopInv
<1> SUFFICES ASSUME LoopInit PROVE LoopInv
    OBVIOUS
<1>1. PICK n \in 1..MaxLength : queue \in [1..n -> Requests]
    BY DEF LoopInit, Arrays
<1>2. queue \in Seq(Requests)
    BY <1>1, MaxLengthAssumption
<1>3. answered \in Requests
    BY <1>2 DEF LoopInit, Elements
<1>4. LoopTypeOK
    BY <1>2, <1>3 DEF LoopInit, LoopTypeOK
<1>5. OnlyLeaversLeave
    BY DEF LoopInit, OnlyLeaversLeave
<1>6. NothingExpiredBehind
    BY <1>2 DEF LoopInit, NothingExpiredBehind
<1>7. Progress
    BY DEF LoopInit, Progress
<1> QED BY <1>4, <1>5, <1>6, <1>7 DEF LoopInv

\* What the two steps that remove a request do to the items.
LEMMA Removal ==
    ASSUME LoopInv, RemoveAnswered \/ DropExpired
    PROVE  /\ queue' \in Seq(Requests)
           /\ Distinct(queue')
           /\ \E r \in Elements(queue) :
                 /\ r \in expired \union {answered}
                 /\ Elements(queue') = Elements(queue) \ {r}
                 /\ RemoveAnswered => r = answered
<1>1. queue \in Seq(Requests) /\ Distinct(queue)
    BY DEF LoopInv, LoopTypeOK, OnlyLeaversLeave
<1>2. CASE RemoveAnswered
    <2>1. answered \in Elements(queue) /\ queue' = SwapPop(queue, answered)
        BY <1>2 DEF LoopInv, Progress, RemoveAnswered
    <2> QED BY <1>1, <2>1, SwapPopRemoves
<1>3. CASE DropExpired
    <2>1. /\ i \in 1..Len(queue) /\ queue[i] \in expired
          /\ queue' = SwapPopAt(queue, i)
          /\ ~RemoveAnswered
        BY <1>1, <1>3 DEF LoopInv, LoopTypeOK, Progress, DropExpired, RemoveAnswered
    <2>2. queue[i] \in Elements(queue)
        BY <2>1 DEF Elements
    <2> QED BY <1>1, <2>1, <2>2, SwapPopAtRemoves
<1> QED BY <1>2, <1>3

LEMMA LoopInvStep == LoopInv /\ [LoopNext]_loopVars => LoopInv'
<1> SUFFICES ASSUME LoopInv, [LoopNext]_loopVars PROVE LoopInv'
    OBVIOUS
<1>1. /\ queue \in Seq(Requests) /\ Distinct(queue)
      /\ i \in Nat /\ i >= 1
    BY DEF LoopInv, LoopTypeOK, OnlyLeaversLeave, Progress
<1>2. CASE RemoveAnswered
    <2>1. LoopTypeOK'
        BY <1>2, Removal DEF LoopInv, LoopTypeOK, RemoveAnswered
    <2>2. OnlyLeaversLeave'
        BY <1>2, Removal DEF LoopInv, OnlyLeaversLeave, RemoveAnswered
    <2>3. i' = 1
        BY <1>2 DEF LoopInv, Progress, RemoveAnswered
    <2>4. NothingExpiredBehind'
        BY <2>1, <2>3 DEF LoopTypeOK, NothingExpiredBehind
    <2>5. Progress'
        BY <1>2, <2>3, Removal DEF RemoveAnswered, Progress
    <2> QED BY <2>1, <2>2, <2>4, <2>5 DEF LoopInv
<1>3. CASE DropExpired
    <2>1. LoopTypeOK'
        BY <1>3, Removal DEF LoopInv, LoopTypeOK, DropExpired
    <2>2. OnlyLeaversLeave'
        <3>1. answered \notin Elements(queue)
            BY <1>3 DEF LoopInv, Progress, DropExpired
        <3> QED BY <1>3, <3>1, Removal DEF LoopInv, OnlyLeaversLeave, DropExpired
    <2>3. NothingExpiredBehind'
        <3>1. /\ i \in 1..Len(queue) /\ i' = i /\ expired' = expired
              /\ queue' = SwapPopAt(queue, i)
            BY <1>1, <1>3 DEF DropExpired
        <3>2. /\ Len(queue') = Len(queue) - 1
              /\ \A j \in 1..(Len(queue) - 1) : j < i => queue'[j] = queue[j]
            BY <1>1, <3>1, SwapPopAtRemoves
        <3> QED BY <1>1, <3>1, <3>2 DEF LoopInv, NothingExpiredBehind
    <2>4. Progress'
        <3>1. /\ pc = "clean" /\ pc' = "clean" /\ i' = i /\ answered' = answered
              /\ answered \notin Elements(queue)
            BY <1>3 DEF LoopInv, Progress, DropExpired
        <3>2. answered \notin Elements(queue')
            BY <1>3, <3>1, Removal
        <3> QED BY <1>1, <3>1, <3>2 DEF Progress
    <2> QED BY <2>1, <2>2, <2>3, <2>4 DEF LoopInv
<1>4. CASE KeepFresh
    <2>1. LoopTypeOK' /\ OnlyLeaversLeave'
        BY <1>1, <1>4 DEF LoopInv, LoopTypeOK, OnlyLeaversLeave, KeepFresh
    <2>2. NothingExpiredBehind'
        <3> SUFFICES ASSUME NEW j \in 1..Len(queue), j < i + 1
                     PROVE  queue[j] \notin expired
            BY <1>4 DEF KeepFresh, NothingExpiredBehind
        <3>1. j < i \/ j = i
            BY <1>1
        <3> QED BY <1>4, <3>1 DEF KeepFresh, LoopInv, NothingExpiredBehind
    <2>3. Progress'
        BY <1>1, <1>4 DEF LoopInv, Progress, KeepFresh
    <2> QED BY <2>1, <2>2, <2>3 DEF LoopInv
<1>5. CASE Finish
    BY <1>1, <1>5 DEF LoopInv, LoopTypeOK, OnlyLeaversLeave, NothingExpiredBehind, Progress, Finish
<1>6. CASE UNCHANGED loopVars
    BY <1>6 DEF loopVars, LoopInv, LoopTypeOK, OnlyLeaversLeave, NothingExpiredBehind, Progress
<1> QED BY <1>2, <1>3, <1>4, <1>5, <1>6 DEF LoopNext

LEMMA LoopInvHolds == LoopSpec => []LoopInv
BY LoopInvInit, LoopInvStep, PTL DEF LoopSpec

-----------------------------------------------------------------------------
(* The theorems about the loop.                                            *)

\* Every variable keeps its type: the array is a sequence of requests after
\* every swap and pop.
THEOREM QueueTypeCorrect == LoopSpec => []LoopTypeOK
<1>1. LoopInv => LoopTypeOK
    BY DEF LoopInv
<1> QED BY LoopInvHolds, <1>1, PTL

\* No request is lost that is neither answered nor expired, none comes twice.
THEOREM NoOtherRequestLeaves == LoopSpec => []OnlyLeaversLeave
<1>1. LoopInv => OnlyLeaversLeave
    BY DEF LoopInv
<1> QED BY LoopInvHolds, <1>1, PTL

\* When the loop ends, the array holds the requests that stay and no other: the
\* step Arenaton takes for the whole transaction.
THEOREM QueueEndsClean == LoopSpec => []EndsClean
<1>1. LoopInv => EndsClean
    <2> SUFFICES ASSUME LoopInv, pc = "done"
                 PROVE  Elements(queue) = (Elements(initial) \ expired) \ {answered}
        BY DEF EndsClean
    <2>1. queue \in Seq(Requests) /\ i \in Nat /\ i > Len(queue)
        BY DEF LoopInv, LoopTypeOK, Progress
    <2>2. \A j \in 1..Len(queue) : queue[j] \notin expired
        BY <2>1 DEF LoopInv, NothingExpiredBehind
    <2>3. \A r \in Elements(queue) : r \notin expired
        BY <2>2 DEF Elements
    <2> QED BY <2>3 DEF LoopInv, OnlyLeaversLeave, Progress
<1> QED BY LoopInvHolds, <1>1, PTL

\* The array, seen as a set, behaves as Purge says: the safety part of the
\* refinement that the run checks with its fairness.
THEOREM QueueIsPurged ==
    LoopSpec => PurgedQueue!Init /\ [][PurgedQueue!Next]_(PurgedQueue!vars)
<1>1. LoopInit => PurgedQueue!Init
    <2> SUFFICES ASSUME LoopInit PROVE PurgedQueue!Init
        OBVIOUS
    <2>1. LoopTypeOK
        BY LoopInvInit DEF LoopInv
    <2>2. Elements(queue) \subseteq Requests
        BY <2>1 DEF LoopTypeOK, Elements
    <2> QED BY <2>1, <2>2 DEF PurgedQueue!Init, LoopTypeOK
<1>2. LoopInv /\ [LoopNext]_loopVars => [PurgedQueue!Next]_(PurgedQueue!vars)
    <2> SUFFICES ASSUME LoopInv, [LoopNext]_loopVars
                 PROVE  [PurgedQueue!Next]_(PurgedQueue!vars)
        OBVIOUS
    <2>1. CASE RemoveAnswered \/ DropExpired
        <3>1. PICK r \in Elements(queue) :
                  /\ r \in expired \union {answered}
                  /\ Elements(queue') = Elements(queue) \ {r}
            BY <2>1, Removal
        <3>2. UNCHANGED <<expired, answered>>
            BY <2>1 DEF RemoveAnswered, DropExpired
        <3>3. r \in Requests
            BY <3>1 DEF LoopInv, LoopTypeOK, Elements
        <3> QED BY <3>1, <3>2, <3>3 DEF PurgedQueue!Next, PurgedQueue!Drop
    <2>2. CASE KeepFresh \/ Finish \/ UNCHANGED loopVars
        BY <2>2 DEF KeepFresh, Finish, loopVars, PurgedQueue!vars
    <2> QED BY <2>1, <2>2 DEF LoopNext
<1> QED BY LoopInvHolds, <1>1, <1>2, PTL DEF LoopSpec

\* The turns the transaction has still to take: one for every place from the loop's
\* on, one to find the end, one for the answered request's removal while it stands.
TurnsLeft == (Len(queue) + 1 - i) + (IF pc = "done" THEN 0 ELSE 1)

\* The loop's place is never more than one past the end, also when the last item
\* is the one that is popped.
InReach == i <= Len(queue) + 1

LEMMA TurnTaken ==
    ASSUME LoopInv, InReach, LoopNext
    PROVE  InReach' /\ TurnsLeft' = TurnsLeft - 1
<1>1. queue \in Seq(Requests) /\ Distinct(queue) /\ i \in Nat
    BY DEF LoopInv, LoopTypeOK, OnlyLeaversLeave
<1>2. PICK n \in Nat : n = Len(queue)
    BY <1>1
<1>3. CASE RemoveAnswered
    <2>1. /\ pc = "remove" /\ pc' = "clean" /\ i = 1 /\ i' = 1
          /\ answered \in Elements(queue) /\ queue' = SwapPop(queue, answered)
        BY <1>3 DEF LoopInv, Progress, RemoveAnswered
    <2>2. Len(queue') = n - 1
        BY <1>1, <1>2, <2>1, SwapPopRemoves
    <2>3. n >= 1
        BY <1>2, <2>1 DEF Elements
    <2> QED BY <1>2, <2>1, <2>2, <2>3 DEF InReach, TurnsLeft
<1>4. CASE DropExpired
    <2>1. /\ pc = "clean" /\ pc' = "clean" /\ i' = i /\ i \in 1..Len(queue)
          /\ queue' = SwapPopAt(queue, i)
        BY <1>1, <1>4 DEF LoopInv, Progress, DropExpired
    <2>2. Len(queue') = n - 1
        BY <1>1, <1>2, <2>1, SwapPopAtRemoves
    <2> QED BY <1>1, <1>2, <2>1, <2>2 DEF InReach, TurnsLeft
<1>5. CASE KeepFresh
    <2>1. pc = "clean" /\ pc' = "clean" /\ i' = i + 1 /\ queue' = queue /\ i <= n
        BY <1>2, <1>5 DEF KeepFresh
    <2> QED BY <1>1, <1>2, <2>1 DEF InReach, TurnsLeft
<1>6. CASE Finish
    <2>1. pc = "clean" /\ pc' = "done" /\ i' = i /\ queue' = queue
        BY <1>6 DEF Finish
    <2> QED BY <1>1, <1>2, <2>1 DEF InReach, TurnsLeft
<1> QED BY <1>3, <1>4, <1>5, <1>6 DEF LoopNext

\* The walk that goes on with the same place after a removal still ends: every step of
\* the transaction takes one of the turns that are left, and none is left exactly when
\* it is done, so an array of n requests costs n + 1 steps (Arenaton.sol 385-390,
\* 446-455).  That a step is taken while one can be is the fairness of LoopSpec.
THEOREM WalkTakesItsTurns ==
    LoopSpec => /\ [](TurnsLeft \in Nat /\ (TurnsLeft = 0 <=> pc = "done"))
                /\ [][TurnsLeft' = TurnsLeft - 1]_loopVars
<1>1. LoopInit => InReach
    <2> SUFFICES ASSUME LoopInit PROVE InReach
        OBVIOUS
    <2>1. queue \in Seq(Requests) /\ i = 1
        BY LoopInvInit DEF LoopInv, LoopTypeOK, LoopInit
    <2> QED BY <2>1 DEF InReach
<1>2. LoopInv /\ InReach /\ [LoopNext]_loopVars => InReach'
    <2>1. UNCHANGED loopVars /\ InReach => InReach'
        BY DEF loopVars, InReach
    <2> QED BY <2>1, TurnTaken
<1>3. LoopInv /\ InReach => TurnsLeft \in Nat /\ (TurnsLeft = 0 <=> pc = "done")
    <2> SUFFICES ASSUME LoopInv, InReach
                 PROVE  TurnsLeft \in Nat /\ (TurnsLeft = 0 <=> pc = "done")
        OBVIOUS
    <2>1. queue \in Seq(Requests) /\ i \in Nat /\ i <= Len(queue) + 1
          /\ (pc = "done" => i > Len(queue))
        BY DEF LoopInv, LoopTypeOK, Progress, InReach
    <2>2. PICK n \in Nat : n = Len(queue)
        BY <2>1
    <2>3. PICK k \in Nat : k = n + 1 - i
        BY <2>1, <2>2
    <2> QED BY <2>1, <2>2, <2>3 DEF TurnsLeft
<1>4. LoopInv /\ InReach /\ [LoopNext]_loopVars => [TurnsLeft' = TurnsLeft - 1]_loopVars
    BY TurnTaken
<1> QED BY LoopInvHolds, <1>1, <1>2, <1>3, <1>4, PTL DEF LoopSpec

-----------------------------------------------------------------------------
(* The payouts of an event, for any players, amounts and factors: where an *)
(* event stands.                                                           *)

Types ==
    /\ stakes \in [Players -> Stake]
    /\ eventPlayers \subseteq Players
    /\ winner \in Int
    /\ factorATON \in Nat /\ currentFactor \in Nat \ {0}
    /\ stakeFinalized \subseteq eventPlayers
    /\ paid \in [Players -> Nat]
    /\ fees \in Nat

\* Nothing is paid before the result, and only for a stake.
Order ==
    /\ \A p \in Players \ eventPlayers : stakes[p].amountVUND = 0
    /\ \A p \in eventPlayers : stakes[p].team \in Teams
    /\ \A p \in stakeFinalized : stakes[p].amountVUND > 0
    /\ \A p \in Players \ stakeFinalized : paid[p] = 0
    /\ winner = NoResult => stakeFinalized = {} /\ fees = 0
    /\ winner # NoResult => factorATON > 0 /\ factorATON <= currentFactor

\* What a stake without ATON is paid can be computed again at any time.
PurePaid ==
    \A p \in stakeFinalized :
        stakes[p].amountATON = 0 => paid[p] = Earnings(p) - VaultFee(p)

EarningsOf(side) == SumFunctionOnSet([p \in Players |-> Earnings(p)], side)

\* With an idle factor, what has left the pool is what was earned.
EarnedOut == winner # NoResult /\ FactorIsIdle => PaidOut = EarningsOf(stakeFinalized)

PayoutInv == Types /\ Order /\ PurePaid /\ EarnedOut

-----------------------------------------------------------------------------
(* The arithmetic.                                                         *)

LEMMA StakeFields ==
    ASSUME Types, NEW p \in Players
    PROVE  /\ stakes[p].amountVUND \in Nat
           /\ stakes[p].amountATON \in Nat
           /\ stakes[p].team \in Int
BY DEF Types, Stake, Teams

LEMMA AtonType ==
    ASSUME NEW a \in Nat, NEW f \in Nat
    PROVE  /\ AtonInVUND(a, f) \in Nat
           /\ AtonInVUND(0, f) = 0
           /\ pct_denom * AtonInVUND(a, f) <= f * a
           /\ f * a < pct_denom * AtonInVUND(a, f) + pct_denom
<1>1. pct_denom \in Nat \ {0} /\ a * f \in Nat /\ a * f = f * a /\ 0 * f = 0
    BY DEF pct_denom
<1>2. 0 \div pct_denom = 0
    BY DEF pct_denom
<1>3. /\ (a * f) \div pct_denom \in Nat
      /\ pct_denom * ((a * f) \div pct_denom) <= a * f
      /\ a * f < pct_denom * ((a * f) \div pct_denom) + pct_denom
    BY <1>1, DivBounds
<1> QED BY <1>1, <1>2, <1>3 DEF AtonInVUND

\* The totals of a side.
LEMMA TotalTypes ==
    ASSUME IsFiniteSet(Players), Types, NEW side \in SUBSET Players
    PROVE  /\ IsFiniteSet(side)
           /\ TotalVUND(side) \in Nat
           /\ TotalATON(side) \in Nat
<1>1. IsFiniteSet(side)
    BY FS_Subset
<1>2. PICK f, g : /\ f = [p \in side |-> stakes[p].amountVUND]
                  /\ g = [p \in side |-> stakes[p].amountATON]
    OBVIOUS
<1>3. \A p \in side : f[p] \in Nat /\ g[p] \in Nat
    BY <1>2, StakeFields
<1>4. SumFunctionOnSet(f, side) \in Nat /\ SumFunctionOnSet(g, side) \in Nat
    BY <1>1, <1>3, SumIsNatural
<1> QED BY <1>1, <1>2, <1>4 DEF TotalVUND, TotalATON

LEMMA EffectiveTypes ==
    ASSUME IsFiniteSet(Players), Types
    PROVE  /\ WholeRawVUND \in Nat
           /\ \A team : TeamEffectiveVUND(team) \in Nat
           /\ \A p \in Players : EffectiveVUND(p) \in Nat
<1>1. WholeRawVUND \in Nat
    BY TotalTypes DEF WholeRawVUND, Types
<1>2. ASSUME NEW team PROVE TeamEffectiveVUND(team) \in Nat
    <2>1. Side(team) \in SUBSET Players
        BY DEF Side, Types
    <2>2. TotalVUND(Side(team)) \in Nat /\ TotalATON(Side(team)) \in Nat /\ factorATON \in Nat
        BY <2>1, TotalTypes DEF Types
    <2>3. AtonInVUND(TotalATON(Side(team)), factorATON) \in Nat
        BY <2>2, AtonType
    <2> QED BY <2>2, <2>3 DEF TeamEffectiveVUND
<1>3. ASSUME NEW p \in Players PROVE EffectiveVUND(p) \in Nat
    <2>1. stakes[p].amountVUND \in Nat /\ stakes[p].amountATON \in Nat /\ currentFactor \in Nat
        BY StakeFields DEF Types
    <2>2. AtonInVUND(stakes[p].amountATON, currentFactor) \in Nat
        BY <2>1, AtonType
    <2> QED BY <2>1, <2>2 DEF EffectiveVUND
<1> QED BY <1>1, <1>2, <1>3

\* A share is no more than the player's part of the team's effective total.
LEMMA ShareBounds ==
    ASSUME IsFiniteSet(Players), Types, NEW p \in Players, stakes[p].amountVUND > 0
    PROVE  /\ Share(p) \in Nat
           /\ TeamEffectiveVUND(stakes[p].team) * Share(p) <= pct_denom * EffectiveVUND(p)
<1>1. PICK e \in Nat, t \in Nat, v \in Nat :
          /\ e = EffectiveVUND(p) /\ t = TeamEffectiveVUND(stakes[p].team)
          /\ v = stakes[p].amountVUND /\ v > 0
    BY EffectiveTypes, StakeFields
<1>2. PICK den \in Nat \ {0} : den = pct_denom
    BY DEF pct_denom
<1>3. e * den \in Nat /\ t + v \in Nat \ {0}
    BY <1>1
<1>4. PICK x \in Nat : x = (e * den) \div (t + v) /\ (t + v) * x <= e * den
    BY <1>3, DivBounds
<1>5. Share(p) = x
    BY <1>1, <1>2, <1>4 DEF Share
<1>6. t * x <= den * e
    <2>1. (t + v) * x = t * x + v * x /\ v * x >= 0 /\ e * den = den * e
        OBVIOUS
    <2> QED BY <1>4, <2>1
<1> QED BY <1>1, <1>2, <1>5, <1>6

LEMMA EarningsBounds ==
    ASSUME IsFiniteSet(Players), Types, NEW p \in Players, stakes[p].amountVUND > 0
    PROVE  /\ GrantedShare(p) \in Nat
           /\ Earnings(p) \in Nat
           /\ ~IsRefund => pct_denom * Earnings(p) <= WholeRawVUND * GrantedShare(p)
           /\ Premium(p) \in Nat /\ Premium(p) <= Earnings(p)
           /\ VaultFee(p) \in {0, Premium(p)}
<1>1. PICK g \in Nat : g = GrantedShare(p)
    BY ShareBounds DEF GrantedShare
<1>2. PICK W \in Nat : W = WholeRawVUND
    BY EffectiveTypes
<1>3. PICK den \in Nat \ {0} : den = pct_denom /\ premium \in Nat /\ premium <= den
    BY DEF pct_denom, premium
<1>4. PICK x \in Nat : x = (g * W) \div den /\ den * x <= g * W
    <2>1. g * W \in Nat
        OBVIOUS
    <2> QED BY <2>1, DivBounds
<1>5. stakes[p].amountVUND \in Nat
    BY StakeFields
<1>6. Earnings(p) = IF IsRefund THEN stakes[p].amountVUND ELSE x
    BY <1>1, <1>2, <1>3, <1>4 DEF Earnings
<1>7. PICK E \in Nat : E = Earnings(p)
    BY <1>4, <1>5, <1>6
<1>8. PICK k \in Nat : k = premium /\ k <= den
    BY <1>3
<1>9. PICK f \in Nat : f = (k * E) \div den
    <2>1. k * E \in Nat
        OBVIOUS
    <2> QED BY <2>1, DivBounds
<1>10. Premium(p) = f
    BY <1>3, <1>7, <1>8, <1>9 DEF Premium
<1>11. f <= E
    <2>1. k * E <= den * E
        BY <1>8, TimesGrows
    <2>2. k * E < den * E + den /\ k * E \in Nat
        BY <2>1
    <2> QED BY <1>9, <2>2, DivAtMost
<1>12. g * W = W * g
    OBVIOUS
<1> QED BY <1>1, <1>2, <1>3, <1>4, <1>6, <1>7, <1>10, <1>11, <1>12 DEF VaultFee

-----------------------------------------------------------------------------
(* The shares of a team, and what is earned of the pool.                   *)

\* At one and the same factor, or without ATON, the stakes of a team are worth no
\* more one by one than together: every rounding is down.
LEMMA EffectiveAddsUp ==
    ASSUME IsFiniteSet(Players), Types, factorATON # 0, FactorIsIdle, NEW team,
           NEW eff, eff = [p \in Players |-> EffectiveVUND(p)]
    PROVE  SumFunctionOnSet(eff, Side(team)) <= TeamEffectiveVUND(team)
<1>1. PICK T : T = Side(team) /\ T \in SUBSET Players
    BY DEF Side, Types
<1>2. PICK v, a : /\ v = [p \in T |-> stakes[p].amountVUND]
                  /\ a = [p \in T |-> stakes[p].amountATON]
    OBVIOUS
<1>3. PICK V \in Nat, At \in Nat :
          /\ V = TotalVUND(T) /\ V = SumFunctionOnSet(v, T)
          /\ At = TotalATON(T) /\ At = SumFunctionOnSet(a, T)
    BY <1>1, <1>2, TotalTypes DEF TotalVUND, TotalATON
<1>4. PICK F \in Nat, den \in Nat \ {0} : F = currentFactor /\ den = pct_denom
    BY DEF Types, pct_denom
<1>5. ASSUME NEW p \in T
      PROVE  /\ eff[p] \in Int /\ v[p] \in Int /\ a[p] \in Int
             /\ den * eff[p] <= den * v[p] + F * a[p]
    <2>1. PICK x \in Nat, y \in Nat : x = v[p] /\ y = a[p]
                                      /\ x = stakes[p].amountVUND /\ y = stakes[p].amountATON
        BY <1>1, <1>2, StakeFields
    <2>2. PICK z \in Nat : z = AtonInVUND(y, F) /\ den * z <= F * y
        BY <1>4, AtonType
    <2>3. eff[p] = x + z
        BY <1>1, <1>4, <2>1, <2>2 DEF EffectiveVUND
    <2>4. den * (x + z) = den * x + den * z
        OBVIOUS
    <2> QED BY <2>1, <2>2, <2>3, <2>4
<1>6. IsFiniteSet(T)
    BY <1>1, FS_Subset
<1>7. PICK E \in Int : E = SumFunctionOnSet(eff, T)
    BY <1>5, <1>6, SumType
<1>8. den * E <= den * V + F * At
    <2>1. den \in Int /\ F \in Int
        OBVIOUS
    <2>2. \A p \in T : eff[p] \in Int /\ v[p] \in Int /\ a[p] \in Int
        BY <1>5
    <2>3. \A p \in T : den * eff[p] <= den * v[p] + F * a[p]
        BY <1>5
    <2>4. den * SumFunctionOnSet(eff, T)
              <= den * SumFunctionOnSet(v, T) + F * SumFunctionOnSet(a, T)
        BY <1>6, <2>1, <2>2, <2>3, SumLinear
    <2> QED BY <1>3, <1>7, <2>4
<1>9. PICK z \in Nat : z = AtonInVUND(At, F) /\ F * At < den * z + den
    BY <1>4, AtonType
<1>10. E <= V + z
    <2> SUFFICES ASSUME V + z + 1 <= E PROVE FALSE
        OBVIOUS
    <2>1. (V + z + 1) * den <= E * den
        BY TimesGrows
    <2>2. (V + z + 1) * den = den * V + den * z + den /\ E * den = den * E
        OBVIOUS
    <2>3. F * At \in Nat /\ den * V \in Nat /\ den * z \in Nat /\ den * E \in Int
        OBVIOUS
    <2> QED BY <1>8, <1>9, <2>1, <2>2, <2>3
<1>11. CASE factorATON = currentFactor
    <2>1. TeamEffectiveVUND(team) = V + z
        BY <1>1, <1>3, <1>4, <1>9, <1>11 DEF TeamEffectiveVUND
    <2> QED BY <1>1, <1>7, <1>10, <2>1
<1>12. CASE \A p \in Players : stakes[p].amountATON = 0
    <2>1. \A p \in T : eff[p] = v[p]
        <3> SUFFICES ASSUME NEW p \in T PROVE eff[p] = v[p]
            OBVIOUS
        <3>1. p \in Players /\ v[p] = stakes[p].amountVUND /\ v[p] \in Int
            BY <1>1, <1>2, <1>5
        <3>2. EffectiveVUND(p) = v[p] + AtonInVUND(0, F)
            BY <1>4, <1>12, <3>1 DEF EffectiveVUND
        <3>3. AtonInVUND(0, F) = 0
            BY <1>4, AtonType
        <3> QED BY <1>1, <1>4, <3>1, <3>2, <3>3
    <2>2. E = V
        BY <1>3, <1>6, <1>7, <2>1, SumSame
    <2>3. AtonInVUND(At, factorATON) \in Nat
        BY AtonType DEF Types
    <2>4. TeamEffectiveVUND(team) = V + AtonInVUND(At, factorATON)
        BY <1>1, <1>3 DEF TeamEffectiveVUND
    <2> QED BY <1>1, <1>7, <2>2, <2>3, <2>4
<1> QED BY <1>11, <1>12 DEF FactorIsIdle

\* So the shares of those who won are a hundred per cent or less.
LEMMA SharesAddUp ==
    ASSUME IsFiniteSet(Players), Types, factorATON # 0, FactorIsIdle, NEW team,
           NEW S \in SUBSET Side(team), \A p \in S : stakes[p].amountVUND > 0,
           NEW share, share = [p \in Players |-> Share(p)]
    PROVE  /\ \A p \in S : share[p] \in Nat
           /\ SumFunctionOnSet(share, S) \in Nat
           /\ SumFunctionOnSet(share, S) <= pct_denom
<1>1. PICK eff : eff = [p \in Players |-> EffectiveVUND(p)]
    OBVIOUS
<1>2. /\ Side(team) \in SUBSET Players /\ S \in SUBSET Players
      /\ \A p \in Side(team) : stakes[p].team = team
    BY DEF Side, Types
<1>3. IsFiniteSet(Side(team)) /\ IsFiniteSet(S)
    BY <1>2, FS_Subset
<1>4. PICK TE \in Nat, den \in Nat \ {0} : TE = TeamEffectiveVUND(team) /\ den = pct_denom
    BY EffectiveTypes DEF pct_denom
<1>5. \A p \in Players : eff[p] \in Nat
    BY <1>1, EffectiveTypes
<1>6. ASSUME NEW p \in S
      PROVE  share[p] \in Nat /\ TE * share[p] <= den * eff[p]
    <2>1. p \in Players /\ stakes[p].team = team
        BY <1>2
    <2> QED BY <1>1, <1>4, <2>1, ShareBounds
<1>7. PICK G \in Nat : G = SumFunctionOnSet(share, S)
    BY <1>3, <1>6, SumIsNatural
<1>8. PICK E \in Nat : E = SumFunctionOnSet(eff, S) /\ E <= TE
    <2>1. SumFunctionOnSet(eff, S) \in Nat /\ SumFunctionOnSet(eff, Side(team)) \in Nat
        BY <1>2, <1>3, <1>5, SumIsNatural
    <2>2. \A p \in Side(team) : eff[p] \in Nat
        BY <1>2, <1>5
    <2>3. SumFunctionOnSet(eff, S) <= SumFunctionOnSet(eff, Side(team))
        BY <1>3, <2>2, SumOfPart
    <2>4. SumFunctionOnSet(eff, Side(team)) <= TE
        BY <1>1, <1>4, EffectiveAddsUp
    <2> QED BY <2>1, <2>3, <2>4
<1>9. TE * G <= den * E
    <2>1. TE \in Int /\ den \in Int
        OBVIOUS
    <2>2. (\A p \in S : share[p] \in Int) /\ (\A p \in S : eff[p] \in Int)
        BY <1>2, <1>5, <1>6
    <2>3. \A p \in S : TE * share[p] <= den * eff[p]
        BY <1>6
    <2>4. TE * SumFunctionOnSet(share, S) <= den * SumFunctionOnSet(eff, S)
        BY <1>3, <2>1, <2>2, <2>3, SumScaled
    <2> QED BY <1>7, <1>8, <2>4
<1>10. G <= den
    <2>1. CASE TE > 0
        <3>1. E * den <= TE * den /\ E * den = den * E /\ TE * den = den * TE /\ TE * G = G * TE
            BY <1>8, TimesGrows
        <3>2. G * TE <= den * TE /\ TE \in Nat \ {0}
            BY <1>9, <2>1, <3>1
        <3> QED BY <3>2, TimesShrinks
    <2>2. CASE TE = 0
        <3>1. S = {}
            <4> SUFFICES ASSUME NEW p \in S PROVE FALSE
                OBVIOUS
            <4>1. PICK v : v = [q \in Side(team) |-> stakes[q].amountVUND]
                OBVIOUS
            <4>2. \A q \in Side(team) : v[q] \in Nat
                BY <1>2, <4>1, StakeFields
            <4>3. v[p] <= SumFunctionOnSet(v, Side(team)) /\ v[p] > 0
                BY <1>3, <4>1, <4>2, SumBoundsTerm
            <4>4. TotalVUND(Side(team)) \in Nat /\ TotalATON(Side(team)) \in Nat /\ factorATON \in Nat
                BY <1>2, TotalTypes DEF Types
            <4>5. AtonInVUND(TotalATON(Side(team)), factorATON) \in Nat
                BY <4>4, AtonType
            <4>6. TotalVUND(Side(team)) = SumFunctionOnSet(v, Side(team))
                BY <4>1 DEF TotalVUND
            <4> QED BY <1>4, <2>2, <4>2, <4>3, <4>4, <4>5, <4>6 DEF TeamEffectiveVUND
        <3> QED BY <1>7, <3>1, SumEmpty
    <2> QED BY <2>1, <2>2
<1> QED BY <1>4, <1>6, <1>7, <1>10

\* How many times the pool is shared out: a tie grants each team all of it.
Sharings == IF winner = Tie THEN 2 ELSE 1

\* What those who collect are granted, of the one team that won or of both that tied.
LEMMA GrantsAddUp ==
    ASSUME IsFiniteSet(Players), Types, Order, factorATON # 0, FactorIsIdle, ~IsRefund,
           NEW S \in SUBSET eventPlayers, \A p \in S : stakes[p].amountVUND > 0,
           NEW grant, grant = [p \in Players |-> GrantedShare(p)]
    PROVE  SumFunctionOnSet(grant, S) \in Nat /\ SumFunctionOnSet(grant, S) <= Sharings * pct_denom
<1>1. PICK share : share = [p \in Players |-> Share(p)]
    OBVIOUS
<1>2. PICK den \in Nat \ {0} : den = pct_denom
    BY DEF pct_denom
<1>3. eventPlayers \in SUBSET Players /\ S \in SUBSET Players
    BY DEF Types
<1>4. IsFiniteSet(S) /\ \A p \in S : grant[p] \in Nat
    <2>1. \A p \in S : GrantedShare(p) \in Nat
        BY <1>3, EarningsBounds
    <2> QED BY <1>3, <2>1, FS_Subset
<1>5. ASSUME NEW team
      PROVE  LET side == S \intersect Side(team) IN
             SumFunctionOnSet(share, side) \in Nat /\ SumFunctionOnSet(share, side) <= den
    <2>1. PICK T : T = S \intersect Side(team)
        OBVIOUS
    <2>2. T \in SUBSET Side(team) /\ \A p \in T : stakes[p].amountVUND > 0
        BY <2>1
    <2>3. SumFunctionOnSet(share, T) \in Nat /\ SumFunctionOnSet(share, T) <= pct_denom
        BY <1>1, <2>2, SharesAddUp
    <2> QED BY <1>2, <2>1, <2>3
<1>6. CASE winner # Tie
    <2>1. PICK T : T = S \intersect Side(winner)
        OBVIOUS
    <2>2. /\ \A p \in T : grant[p] = share[p]
          /\ \A p \in S \ T : grant[p] = 0
        BY <1>1, <1>3, <1>6, <2>1 DEF GrantedShare, TakesShare, HasWon, Side
    <2>3. SumFunctionOnSet(grant, S) = SumFunctionOnSet(share, T)
        <3>1. T \subseteq S /\ \A p \in S : grant[p] \in Int
            BY <1>4, <2>1
        <3> QED BY <1>4, <2>2, <3>1, SumMasked
    <2>4. Sharings * den = den
        BY <1>2, <1>6 DEF Sharings
    <2> QED BY <1>2, <1>5, <2>1, <2>3, <2>4
<1>7. CASE winner = Tie
    <2>1. PICK A, B : A = S \intersect Side(1) /\ B = S \intersect Side(2)
        OBVIOUS
    <2>2. PICK a, b : /\ a = [p \in S |-> IF p \in A THEN share[p] ELSE 0]
                      /\ b = [p \in S |-> IF p \in B THEN share[p] ELSE 0]
        OBVIOUS
    <2>3. \A p \in S : grant[p] = share[p]
        BY <1>1, <1>3, <1>7 DEF GrantedShare, TakesShare
    <2>4. \A p \in S : (p \in A \/ p \in B) /\ ~(p \in A /\ p \in B)
        BY <1>3, <2>1 DEF Order, Teams, Side
    <2>5. \A p \in S : a[p] \in Int /\ b[p] \in Int /\ grant[p] \in Int
        BY <1>4, <2>2, <2>3
    <2>6. PICK one \in Int : one = 1
        OBVIOUS
    <2>7. \A p \in S : one * grant[p] <= one * a[p] + one * b[p]
        <3> SUFFICES ASSUME NEW p \in S
                     PROVE  one * grant[p] <= one * a[p] + one * b[p]
            OBVIOUS
        <3>1. PICK h \in Nat : h = grant[p] /\ h = share[p]
            BY <1>4, <2>3
        <3>2. CASE p \in A
            <4>1. a[p] = h /\ b[p] = 0
                BY <2>2, <2>4, <3>1, <3>2
            <4> QED BY <2>6, <3>1, <4>1
        <3>3. CASE p \in B
            <4>1. a[p] = 0 /\ b[p] = h
                BY <2>2, <2>4, <3>1, <3>3
            <4> QED BY <2>6, <3>1, <4>1
        <3> QED BY <2>4, <3>2, <3>3
    <2>8. one * SumFunctionOnSet(grant, S)
              <= one * SumFunctionOnSet(a, S) + one * SumFunctionOnSet(b, S)
        <3>1. \A p \in S : grant[p] \in Int /\ a[p] \in Int /\ b[p] \in Int
            BY <2>5
        <3> QED BY <1>4, <2>6, <2>7, <3>1, SumLinear
    <2>9. SumFunctionOnSet(a, S) = SumFunctionOnSet(share, A)
        <3>1. A \subseteq S /\ \A p \in S : a[p] \in Int
            BY <2>1, <2>5
        <3>2. (\A p \in A : a[p] = share[p]) /\ (\A p \in S \ A : a[p] = 0)
            BY <2>2, <3>1
        <3> QED BY <1>4, <3>1, <3>2, SumMasked
    <2>10. SumFunctionOnSet(b, S) = SumFunctionOnSet(share, B)
        <3>1. B \subseteq S /\ \A p \in S : b[p] \in Int
            BY <2>1, <2>5
        <3>2. (\A p \in B : b[p] = share[p]) /\ (\A p \in S \ B : b[p] = 0)
            BY <2>2, <3>1
        <3> QED BY <1>4, <3>1, <3>2, SumMasked
    <2>11. PICK x, y, g \in Nat : /\ x = SumFunctionOnSet(share, A)
                                  /\ y = SumFunctionOnSet(share, B)
                                  /\ g = SumFunctionOnSet(grant, S)
                                  /\ x <= den /\ y <= den
        BY <1>4, <1>5, <2>1, SumIsNatural
    <2>12. g <= x + y
        BY <2>6, <2>8, <2>9, <2>10, <2>11
    <2>13. Sharings * den = den + den
        BY <1>2, <1>7 DEF Sharings
    <2> QED BY <1>2, <2>11, <2>12, <2>13
<1> QED BY <1>6, <1>7

\* Nobody is paid out of thin air: a refund is a part of the stakes, and a
\* hundred per cent of the pool is the pool.
LEMMA PoolIsEnough ==
    ASSUME IsFiniteSet(Players), Types, Order, factorATON # 0, FactorIsIdle,
           NEW S \in SUBSET eventPlayers, \A p \in S : stakes[p].amountVUND > 0
    PROVE  EarningsOf(S) \in Nat /\ EarningsOf(S) <= Sharings * WholeRawVUND
<1>1. PICK f : f = [p \in Players |-> Earnings(p)]
    OBVIOUS
<1>2. eventPlayers \in SUBSET Players /\ S \in SUBSET Players
    BY DEF Types
<1>3. IsFiniteSet(S) /\ IsFiniteSet(eventPlayers)
    BY <1>2, FS_Subset
<1>4. \A p \in S : f[p] \in Nat
    BY <1>1, <1>2, EarningsBounds
<1>5. PICK E \in Nat : E = SumFunctionOnSet(f, S) /\ E = EarningsOf(S)
    BY <1>1, <1>3, <1>4, SumIsNatural DEF EarningsOf
<1>6. PICK W \in Nat, den \in Nat \ {0} : W = WholeRawVUND /\ den = pct_denom
    BY EffectiveTypes DEF pct_denom
<1>7. CASE IsRefund
    <2>1. PICK v : v = [p \in eventPlayers |-> stakes[p].amountVUND]
        OBVIOUS
    <2>2. \A p \in eventPlayers : v[p] \in Nat
        BY <1>2, <2>1, StakeFields
    <2>3. \A p \in S : f[p] = v[p]
        BY <1>1, <1>2, <1>7, <2>1 DEF Earnings
    <2>4. SumFunctionOnSet(f, S) = SumFunctionOnSet(v, S)
        BY <1>3, <2>3, SumSame
    <2>5. SumFunctionOnSet(v, S) <= SumFunctionOnSet(v, eventPlayers)
        BY <1>3, <2>2, SumOfPart
    <2>6. W = SumFunctionOnSet(v, eventPlayers)
        BY <1>6, <2>1 DEF WholeRawVUND, TotalVUND
    <2>7. PICK n \in Nat : n = Sharings * W /\ W <= n
        BY DEF Sharings
    <2>8. E <= W
        BY <1>5, <1>6, <2>4, <2>5, <2>6
    <2> QED BY <1>5, <1>6, <2>7, <2>8
<1>8. CASE ~IsRefund
    <2>1. PICK grant : grant = [p \in Players |-> GrantedShare(p)]
        OBVIOUS
    <2>2. \A p \in S : grant[p] \in Nat /\ den * f[p] <= W * grant[p]
        BY <1>1, <1>2, <1>6, <1>8, <2>1, EarningsBounds
    <2>3. PICK k \in Nat : k = Sharings
        BY DEF Sharings
    <2>4. PICK G \in Nat : G = SumFunctionOnSet(grant, S) /\ G <= k * den
        BY <1>6, <1>8, <2>1, <2>3, GrantsAddUp
    <2>5. den * E <= W * G
        <3>1. den \in Int /\ W \in Int
            OBVIOUS
        <3>2. (\A p \in S : f[p] \in Int) /\ (\A p \in S : grant[p] \in Int)
            BY <1>4, <2>2
        <3>3. \A p \in S : den * f[p] <= W * grant[p]
            BY <2>2
        <3>4. den * SumFunctionOnSet(f, S) <= W * SumFunctionOnSet(grant, S)
            BY <1>3, <3>1, <3>2, <3>3, SumScaled
        <3> QED BY <1>5, <2>4, <3>4
    <2>6. PICK n, d \in Nat : n = k * W /\ d = k * den
        OBVIOUS
    <2>7. E * den <= n * den
        <3>1. G * W <= d * W
            BY <2>4, <2>6, TimesGrows
        <3>2. d * W = n * den
            BY <2>6
        <3>3. G * W = W * G /\ den * E = E * den
            OBVIOUS
        <3> QED BY <2>5, <3>1, <3>2, <3>3
    <2>8. E <= n
        BY <2>7, TimesShrinks
    <2> QED BY <1>5, <1>6, <2>3, <2>6, <2>8
<1> QED BY <1>7, <1>8

-----------------------------------------------------------------------------
(* The steps.                                                              *)

\* What is earned depends on the event and the factors only.
LEMMA SameEarnings ==
    ASSUME UNCHANGED <<stakes, eventPlayers, winner, factorATON, currentFactor>>
    PROVE  /\ WholeRawVUND' = WholeRawVUND
           /\ \A p : Earnings(p)' = Earnings(p) /\ VaultFee(p)' = VaultFee(p)
BY DEF WholeRawVUND, TotalVUND, TotalATON, Side, TeamEffectiveVUND, EffectiveVUND, Share,
       IsRefund, HasWon, TakesShare, GrantedShare, Earnings, Premium, VaultFee

\* Without ATON at stake it does not depend on the factor of the day.
LEMMA SamePureEarnings ==
    ASSUME Types, Types', UNCHANGED <<stakes, eventPlayers, winner, factorATON>>,
           NEW p \in Players, stakes[p].amountATON = 0
    PROVE  Earnings(p)' = Earnings(p) /\ VaultFee(p)' = VaultFee(p)
<1>1. EffectiveVUND(p)' = EffectiveVUND(p)
    <2>1. currentFactor \in Nat /\ currentFactor' \in Nat
        BY DEF Types
    <2>2. AtonInVUND(0, currentFactor) = 0 /\ AtonInVUND(0, currentFactor') = 0
        BY <2>1, AtonType
    <2> QED BY <2>2 DEF EffectiveVUND
<1>2. WholeRawVUND' = WholeRawVUND /\ TeamEffectiveVUND(stakes[p].team)' = TeamEffectiveVUND(stakes[p].team)
    BY DEF WholeRawVUND, TotalVUND, TotalATON, Side, TeamEffectiveVUND
<1>3. Share(p)' = Share(p)
    BY <1>1, <1>2 DEF Share
<1>4. /\ IsRefund' = IsRefund /\ HasWon(p)' = HasWon(p)
    BY DEF IsRefund, HasWon
<1>5. GrantedShare(p)' = GrantedShare(p)
    BY <1>3, <1>4 DEF GrantedShare, TakesShare
<1>6. Earnings(p)' = Earnings(p)
    BY <1>2, <1>4, <1>5 DEF Earnings
<1> QED BY <1>4, <1>6 DEF VaultFee, Premium

LEMMA PayoutInit ==
    ASSUME IsFiniteSet(Players)
    PROVE  Init => PayoutInv
<1> SUFFICES ASSUME Init PROVE PayoutInv
    OBVIOUS
<1>1. /\ eventPlayers \subseteq Players /\ stakeFinalized = {} /\ fees = 0
      /\ winner = NoResult /\ factorATON = 0
      /\ paid = [p \in Players |-> 0]
      /\ currentFactor \in Nat \ {0}
    BY PayoutAssumption DEF Init
<1>2. stakes \in [Players -> Stake]
    <2>1. PICK held \in [eventPlayers -> Held(currentFactor)] :
              stakes = [p \in Players |-> IF p \in eventPlayers THEN held[p] ELSE NoStake]
        BY DEF Init
    <2>2. NoStake \in Stake
        BY DEF NoStake, Stake
    <2>3. Held(currentFactor) \subseteq Stake
        <3> SUFFICES ASSUME NEW x \in [amountVUND : AmountsVUND, amountATON : AmountsATON, team : Teams]
                     PROVE  x \in Stake
            BY DEF Held
        <3>1. /\ x = [amountVUND |-> x.amountVUND, amountATON |-> x.amountATON, team |-> x.team]
              /\ x.amountVUND \in Nat /\ x.amountATON \in Nat /\ x.team \in Teams \union {0}
            BY PayoutAssumption
        <3> QED BY <3>1 DEF Stake
    <2> QED BY <2>1, <2>2, <2>3
<1>3. Types
    BY <1>1, <1>2 DEF Types, NoResult
<1>4. Order
    <2>1. \A p \in Players \ eventPlayers : stakes[p].amountVUND = 0
        BY DEF Init, NoStake
    <2>2. \A p \in eventPlayers : stakes[p].team \in Teams
        BY <1>1 DEF Init, Held
    <2> QED BY <1>1, <2>1, <2>2 DEF Order
<1>5. PurePaid /\ EarnedOut
    BY <1>1 DEF PurePaid, EarnedOut
<1> QED BY <1>3, <1>4, <1>5 DEF PayoutInv

\* Before the result nothing has left the pool.
LEMMA NothingPaid ==
    ASSUME IsFiniteSet(Players), Order, stakeFinalized = {}
    PROVE  SumFunctionOnSet(paid, Players) = 0
<1>1. \A p \in Players : paid[p] = 0
    BY DEF Order
<1>2. SumFunctionOnSet(paid, Players) = SumFunctionOnSet(paid, {})
    BY <1>1, SumMasked
<1> QED BY <1>2, SumEmpty

LEMMA CloseKeeps ==
    ASSUME IsFiniteSet(Players), NEW w \in Winners
    PROVE  PayoutInv /\ Close(w) => PayoutInv'
<1> SUFFICES ASSUME PayoutInv, Close(w) PROVE PayoutInv'
    OBVIOUS
<1>1. /\ Types /\ Order /\ winner = NoResult /\ stakeFinalized = {} /\ fees = 0
      /\ w \in Int /\ w # NoResult
    BY PayoutAssumption DEF PayoutInv, Order, Close
<1>2. /\ UNCHANGED <<stakes, eventPlayers, currentFactor, stakeFinalized, paid, fees>>
      /\ winner' = w /\ factorATON' = currentFactor
    BY DEF Close
<1>3. Types' /\ Order'
    BY <1>1, <1>2 DEF Types, Order
<1>4. PurePaid'
    BY <1>1, <1>2 DEF PurePaid
<1>5. EarnedOut'
    <2>3. PaidOut' = 0
        BY <1>1, <1>2, NothingPaid DEF PaidOut
    <2>4. EarningsOf(stakeFinalized)' = 0
        BY <1>1, <1>2, SumEmpty DEF EarningsOf
    <2> QED BY <2>3, <2>4 DEF EarnedOut
<1> QED BY <1>3, <1>4, <1>5 DEF PayoutInv

\* A factor that moves after closing never comes back to what it was then.
LEMMA BurnKeeps ==
    ASSUME IsFiniteSet(Players)
    PROVE  PayoutInv /\ Burn => PayoutInv'
<1> SUFFICES ASSUME PayoutInv, Burn PROVE PayoutInv'
    OBVIOUS
<1>1. /\ UNCHANGED <<stakes, eventPlayers, winner, factorATON, stakeFinalized, paid, fees>>
      /\ currentFactor' \in Nat \ {0} /\ currentFactor' > currentFactor
    BY PayoutAssumption DEF Burn
<1>2. Types' /\ Order'
    BY <1>1 DEF PayoutInv, Types, Order
<1>3. PurePaid'
    <2> SUFFICES ASSUME NEW p \in stakeFinalized, stakes[p].amountATON = 0
                 PROVE  paid[p] = Earnings(p)' - VaultFee(p)'
        BY <1>1 DEF PurePaid
    <2>1. p \in Players
        BY DEF PayoutInv, Types
    <2>2. Earnings(p)' = Earnings(p) /\ VaultFee(p)' = VaultFee(p)
        BY <1>1, <1>2, <2>1, SamePureEarnings DEF PayoutInv
    <2> QED BY <2>2 DEF PayoutInv, PurePaid
<1>4. EarnedOut'
    <2> SUFFICES ASSUME winner # NoResult, FactorIsIdle'
                 PROVE  PaidOut' = EarningsOf(stakeFinalized)'
        BY <1>1 DEF EarnedOut
    <2>1. /\ \A p \in Players : stakes[p].amountATON = 0
          /\ FactorIsIdle
        BY <1>1 DEF PayoutInv, Types, Order, FactorIsIdle
    <2>2. PaidOut = EarningsOf(stakeFinalized)
        BY <2>1 DEF PayoutInv, EarnedOut
    <2>3. \A p \in Players : Earnings(p)' = Earnings(p)
        BY <1>1, <1>2, <2>1, SamePureEarnings DEF PayoutInv
    <2>4. EarningsOf(stakeFinalized)' = EarningsOf(stakeFinalized)
        BY <1>1, <2>3 DEF EarningsOf
    <2> QED BY <1>1, <2>2, <2>4 DEF PaidOut
<1> QED BY <1>2, <1>3, <1>4 DEF PayoutInv

\* What a payout takes out of the pool is what its player earned.
LEMMA PayoutTakesEarnings ==
    ASSUME IsFiniteSet(Players), NEW p \in Players, PayoutInv, FinalizePlayerEvent(p)
    PROVE  /\ Types'
           /\ p \in eventPlayers \ stakeFinalized
           /\ paid'[p] = Earnings(p) - VaultFee(p)
           /\ PaidOut' = PaidOut + Earnings(p)
<1>1. /\ winner # NoResult /\ p \notin stakeFinalized /\ stakes[p].amountVUND > 0
      /\ stakeFinalized' = stakeFinalized \union {p}
      /\ paid' = [paid EXCEPT ![p] = @ + Earnings(p) - VaultFee(p)]
      /\ fees' = fees + VaultFee(p)
      /\ UNCHANGED <<stakes, eventPlayers, winner, factorATON, currentFactor>>
      /\ Types /\ paid[p] = 0
    BY DEF FinalizePlayerEvent, PayoutInv, Order
<1>2. PICK E \in Nat, F \in Nat : E = Earnings(p) /\ F = VaultFee(p) /\ F <= E
    BY <1>1, EarningsBounds
<1>3. PICK before \in [Players -> Nat], after \in [Players -> Nat] :
          /\ before = paid /\ after = paid'
          /\ before[p] = 0 /\ after[p] = E - F
          /\ \A q \in Players \ {p} : after[q] = before[q]
    <2>1. 0 + E - F \in Nat
        BY <1>2
    <2>2. paid \in [Players -> Nat] /\ paid' = [paid EXCEPT ![p] = 0 + E - F]
        BY <1>1, <1>2 DEF Types
    <2>3. paid' \in [Players -> Nat] /\ paid'[p] = E - F
          /\ \A q \in Players \ {p} : paid'[q] = paid[q]
        BY <2>1, <2>2
    <2> QED BY <1>1, <2>2, <2>3
<1>4. PICK f \in Nat : f = fees /\ fees' = f + F
    BY <1>1, <1>2 DEF Types
<1>5. p \in eventPlayers
    <2>1. p \notin eventPlayers => stakes[p].amountVUND = 0
        BY DEF PayoutInv, Order
    <2> QED BY <1>1, <2>1
<1>6. Types'
    BY <1>1, <1>3, <1>4, <1>5 DEF Types
<1>7. SumFunctionOnSet(after, Players)
          = SumFunctionOnSet(before, Players) - before[p] + after[p]
    <2>1. \A q \in Players : before[q] \in Int /\ after[q] \in Int
        BY <1>3
    <2> QED BY <1>3, <2>1, SumChange
<1>8. SumFunctionOnSet(before, Players) \in Nat
    BY <1>3, SumIsNatural
<1>9. PaidOut' = PaidOut + E
    BY <1>2, <1>3, <1>4, <1>7, <1>8 DEF PaidOut
<1> QED BY <1>1, <1>2, <1>3, <1>5, <1>6, <1>9

LEMMA FinalizeKeeps ==
    ASSUME IsFiniteSet(Players), NEW p \in Players
    PROVE  PayoutInv /\ FinalizePlayerEvent(p) => PayoutInv'
<1> SUFFICES ASSUME PayoutInv, FinalizePlayerEvent(p) PROVE PayoutInv'
    OBVIOUS
<1>1. /\ winner # NoResult /\ p \notin stakeFinalized /\ stakes[p].amountVUND > 0
      /\ stakeFinalized' = stakeFinalized \union {p}
      /\ paid' = [paid EXCEPT ![p] = @ + Earnings(p) - VaultFee(p)]
      /\ UNCHANGED <<stakes, eventPlayers, winner, factorATON, currentFactor>>
      /\ Types /\ Order
    BY DEF FinalizePlayerEvent, PayoutInv
<1>2. /\ Types' /\ p \in eventPlayers \ stakeFinalized
      /\ paid'[p] = Earnings(p) - VaultFee(p)
      /\ PaidOut' = PaidOut + Earnings(p)
    BY PayoutTakesEarnings
<1>3. \A q \in Players \ {p} : paid'[q] = paid[q]
    BY <1>1 DEF Types
<1>4. \A q : Earnings(q)' = Earnings(q) /\ VaultFee(q)' = VaultFee(q)
    BY <1>1, SameEarnings
<1>5. stakeFinalized \subseteq Players
    BY <1>1 DEF Types
<1>6. Order'
    BY <1>1, <1>3 DEF Order
<1>7. PurePaid'
    <2> SUFFICES ASSUME NEW q \in stakeFinalized \union {p}, stakes[q].amountATON = 0
                 PROVE  paid'[q] = Earnings(q)' - VaultFee(q)'
        BY <1>1 DEF PurePaid
    <2>1. CASE q = p
        BY <1>2, <1>4, <2>1
    <2>2. CASE q # p
        <3>1. q \in stakeFinalized /\ paid'[q] = paid[q]
            BY <1>3, <1>5, <2>2
        <3>2. paid[q] = Earnings(q) - VaultFee(q)
            BY <3>1 DEF PayoutInv, PurePaid
        <3> QED BY <1>4, <3>1, <3>2
    <2> QED BY <2>1, <2>2
<1>8. EarnedOut'
    <2> SUFFICES ASSUME winner # NoResult, FactorIsIdle
                 PROVE  PaidOut' = EarningsOf(stakeFinalized)'
        BY <1>1 DEF EarnedOut, FactorIsIdle
    <2>1. PaidOut = EarningsOf(stakeFinalized)
        BY DEF PayoutInv, EarnedOut
    <2>2. PICK f : f = [q \in Players |-> Earnings(q)]
        OBVIOUS
    <2>3. [q \in Players |-> Earnings(q)]' = f
        BY <1>4, <2>2
    <2>4. \A q \in stakeFinalized \union {p} : f[q] \in Int
        BY <1>1, <1>5, <2>2, EarningsBounds DEF Order
    <2>5. IsFiniteSet(stakeFinalized)
        BY <1>5, FS_Subset
    <2>6. SumFunctionOnSet(f, stakeFinalized \union {p})
              = SumFunctionOnSet(f, stakeFinalized) + f[p]
        BY <1>1, <2>4, <2>5, SumAdd
    <2>7. EarningsOf(stakeFinalized)' = SumFunctionOnSet(f, stakeFinalized \union {p})
        BY <1>1, <2>3 DEF EarningsOf
    <2> QED BY <1>2, <2>1, <2>2, <2>6, <2>7 DEF EarningsOf
<1> QED BY <1>2, <1>6, <1>7, <1>8 DEF PayoutInv

LEMMA PayoutInvHolds ==
    ASSUME IsFiniteSet(Players)
    PROVE  Spec => []PayoutInv
<1>1. PayoutInv /\ [Next]_vars => PayoutInv'
  <2> SUFFICES ASSUME PayoutInv, [Next]_vars PROVE PayoutInv'
      OBVIOUS
  <2>1. ASSUME NEW w \in Winners, Close(w) PROVE PayoutInv'
      BY <2>1, CloseKeeps
  <2>2. CASE Burn
      BY <2>2, BurnKeeps
  <2>3. ASSUME NEW p \in Players, FinalizePlayerEvent(p) PROVE PayoutInv'
      BY <2>3, FinalizeKeeps
  <2>4. CASE UNCHANGED vars
    <3>1. UNCHANGED <<stakes, eventPlayers, winner, factorATON, currentFactor,
                      stakeFinalized, paid, fees>>
        BY <2>4 DEF vars
    <3>2. \A q : Earnings(q)' = Earnings(q) /\ VaultFee(q)' = VaultFee(q)
        BY <3>1, SameEarnings
    <3>3. Types' /\ Order' /\ PurePaid'
        BY <3>1, <3>2 DEF PayoutInv, Types, Order, PurePaid
    <3>4. EarnedOut'
        BY <3>1, <3>2 DEF PayoutInv, EarnedOut, FactorIsIdle, PaidOut, EarningsOf
    <3> QED BY <3>3, <3>4 DEF PayoutInv
  <2> QED BY <2>1, <2>2, <2>3, <2>4 DEF Next
<1> QED BY <1>1, PayoutInit, PTL DEF Spec

-----------------------------------------------------------------------------
(* The theorems about payouts.                                             *)

\* Every variable keeps its type: no share, no fee and no payment is negative.
THEOREM PayoutTypeCorrect ==
    ASSUME IsFiniteSet(Players)
    PROVE  Spec => []TypeOK
<1> DEFINE SharesType == shares \in [Players -> Nat]
<1>1. Init => SharesType
    BY DEF Init
<1>2. PayoutInv /\ SharesType /\ [Next]_vars => SharesType'
  <2> SUFFICES ASSUME PayoutInv, SharesType, [Next]_vars PROVE SharesType'
      OBVIOUS
  <2>1. ASSUME NEW p \in Players, FinalizePlayerEvent(p) PROVE SharesType'
    <3>1. GrantedShare(p) \in Nat
        BY <2>1, EarningsBounds DEF FinalizePlayerEvent, PayoutInv
    <3> QED BY <2>1, <3>1 DEF FinalizePlayerEvent
  <2>2. ASSUME NEW w \in Winners, Close(w) PROVE SharesType'
      BY <2>2 DEF Close
  <2>3. CASE Burn \/ UNCHANGED vars
      BY <2>3 DEF Burn, vars
  <2> QED BY <2>1, <2>2, <2>3 DEF Next
<1>3. PayoutInv /\ SharesType => TypeOK
    BY DEF PayoutInv, Types, TypeOK
<1> QED BY <1>1, <1>2, <1>3, PayoutInvHolds, PTL DEF Spec

\* Equal stakes without ATON are paid the same, in whatever order they are
\* collected and however the factor moves in between: what such a stake is paid
\* can be computed again from the closed event at any time.
THEOREM EqualStakesArePaidAlike ==
    ASSUME IsFiniteSet(Players)
    PROVE  Spec => []PureStakesArePaidAlike
<1>1. PayoutInv => PureStakesArePaidAlike
  <2> SUFFICES ASSUME PayoutInv, NEW p \in stakeFinalized, NEW q \in stakeFinalized,
                      stakes[p] = stakes[q], stakes[p].amountATON = 0
               PROVE  paid[p] = paid[q]
      BY DEF PureStakesArePaidAlike
  <2>1. /\ paid[p] = Earnings(p) - VaultFee(p)
        /\ paid[q] = Earnings(q) - VaultFee(q)
      BY DEF PayoutInv, PurePaid
  <2>2. Share(p) = Share(q) /\ HasWon(p) = HasWon(q)
      BY DEF Share, EffectiveVUND, HasWon
  <2>3. Earnings(p) = Earnings(q)
      BY <2>2 DEF Earnings, GrantedShare, TakesShare
  <2>4. VaultFee(p) = VaultFee(q)
      BY <2>2, <2>3 DEF VaultFee, Premium
  <2> QED BY <2>1, <2>3, <2>4
<1> QED BY <1>1, PayoutInvHolds, PTL

\* The fee is waived wherever it would leave a winner with less than the stake.
THEOREM FeeSparesWinners ==
    ASSUME IsFiniteSet(Players)
    PROVE  Spec => FeeSparesTheStake
<1>1. PayoutInv /\ [Next]_vars =>
          \A p \in Players :
              p \in stakeFinalized' \ stakeFinalized /\ HasWon(p)
                  /\ paid'[p] < stakes[p].amountVUND => fees' = fees
  <2> SUFFICES ASSUME PayoutInv, [Next]_vars, NEW p \in Players,
                      p \in stakeFinalized' \ stakeFinalized, HasWon(p),
                      paid'[p] < stakes[p].amountVUND
               PROVE  fees' = fees
      OBVIOUS
  <2>1. FinalizePlayerEvent(p)
      BY DEF Next, Close, Burn, FinalizePlayerEvent, vars
  <2>2. /\ paid'[p] = Earnings(p) - VaultFee(p)
        /\ fees' = fees + VaultFee(p) /\ fees \in Nat
        /\ Types /\ stakes[p].amountVUND > 0
      BY <2>1, PayoutTakesEarnings DEF FinalizePlayerEvent, PayoutInv, Types
  <2>3. PICK E \in Nat, P \in Nat, v \in Nat :
            /\ E = Earnings(p) /\ P = Premium(p) /\ v = stakes[p].amountVUND
            /\ VaultFee(p) \in {0, P}
      BY <2>2, EarningsBounds, StakeFields
  <2>4. VaultFee(p) = 0
    <3>1. CASE VaultFee(p) = 0
        BY <3>1
    <3>2. CASE VaultFee(p) # 0
      <4>1. VaultFee(p) = P /\ ~(v > E - P)
          BY <2>3, <3>2 DEF VaultFee
      <4> QED BY <2>2, <2>3, <4>1
    <3> QED BY <3>1, <3>2
  <2> QED BY <2>2, <2>4
<1> QED BY <1>1, PayoutInvHolds, PTL DEF Spec, FeeSparesTheStake

\* The abstract specification, step by step: with an idle factor and no tie,
\* every payout is a step of the escrow, so that the pool is enough for all who
\* collect, in any order.
THEOREM PayoutsAreEscrowed ==
    ASSUME IsFiniteSet(Players)
    PROVE  Spec => Pool!Init /\ PoolIsEscrow
<1>0. Init => Pool!Init
  <2> SUFFICES ASSUME Init PROVE Pool!Init
      OBVIOUS
  <2>1. Types /\ Order /\ winner = NoResult /\ stakeFinalized = {} /\ fees = 0
      BY PayoutInit DEF PayoutInv, Init
  <2>2. PaidOut = 0
      BY <2>1, NothingPaid DEF PaidOut
  <2>3. WholeRawVUND \in Nat
      BY <2>1, EffectiveTypes
  <2> QED BY <2>1, <2>2, <2>3 DEF Pool!Init
<1>1. PayoutInv /\ PayoutInv' /\ [Next]_vars =>
          (AtRest' => Pool!Next \/ UNCHANGED <<WholeRawVUND - PaidOut, stakeFinalized>>)
  <2> SUFFICES ASSUME PayoutInv, PayoutInv', [Next]_vars, AtRest'
               PROVE  Pool!Next \/ UNCHANGED <<WholeRawVUND - PaidOut, stakeFinalized>>
      OBVIOUS
  <2>1. ASSUME NEW p \in Players, FinalizePlayerEvent(p)
        PROVE  Pool!Next
    <3>1. /\ UNCHANGED <<stakes, eventPlayers, winner, factorATON, currentFactor>>
          /\ winner # NoResult /\ p \notin stakeFinalized
          /\ stakeFinalized' = stakeFinalized \union {p}
          /\ stakes[p].amountVUND > 0
        BY <2>1 DEF FinalizePlayerEvent
    <3>2. /\ Types /\ Order /\ FactorIsIdle /\ factorATON # 0 /\ winner # Tie
        BY <3>1 DEF AtRest, FactorIsIdle, PayoutInv, Types, Order
    <3>3. PICK W \in Nat : W = WholeRawVUND /\ WholeRawVUND' = W
        BY <3>1, <3>2, EffectiveTypes, SameEarnings
    <3>4. PICK E \in Nat : E = Earnings(p) /\ PaidOut' = PaidOut + E
        BY <2>1, <3>1, <3>2, EarningsBounds, PayoutTakesEarnings
    <3>5. /\ PaidOut = EarningsOf(stakeFinalized)
          /\ PaidOut' = EarningsOf(stakeFinalized)'
        BY <3>1, <3>2 DEF PayoutInv, EarnedOut, FactorIsIdle
    <3>6. EarningsOf(stakeFinalized)' = EarningsOf(stakeFinalized \union {p})
        BY <3>1, SameEarnings DEF EarningsOf
    <3>7. EarningsOf(stakeFinalized) \in Nat
        <4>1. stakeFinalized \in SUBSET eventPlayers
            BY <3>2 DEF Types
        <4>2. \A q \in stakeFinalized : stakes[q].amountVUND > 0
            BY DEF PayoutInv, Order
        <4> QED BY <3>2, <4>1, <4>2, PoolIsEnough
    <3>8. EarningsOf(stakeFinalized \union {p}) <= W
        <4>1. stakeFinalized \union {p} \in SUBSET eventPlayers
            BY <2>1, <3>2, PayoutTakesEarnings DEF Types
        <4>2. \A q \in stakeFinalized \union {p} : stakes[q].amountVUND > 0
            BY <3>1 DEF PayoutInv, Order
        <4>3. EarningsOf(stakeFinalized \union {p}) <= Sharings * WholeRawVUND
            BY <3>2, <4>1, <4>2, PoolIsEnough
        <4>4. Sharings * W = W
            BY <3>2 DEF Sharings
        <4> QED BY <3>3, <4>3, <4>4
    <3>9. PICK out \in Nat : out = PaidOut /\ PaidOut' = out + E /\ out + E <= W
        BY <3>4, <3>5, <3>6, <3>7, <3>8
    <3>10. W - (out + E) \in 0..(W - out)
        BY <3>9
    <3>11. (WholeRawVUND - PaidOut)' \in 0..(WholeRawVUND - PaidOut)
        BY <3>3, <3>9, <3>10
    <3> QED BY <3>1, <3>11 DEF Pool!Next, Pool!Settle
  <2>2. ASSUME NEW w \in Winners, Close(w)
        PROVE  UNCHANGED <<WholeRawVUND - PaidOut, stakeFinalized>>
      BY <2>2 DEF Close, WholeRawVUND, TotalVUND, PaidOut
  <2>3. CASE Burn \/ UNCHANGED vars
      BY <2>3 DEF Burn, vars, WholeRawVUND, TotalVUND, PaidOut
  <2> QED BY <2>1, <2>2, <2>3 DEF Next
<1> QED BY <1>0, <1>1, PayoutInvHolds, PTL DEF Spec, PoolIsEscrow

\* What has been paid out of an event, fees included, never exceeds its stakes while
\* the factor is idle, and after a tie, whose players all take their share of the whole
\* pool, never exceeds them twice: that is all the vault can lose on a tie
\* (Arenaton.sol 1068-1124, 1383-1407).
PoolIsNotOverdrawn ==
    FactorIsIdle => PaidOut <= (IF winner = Tie THEN 2 ELSE 1) * WholeRawVUND

THEOREM PoolIsNeverOverdrawn ==
    ASSUME IsFiniteSet(Players)
    PROVE  Spec => []PoolIsNotOverdrawn
<1>1. PayoutInv => PoolIsNotOverdrawn
  <2> SUFFICES ASSUME PayoutInv, FactorIsIdle
               PROVE  PaidOut <= Sharings * WholeRawVUND
      BY DEF PoolIsNotOverdrawn, Sharings
  <2>1. Types /\ Order
      BY DEF PayoutInv
  <2>2. CASE winner = NoResult
    <3>1. PaidOut = 0
        BY <2>1, <2>2, NothingPaid DEF PaidOut, Order
    <3>2. PICK W \in Nat : W = WholeRawVUND
        BY <2>1, EffectiveTypes
    <3>3. 0 <= Sharings * W
        BY DEF Sharings
    <3> QED BY <3>1, <3>2, <3>3
  <2>3. CASE winner # NoResult
    <3>1. PaidOut = EarningsOf(stakeFinalized)
        BY <2>3 DEF PayoutInv, EarnedOut
    <3>2. factorATON # 0 /\ stakeFinalized \in SUBSET eventPlayers
          /\ \A p \in stakeFinalized : stakes[p].amountVUND > 0
        BY <2>1, <2>3 DEF Types, Order
    <3> QED BY <2>1, <3>1, <3>2, PoolIsEnough
  <2> QED BY <2>2, <2>3
<1> QED BY <1>1, PayoutInvHolds, PTL
=============================================================================
