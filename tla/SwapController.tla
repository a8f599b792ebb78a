--------------------------- MODULE SwapController ---------------------------
(***************************************************************************)
(* SwapController.sol: the amplification coefficient, ramped by the owner  *)
(* over days, and the swaps it prices, with the part of Vault.swap that    *)
(* moves the coins.  What a swap does to VUND is module VundLedger.        *)
(*                                                                         *)
(* Coins are numbered as in coinList, without VUND at its head; Other is   *)
(* any token that is not in coinList.  None is refused: _getCoinIndexes    *)
(* leaves it the place of the first coin and an empty Coin, whose zero     *)
(* decimals price its unit as a whole VUND, and Vault.swap, where an       *)
(* unknown coinIndex is 0, moves VUND in its place.                        *)
(*                                                                         *)
(* Time is in coarse units; the history variable trail is the coefficient  *)
(* at every time since deployment.                                         *)
(***************************************************************************)
EXTENDS StableCurve, Tools

CONSTANTS
    CoinInfo,           \* coinList: a sequence of coins
    UnlistedScale,      \* 10 ** 18, the scale of a coin without decimals
    MIN_RAMP_TIME,      \* a day, in units of time
    FutureAs,           \* coefficients the owner may ask for
    RampTimes,          \* units of time a ramp may take
    Amounts,            \* amounts a caller may name
    Tolerances,         \* slippage a caller may name, in parts of pct_denom
    StartBalances,      \* what the vault may hold of a coin at the start
    ONE,                \* one VUND, 10 ** 18 units
    MinLiquidity,       \* what a swap between coins leaves, 10 ** 6 units
    premiumPositive, premiumNegative, pct_denom,
    MaxTime,            \* bound on the clock
    MaxHeld             \* bound on the vault's units of a coin

MAX_A == 1000000
MAX_A_CHANGE == 10

Coins == DOMAIN CoinInfo
Other == 0
Tokens == Coins \union {Other}

ASSUME SwapAssumption ==
    /\ CoinInfo \in Seq(Coin) /\ Len(CoinInfo) >= 2     \* a curve between coins
    /\ UnlistedScale \in Nat \ {0}
    /\ MIN_RAMP_TIME \in Nat \ {0} /\ RampTimes \subseteq Nat
    /\ FutureAs \subseteq Nat /\ Amounts \subseteq Nat /\ Tolerances \subseteq 0..pct_denom
    /\ StartBalances \subseteq Nat \ {0}
    /\ ONE \in Nat /\ MinLiquidity \in Nat /\ MaxTime \in Nat /\ MaxHeld \in Nat
    /\ premiumPositive \in Nat /\ premiumNegative \in Nat /\ pct_denom \in Nat \ {0}
    /\ premiumPositive <= premiumNegative

VARIABLES
    now,                \* block.timestamp
    A,                  \* the coefficient of the last swap
    initial_A, future_A, initial_A_time, future_A_time,
    held,               \* the vault's units of every coin
    trail               \* history: trail[t], the coefficient at time t

ramp == <<initial_A, future_A, initial_A_time, future_A_time>>
vars == <<now, A, ramp, held, trail>>

PositiveNat == Nat \ {0}

TypeOK ==
    /\ now \in Nat /\ initial_A_time \in 0..now /\ future_A_time \in Nat
    /\ A \in PositiveNat /\ initial_A \in PositiveNat /\ future_A \in PositiveNat
    /\ held \in [Coins -> Nat]
    /\ trail \in Seq(PositiveNat) /\ Len(trail) = now

\* Deployed long after time zero.
Init ==
    /\ now = MIN_RAMP_TIME
    /\ A = 10 /\ initial_A = A /\ future_A = A
    /\ initial_A_time = 0 /\ future_A_time = 0
    /\ held \in [Coins -> StartBalances]
    /\ trail = [t \in 1..now |-> A]

-----------------------------------------------------------------------------
(* The ramp.                                                               *)

\* _A at a time: between initial_A and future_A in proportion to it.
CurrentAt(time) ==
    LET passed == time - initial_A_time
        whole == future_A_time - initial_A_time
    IN  IF time >= future_A_time THEN future_A
        ELSE IF future_A > initial_A
             THEN initial_A + ((future_A - initial_A) * passed) \div whole
             ELSE initial_A - ((initial_A - future_A) * passed) \div whole

Current == CurrentAt(now)

Tick ==
    /\ now < MaxTime
    /\ now' = now + 1
    /\ trail' = Append(trail, CurrentAt(now + 1))
    /\ UNCHANGED <<A, ramp, held>>

\* Mutants of MayRamp and RampFrom: a ramp at any time; one from where the last
\* one began.
MayRampAnytime(future, time) ==
    time >= now + MIN_RAMP_TIME /\ future > 0 /\ future < MAX_A
RampFromInitial == initial_A

\* ramp_A's requirements on time and coefficient.
MayRamp(future, time) ==
    /\ now >= initial_A_time + MIN_RAMP_TIME
    /\ time >= now + MIN_RAMP_TIME
    /\ future > 0 /\ future < MAX_A

InReach(future, from) ==
    \/ future >= from /\ future <= from * MAX_A_CHANGE
    \/ future < from /\ future * MAX_A_CHANGE >= from

RampFrom == Current

\* ramp_A, the owner's.
RampA(future, time) ==
    /\ MayRamp(future, time)
    /\ InReach(future, Current)
    /\ initial_A' = RampFrom /\ future_A' = future
    /\ initial_A_time' = now /\ future_A_time' = time
    /\ UNCHANGED <<now, A, held, trail>>

\* stop_ramp_A, the owner's.
StopRampA ==
    /\ initial_A' = Current /\ future_A' = Current
    /\ initial_A_time' = now /\ future_A_time' = now
    /\ UNCHANGED <<now, A, held, trail>>

-----------------------------------------------------------------------------
(* Prices.                                                                 *)

\* What _getCoinIndexes finds: the place of a token in the pool, and its coin.
Index(t) == IF t = Other THEN 1 ELSE t
InfoOf(t) == IF t = Other THEN [scale |-> UnlistedScale, wider |-> FALSE] ELSE CoinInfo[t]

\* _getBalancesInVUND.
BalancesInVUND == [c \in Coins |-> CoinToVUND(held[c], CoinInfo[c])]

\* Mutant of Capped: the cap of the other premium.
CappedNegative(amount, amountIn) ==
    Min({amount, amountIn + (amountIn * premiumNegative) \div pct_denom})

\* No more than a premium above the amount in.
Capped(amount, amountIn) ==
    Min({amount, amountIn + (amountIn * premiumPositive) \div pct_denom})

\* _calculateOutputAmount, in VUND: the growth of D, less one for rounding.
\* Nothing comes out when that is negative (D_after < D_before + 1) or would
\* drain the coin.
OutputVUND(c, d, amountIn, amp) ==
    LET with == [BalancesInVUND EXCEPT ![c] = @ + amountIn]
        growth == D(with, amp) - D(BalancesInVUND, amp) - 1
        out == Capped(growth, amountIn)
    IN  IF growth < 0 \/ with[d] < out + MinLiquidity THEN 0 ELSE out

Distance(a, b) == IF a > b THEN a - b ELSE b - a

\* The premium of _getAmountsOut: the lower one for bringing the two coins
\* closer together.
Premium(c, d, vundIn, vundOut) ==
    LET b == BalancesInVUND IN
    IF Distance(b[c], b[d]) > Distance(b[c] + vundIn, b[d] - vundOut)
    THEN premiumPositive ELSE premiumNegative

\* What a swap of amount units of c yields in d, before its premium.
Output(c, d, amount, amp) ==
    VUNDToCoin(OutputVUND(Index(c), Index(d), CoinToVUND(amount, InfoOf(c)), amp),
               CoinInfo[Index(d)])

\* Vault.swap leaves one VUND's worth of the coin.
StaysQuotable(d, amountOut) ==
    held[d] >= amountOut + VUNDToCoin(ONE, CoinInfo[d])

NetOut(amountOut, pct) == amountOut - (amountOut * pct) \div pct_denom

WithinTolerance(vundIn, vundOut, tolerance, pct) ==
    LET allowed == ((tolerance + pct) * vundIn) \div pct_denom
    IN  allowed <= vundIn /\ vundOut >= vundIn - allowed

\* What the swap does to the vault's coins: a token that is not listed is VUND
\* there, whose balances are module VundLedger's.
Received(c, amount) == [t \in Coins |-> IF t = c THEN held[t] + amount ELSE held[t]]

\* SwapExecution from one token to another, neither of them VUND.  Zero tolerance
\* turns the check off.
SwapExecution(c, d, amount, tolerance) ==
    LET out == Output(c, d, amount, Current)
        vundIn == CoinToVUND(amount, InfoOf(c))
        vundOut == CoinToVUND(out, InfoOf(d))
        pct == Premium(Index(c), Index(d), vundIn, vundOut)
    IN  /\ c # d \/ c = Other
        /\ CanFindD(BalancesInVUND)
        /\ out > 0
        /\ vundOut <= BalancesInVUND[Index(d)]
        /\ tolerance > 0 => WithinTolerance(vundIn, vundOut, tolerance, pct)
        /\ d \in Coins => StaysQuotable(d, out)
        /\ c \in Coins => held[c] + amount <= MaxHeld
        /\ A' = Current
        /\ held' = [t \in Coins |-> IF t = d THEN held[t] - NetOut(out, pct)
                                   ELSE Received(c, amount)[t]]
        /\ UNCHANGED <<now, ramp, trail>>

\* SwapExecution from VUND: no curve, no premium, no slippage.
SwapVUND(d, amount) ==
    LET out == VUNDToCoin(amount, InfoOf(d))
    IN  /\ out > 0
        /\ IF d = Other THEN held[1] + VUNDToCoin(ONE, CoinInfo[1]) > out
                         ELSE StaysQuotable(d, out)
        /\ A' = Current
        /\ held' = [t \in Coins |-> IF t = d THEN held[t] - out ELSE held[t]]
        /\ UNCHANGED <<now, ramp, trail>>

Next ==
    \/ Tick
    \/ \E future \in FutureAs, time \in RampTimes : RampA(future, now + time)
    \/ StopRampA
    \/ \E d \in Tokens, amount \in Amounts :
          \/ SwapVUND(d, amount)
          \/ \E c \in Tokens, tolerance \in Tolerances : SwapExecution(c, d, amount, tolerance)

Spec == Init /\ [][Next]_vars

-----------------------------------------------------------------------------
(* Properties.                                                             *)

\* However ramps are started, cut short and chained, the coefficient changes by
\* no more than a factor of MAX_A_CHANGE (and a rounding) within any
\* MIN_RAMP_TIME, up or down (SwapController.sol 409-427).
RateIsBounded ==
    \A t, u \in DOMAIN trail :
        t <= u /\ u - t <= MIN_RAMP_TIME =>
            /\ trail[u] <= MAX_A_CHANGE * (trail[t] + 1)
            /\ trail[t] <= MAX_A_CHANGE * (trail[u] + 1)

\* The owner's calls steer the coefficient but never move it: what a swap is
\* priced with changes with time only (414-427, 439-447).
OnlyTimeMovesA == [][now' = now => Current' = Current]_vars

PoolIsPriced == CanFindD(BalancesInVUND)

\* With ann, the coefficient times the number of coins: D is positive, as the
\* code requires (218), and exceeds the sum by one part in ann - 1 at most.
DIsSound ==
    LET ann == Current * Len(CoinInfo)
        d == D(BalancesInVUND, Current)
    IN  d > 0 /\ (ann - 1) * d <= ann * SumOf(BalancesInVUND)

\* Every pool that swaps lead to can be priced: no swap empties a coin, by whose
\* balance every price divides, and the iteration, with its roundings and its
\* early end, is no more than one unit from the exact solution of the curve,
\* whatever the coefficient (274-325, Vault.sol 950-952).
CurveIsSolved ==
    /\ PoolIsPriced
    /\ DIsSound
    /\ Distance(D(BalancesInVUND, Current), ExactD(BalancesInVUND, Current)) <= 1

\* Swaps from one coin of coinList to another do not drain the vault: cap and
\* premium cancel out, and what leaves is worth no more than what came in but for
\* a fraction of one unit of the coin that leaves, or of VUND where that is the
\* greater one (245-248, Vault.sol 955-966).  It says nothing of a swap that names
\* a token outside the list: that one brings VUND, not a coin, and its cap is on
\* another price than the VUND is charged at (106, 120, Vault.sol 939).
WorthIsKept ==
    [][\A c, d \in Coins :
          held'[c] > held[c] /\ held'[d] < held[d] =>
              CoinToVUND(held[d] - held'[d], CoinInfo[d])
                  < CoinToVUND(held'[c] - held[c], CoinInfo[c])
                        + Max({1, CoinToVUND(1, CoinInfo[d])})]_vars
=============================================================================
