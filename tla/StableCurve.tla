---------------------------- MODULE StableCurve ----------------------------
(***************************************************************************)
(* The StableSwap curve of SwapController.sol: the invariant D of a pool   *)
(* of coins, all balances in VUND, found by the integer Newton iteration   *)
(* of _getDWithBalances, and what D has to solve.                          *)
(***************************************************************************)
EXTENDS Integers, Sequences, Functions, FiniteSetsExt

Rounds == 255       \* turns of the iteration at most

SumOf(balances) == SumFunctionOnSet(balances, DOMAIN balances)

\* D_P of one turn: d^(n+1) / (n^n * product), rounded down at every division.
Spread(d, balances) ==
    LET n == Len(balances)
        dp[k \in 0..n] == IF k = 0 THEN d ELSE (dp[k - 1] * d) \div (balances[k] * n)
    IN  dp[n]

\* Mutant of Turn: the number of coins in the place of its successor.
TurnOffByOne(d, balances, amp) ==
    LET n == Len(balances)
        ann == amp * n
        dp == Spread(d, balances)
    IN  ((ann * SumOf(balances) + dp * n) * d) \div ((ann - 1) * d + n * dp)

\* One turn of the iteration.
Turn(d, balances, amp) ==
    LET n == Len(balances)
        ann == amp * n
        dp == Spread(d, balances)
    IN  ((ann * SumOf(balances) + dp * n) * d) \div ((ann - 1) * d + (n + 1) * dp)

\* The divisions by a balance revert on an empty coin, unless all are empty.
CanFindD(balances) == \A i \in DOMAIN balances : balances[i] > 0

\* _getDWithBalances: turns from the sum until two results differ by one or
\* less, or until the turns run out.
D(balances, amp) ==
    LET turns[left \in 0..Rounds] ==
            [d \in Nat \ {0} |->
                LET next == Turn(d, balances, amp) IN
                IF left = 0 THEN d
                ELSE IF next - d \in -1..1 THEN next ELSE turns[left - 1][next]]
    IN  turns[Rounds][SumOf(balances)]

-----------------------------------------------------------------------------
(* The invariant of the curve, for the amplification A*n of the code:      *)
(*    A*n * sum + d  =  A*n * d  +  d^(n+1) / (n^n * product).             *)
(* The right side minus d grows with d, so that it has one solution.       *)

\* For two coins, without a division: n^n * product is 4 * b1 * b2.
TooLarge(d, balances, amp) ==
    LET p == 4 * balances[1] * balances[2]
    IN  (amp * 2 - 1) * d * p + d * d * d > amp * 2 * SumOf(balances) * p

\* The solution rounded down.
ExactD(balances, amp) ==
    Max({ d \in 0..SumOf(balances) : ~TooLarge(d, balances, amp) })
=============================================================================
