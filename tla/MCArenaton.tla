---------------------------- MODULE MCArenaton ----------------------------
(***************************************************************************)
(* Constant values shared by the model-checking runs of Arenaton.          *)
(***************************************************************************)
EXTENDS Arenaton, TLC

\* A dollar coin with fewer decimals than VUND, by a factor of two.
CoinsInfo == [c \in Coins |-> [scale |-> IF c = VUND THEN 1 ELSE 2, wider |-> FALSE]]

\* The same beside a coin with more decimals, whose amounts are rounded down.
WideCoinsInfo == [c \in Coins |-> [scale |-> IF c = VUND THEN 1 ELSE 2,
                                   wider |-> c # VUND]]

\* Results: a tie, a win of team A; by symmetry of the teams B adds nothing.
TieOrA == {Tie, 1}

Symmetry == Permutations(Players) \union Permutations(Events)
=============================================================================
