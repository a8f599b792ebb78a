--------------------------- MODULE MCVundLedger ---------------------------
(* Instances of VundLedger for TLC.                                        *)
EXTENDS VundLedger, TLC

CONSTANTS dai, usdt, wide

\* As many decimals as VUND, fewer, more.
CoinsInfo ==
    [c \in Coins |-> CASE c = dai  -> [scale |-> 1, wider |-> FALSE]
                       [] c = usdt -> [scale |-> 2, wider |-> FALSE]
                       [] c = wide -> [scale |-> 2, wider |-> TRUE]]

Symmetry == Permutations(Players \ {Owner})
=============================================================================
