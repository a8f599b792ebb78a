-------------------------- MODULE MCSwapController --------------------------
(***************************************************************************)
(* Constant values shared by the model-checking runs of SwapController.    *)
(***************************************************************************)
EXTENDS SwapController

\* A coin with as many decimals as VUND and one with fewer, by a factor of two.
TwoCoins == <<[scale |-> 1, wider |-> FALSE], [scale |-> 2, wider |-> FALSE]>>
=============================================================================
