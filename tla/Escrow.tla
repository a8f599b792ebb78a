------------------------------ MODULE Escrow ------------------------------
(***************************************************************************)
(* What a pool of stakes promises: it pays every staker once, in any       *)
(* order, and never pays out more than was put in.  What somebody is paid  *)
(* is left open.                                                           *)
(***************************************************************************)
EXTENDS Naturals

CONSTANT Stakers

VARIABLES
    pot,        \* what is left of the stakes
    settled     \* the stakers who have been paid

Init == pot \in Nat /\ settled = {}

Settle(p) ==
    /\ p \notin settled
    /\ settled' = settled \union {p}
    /\ pot' \in 0..pot

Next == \E p \in Stakers : Settle(p)

Spec == Init /\ [][Next]_<<pot, settled>>
=============================================================================
