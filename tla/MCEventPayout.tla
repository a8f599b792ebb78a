--------------------------- MODULE MCEventPayout ---------------------------
(* Instances of EventPayout for TLC.                                       *)
EXTENDS EventPayout, TLC

\* Zero is a result nobody has staked on.
AnyResult == {0, 1, 2, Tie, Cancelled}
OnlyTie == {Tie}

Symmetry == Permutations(Players)
=============================================================================
