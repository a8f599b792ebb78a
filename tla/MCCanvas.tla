------------------------------ MODULE MCCanvas ------------------------------
(* An instance of Canvas for TLC.                                          *)
EXTENDS Canvas, TLC

\* One pixel inside from the start, one at the edge, one after a growth only.
ThreePixels == {<<0, 0>>, <<1, 1>>, <<0, 2>>}

Symmetry == Permutations(Painters) \union Permutations(Tokens)
=============================================================================
