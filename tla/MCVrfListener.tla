--------------------------- MODULE MCVrfListener ---------------------------
(* An instance of VrfListener for TLC.                                     *)
EXTENDS VrfListener, TLC

Symmetry == Permutations(Requests)
=============================================================================
