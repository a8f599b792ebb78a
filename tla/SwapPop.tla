------------------------------ MODULE SwapPop ------------------------------
(***************************************************************************)
(* The arrays of Vault.sol and Arenaton.sol that hold a set of items: the  *)
(* vault's activeEvents, a player's activeEvents and closedEvents, an      *)
(* event's players and the oracle's request queues.  They grow by push and *)
(* shrink by copying the last item over the removed one and popping.       *)
(***************************************************************************)
EXTENDS Integers, Sequences

\* The items an array holds.
Elements(s) == { s[i] : i \in 1..Len(s) }

\* No item is stored twice.
Distinct(s) == \A i, j \in 1..Len(s) : s[i] = s[j] => i = j

\* The index the search loops stop at: the first place that holds x.
FirstIndex(s, x) ==
    CHOOSE i \in 1..Len(s) : s[i] = x /\ \A j \in 1..(i - 1) : s[j] # x

\* Mutant of SwapPopAt: the copy forgotten.
PopOnly(s, i) == SubSeq(s, 1, Len(s) - 1)

\* Overwrite place i with the last item, then pop.
SwapPopAt(s, i) ==
    [j \in 1..(Len(s) - 1) |-> IF j = i THEN s[Len(s)] ELSE s[j]]

\* Remove x, which the array holds (the code reverts when it does not).
SwapPop(s, x) == SwapPopAt(s, FirstIndex(s, x))
=============================================================================
