-------------------------------- MODULE Bets --------------------------------
(***************************************************************************)
(* What the book promises those who bet: an event takes bets until it      *)
(* starts, gets one result after that, and every bet on it is settled at   *)
(* most once, with the result known and the bet as it was at the start.    *)
(* How requests, coins, lists and levels bring that about is left open.    *)
(***************************************************************************)
EXTENDS Integers

CONSTANTS Events, Players, Results, NoResult

VARIABLES
    phase,      \* of every event: "open", "started" or "decided"
    result,     \* of every event, NoResult until it is decided
    stakes,     \* of every event and player: the amounts and the team
    settled     \* of every event: the players whose stakes are settled

vars == <<phase, result, stakes, settled>>

Init ==
    /\ phase = [e \in Events |-> "open"]
    /\ result = [e \in Events |-> NoResult]
    /\ \A e \in Events, p \in Players : stakes[e][p].amountVUND = 0
    /\ settled = [e \in Events |-> {}]

\* A bet only grows and stays on its side.
Raises(old, new) ==
    /\ new.amountVUND >= old.amountVUND /\ new.amountATON >= old.amountATON
    /\ old.amountVUND > 0 => new.team = old.team

Bet(e, p) ==
    /\ phase[e] = "open"
    /\ Raises(stakes[e][p], stakes'[e][p])
    /\ \A f \in Events, q \in Players : <<f, q>> # <<e, p>> => stakes'[f][q] = stakes[f][q]
    /\ UNCHANGED <<phase, result, settled>>

\* Time starts events, maybe several at once.
Start ==
    /\ \A e \in Events : phase'[e] # phase[e] => phase[e] = "open" /\ phase'[e] = "started"
    /\ UNCHANGED <<result, stakes, settled>>

Decide(e) ==
    /\ phase[e] = "started"
    /\ phase' = [phase EXCEPT ![e] = "decided"]
    /\ \E r \in Results : result' = [result EXCEPT ![e] = r]
    /\ UNCHANGED <<stakes, settled>>

Settle(e, p) ==
    /\ phase[e] = "decided"
    /\ stakes[e][p].amountVUND > 0
    /\ p \notin settled[e]
    /\ settled' = [settled EXCEPT ![e] = @ \union {p}]
    /\ UNCHANGED <<phase, result, stakes>>

Next ==
    \/ \E e \in Events, p \in Players : Bet(e, p) \/ Settle(e, p)
    \/ \E e \in Events : Decide(e)
    \/ Start

Spec == Init /\ [][Next]_vars
=============================================================================
