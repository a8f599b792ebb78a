---------------------------- MODULE EventPayout ----------------------------
(***************************************************************************)
(* What an event pays: the arithmetic of Arenaton.sol's                    *)
(* finalizePlayerEvent over the totals Vault.sol keeps, for one event, its *)
(* players collecting in any order while the factor of ATON moves.         *)
(*                                                                         *)
(* Staking itself is the matter of module Arenaton: the event starts here  *)
(* with the stakes it has at its start date.  The VUND is followed to the  *)
(* unit, with the roundings and the percentages of the code; the ATON and  *)
(* NFT rewards, paid beside it, are left out.                              *)
(***************************************************************************)
EXTENDS Integers, FiniteSets, Functions

CONSTANTS
    Players,        \* the addresses that may have staked
    AmountsVUND,    \* VUND a stake may hold
    AmountsATON,    \* ATON a stake may hold
    Factors,        \* values of ATON.calculateFactorAton
    Winners         \* results the oracle may report

Teams == {1, 2}
NoResult == -1
Tie == -2
Cancelled == -3

pct_denom == 10000000
premium == 200000       \* the vault's fee, 2 %

ASSUME PayoutAssumption ==
    /\ AmountsVUND \subseteq Nat /\ AmountsATON \subseteq Nat
    /\ Factors \subseteq Nat \ {0}
    /\ Winners \subseteq Int \ {NoResult}

VARIABLES
    stakes,         \* Event.stakes
    eventPlayers,   \* Event.players
    winner,         \* Event.winner
    factorATON,     \* Event.factorATON, zero until the event is closed
    currentFactor,  \* what ATON.calculateFactorAton returns
    stakeFinalized, \* Event.stakeFinalized
    paid,           \* VUND each player has been paid
    fees,           \* VUND kept as the vault's fee
    shares          \* history: the share each player was granted

vars == <<stakes, eventPlayers, winner, factorATON, currentFactor,
          stakeFinalized, paid, fees, shares>>

Stake == [amountVUND : Nat, amountATON : Nat, team : Teams \union {0}]

TypeOK ==
    /\ stakes \in [Players -> Stake]
    /\ eventPlayers \subseteq Players
    /\ winner \in Int
    /\ factorATON \in Nat /\ currentFactor \in Nat
    /\ stakeFinalized \subseteq eventPlayers
    /\ paid \in [Players -> Nat]
    /\ fees \in Nat
    /\ shares \in [Players -> Nat]

AtonInVUND(amountATON, factor) == (amountATON * factor) \div pct_denom

\* The stakes an event can hold: the ATON of one was worth its VUND or less.
Held(factor) ==
    { s \in [amountVUND : AmountsVUND, amountATON : AmountsATON, team : Teams] :
        AtonInVUND(s.amountATON, factor) <= s.amountVUND }

NoStake == [amountVUND |-> 0, amountATON |-> 0, team |-> 0]

Init ==
    /\ currentFactor \in Factors
    /\ eventPlayers \in SUBSET Players \ {{}}
    /\ \E held \in [eventPlayers -> Held(currentFactor)] :
          stakes = [p \in Players |-> IF p \in eventPlayers THEN held[p] ELSE NoStake]
    /\ winner = NoResult
    /\ factorATON = 0
    /\ stakeFinalized = {}
    /\ paid = [p \in Players |-> 0]
    /\ fees = 0
    /\ shares = [p \in Players |-> 0]

-----------------------------------------------------------------------------
(* The arithmetic.                                                         *)

TotalVUND(side) == SumFunctionOnSet([p \in side |-> stakes[p].amountVUND], side)
TotalATON(side) == SumFunctionOnSet([p \in side |-> stakes[p].amountATON], side)
Side(team) == { p \in eventPlayers : stakes[p].team = team }

\* Mutant of TeamEffectiveVUND: today's factor.
TeamEffectiveVUNDToday(team) ==
    TotalVUND(Side(team)) + AtonInVUND(TotalATON(Side(team)), currentFactor)

\* getEventStakedVUND in the two contexts the payout asks for.
WholeRawVUND == TotalVUND(eventPlayers)
TeamEffectiveVUND(team) ==
    TotalVUND(Side(team)) + AtonInVUND(TotalATON(Side(team)), factorATON)

\* _updatePlayerStake: the player's own ATON at today's factor.
EffectiveVUND(p) ==
    stakes[p].amountVUND + AtonInVUND(stakes[p].amountATON, currentFactor)

\* _calculatePlayerShare.
Share(p) ==
    (EffectiveVUND(p) * pct_denom)
        \div (TeamEffectiveVUND(stakes[p].team) + stakes[p].amountVUND)

\* Mutant of TakesShare: losers as well.
TakesShareAlways(p) == Cardinality(eventPlayers) # 1 /\ winner # Cancelled

\* _determineEarnings: a lone player and a cancelled event are refunded, a
\* tie and a win pay the share of the whole pool, a loss pays nothing.
IsRefund == Cardinality(eventPlayers) = 1 \/ winner = Cancelled
HasWon(p) == winner = stakes[p].team
TakesShare(p) == ~IsRefund /\ (winner = Tie \/ HasWon(p))

GrantedShare(p) == IF TakesShare(p) THEN Share(p) ELSE 0

Earnings(p) ==
    IF IsRefund THEN stakes[p].amountVUND
                ELSE (GrantedShare(p) * WholeRawVUND) \div pct_denom

Premium(p) == (premium * Earnings(p)) \div pct_denom

\* Mutant of VaultFee: never waived.
VaultFeeAlways(p) == IF IsRefund THEN 0 ELSE Premium(p)

\* The fee is waived from a winner it would leave with less than the stake.
VaultFee(p) ==
    IF IsRefund \/ (HasWon(p) /\ stakes[p].amountVUND > Earnings(p) - Premium(p))
    THEN 0 ELSE Premium(p)

-----------------------------------------------------------------------------
(* Transactions.                                                           *)

\* closeEvent: the result, and the factor of the moment.
Close(w) ==
    /\ winner = NoResult
    /\ winner' = w
    /\ factorATON' = currentFactor
    /\ UNCHANGED <<stakes, eventPlayers, currentFactor, stakeFinalized, paid,
                   fees, shares>>

\* ATON is burned by stakes on other events, and the factor rises.
Burn ==
    /\ currentFactor' \in { f \in Factors : f > currentFactor }
    /\ UNCHANGED <<stakes, eventPlayers, winner, factorATON, stakeFinalized,
                   paid, fees, shares>>

\* finalizePlayerEvent, for a player with VUND at stake.
FinalizePlayerEvent(p) ==
    /\ winner # NoResult
    /\ p \notin stakeFinalized
    /\ stakes[p].amountVUND > 0
    /\ stakeFinalized' = stakeFinalized \union {p}
    /\ paid' = [paid EXCEPT ![p] = @ + Earnings(p) - VaultFee(p)]
    /\ fees' = fees + VaultFee(p)
    /\ shares' = [shares EXCEPT ![p] = GrantedShare(p)]
    /\ UNCHANGED <<stakes, eventPlayers, winner, factorATON, currentFactor>>

Next ==
    \/ \E w \in Winners : Close(w)
    \/ Burn
    \/ \E p \in Players : FinalizePlayerEvent(p)

Spec == Init /\ [][Next]_vars

-----------------------------------------------------------------------------
(* Properties.                                                             *)

PaidOut == SumFunctionOnSet(paid, Players) + fees

\* The factor is still that of closing, or no ATON is at stake for it to revalue.
FactorIsIdle ==
    factorATON \in {0, currentFactor} \/ \A p \in Players : stakes[p].amountATON = 0

AtRest == winner # Tie /\ FactorIsIdle

Pool == INSTANCE Escrow WITH
            Stakers <- Players, pot <- WholeRawVUND - PaidOut, settled <- stakeFinalized

\* The pool is an escrow: with an idle factor and no tie, the payouts of a
\* decided event, each computed on its own from the totals, never add up to more
\* than its stakes, in whatever order they are collected (Arenaton.sol 1068-1124).
PoolIsEscrow ==
    [][AtRest' => Pool!Next \/ UNCHANGED <<WholeRawVUND - PaidOut, stakeFinalized>>]_vars

\* The fee never turns a win into a loss: a winner paid less than the stake has
\* paid no fee (Arenaton.sol 1370-1373).
FeeSparesTheStake ==
    [][\A p \in Players :
          p \in stakeFinalized' \ stakeFinalized /\ HasWon(p)
              /\ paid'[p] < stakes[p].amountVUND => fees' = fees]_vars

\* Players who staked the same VUND, and no ATON, on the same team are paid the
\* same, early or late and whatever the factor has done meanwhile: the team's
\* total is taken at the factor stored at closing (Vault.sol 580-583, 639-642).
PureStakesArePaidAlike ==
    \A p, q \in stakeFinalized :
        stakes[p] = stakes[q] /\ stakes[p].amountATON = 0 => paid[p] = paid[q]

\* Arenaton.sol 1065: a share is "the percentage of the total stake that belongs
\* to the player", so the shares of all who collect are a hundred per cent or less.
SharesWithinTheWhole ==
    SumFunctionOnSet(shares, Players) <= pct_denom
=============================================================================
