----------------------------- MODULE Arenaton -----------------------------
(***************************************************************************)
(* The betting protocol: the oracle request queues of Arenaton.sol and the *)
(* book of events, stakes and players of Vault.sol it writes through.      *)
(*                                                                         *)
(* One action is one transaction, with every call it makes.  A transaction *)
(* that reverts leaves no trace, so every revert is a missing step: this   *)
(* covers the transfers out of a wallet whose balance or allowance is too  *)
(* small, a caller without its role, and the checks written out here as    *)
(* guards.  The VUND and ATON that move are the matter of other modules;   *)
(* here a stake is its amounts.  ATON is counted at its worth in VUND.     *)
(***************************************************************************)
EXTENDS Tools, SwapPop, FiniteSets, FiniteSetsExt

CONSTANTS
    Events,         \* event identifiers (bytes8)
    Players,        \* player addresses
    Sports,         \* sport identifiers the oracle may give
    Coins,          \* the supported coins of the vault's coinList
    VUND,           \* the vault's own token, one of Coins
    CoinInfo,       \* what the conversions read of each coin
    Amounts,        \* coin amounts a caller may name
    AtonAmounts,    \* ATON amounts a caller may name
    Bonuses,        \* ATON the VUND rocket NFT may add to a stake in VUND
    MinimumStakes,  \* values the owner may give minimumStake
    Winners,        \* results the oracle may report
    TenMinutes,     \* age past which a request is dropped
    MaxTime,        \* bound: the clock stops here, and events start earlier
    MaxStakes       \* bound: stakes registered per event

Teams == {1, 2}         \* TEAM_A and TEAM_B
BadTeam == 3            \* stands for every other uint8 a caller may name
NoResult == -1
Tie == -2
Cancelled == -3

ASSUME ConstantsAssumption ==
    /\ Sports \subseteq Nat \ {0}
    /\ VUND \in Coins
    /\ CoinInfo \in [Coins -> Coin]
    /\ Amounts \subseteq Nat /\ AtonAmounts \subseteq Nat /\ Bonuses \subseteq Nat
    /\ MinimumStakes \subseteq Nat
    /\ Winners \subseteq Int
    /\ TenMinutes \in Nat /\ MaxTime \in Nat /\ MaxStakes \in Nat

VARIABLES
    now,            \* block.timestamp
    minimumStake,   \* Arenaton: least VUND worth of an opening stake
    activeCoins,    \* Vault: coins whose active flag is set
    openRequests,   \* Arenaton: oracleOpenRequests
    closeRequests,  \* Arenaton: oracleCloseRequests
    events,         \* Vault: events, one record per identifier
    activeEvents,   \* Vault: identifiers of the running events
    players         \* Vault: players, one record per address

vars == <<now, minimumStake, activeCoins, openRequests, closeRequests,
          events, activeEvents, players>>

-----------------------------------------------------------------------------
(* Types.  A queue is a set of requests: the code finds a request by its   *)
(* event and never by its place (CleanRequests treats the array itself); a *)
(* mapping from addresses to flags is the set of the addresses it marks.   *)

Stake == [amountVUND : Nat, amountATON : Nat, team : Teams \union {0}]

OpenRequest ==
    [event : Events, requester : Players, amountCoin : Nat, coin : Coins,
     amountATON : Nat, team : Teams \union {BadTeam}, time : Nat]

CloseRequest == [event : Events, requester : Players, time : Nat]

Event ==
    [startDate : Nat, sport : Sports \union {0}, active : BOOLEAN, winner : Int,
     totalVUND : [Teams -> Nat], totalATON : [Teams -> Nat],
     maxStakeVUND : Nat, stakeCount : Nat, players : Seq(Players),
     stakes : [Players -> Stake],
     stakeFinalized : SUBSET Players, isOpenEvent : SUBSET Players]

Counter == [Sports \union {0} -> Nat]    \* place 0 counts every sport

Player ==
    [activeEvents : Seq(Events), closedEvents : Seq(Events), level : Nat,
     totalCount : Counter, winCount : Counter, lossCount : Counter,
     openWinCount : Counter]

TypeOK ==
    /\ now \in Nat
    /\ minimumStake \in Nat
    /\ activeCoins \subseteq Coins
    /\ openRequests \subseteq OpenRequest
    /\ closeRequests \subseteq CloseRequest
    /\ events \in [Events -> Event]
    /\ activeEvents \in Seq(Events)
    /\ players \in [Players -> Player]

-----------------------------------------------------------------------------
(* The state after deployment: every mapping holds zeroes.                 *)

NoStake == [amountVUND |-> 0, amountATON |-> 0, team |-> 0]

UnknownEvent ==
    [startDate |-> 0, sport |-> 0, active |-> FALSE, winner |-> 0,
     totalVUND |-> [t \in Teams |-> 0], totalATON |-> [t \in Teams |-> 0],
     maxStakeVUND |-> 0, stakeCount |-> 0, players |-> <<>>,
     stakes |-> [p \in Players |-> NoStake],
     stakeFinalized |-> {}, isOpenEvent |-> {}]

Zeroes == [s \in Sports \union {0} |-> 0]

NewPlayer ==
    [activeEvents |-> <<>>, closedEvents |-> <<>>, level |-> 0,
     totalCount |-> Zeroes, winCount |-> Zeroes, lossCount |-> Zeroes,
     openWinCount |-> Zeroes]

Init ==
    /\ now = 0
    /\ minimumStake \in MinimumStakes
    /\ activeCoins = Coins
    /\ openRequests = {}
    /\ closeRequests = {}
    /\ events = [e \in Events |-> UnknownEvent]
    /\ activeEvents = <<>>
    /\ players = [p \in Players |-> NewPlayer]

-----------------------------------------------------------------------------
(* The vault's part of a transaction.                                      *)

WorthVUND(amountCoin, coin) == CoinToVUND(amountCoin, CoinInfo[coin])

\* Mutant of CanAddStake: any team number.
CanAddStakeAnyTeam(ev, p, coin, team) ==
    /\ coin \in activeCoins
    /\ ev.startDate > now
    /\ ev.active
    /\ \/ ev.stakes[p].amountVUND = 0 /\ ev.stakes[p].amountATON = 0
       \/ ev.stakes[p].team = team
    /\ ev.stakeCount < MaxStakes

\* Mutant of Raised: a later stake replaces the earlier one.
Replaced(stakes, p, vund, aton, team) ==
    [stakes EXCEPT ![p] = [amountVUND |-> vund, amountATON |-> aton, team |-> team]]

\* Mutant of WithBet: the event is listed again by every stake.
WithBetListedAgain(pl, e, vund, ev, opened) ==
    [pl EXCEPT !.activeEvents = Append(@, e),
               !.level = @ + opened + (IF vund > ev.maxStakeVUND THEN 1 ELSE 0)]

\* The event addEvent writes; it refuses one that runs or has been staked on.
CanAddEvent(e, startDate) ==
    startDate > now /\ ~events[e].active /\ events[e].stakeCount = 0

Populated(e, startDate, sport) ==
    [events[e] EXCEPT !.startDate = startDate, !.sport = sport,
                      !.stakeCount = 0, !.active = TRUE, !.winner = NoResult]

\* addStake's checks: the coin, the event, and one team per player.
CanAddStake(ev, p, coin, team) ==
    /\ coin \in activeCoins
    /\ ev.startDate > now
    /\ ev.active
    /\ team \in Teams
    /\ \/ ev.stakes[p].amountVUND = 0 /\ ev.stakes[p].amountATON = 0
       \/ ev.stakes[p].team = team
    /\ ev.stakeCount < MaxStakes

Plus(totals, team, amount) == [totals EXCEPT ![team] = @ + amount]

\* A first stake sets the team; a later one is on the same team.
Raised(stakes, p, vund, aton, team) ==
    [stakes EXCEPT ![p] = [amountVUND |-> @.amountVUND + vund,
                           amountATON |-> @.amountATON + aton, team |-> team]]

\* addStake's writes to the event; joined: the player already lists it.
WithStake(ev, p, vund, aton, team, isOpen, joined) ==
    [ev EXCEPT
        !.stakes = Raised(@, p, vund, aton, team),
        !.totalVUND = Plus(@, team, vund),
        !.totalATON = Plus(@, team, aton),
        !.players = IF joined THEN @ ELSE Append(@, p),
        !.maxStakeVUND = IF vund > @ THEN vund ELSE @,
        !.stakeCount = @ + 1,
        !.isOpenEvent = IF isOpen THEN @ \union {p} ELSE @]

\* addStake's writes to the player; opened: levels addEvent has added before.
WithBet(pl, e, vund, ev, opened) ==
    [pl EXCEPT
        !.activeEvents = IF e \in Elements(@) THEN @ ELSE Append(@, e),
        !.level = @ + opened + (IF vund > ev.maxStakeVUND THEN 1 ELSE 0)]

AddStake(e, ev, p, coin, vund, aton, team, isOpen, opened) ==
    /\ CanAddStake(ev, p, coin, team)
    /\ events' = [events EXCEPT ![e] = WithStake(ev, p, vund, aton, team, isOpen,
                                          e \in Elements(players[p].activeEvents))]
    /\ players' = [players EXCEPT ![p] = WithBet(@, e, vund, ev, opened)]

-----------------------------------------------------------------------------
(* Arenaton's part.                                                        *)

\* _newStake: refuses a started event, caps the ATON at the worth of the
\* coins and adds the bonus of a stake in VUND.
NewStake(e, ev, p, coin, amountCoin, amountATON, team, isOpen, opened) ==
    LET vund == WorthVUND(amountCoin, coin)
        capped == IF amountATON > vund THEN vund ELSE amountATON
    IN  /\ ev.startDate > now
        /\ \E bonus \in IF coin = VUND THEN Bonuses \union {0} ELSE {0} :
              AddStake(e, ev, p, coin, vund, capped + bonus, team, isOpen, opened)

\* _cleanOracleRequests: requests older than ten minutes are dropped.
Fresh(requests) == { r \in requests : r.time + TenMinutes >= now }

HasRequest(requests, e) == \E r \in requests : r.event = e

TotalStaked(e) == events[e].totalVUND[1] + events[e].totalVUND[2]

\* Mutants of RequestOpen: queued beside an earlier request; no minimum.
RequestOpenAgain(p, e, amountCoin, coin, amountATON, team) ==
    /\ TotalStaked(e) = 0
    /\ WorthVUND(amountCoin, coin) >= minimumStake
    /\ openRequests' = openRequests \union
          { [event |-> e, requester |-> p, amountCoin |-> amountCoin, coin |-> coin,
             amountATON |-> amountATON, team |-> team, time |-> now] }
    /\ UNCHANGED <<now, minimumStake, activeCoins, closeRequests, events,
                   activeEvents, players>>

RequestOpenFree(p, e, amountCoin, coin, amountATON, team) ==
    /\ TotalStaked(e) = 0
    /\ openRequests' =
          { r \in openRequests : r.event # e } \union
          { [event |-> e, requester |-> p, amountCoin |-> amountCoin, coin |-> coin,
             amountATON |-> amountATON, team |-> team, time |-> now] }
    /\ UNCHANGED <<now, minimumStake, activeCoins, closeRequests, events,
                   activeEvents, players>>

\* _addOracleOpenRequest, for the first stake on an event: the stake waits
\* in the queue, in the place of an earlier request for the same event.
RequestOpen(p, e, amountCoin, coin, amountATON, team) ==
    /\ TotalStaked(e) = 0
    /\ WorthVUND(amountCoin, coin) >= minimumStake
    /\ openRequests' =
          { r \in openRequests : r.event # e } \union
          { [event |-> e, requester |-> p, amountCoin |-> amountCoin, coin |-> coin,
             amountATON |-> amountATON, team |-> team, time |-> now] }
    /\ UNCHANGED <<now, minimumStake, activeCoins, closeRequests, events,
                   activeEvents, players>>

\* stake, once somebody has staked on the event.
StakeOn(p, e, amountCoin, coin, amountATON, team) ==
    /\ TotalStaked(e) # 0
    /\ NewStake(e, events[e], p, coin, amountCoin, amountATON, team,
                \/ team = 1 /\ events[e].totalVUND[2] = 0
                \/ team = 2 /\ events[e].totalVUND[1] = 0, 0)
    /\ UNCHANGED <<now, minimumStake, activeCoins, openRequests, closeRequests,
                   activeEvents>>

\* stakeOracle: an oracle stakes its own coins in the name of a player.  No
\* minimum, no cap, no bonus, and the ATON is registered but not paid.
StakeOracle(p, e, amountCoin, coin, amountATON, team) ==
    /\ events[e].startDate > now
    /\ AddStake(e, events[e], p, coin, WorthVUND(amountCoin, coin), amountATON,
                team, FALSE, 0)
    /\ UNCHANGED <<now, minimumStake, activeCoins, openRequests, closeRequests,
                   activeEvents>>

\* fullfillOpenRequest: the oracle dates the event; the event is created and
\* the waiting stake registered, or the whole transaction reverts.
FulfillOpenRequest(e, startDate, sport) ==
    \E r \in openRequests :
        /\ r.event = e
        /\ r.team \in Teams
        /\ CanAddEvent(e, startDate)
        /\ NewStake(e, Populated(e, startDate, sport), r.requester, r.coin,
                    r.amountCoin, r.amountATON, r.team, TRUE, 1)
        /\ activeEvents' = Append(activeEvents, e)
        /\ openRequests' = Fresh(openRequests \ {r})
        /\ closeRequests' = Fresh(closeRequests)
        /\ UNCHANGED <<now, minimumStake, activeCoins>>

\* Mutant of AddCloseRequest: a closed event may be closed again.
AddCloseRequestAlways(p, e) ==
    /\ events[e].startDate < now
    /\ ~HasRequest(closeRequests, e)
    /\ closeRequests' = closeRequests \union
                          { [event |-> e, requester |-> p, time |-> now] }
    /\ UNCHANGED <<now, minimumStake, activeCoins, openRequests, events,
                   activeEvents, players>>

\* addOracleCloseRequest: anybody may ask for the result of a started event.
AddCloseRequest(p, e) ==
    /\ events[e].startDate < now
    /\ events[e].active
    /\ ~HasRequest(closeRequests, e)
    /\ closeRequests' = closeRequests \union
                          { [event |-> e, requester |-> p, time |-> now] }
    /\ UNCHANGED <<now, minimumStake, activeCoins, openRequests, events,
                   activeEvents, players>>

\* fullfillCloseRequest with the vault's closeEvent.
FulfillCloseRequest(e, winner) ==
    \E r \in closeRequests :
        /\ r.event = e
        /\ events[e].active /\ events[e].winner = NoResult
        /\ e \in Elements(activeEvents)
        /\ events' = [events EXCEPT ![e].active = FALSE, ![e].winner = winner]
        /\ activeEvents' = SwapPop(activeEvents, e)
        /\ players' = [players EXCEPT ![r.requester].level = @ + 1]
        /\ openRequests' = Fresh(openRequests)
        /\ closeRequests' = Fresh(closeRequests \ {r})
        /\ UNCHANGED <<now, minimumStake, activeCoins>>

\* Mutant of Counted: the sport is forgotten.
CountedOverall(counter, sport) == [counter EXCEPT ![0] = @ + 1]

\* setPlayerFinalizedEvent's counters: one count overall, one for the sport.
Counted(counter, sport) == [counter EXCEPT ![0] = @ + 1, ![sport] = @ + 1]

CountedIf(condition, counter, sport) ==
    IF condition THEN Counted(counter, sport) ELSE counter

HasWon(ev, p) == ev.winner = ev.stakes[p].team

\* A draw: the branch of setPlayerFinalizedEvent that adds to lossCount.
HasDrawn(ev, p) == ~HasWon(ev, p) /\ ev.winner \in {Tie, Cancelled}

LevelsEarned(ev, p) ==
    IF HasWon(ev, p) THEN 3 ELSE IF HasDrawn(ev, p) THEN 2 ELSE 1

\* Mutant of Settled: the event is not listed as closed.
SettledUnlisted(pl, p, e, ev) ==
    [pl EXCEPT
        !.activeEvents = SwapPop(@, e),
        !.level = @ + LevelsEarned(ev, p),
        !.totalCount = Counted(@, ev.sport),
        !.winCount = CountedIf(HasWon(ev, p), @, ev.sport),
        !.lossCount = CountedIf(HasDrawn(ev, p), @, ev.sport),
        !.openWinCount = CountedIf(HasWon(ev, p) /\ p \in ev.isOpenEvent, @, ev.sport)]

\* The record of a player whose stake on e is settled.
Settled(pl, p, e, ev) ==
    [pl EXCEPT
        !.activeEvents = SwapPop(@, e),
        !.closedEvents = Append(@, e),
        !.level = @ + LevelsEarned(ev, p),
        !.totalCount = Counted(@, ev.sport),
        !.winCount = CountedIf(HasWon(ev, p), @, ev.sport),
        !.lossCount = CountedIf(HasDrawn(ev, p), @, ev.sport),
        !.openWinCount = CountedIf(HasWon(ev, p) /\ p \in ev.isOpenEvent, @, ev.sport)]

\* Mutants of Finalize: running events too; the stake cleared once paid.
FinalizeUndecided(p, e) ==
    /\ p \notin events[e].stakeFinalized
    /\ events[e].stakes[p].amountVUND > 0
    /\ e \in Elements(players[p].activeEvents)
    /\ events' = [events EXCEPT ![e].stakeFinalized = @ \union {p}]
    /\ players' = [players EXCEPT ![p] = Settled(@, p, e, events[e])]
    /\ UNCHANGED <<now, minimumStake, activeCoins, openRequests, closeRequests,
                   activeEvents>>

FinalizeAndClear(p, e) ==
    /\ ~events[e].active
    /\ events[e].winner # NoResult
    /\ p \notin events[e].stakeFinalized
    /\ events[e].stakes[p].amountVUND > 0
    /\ e \in Elements(players[p].activeEvents)
    /\ events' = [events EXCEPT ![e].stakeFinalized = @ \union {p},
                                ![e].stakes[p] = NoStake]
    /\ players' = [players EXCEPT ![p] = Settled(@, p, e, events[e])]
    /\ UNCHANGED <<now, minimumStake, activeCoins, openRequests, closeRequests,
                   activeEvents>>

\* finalizePlayerEvent: a call that finds nothing to finalise writes nothing.
Finalize(p, e) ==
    /\ ~events[e].active
    /\ events[e].winner # NoResult
    /\ p \notin events[e].stakeFinalized
    /\ events[e].stakes[p].amountVUND > 0
    /\ e \in Elements(players[p].activeEvents)
    /\ events' = [events EXCEPT ![e].stakeFinalized = @ \union {p}]
    /\ players' = [players EXCEPT ![p] = Settled(@, p, e, events[e])]
    /\ UNCHANGED <<now, minimumStake, activeCoins, openRequests, closeRequests,
                   activeEvents>>

-----------------------------------------------------------------------------
(* The owner and the clock.                                                *)

SetMinimumStake(amount) ==
    /\ minimumStake' = amount
    /\ UNCHANGED <<now, activeCoins, openRequests, closeRequests, events,
                   activeEvents, players>>

ToggleCoin(coin) ==
    /\ activeCoins' = IF coin \in activeCoins THEN activeCoins \ {coin}
                                              ELSE activeCoins \union {coin}
    /\ UNCHANGED <<now, minimumStake, openRequests, closeRequests, events,
                   activeEvents, players>>

Tick ==
    /\ now < MaxTime
    /\ now' = now + 1
    /\ UNCHANGED <<minimumStake, activeCoins, openRequests, closeRequests, events,
                   activeEvents, players>>

-----------------------------------------------------------------------------
StakeCall(p, e) ==
    \E amount \in Amounts, coin \in Coins, aton \in AtonAmounts,
       team \in Teams \union {BadTeam} :
        \/ RequestOpen(p, e, amount, coin, aton, team)
        \/ StakeOn(p, e, amount, coin, aton, team)
        \/ StakeOracle(p, e, amount, coin, aton, team)

OracleCall(e) ==
    \/ \E startDate \in 1..(MaxTime - 1), sport \in Sports :
          FulfillOpenRequest(e, startDate, sport)
    \/ \E winner \in Winners : FulfillCloseRequest(e, winner)

OwnerCall ==
    \/ \E amount \in MinimumStakes : SetMinimumStake(amount)
    \/ \E coin \in Coins : ToggleCoin(coin)

Next ==
    \/ \E p \in Players, e \in Events :
          StakeCall(p, e) \/ AddCloseRequest(p, e) \/ Finalize(p, e)
    \/ \E e \in Events : OracleCall(e)
    \/ OwnerCall
    \/ Tick

Spec == Init /\ [][Next]_vars
-----------------------------------------------------------------------------
(* What a fair environment does: time passes, somebody asks for the result *)
(* of a started event, the oracle answers, every player collects.          *)
Fairness ==
    /\ WF_vars(Tick)
    /\ \A e \in Events :
          /\ WF_vars(\E p \in Players : AddCloseRequest(p, e))
          /\ WF_vars(\E winner \in Winners : FulfillCloseRequest(e, winner))
          /\ \A p \in Players : WF_vars(Finalize(p, e))

FairSpec == Spec /\ Fairness

-----------------------------------------------------------------------------
(* Invariants.                                                             *)

\* An event is known to the book once it has been staked on.
Exists(e) == events[e].stakeCount > 0

HasStake(p, e) == events[e].stakes[p].amountVUND > 0

\* The two queues hold at most one request for an event, so that the first
\* match of the oracle's search is the only one (Arenaton.sol 269-280, 296-307).
RequestsAreExclusive ==
    /\ \A r, s \in openRequests : r.event = s.event => r = s
    /\ \A r, s \in closeRequests : r.event = s.event => r = s

\* No opening stake waits for an event that is already in the book: addEvent
\* would revert and take the oracle's transaction with it (Vault.sol 296-299).
OpenRequestsAreForNewEvents == \A r \in openRequests : ~Exists(r.event)

\* A queued close request can be answered: its event runs, has started and has
\* no result, so closeEvent cannot revert on it (Vault.sol 567, 618).
CloseRequestsAreAnswerable ==
    \A r \in closeRequests :
        /\ events[r.event].active
        /\ events[r.event].winner = NoResult
        /\ events[r.event].startDate < r.time
        /\ r.event \in Elements(activeEvents)

\* The vault's list of running events is the set of events flagged active, each
\* once; exactly those have no result in store (Vault.sol 306, 562-625).
ActiveEventsMatchFlags ==
    /\ Distinct(activeEvents)
    /\ \A e \in Events : e \in Elements(activeEvents) <=> events[e].active
    /\ \A e \in Events : events[e].active =>
                            Exists(e) /\ events[e].winner = NoResult

\* The team totals the odds and payouts are computed from are the sums of the
\* players' stakes (Vault.sol 500-512).
TotalsMatchStakes ==
    \A e \in Events, t \in Teams :
        LET side == { p \in Players : events[e].stakes[p].team = t } IN
        /\ events[e].totalVUND[t] =
              SumFunctionOnSet([p \in Players |-> events[e].stakes[p].amountVUND], side)
        /\ events[e].totalATON[t] =
              SumFunctionOnSet([p \in Players |-> events[e].stakes[p].amountATON], side)

\* Nobody is paid before there is a result, and only for a stake (Arenaton.sol
\* 916, Vault.sol 733-735).
FinalizedMeansDecided ==
    \A e \in Events, p \in Players :
        p \in events[e].stakeFinalized =>
            /\ ~events[e].active
            /\ events[e].winner # NoResult
            /\ HasStake(p, e)

\* The lists of a player and of an event tell the same story: a player is on
\* the event's list, once, iff the event is on one of the player's two lists,
\* and it is on the closed one iff the stake is finalised.  So the removal in
\* setPlayerFinalizedEvent finds the event (Vault.sol 515-518, 733-739, 849-873).
ListsAgree ==
    /\ \A e \in Events : Distinct(events[e].players)
    /\ \A p \in Players : Distinct(players[p].activeEvents)
                            /\ Distinct(players[p].closedEvents)
    /\ \A e \in Events, p \in Players :
        /\ e \in Elements(players[p].closedEvents) <=> p \in events[e].stakeFinalized
        /\ e \in Elements(players[p].activeEvents) =>
              p \notin events[e].stakeFinalized
        /\ p \in Elements(events[e].players) <=>
              \/ e \in Elements(players[p].activeEvents)
              \/ e \in Elements(players[p].closedEvents)
        /\ HasStake(p, e) => p \in Elements(events[e].players)

FinalizedWith(p, Condition(_)) ==
    Cardinality({ e \in Events :
                    p \in events[e].stakeFinalized /\ Condition(events[e]) })

\* The counters of a player can be recomputed from the book (Vault.sol 741-760).
CountersMatchBook ==
    \A p \in Players :
        /\ players[p].totalCount[0] = Len(players[p].closedEvents)
        /\ players[p].winCount[0] = FinalizedWith(p, LAMBDA ev : HasWon(ev, p))
        /\ \A s \in Sports : players[p].winCount[s] =
              FinalizedWith(p, LAMBDA ev : HasWon(ev, p) /\ ev.sport = s)
        /\ players[p].openWinCount[0] =
              FinalizedWith(p, LAMBDA ev : HasWon(ev, p) /\ p \in ev.isOpenEvent)

-----------------------------------------------------------------------------
(* Action properties.                                                      *)

\* A stake only grows, never changes sides, and never moves once its event has
\* started or has been closed (Vault.sol 494-509).
StakesGrowBeforeStart ==
    [][\A e \in Events, p \in Players :
          LET old == events[e].stakes[p]  new == events'[e].stakes[p] IN
          new # old =>
              /\ events'[e].active /\ now < events'[e].startDate
              /\ new.amountVUND >= old.amountVUND
              /\ new.amountATON >= old.amountATON
              /\ old.amountVUND > 0 => new.team = old.team]_vars

\* Once closed, an event keeps its result, date, totals and players for good,
\* so that late collectors are paid from the numbers of early ones (Vault.sol
\* 296-299, 494, 567).
ClosedEventIsFrozen ==
    [][\A e \in Events :
          LET old == events[e]  new == events'[e] IN
          Exists(e) /\ ~old.active =>
              [new EXCEPT !.stakeFinalized = old.stakeFinalized] = old]_vars

\* A finalised stake stays finalised, and a player's closed list grows by the
\* event finalised in that step and no other (Vault.sol 735-739).
FinalizedOnce ==
    [][\A p \in Players :
          LET settledNow == { e \in Events : /\ p \notin events[e].stakeFinalized
                                             /\ p \in events'[e].stakeFinalized } IN
          /\ \A e \in Events : events[e].stakeFinalized \subseteq
                                  events'[e].stakeFinalized
          /\ Len(players'[p].closedEvents) =
                Len(players[p].closedEvents) + Cardinality(settledNow)]_vars

-----------------------------------------------------------------------------
(* The book as those who bet see it.                                       *)

\* An event nobody has staked on takes bets: the first one creates it.
PhaseOf(ev) ==
    IF ev.stakeCount = 0 THEN "open"
    ELSE IF ~ev.active THEN "decided"
    ELSE IF ev.startDate > now THEN "open" ELSE "started"

Book == INSTANCE Bets WITH
            Results <- Winners,
            phase <- [e \in Events |-> PhaseOf(events[e])],
            result <- [e \in Events |-> IF PhaseOf(events[e]) = "decided"
                                        THEN events[e].winner ELSE NoResult],
            stakes <- [e \in Events |-> events[e].stakes],
            settled <- [e \in Events |-> events[e].stakeFinalized]

\* Requests queued, replaced, dropped and answered late, coins switched off and
\* players who collect while others bet come to what Bets says: no bet once an
\* event has started, one result for an event that has, and that final; no
\* settlement before it nor twice (Vault.sol 296-299, 494-509, 562-567, 733-735).
EventsAreBets == Book!Init /\ [][Book!Next]_(Book!vars)

-----------------------------------------------------------------------------
(* Liveness.                                                               *)

\* Under FairSpec every VUND stake is settled one day: no order of stakes,
\* requests, clean-ups and closings leaves it locked in the vault.
StakesAreSettled ==
    \A e \in Events, p \in Players :
        HasStake(p, e) ~> p \in events[e].stakeFinalized
=============================================================================
