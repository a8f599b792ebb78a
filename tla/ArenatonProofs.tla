--------------------------- MODULE ArenatonProofs ---------------------------
(***************************************************************************)
(* The betting protocol's invariants, then what one of its steps may do to *)
(* the book, and from it the action properties.                            *)
(***************************************************************************)
EXTENDS Arenaton, DataLemmas

-----------------------------------------------------------------------------
(* The values the operators of the protocol compute.                       *)

LEMMA WorthIsNat ==
    ASSUME NEW amount \in Nat, NEW coin \in Coins
    PROVE  WorthVUND(amount, coin) \in Nat
<1> DEFINE info == CoinInfo[coin]
<1>1. info \in Coin
    BY ConstantsAssumption
<1> HIDE DEF info
<1>2. info.scale \in Nat \ {0}
    BY <1>1 DEF Coin
<1>3. amount \div info.scale \in Nat /\ amount * info.scale \in Nat
    BY <1>2
<1> QED BY <1>3 DEF WorthVUND, CoinToVUND, info

\* WithStake field by field.
LEMMA WithStakeFields ==
    ASSUME NEW ev \in Event, NEW p \in Players, NEW vund \in Nat, NEW aton \in Nat,
           NEW team \in Teams, NEW isOpen, NEW joined,
           NEW r, r = WithStake(ev, p, vund, aton, team, isOpen, joined)
    PROVE  /\ r.startDate = ev.startDate /\ r.sport = ev.sport
           /\ r.active = ev.active /\ r.winner = ev.winner
           /\ r.stakeFinalized = ev.stakeFinalized
           /\ r.totalVUND = Plus(ev.totalVUND, team, vund)
           /\ r.totalATON = Plus(ev.totalATON, team, aton)
           /\ r.stakeCount = ev.stakeCount + 1
           /\ r.players = IF joined THEN ev.players ELSE Append(ev.players, p)
           /\ r.stakes = Raised(ev.stakes, p, vund, aton, team)
BY DEF WithStake, Event

LEMMA WithStakeType ==
    ASSUME NEW ev \in Event, NEW p \in Players, NEW vund \in Nat, NEW aton \in Nat,
           NEW team \in Teams, NEW isOpen, NEW joined
    PROVE  WithStake(ev, p, vund, aton, team, isOpen, joined) \in Event
<1>1. Raised(ev.stakes, p, vund, aton, team) \in [Players -> Stake]
    BY SMTT(30) DEF Event, Stake, Raised
<1>2. (IF joined THEN ev.players ELSE Append(ev.players, p)) \in Seq(Players)
    BY DEF Event
<1>3. /\ Plus(ev.totalVUND, team, vund) \in [Teams -> Nat]
      /\ Plus(ev.totalATON, team, aton) \in [Teams -> Nat]
    BY SMTT(30) DEF Event, Plus
<1>4. (IF isOpen THEN ev.isOpenEvent \union {p} ELSE ev.isOpenEvent)
         \in SUBSET Players
    BY DEF Event
<1>5. (IF vund > ev.maxStakeVUND THEN vund ELSE ev.maxStakeVUND) \in Nat
      /\ ev.stakeCount + 1 \in Nat
    BY DEF Event
<1> QED BY <1>1, <1>2, <1>3, <1>4, <1>5, Zenon DEF WithStake, Event

LEMMA WithBetType ==
    ASSUME NEW pl \in Player, NEW e \in Events, NEW vund \in Nat, NEW ev \in Event,
           NEW opened \in Nat
    PROVE  WithBet(pl, e, vund, ev, opened) \in Player
<1>1. (IF e \in Elements(pl.activeEvents) THEN pl.activeEvents
                                          ELSE Append(pl.activeEvents, e)) \in Seq(Events)
    BY DEF Player
<1>2. pl.level + opened + (IF vund > ev.maxStakeVUND THEN 1 ELSE 0) \in Nat
    BY DEF Player
<1> QED BY <1>1, <1>2, Zenon DEF WithBet, Player

LEMMA PopulatedType ==
    ASSUME TypeOK, NEW e \in Events, NEW startDate \in Nat, NEW sport \in Sports
    PROVE  Populated(e, startDate, sport) \in Event
<1>1. events[e] \in Event
    BY DEF TypeOK
<1>2. NoResult \in Int /\ 0 \in Nat /\ sport \in Sports \union {0}
    BY DEF NoResult
<1> QED BY <1>1, <1>2, Zenon DEF Populated, Event

LEMMA CountedType ==
    ASSUME NEW c \in Counter, NEW sport \in Sports \union {0}, NEW condition \in BOOLEAN
    PROVE  Counted(c, sport) \in Counter /\ CountedIf(condition, c, sport) \in Counter
<1>1. Counted(c, sport) \in Counter
    BY DEF Counted, Counter
<1> QED BY <1>1 DEF CountedIf

LEMMA SettledType ==
    ASSUME NEW pl \in Player, NEW p \in Players, NEW e \in Events, NEW ev \in Event,
           Distinct(pl.activeEvents), e \in Elements(pl.activeEvents)
    PROVE  Settled(pl, p, e, ev) \in Player
<1>1. SwapPop(pl.activeEvents, e) \in Seq(Events)
    BY SwapPopRemoves DEF Player
<1>2. Append(pl.closedEvents, e) \in Seq(Events)
    BY DEF Player
<1>3. pl.level + LevelsEarned(ev, p) \in Nat
    BY DEF Player, LevelsEarned
<1>4. HasWon(ev, p) \in BOOLEAN /\ HasDrawn(ev, p) \in BOOLEAN
      /\ (HasWon(ev, p) /\ p \in ev.isOpenEvent) \in BOOLEAN
    BY DEF HasWon, HasDrawn
<1>5. /\ Counted(pl.totalCount, ev.sport) \in Counter
      /\ CountedIf(HasWon(ev, p), pl.winCount, ev.sport) \in Counter
      /\ CountedIf(HasDrawn(ev, p), pl.lossCount, ev.sport) \in Counter
      /\ CountedIf(HasWon(ev, p) /\ p \in ev.isOpenEvent, pl.openWinCount, ev.sport)
            \in Counter
    BY <1>4, CountedType DEF Player, Event
<1> QED BY <1>1, <1>2, <1>3, <1>5, Zenon DEF Settled, Player

-----------------------------------------------------------------------------
(* The inductive invariant.  To the invariants of the protocol it adds that *)
(* an event nobody has staked on is blank: opening one starts from nothing. *)

UnusedEventsAreBlank ==
    \A e \in Events : ~Exists(e) => events[e] = UnknownEvent

IInv ==
    /\ TypeOK
    /\ RequestsAreExclusive
    /\ CloseRequestsAreAnswerable
    /\ ActiveEventsMatchFlags
    /\ FinalizedMeansDecided
    /\ ListsAgree
    /\ UnusedEventsAreBlank

\* The part of it that depends on the book alone.
BookInv == FinalizedMeansDecided /\ ListsAgree /\ UnusedEventsAreBlank

LEMMA UnknownEventType == UnknownEvent \in Event
<1>1. NoStake \in Stake
    BY DEF NoStake, Stake
<1>2. /\ <<>> \in Seq(Players)
      /\ [t \in Teams |-> 0] \in [Teams -> Nat]
      /\ [p \in Players |-> NoStake] \in [Players -> Stake]
      /\ 0 \in Nat /\ 0 \in Int /\ 0 \in Sports \union {0}
    BY <1>1
<1> QED BY <1>2, Zenon DEF UnknownEvent, Event

LEMMA NewPlayerType == NewPlayer \in Player
<1>1. Zeroes \in Counter /\ <<>> \in Seq(Events) /\ 0 \in Nat
    BY DEF Zeroes, Counter
<1> QED BY <1>1, Zenon DEF NewPlayer, Player

LEMMA InitIInv == Init => IInv
<1> SUFFICES ASSUME Init PROVE IInv
    OBVIOUS
<1>1. TypeOK
    <2>1. minimumStake \in Nat
        BY ConstantsAssumption DEF Init
    <2> QED BY <2>1, UnknownEventType, NewPlayerType DEF Init, TypeOK
<1>2. RequestsAreExclusive /\ CloseRequestsAreAnswerable
    BY DEF Init, RequestsAreExclusive, CloseRequestsAreAnswerable
<1>3. \A e \in Events : events[e] = UnknownEvent
    BY DEF Init
<1>4. \A p \in Players : players[p].activeEvents = <<>> /\ players[p].closedEvents = <<>>
    BY DEF Init, NewPlayer
<1>5. /\ ~UnknownEvent.active /\ UnknownEvent.stakeFinalized = {}
      /\ UnknownEvent.players = <<>>
      /\ \A p \in Players : UnknownEvent.stakes[p].amountVUND = 0
    BY DEF UnknownEvent, NoStake
<1>6. ActiveEventsMatchFlags
    BY <1>3, <1>5, EmptyArray DEF Init, ActiveEventsMatchFlags
<1>7. FinalizedMeansDecided /\ UnusedEventsAreBlank
    BY <1>3, <1>5 DEF FinalizedMeansDecided, UnusedEventsAreBlank
<1>8. ListsAgree
    BY <1>3, <1>4, <1>5, EmptyArray DEF ListsAgree, HasStake
<1> QED BY <1>1, <1>2, <1>6, <1>7, <1>8 DEF IInv

\* Registering a stake on a running event, or on one being opened.
LEMMA StakeKeepsBook ==
    ASSUME IInv,
           NEW e \in Events, NEW p \in Players, NEW ev \in Event, NEW coin, NEW team,
           NEW vund \in Nat, NEW aton \in Nat, NEW isOpen, NEW opened \in Nat,
           ev.players = events[e].players, ev.stakes = events[e].stakes,
           ev.stakeFinalized = events[e].stakeFinalized, ev.winner = NoResult,
           events[e].active \/ ~Exists(e),
           AddStake(e, ev, p, coin, vund, aton, team, isOpen, opened)
    PROVE  /\ events' \in [Events -> Event] /\ players' \in [Players -> Player]
           /\ BookInv'
           /\ events'[e].active = TRUE /\ events'[e].winner = NoResult
           /\ events'[e].stakeCount > 0
           /\ events'[e].startDate = ev.startDate
           /\ \A f \in Events \ {e} : events'[f] = events[f]
<1> DEFINE joined == e \in Elements(players[p].activeEvents)
           r == WithStake(ev, p, vund, aton, team, isOpen, joined)
           q == WithBet(players[p], e, vund, ev, opened)
<1>1. TypeOK /\ FinalizedMeansDecided /\ ListsAgree /\ UnusedEventsAreBlank
    BY DEF IInv
<1>2. events' = [events EXCEPT ![e] = r] /\ players' = [players EXCEPT ![p] = q]
      /\ team \in Teams /\ ev.active
    BY DEF AddStake, CanAddStake
<1>3. r \in Event /\ q \in Player
    <2>1. joined \in BOOLEAN /\ players[p] \in Player
        BY <1>1 DEF TypeOK
    <2>2. r \in Event
        <3> HIDE DEF joined
        <3> QED BY <1>2, <2>1, WithStakeType
    <2> QED BY <2>1, <2>2, WithBetType
<1>4. events' \in [Events -> Event] /\ players' \in [Players -> Player]
    BY <1>1, <1>2, <1>3 DEF TypeOK
<1>5. /\ r.active /\ r.winner = NoResult /\ r.startDate = ev.startDate
      /\ r.stakeFinalized = events[e].stakeFinalized
      /\ r.stakeCount = ev.stakeCount + 1
      /\ r.players = IF joined THEN events[e].players ELSE Append(events[e].players, p)
      /\ r.stakes = Raised(events[e].stakes, p, vund, aton, team)
    <2>1. joined \in BOOLEAN
        OBVIOUS
    <2> HIDE DEF joined
    <2>2. r = WithStake(ev, p, vund, aton, team, isOpen, joined)
        OBVIOUS
    <2> HIDE DEF r
    <2> QED BY <1>2, <2>1, <2>2, WithStakeFields
<1>6. /\ q.closedEvents = players[p].closedEvents
      /\ q.activeEvents = IF joined THEN players[p].activeEvents
                                    ELSE Append(players[p].activeEvents, e)
    BY <1>1 DEF WithBet, TypeOK, Player
<1> HIDE DEF r, q
<1>7. /\ events'[e] = r /\ \A f \in Events \ {e} : events'[f] = events[f]
      /\ players'[p] = q /\ \A o \in Players \ {p} : players'[o] = players[o]
    BY <1>1, <1>2 DEF TypeOK
<1>8. events[e].stakeFinalized = {}
    <2>1. events[e] \in Event
        BY <1>1 DEF TypeOK
    <2>2. CASE events[e].active
        BY <1>1, <2>1, <2>2 DEF FinalizedMeansDecided, Event
    <2>3. CASE ~Exists(e)
        BY <1>1, <2>3 DEF UnusedEventsAreBlank, UnknownEvent
    <2> QED BY <2>2, <2>3
<1>9. r.stakeCount > 0
    BY <1>3, <1>5, <1>7 DEF Exists, Event
<1>10. FinalizedMeansDecided'
    BY <1>1, <1>5, <1>7, <1>8 DEF FinalizedMeansDecided, HasStake
<1>11. UnusedEventsAreBlank'
    BY <1>1, <1>7, <1>9 DEF UnusedEventsAreBlank, Exists
<1>12. ListsAgree'
    <2>1. p \in Elements(events[e].players) <=> joined
        BY <1>1, <1>8 DEF ListsAgree
    <2>2. /\ Distinct(r.players)
          /\ Elements(r.players) = Elements(events[e].players) \union {p}
        <3>1. events[e].players \in Seq(Players) /\ Distinct(events[e].players)
            BY <1>1 DEF TypeOK, Event, ListsAgree
        <3>2. CASE joined
            BY <1>5, <2>1, <3>1, <3>2
        <3>3. CASE ~joined
            BY <1>5, <2>1, <3>1, <3>3, AppendAdds
        <3> QED BY <3>2, <3>3
    <2>3. /\ Distinct(q.activeEvents) /\ Distinct(q.closedEvents)
          /\ Elements(q.activeEvents) = Elements(players[p].activeEvents) \union {e}
        <3>1. players[p].activeEvents \in Seq(Events)
              /\ Distinct(players[p].activeEvents) /\ Distinct(players[p].closedEvents)
            BY <1>1 DEF TypeOK, Player, ListsAgree
        <3>2. CASE joined
            BY <1>6, <3>1, <3>2
        <3>3. CASE ~joined
            BY <1>6, <3>1, <3>3, AppendAdds
        <3> QED BY <3>2, <3>3
    <2>4. \A o \in Players \ {p} : r.stakes[o] = events[e].stakes[o]
        BY <1>1, <1>5 DEF Raised, TypeOK, Event
    <2>5. \A f \in Events : Distinct(events'[f].players)
        BY <1>1, <1>7, <2>2 DEF ListsAgree
    <2>6. \A o \in Players : Distinct(players'[o].activeEvents)
                                /\ Distinct(players'[o].closedEvents)
        BY <1>1, <1>7, <2>3 DEF ListsAgree
    <2>7. ASSUME NEW f \in Events, NEW o \in Players
          PROVE  /\ f \in Elements(players'[o].closedEvents) <=>
                        o \in events'[f].stakeFinalized
                 /\ f \in Elements(players'[o].activeEvents) =>
                        o \notin events'[f].stakeFinalized
                 /\ o \in Elements(events'[f].players) <=>
                        \/ f \in Elements(players'[o].activeEvents)
                        \/ f \in Elements(players'[o].closedEvents)
                 /\ HasStake(o, f)' => o \in Elements(events'[f].players)
        <3>1. CASE f = e /\ o = p
            BY <1>1, <1>5, <1>6, <1>7, <1>8, <2>2, <2>3, <3>1 DEF ListsAgree, HasStake
        <3>2. CASE f = e /\ o # p
            BY <1>1, <1>5, <1>7, <1>8, <2>2, <2>4, <3>2 DEF ListsAgree, HasStake
        <3>3. CASE f # e /\ o = p
            BY <1>1, <1>6, <1>7, <2>3, <3>3 DEF ListsAgree, HasStake
        <3>4. CASE f # e /\ o # p
            BY <1>1, <1>7, <3>4 DEF ListsAgree, HasStake
        <3> QED BY <3>1, <3>2, <3>3, <3>4
    <2> QED BY <2>5, <2>6, <2>7 DEF ListsAgree
<1> QED BY <1>4, <1>5, <1>7, <1>9, <1>10, <1>11, <1>12 DEF BookInv

-----------------------------------------------------------------------------
(* One lemma per action, or per kind of actions.                           *)

\* The calls that leave the book alone.
LEMMA QueueCallsKeepIInv ==
    ASSUME IInv, NEW p \in Players, NEW e \in Events,
           \/ \E amount \in Amounts, coin \in Coins, aton \in AtonAmounts,
                 team \in Teams \union {BadTeam} :
                    RequestOpen(p, e, amount, coin, aton, team)
           \/ AddCloseRequest(p, e)
    PROVE  IInv'
<1>1. UNCHANGED <<now, minimumStake, activeCoins, events, activeEvents, players>>
    BY DEF RequestOpen, AddCloseRequest
<1>2. openRequests' \subseteq OpenRequest /\ closeRequests' \subseteq CloseRequest
    <2>1. openRequests \subseteq OpenRequest /\ closeRequests \subseteq CloseRequest
          /\ now \in Nat
        BY DEF IInv, TypeOK
    <2>2. CASE AddCloseRequest(p, e)
        BY <2>1, <2>2 DEF AddCloseRequest, CloseRequest
    <2>3. ASSUME NEW amount \in Amounts, NEW coin \in Coins, NEW aton \in AtonAmounts,
                 NEW team \in Teams \union {BadTeam},
                 RequestOpen(p, e, amount, coin, aton, team)
          PROVE  openRequests' \subseteq OpenRequest /\ closeRequests' \subseteq CloseRequest
        <3>1. amount \in Nat /\ aton \in Nat
            BY ConstantsAssumption
        <3> QED BY <2>1, <2>3, <3>1 DEF RequestOpen, OpenRequest
    <2> QED BY <2>2, <2>3
<1>3. RequestsAreExclusive'
    <2>1. RequestsAreExclusive
        BY DEF IInv
    <2>2. CASE AddCloseRequest(p, e)
        BY <2>1, <2>2 DEF AddCloseRequest, RequestsAreExclusive, HasRequest
    <2>3. ASSUME NEW amount \in Amounts, NEW coin \in Coins, NEW aton \in AtonAmounts,
                 NEW team \in Teams \union {BadTeam},
                 RequestOpen(p, e, amount, coin, aton, team)
          PROVE  RequestsAreExclusive'
        BY <2>1, <2>3 DEF RequestOpen, RequestsAreExclusive
    <2> QED BY <2>2, <2>3
<1>4. CloseRequestsAreAnswerable'
    <2>1. CloseRequestsAreAnswerable /\ ActiveEventsMatchFlags
        BY DEF IInv
    <2>2. CASE AddCloseRequest(p, e)
        BY <1>1, <2>1, <2>2
           DEF AddCloseRequest, CloseRequestsAreAnswerable, ActiveEventsMatchFlags
    <2>3. CASE ~AddCloseRequest(p, e)
        BY <1>1, <2>1, <2>3 DEF RequestOpen, CloseRequestsAreAnswerable
    <2> QED BY <2>2, <2>3
<1>5. (ActiveEventsMatchFlags /\ BookInv)'
    BY <1>1 DEF IInv, ActiveEventsMatchFlags, BookInv, FinalizedMeansDecided, ListsAgree,
                UnusedEventsAreBlank, Exists, HasStake
<1> QED BY <1>1, <1>2, <1>3, <1>4, <1>5 DEF IInv, BookInv, TypeOK

\* The owner's calls and the passage of time.
LEMMA OwnerAndClockKeepIInv ==
    ASSUME IInv, OwnerCall \/ Tick
    PROVE  IInv'
<1>1. UNCHANGED <<openRequests, closeRequests, events, activeEvents, players>>
    BY DEF OwnerCall, SetMinimumStake, ToggleCoin, Tick
<1>2. now' \in Nat /\ minimumStake' \in Nat /\ activeCoins' \subseteq Coins
    BY ConstantsAssumption
       DEF OwnerCall, SetMinimumStake, ToggleCoin, Tick, IInv, TypeOK
<1> QED BY <1>1, <1>2
        DEF IInv, TypeOK, RequestsAreExclusive, CloseRequestsAreAnswerable,
            ActiveEventsMatchFlags, FinalizedMeansDecided, ListsAgree,
            UnusedEventsAreBlank, Exists, HasStake

\* The two calls that stake on an event of the book register a stake.
LEMMA StakesRegister ==
    ASSUME NEW p \in Players, NEW e \in Events,
           NEW amount \in Amounts, NEW coin \in Coins, NEW aton \in AtonAmounts,
           NEW team \in Teams \union {BadTeam},
           \/ StakeOn(p, e, amount, coin, aton, team)
           \/ StakeOracle(p, e, amount, coin, aton, team)
    PROVE  \E a \in Nat, isOpen \in BOOLEAN :
              AddStake(e, events[e], p, coin, WorthVUND(amount, coin), a, team, isOpen, 0)
<1>1. WorthVUND(amount, coin) \in Nat /\ aton \in Nat
    BY WorthIsNat, ConstantsAssumption
<1>2. CASE StakeOracle(p, e, amount, coin, aton, team)
    BY <1>1, <1>2 DEF StakeOracle
<1>3. CASE StakeOn(p, e, amount, coin, aton, team)
    <2> DEFINE vund == WorthVUND(amount, coin)
               capped == IF aton > vund THEN vund ELSE aton
               isOpen == \/ team = 1 /\ events[e].totalVUND[2] = 0
                         \/ team = 2 /\ events[e].totalVUND[1] = 0
    <2>1. PICK bonus \in IF coin = VUND THEN Bonuses \union {0} ELSE {0} :
              AddStake(e, events[e], p, coin, vund, capped + bonus, team, isOpen, 0)
        BY <1>3 DEF StakeOn, NewStake
    <2>2. bonus \in Nat /\ capped \in Nat
        BY <1>1, ConstantsAssumption
    <2>3. isOpen \in BOOLEAN
        OBVIOUS
    <2>4. capped + bonus \in Nat
        BY <2>2
    <2> HIDE DEF capped, isOpen, vund
    <2>5. AddStake(e, events[e], p, coin, WorthVUND(amount, coin), capped + bonus,
                   team, isOpen, 0)
        BY <2>1 DEF vund
    <2> QED BY <2>3, <2>4, <2>5
<1> QED BY <1>2, <1>3

LEMMA StakesKeepIInv ==
    ASSUME IInv, NEW p \in Players, NEW e \in Events,
           NEW amount \in Amounts, NEW coin \in Coins, NEW aton \in AtonAmounts,
           NEW team \in Teams \union {BadTeam},
           \/ StakeOn(p, e, amount, coin, aton, team)
           \/ StakeOracle(p, e, amount, coin, aton, team)
    PROVE  IInv'
<1>1. UNCHANGED <<now, minimumStake, activeCoins, openRequests, closeRequests,
                  activeEvents>>
    BY DEF StakeOn, StakeOracle
<1>2. PICK a \in Nat, isOpen \in BOOLEAN :
          AddStake(e, events[e], p, coin, WorthVUND(amount, coin), a, team, isOpen, 0)
    BY StakesRegister
<1>3. events[e] \in Event /\ events[e].active /\ events[e].winner = NoResult
    BY <1>2 DEF AddStake, CanAddStake, IInv, TypeOK, ActiveEventsMatchFlags
<1>4. WorthVUND(amount, coin) \in Nat
    BY WorthIsNat, ConstantsAssumption
<1>5. /\ events' \in [Events -> Event] /\ players' \in [Players -> Player]
      /\ BookInv'
      /\ events'[e].active = TRUE /\ events'[e].winner = NoResult
      /\ events'[e].stakeCount > 0
      /\ events'[e].startDate = events[e].startDate
      /\ \A f \in Events \ {e} : events'[f] = events[f]
    <2>1. 0 \in Nat
        OBVIOUS
    <2> QED BY <1>2, <1>3, <1>4, <2>1, StakeKeepsBook
<1>6. TypeOK'
    BY <1>1, <1>5 DEF IInv, TypeOK
<1>7. ActiveEventsMatchFlags'
    BY <1>1, <1>3, <1>5 DEF IInv, ActiveEventsMatchFlags, Exists
<1>8. RequestsAreExclusive' /\ CloseRequestsAreAnswerable'
    <2>1. closeRequests \subseteq CloseRequest
        BY DEF IInv, TypeOK
    <2> QED BY <1>1, <1>5, <2>1
            DEF IInv, CloseRequest, RequestsAreExclusive, CloseRequestsAreAnswerable
<1> QED BY <1>5, <1>6, <1>7, <1>8 DEF IInv, BookInv

\* Answering an open request registers a stake on a blank event.
LEMMA OpeningRegisters ==
    ASSUME TypeOK, NEW e \in Events, NEW startDate \in 1..(MaxTime - 1), NEW sport \in Sports,
           NEW r \in OpenRequest, CanAddEvent(e, startDate),
           NewStake(e, Populated(e, startDate, sport), r.requester, r.coin, r.amountCoin,
                    r.amountATON, r.team, TRUE, 1)
    PROVE  /\ Populated(e, startDate, sport) \in Event
           /\ ~events[e].active /\ ~Exists(e)
           /\ Populated(e, startDate, sport).players = events[e].players
           /\ Populated(e, startDate, sport).stakes = events[e].stakes
           /\ Populated(e, startDate, sport).stakeFinalized = events[e].stakeFinalized
           /\ Populated(e, startDate, sport).totalVUND = events[e].totalVUND
           /\ Populated(e, startDate, sport).totalATON = events[e].totalATON
           /\ Populated(e, startDate, sport).winner = NoResult
           /\ \E a \in Nat : AddStake(e, Populated(e, startDate, sport), r.requester, r.coin,
                              WorthVUND(r.amountCoin, r.coin), a, r.team, TRUE, 1)
<1> DEFINE ev == Populated(e, startDate, sport)
<1>1. r.requester \in Players /\ r.amountCoin \in Nat /\ r.coin \in Coins
      /\ r.amountATON \in Nat
    BY DEF OpenRequest
<1>2. ev \in Event
    BY PopulatedType
<1>3. /\ ~events[e].active /\ ~Exists(e)
      /\ ev.players = events[e].players /\ ev.stakes = events[e].stakes
      /\ ev.stakeFinalized = events[e].stakeFinalized /\ ev.winner = NoResult
      /\ ev.totalVUND = events[e].totalVUND /\ ev.totalATON = events[e].totalATON
    <2>1. events[e] \in Event
        BY DEF TypeOK
    <2> QED BY <2>1 DEF CanAddEvent, Populated, Exists, Event
<1>4. \E a \in Nat : AddStake(e, ev, r.requester, r.coin,
                              WorthVUND(r.amountCoin, r.coin), a, r.team, TRUE, 1)
    <2> DEFINE vund == WorthVUND(r.amountCoin, r.coin)
               capped == IF r.amountATON > vund THEN vund ELSE r.amountATON
    <2>1. PICK bonus \in IF r.coin = VUND THEN Bonuses \union {0} ELSE {0} :
              AddStake(e, ev, r.requester, r.coin, vund, capped + bonus, r.team, TRUE, 1)
        BY DEF NewStake
    <2>2. vund \in Nat
        BY <1>1, WorthIsNat
    <2>3. capped + bonus \in Nat
        BY <1>1, <2>2, ConstantsAssumption
    <2> HIDE DEF capped
    <2> QED BY <2>1, <2>3
<1> QED BY <1>2, <1>3, <1>4

\* Opening an event: it was blank, and nothing in the queues refers to it.
LEMMA OpeningKeepsIInv ==
    ASSUME IInv, NEW e \in Events, NEW startDate \in 1..(MaxTime - 1), NEW sport \in Sports,
           FulfillOpenRequest(e, startDate, sport)
    PROVE  IInv'
<1> DEFINE ev == Populated(e, startDate, sport)
<1>1. PICK r \in openRequests :
          /\ CanAddEvent(e, startDate)
          /\ NewStake(e, ev, r.requester, r.coin, r.amountCoin, r.amountATON, r.team,
                      TRUE, 1)
          /\ activeEvents' = Append(activeEvents, e)
          /\ openRequests' = Fresh(openRequests \ {r})
          /\ closeRequests' = Fresh(closeRequests)
          /\ UNCHANGED <<now, minimumStake, activeCoins>>
    BY DEF FulfillOpenRequest
<1>2. r \in OpenRequest /\ TypeOK
    BY DEF IInv, TypeOK
<1>3. r.requester \in Players /\ r.amountCoin \in Nat /\ r.coin \in Coins
    BY <1>2 DEF OpenRequest
<1>4. /\ ev \in Event
      /\ ~events[e].active /\ ~Exists(e)
      /\ ev.players = events[e].players /\ ev.stakes = events[e].stakes
      /\ ev.stakeFinalized = events[e].stakeFinalized /\ ev.winner = NoResult
      /\ \E a \in Nat : AddStake(e, ev, r.requester, r.coin,
                                 WorthVUND(r.amountCoin, r.coin), a, r.team, TRUE, 1)
    BY <1>1, <1>2, OpeningRegisters
<1>5. PICK a \in Nat : AddStake(e, ev, r.requester, r.coin,
                                WorthVUND(r.amountCoin, r.coin), a, r.team, TRUE, 1)
    BY <1>4
<1> HIDE DEF ev
<1>8. WorthVUND(r.amountCoin, r.coin) \in Nat /\ 1 \in Nat
    BY <1>3, WorthIsNat
<1>9. /\ events' \in [Events -> Event] /\ players' \in [Players -> Player]
      /\ BookInv'
      /\ events'[e].active = TRUE /\ events'[e].winner = NoResult
      /\ events'[e].stakeCount > 0
      /\ \A f \in Events \ {e} : events'[f] = events[f]
    BY <1>3, <1>4, <1>5, <1>8, StakeKeepsBook
<1>10. e \notin Elements(activeEvents)
    BY <1>4 DEF IInv, ActiveEventsMatchFlags
<1>11. /\ activeEvents' \in Seq(Events) /\ Distinct(activeEvents')
       /\ Elements(activeEvents') = Elements(activeEvents) \union {e}
    BY <1>1, <1>2, <1>10, AppendAdds DEF IInv, TypeOK, ActiveEventsMatchFlags
<1>12. openRequests' \subseteq openRequests /\ closeRequests' \subseteq closeRequests
    BY <1>1 DEF Fresh
<1>13. TypeOK'
    BY <1>1, <1>2, <1>9, <1>11, <1>12 DEF TypeOK
<1>14. ActiveEventsMatchFlags'
    BY <1>9, <1>11 DEF IInv, ActiveEventsMatchFlags, Exists
<1>15. RequestsAreExclusive'
    BY <1>12 DEF IInv, RequestsAreExclusive
<1>16. CloseRequestsAreAnswerable'
    <2>1. \A c \in closeRequests : c.event \in Events /\ c.event # e
        BY <1>2, <1>4 DEF IInv, TypeOK, CloseRequest, CloseRequestsAreAnswerable
    <2> QED BY <1>9, <1>11, <1>12, <2>1 DEF IInv, CloseRequestsAreAnswerable
<1> QED BY <1>9, <1>13, <1>14, <1>15, <1>16 DEF IInv, BookInv

\* Closing an event: its request is the only one and leaves with the answer.
LEMMA ClosingKeepsIInv ==
    ASSUME IInv, NEW e \in Events, NEW winner \in Winners, FulfillCloseRequest(e, winner)
    PROVE  IInv'
<1>1. PICK r \in closeRequests :
          /\ r.event = e
          /\ events[e].active /\ events[e].winner = NoResult
          /\ e \in Elements(activeEvents)
          /\ events' = [events EXCEPT ![e].active = FALSE, ![e].winner = winner]
          /\ activeEvents' = SwapPop(activeEvents, e)
          /\ players' = [players EXCEPT ![r.requester].level = @ + 1]
          /\ openRequests' = Fresh(openRequests)
          /\ closeRequests' = Fresh(closeRequests \ {r})
          /\ UNCHANGED <<now, minimumStake, activeCoins>>
    BY DEF FulfillCloseRequest
<1>2. TypeOK /\ r \in CloseRequest /\ events[e] \in Event /\ winner \in Int
    BY ConstantsAssumption DEF IInv, TypeOK
<1>3. r.requester \in Players
    BY <1>2 DEF CloseRequest
<1>4. PICK n : /\ n \in Event
               /\ n = [events[e] EXCEPT !.active = FALSE, !.winner = winner]
    BY <1>2, Zenon DEF Event
<1>5. /\ ~n.active /\ n.winner = winner /\ n.players = events[e].players
      /\ n.stakes = events[e].stakes /\ n.stakeCount = events[e].stakeCount
      /\ n.stakeFinalized = events[e].stakeFinalized
    BY <1>2, <1>4 DEF Event
<1>6. events' = [events EXCEPT ![e] = n]
    BY <1>1, <1>2, <1>4 DEF TypeOK
<1>7. /\ events' \in [Events -> Event] /\ events'[e] = n
      /\ \A f \in Events \ {e} : events'[f] = events[f]
    BY <1>2, <1>4, <1>6 DEF TypeOK
<1>8. /\ players' \in [Players -> Player]
      /\ \A p \in Players : /\ players'[p].activeEvents = players[p].activeEvents
                            /\ players'[p].closedEvents = players[p].closedEvents
    <2>1. PICK q : q = [players[r.requester] EXCEPT !.level = @ + 1]
        OBVIOUS
    <2>2. players[r.requester] \in Player
        BY <1>2, <1>3 DEF TypeOK
    <2>3. players[r.requester].level + 1 \in Nat
        BY <2>2 DEF Player
    <2>4. q \in Player
        BY <2>1, <2>2, <2>3, Zenon DEF Player
    <2>5. q.activeEvents = players[r.requester].activeEvents
          /\ q.closedEvents = players[r.requester].closedEvents
        BY <2>1, <2>2 DEF Player
    <2>6. players' = [players EXCEPT ![r.requester] = q]
        BY <1>1, <1>2, <1>3, <2>1 DEF TypeOK
    <2> QED BY <1>2, <1>3, <2>4, <2>5, <2>6 DEF TypeOK
<1>9. /\ activeEvents' \in Seq(Events) /\ Distinct(activeEvents')
      /\ Elements(activeEvents') = Elements(activeEvents) \ {e}
    BY <1>1, <1>2, SwapPopRemoves DEF IInv, TypeOK, ActiveEventsMatchFlags
<1>10. openRequests' \subseteq openRequests /\ closeRequests' \subseteq closeRequests \ {r}
    BY <1>1 DEF Fresh
<1>11. TypeOK'
    BY <1>1, <1>2, <1>7, <1>8, <1>9, <1>10 DEF TypeOK
<1>12. RequestsAreExclusive'
    BY <1>10 DEF IInv, RequestsAreExclusive
<1>13. CloseRequestsAreAnswerable'
    <2>1. \A c \in closeRequests' : c.event \in Events /\ c.event # e /\ c \in closeRequests
        BY <1>1, <1>2, <1>10 DEF IInv, TypeOK, CloseRequest, RequestsAreExclusive
    <2> QED BY <1>7, <1>9, <2>1 DEF IInv, CloseRequestsAreAnswerable
<1>14. ActiveEventsMatchFlags'
    BY <1>5, <1>7, <1>9 DEF IInv, ActiveEventsMatchFlags, Exists
<1>15. events[e].stakeFinalized = {}
    BY <1>1, <1>2 DEF IInv, FinalizedMeansDecided, Event
<1>16. FinalizedMeansDecided'
    BY <1>5, <1>7, <1>15 DEF IInv, FinalizedMeansDecided, HasStake
<1>17. ListsAgree'
    BY <1>5, <1>7, <1>8 DEF IInv, ListsAgree, HasStake
<1>18. UnusedEventsAreBlank'
    <2>1. n.stakeCount > 0
        BY <1>1, <1>2, <1>5 DEF IInv, ActiveEventsMatchFlags, Exists
    <2> QED BY <1>7, <2>1 DEF IInv, UnusedEventsAreBlank, Exists
<1> QED BY <1>11, <1>12, <1>13, <1>14, <1>16, <1>17, <1>18 DEF IInv

\* Settling a stake moves its event from one list of the player to the other.
LEMMA FinalizeKeepsIInv ==
    ASSUME IInv, NEW p \in Players, NEW e \in Events, Finalize(p, e)
    PROVE  IInv'
<1>1. /\ ~events[e].active /\ events[e].winner # NoResult
      /\ p \notin events[e].stakeFinalized /\ events[e].stakes[p].amountVUND > 0
      /\ e \in Elements(players[p].activeEvents)
      /\ events' = [events EXCEPT ![e].stakeFinalized = @ \union {p}]
      /\ players' = [players EXCEPT ![p] = Settled(@, p, e, events[e])]
      /\ UNCHANGED <<now, minimumStake, activeCoins, openRequests, closeRequests,
                     activeEvents>>
    BY DEF Finalize
<1>2. TypeOK /\ events[e] \in Event /\ players[p] \in Player
    BY DEF IInv, TypeOK
<1>3. PICK n : n = [events[e] EXCEPT !.stakeFinalized = @ \union {p}]
    OBVIOUS
<1>4. n \in Event
    <2>1. events[e].stakeFinalized \union {p} \in SUBSET Players
        BY <1>2 DEF Event
    <2> QED BY <1>2, <1>3, <2>1, Zenon DEF Event
<1>5. /\ n.active = events[e].active /\ n.winner = events[e].winner
      /\ n.players = events[e].players /\ n.stakes = events[e].stakes
      /\ n.stakeCount = events[e].stakeCount /\ n.startDate = events[e].startDate
      /\ n.stakeFinalized = events[e].stakeFinalized \union {p}
    BY <1>2, <1>3 DEF Event
<1>6. /\ events' \in [Events -> Event] /\ events'[e] = n
      /\ \A f \in Events \ {e} : events'[f] = events[f]
    <2>1. events' = [events EXCEPT ![e] = n]
        BY <1>1, <1>2, <1>3 DEF TypeOK
    <2> QED BY <1>2, <1>4, <2>1 DEF TypeOK
<1>7. PICK q : q = Settled(players[p], p, e, events[e])
    OBVIOUS
<1>8. Distinct(players[p].activeEvents) /\ Distinct(players[p].closedEvents)
    BY DEF IInv, ListsAgree
<1>9. q \in Player
    BY <1>1, <1>2, <1>7, <1>8, SettledType
<1>10. /\ q.activeEvents = SwapPop(players[p].activeEvents, e)
       /\ q.closedEvents = Append(players[p].closedEvents, e)
    BY <1>2, <1>7 DEF Settled, Player
<1>11. /\ players' \in [Players -> Player] /\ players'[p] = q
       /\ \A o \in Players \ {p} : players'[o] = players[o]
    BY <1>1, <1>2, <1>7, <1>9 DEF TypeOK
<1>12. /\ Distinct(q.activeEvents)
       /\ Elements(q.activeEvents) = Elements(players[p].activeEvents) \ {e}
    BY <1>1, <1>2, <1>8, <1>10, SwapPopRemoves DEF Player
<1>13. /\ Distinct(q.closedEvents)
       /\ Elements(q.closedEvents) = Elements(players[p].closedEvents) \union {e}
    <2>1. e \notin Elements(players[p].closedEvents)
        BY <1>1 DEF IInv, ListsAgree
    <2> QED BY <1>2, <1>8, <1>10, <2>1, AppendAdds DEF Player
<1>14. TypeOK'
    BY <1>1, <1>2, <1>6, <1>11 DEF TypeOK
<1>15. RequestsAreExclusive'
    BY <1>1 DEF IInv, RequestsAreExclusive
<1>16. CloseRequestsAreAnswerable'
    BY <1>1, <1>2, <1>5, <1>6
       DEF IInv, TypeOK, CloseRequest, CloseRequestsAreAnswerable
<1>17. ActiveEventsMatchFlags'
    BY <1>1, <1>5, <1>6 DEF IInv, ActiveEventsMatchFlags, Exists
<1>18. FinalizedMeansDecided'
    BY <1>1, <1>5, <1>6 DEF IInv, FinalizedMeansDecided, HasStake
<1>19. UnusedEventsAreBlank'
    <2>1. Exists(e)
        BY <1>1, <1>2 DEF IInv, UnusedEventsAreBlank, UnknownEvent, NoStake
    <2> QED BY <1>5, <1>6, <2>1 DEF IInv, UnusedEventsAreBlank, Exists
<1>20. ListsAgree'
    <2>1. \A f \in Events : Distinct(events'[f].players)
        BY <1>5, <1>6 DEF IInv, ListsAgree
    <2>2. \A o \in Players : Distinct(players'[o].activeEvents)
                                /\ Distinct(players'[o].closedEvents)
        BY <1>11, <1>12, <1>13 DEF IInv, ListsAgree
    <2>3. ASSUME NEW f \in Events, NEW o \in Players
          PROVE  /\ f \in Elements(players'[o].closedEvents) <=>
                        o \in events'[f].stakeFinalized
                 /\ f \in Elements(players'[o].activeEvents) =>
                        o \notin events'[f].stakeFinalized
                 /\ o \in Elements(events'[f].players) <=>
                        \/ f \in Elements(players'[o].activeEvents)
                        \/ f \in Elements(players'[o].closedEvents)
                 /\ HasStake(o, f)' => o \in Elements(events'[f].players)
        <3>1. CASE f = e /\ o = p
            BY <1>1, <1>5, <1>6, <1>11, <1>12, <1>13, <3>1 DEF IInv, ListsAgree, HasStake
        <3>2. CASE f = e /\ o # p
            BY <1>5, <1>6, <1>11, <3>2 DEF IInv, ListsAgree, HasStake
        <3>3. CASE f # e /\ o = p
            BY <1>6, <1>11, <1>12, <1>13, <3>3 DEF IInv, ListsAgree, HasStake
        <3>4. CASE f # e /\ o # p
            BY <1>6, <1>11, <3>4 DEF IInv, ListsAgree, HasStake
        <3> QED BY <3>1, <3>2, <3>3, <3>4
    <2> QED BY <2>1, <2>2, <2>3 DEF ListsAgree
<1> QED BY <1>14, <1>15, <1>16, <1>17, <1>18, <1>19, <1>20 DEF IInv

-----------------------------------------------------------------------------
(* The theorems.                                                           *)

LEMMA NextKeepsIInv == IInv /\ [Next]_vars => IInv'
<1> SUFFICES ASSUME IInv, [Next]_vars PROVE IInv'
    OBVIOUS
<1>1. ASSUME NEW p \in Players, NEW e \in Events, StakeCall(p, e) PROVE IInv'
    <2>1. PICK amount \in Amounts, coin \in Coins, aton \in AtonAmounts,
               team \in Teams \union {BadTeam} :
                  \/ RequestOpen(p, e, amount, coin, aton, team)
                  \/ StakeOn(p, e, amount, coin, aton, team)
                  \/ StakeOracle(p, e, amount, coin, aton, team)
        BY <1>1 DEF StakeCall
    <2> QED BY <2>1, QueueCallsKeepIInv, StakesKeepIInv
<1>2. ASSUME NEW p \in Players, NEW e \in Events, AddCloseRequest(p, e) PROVE IInv'
    BY <1>2, QueueCallsKeepIInv
<1>3. ASSUME NEW p \in Players, NEW e \in Events, Finalize(p, e) PROVE IInv'
    BY <1>3, FinalizeKeepsIInv
<1>4. ASSUME NEW e \in Events, OracleCall(e) PROVE IInv'
    BY <1>4, OpeningKeepsIInv, ClosingKeepsIInv DEF OracleCall
<1>5. CASE OwnerCall \/ Tick
    BY <1>5, OwnerAndClockKeepIInv
<1>6. CASE UNCHANGED vars
    BY <1>6 DEF vars, IInv, TypeOK, RequestsAreExclusive, CloseRequestsAreAnswerable,
                ActiveEventsMatchFlags, FinalizedMeansDecided, ListsAgree,
                UnusedEventsAreBlank, Exists, HasStake
<1> QED BY <1>1, <1>2, <1>3, <1>4, <1>5, <1>6 DEF Next

LEMMA IInvHolds == Spec => []IInv
BY InitIInv, NextKeepsIInv, PTL DEF Spec

\* Every variable keeps its type.
THEOREM TypeCorrect == Spec => []TypeOK
<1>1. IInv => TypeOK
    BY DEF IInv
<1> QED BY IInvHolds, <1>1, PTL

\* The request queues hold at most one request for an event.
THEOREM QueuesAreExclusive == Spec => []RequestsAreExclusive
<1>1. IInv => RequestsAreExclusive
    BY DEF IInv
<1> QED BY IInvHolds, <1>1, PTL

\* The oracle can answer every close request in the queue.
THEOREM CloseRequestsStayAnswerable == Spec => []CloseRequestsAreAnswerable
<1>1. IInv => CloseRequestsAreAnswerable
    BY DEF IInv
<1> QED BY IInvHolds, <1>1, PTL

\* The list of running events and the active flags never part.
THEOREM ActiveEventsAgree == Spec => []ActiveEventsMatchFlags
<1>1. IInv => ActiveEventsMatchFlags
    BY DEF IInv
<1> QED BY IInvHolds, <1>1, PTL

\* Nobody is settled before the event has a result, or without a stake.
THEOREM NoSettlementWithoutResult == Spec => []FinalizedMeansDecided
<1>1. IInv => FinalizedMeansDecided
    BY DEF IInv
<1> QED BY IInvHolds, <1>1, PTL

\* The lists of players and events never part.
THEOREM BookListsAgree == Spec => []ListsAgree
<1>1. IInv => ListsAgree
    BY DEF IInv
<1> QED BY IInvHolds, <1>1, PTL

-----------------------------------------------------------------------------
(* Seen from the stakes and the closed lists, a step does one of four      *)
(* things.                                                                 *)

BookRests ==
    /\ events' = events
    /\ \A o \in Players : players'[o].closedEvents = players[o].closedEvents

\* p's stake on e is raised; e runs, or enters the book with this step.
Registers(e, p, vund, aton, team) ==
    /\ events[e].active \/ ~Exists(e)
    /\ events'[e].active /\ now < events'[e].startDate
    /\ events'[e].stakeCount > 0
    /\ events[e].active => events'[e].startDate = events[e].startDate
    /\ \/ events[e].stakes[p].amountVUND = 0 /\ events[e].stakes[p].amountATON = 0
       \/ events[e].stakes[p].team = team
    /\ events'[e].stakes = Raised(events[e].stakes, p, vund, aton, team)
    /\ events'[e].totalVUND = Plus(events[e].totalVUND, team, vund)
    /\ events'[e].totalATON = Plus(events[e].totalATON, team, aton)
    /\ events'[e].stakeFinalized = events[e].stakeFinalized
    /\ \A f \in Events \ {e} : events'[f] = events[f]
    /\ \A o \in Players : players'[o].closedEvents = players[o].closedEvents

\* e, which runs, is given the result somebody asked for.
Closes(e) ==
    /\ events[e].active
    /\ \E r \in closeRequests : r.event = e
    /\ \E w \in Winners : events'[e] = [events[e] EXCEPT !.active = FALSE, !.winner = w]
    /\ events'[e].stakes = events[e].stakes
    /\ events'[e].totalVUND = events[e].totalVUND
    /\ events'[e].totalATON = events[e].totalATON
    /\ events'[e].stakeFinalized = events[e].stakeFinalized
    /\ \A f \in Events \ {e} : events'[f] = events[f]
    /\ \A o \in Players : players'[o].closedEvents = players[o].closedEvents

LEMMA AddStakeRegisters ==
    ASSUME TypeOK, NEW e \in Events, NEW p \in Players, NEW ev \in Event, NEW coin,
           NEW team, NEW vund \in Nat, NEW aton \in Nat, NEW isOpen, NEW opened \in Nat,
           ev.stakes = events[e].stakes, ev.stakeFinalized = events[e].stakeFinalized,
           ev.totalVUND = events[e].totalVUND, ev.totalATON = events[e].totalATON,
           events[e].active \/ ~Exists(e),
           events[e].active => ev.startDate = events[e].startDate,
           AddStake(e, ev, p, coin, vund, aton, team, isOpen, opened)
    PROVE  Registers(e, p, vund, aton, team)
<1> DEFINE joined == e \in Elements(players[p].activeEvents)
           r == WithStake(ev, p, vund, aton, team, isOpen, joined)
           q == WithBet(players[p], e, vund, ev, opened)
<1>1. /\ events' = [events EXCEPT ![e] = r] /\ players' = [players EXCEPT ![p] = q]
      /\ team \in Teams /\ ev.active /\ now < ev.startDate
      /\ \/ ev.stakes[p].amountVUND = 0 /\ ev.stakes[p].amountATON = 0
         \/ ev.stakes[p].team = team
    <2>1. ev.startDate \in Nat /\ now \in Nat
        BY DEF TypeOK, Event
    <2> QED BY <2>1 DEF AddStake, CanAddStake
<1>2. /\ r.active = ev.active /\ r.startDate = ev.startDate /\ r.stakeCount > 0
      /\ r.stakeFinalized = ev.stakeFinalized
      /\ r.stakes = Raised(ev.stakes, p, vund, aton, team)
      /\ r.totalVUND = Plus(ev.totalVUND, team, vund)
      /\ r.totalATON = Plus(ev.totalATON, team, aton)
    <2>1. team \in Teams /\ joined \in BOOLEAN
        BY <1>1
    <2> HIDE DEF joined
    <2>2. r = WithStake(ev, p, vund, aton, team, isOpen, joined)
        OBVIOUS
    <2> HIDE DEF r
    <2>3. ev.stakeCount \in Nat
        BY DEF Event
    <2> QED BY <2>1, <2>2, <2>3, WithStakeFields
<1>3. q.closedEvents = players[p].closedEvents
    BY DEF WithBet, TypeOK, Player
<1> HIDE DEF r, q
<1>4. /\ events'[e] = r /\ \A f \in Events \ {e} : events'[f] = events[f]
      /\ players'[p] = q /\ \A o \in Players \ {p} : players'[o] = players[o]
    BY <1>1 DEF TypeOK
<1>5. /\ events'[e].active /\ now < events'[e].startDate /\ events'[e].stakeCount > 0
      /\ events[e].active => events'[e].startDate = events[e].startDate
    <2>1. /\ events'[e].active = ev.active /\ events'[e].startDate = ev.startDate
          /\ events'[e].stakeCount > 0
        BY <1>2, <1>4
    <2>2. events'[e].active /\ now < events'[e].startDate
        BY <1>1, <2>1
    <2>3. events[e].active => events'[e].startDate = events[e].startDate
        BY <2>1
    <2> QED BY <2>1, <2>2, <2>3
<1>6. /\ events'[e].stakes = Raised(events[e].stakes, p, vund, aton, team)
      /\ events'[e].totalVUND = Plus(events[e].totalVUND, team, vund)
      /\ events'[e].totalATON = Plus(events[e].totalATON, team, aton)
      /\ events'[e].stakeFinalized = events[e].stakeFinalized
    BY <1>2, <1>4
<1>7. \A o \in Players : players'[o].closedEvents = players[o].closedEvents
    BY <1>3, <1>4
<1> QED BY <1>1, <1>4, <1>5, <1>6, <1>7 DEF Registers

LEMMA ClosingCloses ==
    ASSUME TypeOK, NEW e \in Events, NEW winner \in Winners, FulfillCloseRequest(e, winner)
    PROVE  Closes(e)
<1>1. PICK r \in closeRequests :
          /\ r.event = e
          /\ events[e].active
          /\ events' = [events EXCEPT ![e].active = FALSE, ![e].winner = winner]
          /\ players' = [players EXCEPT ![r.requester].level = @ + 1]
    BY DEF FulfillCloseRequest
<1>2. r.requester \in Players /\ events[e] \in Event
    BY DEF TypeOK, CloseRequest
<1>3. /\ events'[e].stakes = events[e].stakes
      /\ events'[e].stakeFinalized = events[e].stakeFinalized
      /\ events'[e].totalVUND = events[e].totalVUND
      /\ events'[e].totalATON = events[e].totalATON
      /\ \A f \in Events \ {e} : events'[f] = events[f]
    BY <1>1, <1>2 DEF TypeOK, Event
<1>4. \A o \in Players : players'[o].closedEvents = players[o].closedEvents
    BY <1>1, <1>2 DEF TypeOK, Player
<1>5. events'[e] = [events[e] EXCEPT !.active = FALSE, !.winner = winner]
    BY <1>1, <1>2 DEF TypeOK
<1> QED BY <1>1, <1>3, <1>4, <1>5 DEF Closes

LEMMA StepShape ==
    ASSUME IInv, [Next]_vars
    PROVE  \/ BookRests
           \/ \E e \in Events, p \in Players, vund \in Nat, aton \in Nat, team \in Teams :
                 Registers(e, p, vund, aton, team)
           \/ \E e \in Events : Closes(e)
           \/ \E p \in Players, e \in Events : Finalize(p, e)
<1> DEFINE Registered ==
        \E e \in Events, p \in Players, vund \in Nat, aton \in Nat, team \in Teams :
           Registers(e, p, vund, aton, team)
<1>1. TypeOK
    BY DEF IInv
<1>2. ASSUME NEW p \in Players, NEW e \in Events, StakeCall(p, e)
      PROVE  BookRests \/ Registered
    <2>1. PICK amount \in Amounts, coin \in Coins, aton \in AtonAmounts,
               team \in Teams \union {BadTeam} :
                  \/ RequestOpen(p, e, amount, coin, aton, team)
                  \/ StakeOn(p, e, amount, coin, aton, team)
                  \/ StakeOracle(p, e, amount, coin, aton, team)
        BY <1>2 DEF StakeCall
    <2>2. CASE RequestOpen(p, e, amount, coin, aton, team)
        BY <2>2 DEF RequestOpen, BookRests
    <2>3. CASE \/ StakeOn(p, e, amount, coin, aton, team)
               \/ StakeOracle(p, e, amount, coin, aton, team)
        <3>1. PICK a \in Nat, isOpen \in BOOLEAN :
                  AddStake(e, events[e], p, coin, WorthVUND(amount, coin), a, team, isOpen, 0)
            BY <2>3, StakesRegister
        <3>2. team \in Teams /\ events[e].active /\ events[e] \in Event
            BY <1>1, <3>1 DEF AddStake, CanAddStake, TypeOK
        <3>3. WorthVUND(amount, coin) \in Nat /\ 0 \in Nat
            BY WorthIsNat, ConstantsAssumption
        <3>4. Registers(e, p, WorthVUND(amount, coin), a, team)
            BY <1>1, <3>1, <3>2, <3>3, AddStakeRegisters
        <3> QED BY <3>2, <3>3, <3>4
    <2> HIDE DEF Registered
    <2> QED BY <2>1, <2>2, <2>3
<1>3. ASSUME NEW e \in Events, NEW startDate \in 1..(MaxTime - 1), NEW sport \in Sports,
             FulfillOpenRequest(e, startDate, sport)
      PROVE  Registered
    <2> DEFINE ev == Populated(e, startDate, sport)
    <2>1. PICK r \in openRequests :
              /\ r.team \in Teams
              /\ CanAddEvent(e, startDate)
              /\ NewStake(e, ev, r.requester, r.coin, r.amountCoin, r.amountATON, r.team,
                          TRUE, 1)
        BY <1>3 DEF FulfillOpenRequest
    <2>2. r \in OpenRequest
        BY <1>1 DEF TypeOK
    <2>3. r.requester \in Players /\ WorthVUND(r.amountCoin, r.coin) \in Nat /\ 1 \in Nat
        BY <2>2, WorthIsNat DEF OpenRequest
    <2>4. /\ ev \in Event /\ ~Exists(e) /\ ~events[e].active
          /\ ev.stakes = events[e].stakes /\ ev.stakeFinalized = events[e].stakeFinalized
          /\ ev.totalVUND = events[e].totalVUND /\ ev.totalATON = events[e].totalATON
          /\ \E a \in Nat : AddStake(e, ev, r.requester, r.coin,
                                     WorthVUND(r.amountCoin, r.coin), a, r.team, TRUE, 1)
        BY <1>1, <2>1, <2>2, OpeningRegisters
    <2>5. PICK a \in Nat : AddStake(e, ev, r.requester, r.coin,
                                    WorthVUND(r.amountCoin, r.coin), a, r.team, TRUE, 1)
        BY <2>4
    <2> HIDE DEF ev
    <2>6. Registers(e, r.requester, WorthVUND(r.amountCoin, r.coin), a, r.team)
        BY <1>1, <2>3, <2>4, <2>5, AddStakeRegisters
    <2> QED BY <2>1, <2>3, <2>6
<1> HIDE DEF Registered
<1>4. ASSUME NEW e \in Events, NEW winner \in Winners, FulfillCloseRequest(e, winner)
      PROVE  Closes(e)
    BY <1>1, <1>4, ClosingCloses
<1>5. ASSUME NEW p \in Players, NEW e \in Events, AddCloseRequest(p, e)
      PROVE  BookRests
    BY <1>5 DEF AddCloseRequest, BookRests
<1>6. CASE OwnerCall \/ Tick \/ UNCHANGED vars
    <2>1. events' = events /\ players' = players
        BY <1>6 DEF OwnerCall, SetMinimumStake, ToggleCoin, Tick, vars
    <2> QED BY <2>1 DEF BookRests
<1>7. CASE \E p \in Players, e \in Events :
              StakeCall(p, e) \/ AddCloseRequest(p, e) \/ Finalize(p, e)
    <2>1. PICK p \in Players, e \in Events :
              StakeCall(p, e) \/ AddCloseRequest(p, e) \/ Finalize(p, e)
        BY <1>7
    <2>2. BookRests \/ Registered \/ Finalize(p, e)
        BY <1>2, <1>5, <2>1
    <2> QED BY <2>2 DEF Registered
<1>8. CASE \E e \in Events : OracleCall(e)
    <2>1. PICK e \in Events : OracleCall(e)
        BY <1>8
    <2>2. Registered \/ Closes(e)
        BY <1>3, <1>4, <2>1 DEF OracleCall
    <2> QED BY <2>2 DEF Registered
<1> QED BY <1>6, <1>7, <1>8 DEF Next

\* What Finalize writes, field by field.
LEMMA FinalizeFields ==
    ASSUME TypeOK, NEW p \in Players, NEW e \in Events, Finalize(p, e)
    PROVE  /\ p \notin events[e].stakeFinalized
           /\ events'[e] = [events[e] EXCEPT !.stakeFinalized = @ \union {p}]
           /\ events'[e].stakes = events[e].stakes
           /\ events'[e].stakeFinalized = events[e].stakeFinalized \union {p}
           /\ \A f \in Events \ {e} : events'[f] = events[f]
           /\ players'[p].closedEvents = Append(players[p].closedEvents, e)
           /\ \A o \in Players \ {p} : players'[o] = players[o]
<1>1. /\ p \notin events[e].stakeFinalized
      /\ events' = [events EXCEPT ![e].stakeFinalized = @ \union {p}]
      /\ players' = [players EXCEPT ![p] = Settled(players[p], p, e, events[e])]
    BY DEF Finalize, TypeOK
<1>2. events[e] \in Event /\ players[p] \in Player
    BY DEF TypeOK
<1>3. /\ events'[e] = [events[e] EXCEPT !.stakeFinalized = @ \union {p}]
      /\ \A f \in Events \ {e} : events'[f] = events[f]
    BY <1>1 DEF TypeOK
<1>4. /\ events'[e].stakes = events[e].stakes
      /\ events'[e].stakeFinalized = events[e].stakeFinalized \union {p}
    BY <1>2, <1>3 DEF Event
<1>5. PICK q : q = Settled(players[p], p, e, events[e])
    OBVIOUS
<1>6. q.closedEvents = Append(players[p].closedEvents, e)
    BY <1>2, <1>5 DEF Settled, Player
<1>7. players'[p] = q /\ \A o \in Players \ {p} : players'[o] = players[o]
    BY <1>1, <1>5 DEF TypeOK
<1> QED BY <1>1, <1>3, <1>4, <1>6, <1>7

-----------------------------------------------------------------------------
(* The theorems.                                                           *)

\* Nothing but a stake on an event that has not started moves a stake, and it
\* only raises it, on the side it is on.
THEOREM StakesOnlyGrow == Spec => StakesGrowBeforeStart
<1> DEFINE Grows(e, p) ==
        LET old == events[e].stakes[p]  new == events'[e].stakes[p] IN
        new # old =>
            /\ events'[e].active /\ now < events'[e].startDate
            /\ new.amountVUND >= old.amountVUND
            /\ new.amountATON >= old.amountATON
            /\ old.amountVUND > 0 => new.team = old.team
<1>1. ASSUME IInv, [Next]_vars, NEW e \in Events, NEW p \in Players
      PROVE  Grows(e, p)
    <2>1. TypeOK
        BY <1>1 DEF IInv
    <2>2. events[e] \in Event
        BY <2>1 DEF TypeOK
    <2>3. CASE BookRests
        BY <2>3 DEF BookRests
    <2>4. ASSUME NEW f \in Events, NEW o \in Players, NEW vund \in Nat, NEW aton \in Nat,
                 NEW team \in Teams, Registers(f, o, vund, aton, team)
          PROVE  Grows(e, p)
        <3>1. CASE f # e
            BY <2>4, <3>1 DEF Registers
        <3>2. CASE f = e /\ o # p
            BY <2>2, <2>4, <3>2 DEF Registers, Raised, Event
        <3>3. CASE f = e /\ o = p
            <4>1. /\ events[e].stakes[p].amountVUND \in Nat
                  /\ events[e].stakes[p].amountATON \in Nat
                BY <2>2 DEF Event, Stake
            <4>2. events'[e].stakes[p] =
                     [amountVUND |-> events[e].stakes[p].amountVUND + vund,
                      amountATON |-> events[e].stakes[p].amountATON + aton, team |-> team]
                BY <2>2, <2>4, <3>3 DEF Registers, Raised, Event
            <4>3. events'[e].active /\ now < events'[e].startDate
                BY <2>4, <3>3 DEF Registers
            <4>4. events[e].stakes[p].amountVUND > 0 => events[e].stakes[p].team = team
                BY <2>4, <3>3, <4>1 DEF Registers
            <4> QED BY <4>1, <4>2, <4>3, <4>4
        <3> QED BY <3>1, <3>2, <3>3
    <2>5. ASSUME NEW f \in Events, Closes(f) PROVE Grows(e, p)
        BY <2>5 DEF Closes
    <2>6. ASSUME NEW o \in Players, NEW f \in Events, Finalize(o, f) PROVE Grows(e, p)
        BY <2>1, <2>6, FinalizeFields
    <2> HIDE DEF Grows
    <2> QED BY <1>1, <2>3, <2>4, <2>5, <2>6, StepShape
<1>2. IInv /\ [Next]_vars => [\A e \in Events, p \in Players : Grows(e, p)]_vars
    <2> HIDE DEF Grows
    <2> QED BY <1>1
<1>3. Spec => [][\A e \in Events, p \in Players : Grows(e, p)]_vars
    <2> HIDE DEF Grows
    <2> QED BY <1>2, IInvHolds, PTL DEF Spec
<1> QED BY <1>3 DEF StakesGrowBeforeStart

\* A closed event keeps every field but the marks of those who have collected,
\* so a late collector is paid from the numbers of an early one.
THEOREM ClosedEventsStay == Spec => ClosedEventIsFrozen
<1> DEFINE Frozen(e) ==
        LET old == events[e]  new == events'[e] IN
        Exists(e) /\ ~old.active =>
            [new EXCEPT !.stakeFinalized = old.stakeFinalized] = old
<1>1. ASSUME NEW ev \in Event
      PROVE  [ev EXCEPT !.stakeFinalized = ev.stakeFinalized] = ev
    BY DEF Event
<1>2. ASSUME NEW ev \in Event, NEW S
      PROVE  [[ev EXCEPT !.stakeFinalized = S] EXCEPT
                !.stakeFinalized = ev.stakeFinalized] = ev
    BY DEF Event
<1>3. ASSUME IInv, [Next]_vars, NEW e \in Events
      PROVE  Frozen(e)
    <2>1. TypeOK
        BY <1>3 DEF IInv
    <2>2. events[e] \in Event
        BY <2>1 DEF TypeOK
    <2>3. events'[e] = events[e] => Frozen(e)
        BY <1>1, <2>2
    <2>4. CASE BookRests
        BY <2>3, <2>4 DEF BookRests
    <2>5. ASSUME NEW f \in Events, NEW o \in Players, NEW vund \in Nat, NEW aton \in Nat,
                 NEW team \in Teams, Registers(f, o, vund, aton, team)
          PROVE  Frozen(e)
        BY <2>3, <2>5 DEF Registers
    <2>6. ASSUME NEW f \in Events, Closes(f) PROVE Frozen(e)
        BY <2>3, <2>6 DEF Closes
    <2>7. ASSUME NEW o \in Players, NEW f \in Events, Finalize(o, f) PROVE Frozen(e)
        <3>1. CASE f # e
            BY <2>1, <2>3, <2>7, <3>1, FinalizeFields
        <3>2. CASE f = e
            <4>1. PICK S : S = events[e].stakeFinalized \union {o}
                OBVIOUS
            <4>2. events'[e] = [events[e] EXCEPT !.stakeFinalized = S]
                BY <2>1, <2>7, <3>2, <4>1, FinalizeFields
            <4> QED BY <1>2, <2>2, <4>2
        <3> QED BY <3>1, <3>2
    <2> HIDE DEF Frozen
    <2> QED BY <1>3, <2>4, <2>5, <2>6, <2>7, StepShape
<1>4. IInv /\ [Next]_vars => [\A e \in Events : Frozen(e)]_vars
    <2> HIDE DEF Frozen
    <2> QED BY <1>3
<1>5. Spec => [][\A e \in Events : Frozen(e)]_vars
    <2> HIDE DEF Frozen
    <2> QED BY <1>4, IInvHolds, PTL DEF Spec
<1> QED BY <1>5 DEF ClosedEventIsFrozen

\* A settlement is final, and closes one event of one player.
THEOREM SettledOnce == Spec => FinalizedOnce
<1> DEFINE SettledNow(p) == { e \in Events : /\ p \notin events[e].stakeFinalized
                                             /\ p \in events'[e].stakeFinalized }
           Once(p) ==
              LET settledNow == { e \in Events : /\ p \notin events[e].stakeFinalized
                                                 /\ p \in events'[e].stakeFinalized } IN
              /\ \A e \in Events : events[e].stakeFinalized \subseteq
                                      events'[e].stakeFinalized
              /\ Len(players'[p].closedEvents) =
                    Len(players[p].closedEvents) + Cardinality(settledNow)
<1>1. ASSUME IInv, [Next]_vars, NEW p \in Players
      PROVE  Once(p)
    <2>1. TypeOK
        BY <1>1 DEF IInv
    <2>2. players[p].closedEvents \in Seq(Events)
        BY <2>1 DEF TypeOK, Player
    <2>3. ASSUME \A e \in Events : events'[e].stakeFinalized = events[e].stakeFinalized,
                 players'[p].closedEvents = players[p].closedEvents
          PROVE  Once(p)
        <3>1. SettledNow(p) = {}
            BY <2>3
        <3>2. Cardinality(SettledNow(p)) = 0
            BY <3>1, FS_EmptySet
        <3>3. Len(players[p].closedEvents) \in Nat
            BY <2>2
        <3> QED BY <2>3, <3>2, <3>3
    <2>4. CASE BookRests
        BY <2>3, <2>4 DEF BookRests
    <2>5. ASSUME NEW f \in Events, NEW o \in Players, NEW vund \in Nat, NEW aton \in Nat,
                 NEW team \in Teams, Registers(f, o, vund, aton, team)
          PROVE  Once(p)
        <3> HIDE DEF Once
        <3> QED BY <2>3, <2>5 DEF Registers
    <2>6. ASSUME NEW f \in Events, Closes(f) PROVE Once(p)
        <3> HIDE DEF Once
        <3> QED BY <2>3, <2>6 DEF Closes
    <2>7. ASSUME NEW o \in Players, NEW f \in Events, Finalize(o, f) PROVE Once(p)
        <3>1. /\ o \notin events[f].stakeFinalized
              /\ events'[f].stakeFinalized = events[f].stakeFinalized \union {o}
              /\ \A e \in Events \ {f} : events'[e] = events[e]
              /\ players'[o].closedEvents = Append(players[o].closedEvents, f)
              /\ \A c \in Players \ {o} : players'[c] = players[c]
            BY <2>1, <2>7, FinalizeFields
        <3>2. \A e \in Events : events[e].stakeFinalized \subseteq events'[e].stakeFinalized
            BY <3>1
        <3>3. CASE o = p
            <4>1. SettledNow(p) = {f}
                BY <3>1, <3>3
            <4>2. Cardinality(SettledNow(p)) = 1
                BY <4>1, FS_Singleton
            <4> QED BY <2>2, <3>1, <3>2, <3>3, <4>2
        <3>4. CASE o # p
            <4>1. SettledNow(p) = {}
                BY <3>1, <3>4
            <4>2. Cardinality(SettledNow(p)) = 0
                BY <4>1, FS_EmptySet
            <4>3. Len(players[p].closedEvents) \in Nat
                BY <2>2
            <4> QED BY <3>1, <3>2, <3>4, <4>2, <4>3
        <3> QED BY <3>3, <3>4
    <2> HIDE DEF Once
    <2> QED BY <1>1, <2>4, <2>5, <2>6, <2>7, StepShape
<1>2. IInv /\ [Next]_vars => [\A p \in Players : Once(p)]_vars
    <2> HIDE DEF Once
    <2> QED BY <1>1
<1>3. Spec => [][\A p \in Players : Once(p)]_vars
    <2> HIDE DEF Once
    <2> QED BY <1>2, IInvHolds, PTL DEF Spec
<1> QED BY <1>3, PTL DEF FinalizedOnce

-----------------------------------------------------------------------------
(* The book as those who bet see it.                                       *)

\* Nobody has asked for a result in the future.
AskedInPast == \A r \in closeRequests : r.time <= now

LEMMA NextKeepsAskedInPast == TypeOK /\ AskedInPast /\ [Next]_vars => AskedInPast'
<1> SUFFICES ASSUME TypeOK, AskedInPast, [Next]_vars PROVE AskedInPast'
    OBVIOUS
<1>1. now \in Nat /\ \A r \in closeRequests : r.time \in Nat
    BY DEF TypeOK, CloseRequest
<1>2. ASSUME closeRequests' \subseteq closeRequests, now' = now \/ now' = now + 1
      PROVE  AskedInPast'
    BY <1>1, <1>2 DEF AskedInPast
<1>3. ASSUME NEW p \in Players, NEW e \in Events,
             StakeCall(p, e) \/ AddCloseRequest(p, e) \/ Finalize(p, e)
      PROVE  AskedInPast'
    <2>1. CASE AddCloseRequest(p, e)
        BY <1>1, <2>1 DEF AddCloseRequest, AskedInPast
    <2>2. CASE StakeCall(p, e)
        BY <1>2, <2>2 DEF StakeCall, RequestOpen, StakeOn, StakeOracle
    <2>3. CASE Finalize(p, e)
        BY <1>2, <2>3 DEF Finalize
    <2> QED BY <1>3, <2>1, <2>2, <2>3
<1>4. ASSUME NEW e \in Events, OracleCall(e) PROVE AskedInPast'
    BY <1>2, <1>4 DEF OracleCall, FulfillOpenRequest, FulfillCloseRequest, Fresh
<1>5. CASE OwnerCall \/ Tick \/ UNCHANGED vars
    BY <1>2, <1>5 DEF OwnerCall, SetMinimumStake, ToggleCoin, Tick, vars
<1> QED BY <1>3, <1>4, <1>5 DEF Next

LEMMA AskedInPastHolds == Spec => []AskedInPast
<1>1. Init => AskedInPast
    BY DEF Init, AskedInPast
<1> QED BY <1>1, NextKeepsAskedInPast, TypeCorrect, PTL DEF Spec

\* Time passes alone.
LEMMA TimeAlone ==
    ASSUME TypeOK, [Next]_vars
    PROVE  now' = now \/ (events' = events /\ now' = now + 1)
<1>1. ASSUME NEW p \in Players, NEW e \in Events,
             StakeCall(p, e) \/ AddCloseRequest(p, e) \/ Finalize(p, e)
      PROVE  now' = now
    BY <1>1 DEF StakeCall, RequestOpen, StakeOn, StakeOracle, AddCloseRequest, Finalize
<1>2. ASSUME NEW e \in Events, OracleCall(e) PROVE now' = now
    BY <1>2 DEF OracleCall, FulfillOpenRequest, FulfillCloseRequest
<1>3. CASE OwnerCall \/ Tick \/ UNCHANGED vars
    BY <1>3 DEF OwnerCall, SetMinimumStake, ToggleCoin, Tick, vars
<1> QED BY <1>1, <1>2, <1>3 DEF Next

\* A step that changes no event at most starts some.
LEMMA RestIsStart ==
    ASSUME TypeOK, now' \in Nat, now' >= now, events' = events
    PROVE  Book!Start
<1>1. ASSUME NEW e \in Events
      PROVE  /\ PhaseOf(events[e])' # PhaseOf(events[e]) =>
                   PhaseOf(events[e]) = "open" /\ PhaseOf(events[e])' = "started"
             /\ (PhaseOf(events[e]) = "decided") <=> (PhaseOf(events[e])' = "decided")
    <2>1. events[e].startDate \in Nat /\ now \in Nat
        BY DEF TypeOK, Event
    <2> QED BY <2>1 DEF PhaseOf
<1> HIDE DEF PhaseOf
<1> QED BY <1>1 DEF Book!Start

\* A stake registered is a bet on an event that has not started.
LEMMA RegisteringIsBetting ==
    ASSUME IInv, IInv', now' = now, NEW e \in Events, NEW p \in Players, NEW vund \in Nat,
           NEW aton \in Nat, NEW team \in Teams, Registers(e, p, vund, aton, team)
    PROVE  Book!Bet(e, p)
<1>1. events[e] \in Event /\ now \in Nat
    BY DEF IInv, TypeOK
<1>2. PhaseOf(events[e]) = "open" /\ PhaseOf(events[e])' = "open"
    <2>1. /\ events[e].startDate \in Nat /\ events[e].stakeCount \in Nat
          /\ now < events'[e].startDate /\ events'[e].active /\ events'[e].stakeCount # 0
          /\ events[e].active \/ events[e].stakeCount = 0
          /\ events[e].active => events'[e].startDate = events[e].startDate
        BY <1>1, SMTT(20) DEF Registers, Exists, Event
    <2>2. events[e].active => events[e].startDate > now
        BY <1>1, <2>1
    <2>3. events'[e].startDate > now'
        <3>1. events'[e].startDate \in Nat
            BY DEF IInv, TypeOK, Event
        <3> QED BY <1>1, <2>1, <3>1
    <2> QED BY <2>1, <2>2, <2>3 DEF PhaseOf
<1>3. \A f \in Events \ {e} : events'[f] = events[f] /\ PhaseOf(events[f])' = PhaseOf(events[f])
    BY DEF Registers, PhaseOf
<1>4. /\ events'[e].stakes[p] = [amountVUND |-> events[e].stakes[p].amountVUND + vund,
                                 amountATON |-> events[e].stakes[p].amountATON + aton,
                                 team |-> team]
      /\ \A q \in Players \ {p} : events'[e].stakes[q] = events[e].stakes[q]
    BY <1>1 DEF Registers, Raised, Event
<1>5. events[e].stakes[p].amountVUND \in Nat /\ events[e].stakes[p].amountATON \in Nat
    BY <1>1 DEF Event, Stake
<1>6. Book!Raises(events[e].stakes[p], events'[e].stakes[p])
    <2>1. events[e].stakes[p].amountVUND > 0 => events[e].stakes[p].team = team
        BY <1>5 DEF Registers
    <2> QED BY <1>4, <1>5, <2>1 DEF Book!Raises
<1>7. events'[e].stakeFinalized = events[e].stakeFinalized
    BY DEF Registers
<1> HIDE DEF PhaseOf
<1> QED BY <1>2, <1>3, <1>4, <1>6, <1>7 DEF Book!Bet

\* An event that is closed has started: somebody asked for its result when it had.
LEMMA ClosingIsDeciding ==
    ASSUME IInv, AskedInPast, now' = now, NEW e \in Events, Closes(e)
    PROVE  Book!Decide(e)
<1>1. events[e] \in Event /\ events \in [Events -> Event] /\ now \in Nat
    BY DEF IInv, TypeOK
<1>2. PICK w \in Winners : events'[e] = [events[e] EXCEPT !.active = FALSE, !.winner = w]
    BY DEF Closes
<1>3. PhaseOf(events[e]) = "started"
    <2>1. PICK r \in closeRequests : r.event = e
        BY DEF Closes
    <2>2. events[e].startDate < r.time /\ r.time <= now /\ r.time \in Nat
        BY <2>1 DEF IInv, CloseRequestsAreAnswerable, AskedInPast, TypeOK, CloseRequest
    <2>3. events[e].active /\ events[e].stakeCount > 0 /\ events[e].startDate \in Nat
        BY <1>1 DEF Closes, IInv, ActiveEventsMatchFlags, Exists, Event
    <2>4. ~(events[e].startDate > now) /\ events[e].stakeCount # 0
        BY <1>1, <2>2, <2>3
    <2> QED BY <2>3, <2>4 DEF PhaseOf
<1>4. PhaseOf(events[e])' = "decided" /\ events'[e].winner = w
    <2>1. events[e].stakeCount # 0
        BY <1>3 DEF PhaseOf
    <2>2. /\ events'[e].stakeCount = events[e].stakeCount /\ ~events'[e].active
          /\ events'[e].winner = w
        BY <1>1, <1>2 DEF Event
    <2> QED BY <2>1, <2>2 DEF PhaseOf
<1>5. \A f \in Events \ {e} : events'[f] = events[f] /\ PhaseOf(events[f])' = PhaseOf(events[f])
    BY DEF Closes, PhaseOf
<1>6. events'[e].stakes = events[e].stakes /\ events'[e].stakeFinalized = events[e].stakeFinalized
    BY DEF Closes
<1> HIDE DEF PhaseOf
<1> DEFINE phase == [f \in Events |-> PhaseOf(events[f])]
           result == [f \in Events |-> IF PhaseOf(events[f]) = "decided"
                                       THEN events[f].winner ELSE NoResult]
<1>7. phase' = [phase EXCEPT ![e] = "decided"]
    BY <1>4, <1>5
<1>8. result' = [result EXCEPT ![e] = w]
    BY <1>4, <1>5
<1>9. /\ [f \in Events |-> events[f].stakes]' = [f \in Events |-> events[f].stakes]
      /\ [f \in Events |-> events[f].stakeFinalized]' = [f \in Events |-> events[f].stakeFinalized]
    BY <1>5, <1>6
<1> QED BY <1>3, <1>7, <1>8, <1>9 DEF Book!Decide

LEMMA FinalizingIsSettling ==
    ASSUME IInv, now' = now, NEW p \in Players, NEW e \in Events, Finalize(p, e)
    PROVE  Book!Settle(e, p)
<1>1. TypeOK /\ events[e] \in Event
    BY DEF IInv, TypeOK
<1>2. /\ p \notin events[e].stakeFinalized /\ events[e].stakes[p].amountVUND > 0
      /\ ~events[e].active
    BY DEF Finalize
<1>3. events[e].stakeCount # 0
    <2> SUFFICES ASSUME events[e].stakeCount = 0 PROVE FALSE
        OBVIOUS
    <2>1. events[e] = UnknownEvent
        BY DEF IInv, UnusedEventsAreBlank, Exists
    <2>2. events[e].stakes[p].amountVUND = 0
        BY <2>1 DEF UnknownEvent, NoStake
    <2> QED BY <1>2, <2>2
<1>4. /\ events'[e] = [events[e] EXCEPT !.stakeFinalized = @ \union {p}]
      /\ events'[e].stakes = events[e].stakes
      /\ events'[e].stakeFinalized = events[e].stakeFinalized \union {p}
      /\ \A f \in Events \ {e} : events'[f] = events[f]
    BY <1>1, FinalizeFields
<1>5. /\ events'[e].stakeCount = events[e].stakeCount /\ events'[e].active = events[e].active
      /\ events'[e].winner = events[e].winner /\ events'[e].startDate = events[e].startDate
    BY <1>1, <1>4 DEF Event
<1>6. /\ PhaseOf(events[e]) = "decided"
      /\ \A f \in Events : PhaseOf(events[f])' = PhaseOf(events[f])
    BY <1>2, <1>3, <1>4, <1>5 DEF PhaseOf
<1>7. \A f \in Events : events'[f].winner = events[f].winner /\ events'[f].stakes = events[f].stakes
    BY <1>4, <1>5
<1> HIDE DEF PhaseOf
<1> DEFINE settled == [f \in Events |-> events[f].stakeFinalized]
<1>8. settled' = [settled EXCEPT ![e] = @ \union {p}]
    BY <1>4
<1>9. /\ [f \in Events |-> PhaseOf(events[f])]' = [f \in Events |-> PhaseOf(events[f])]
      /\ [f \in Events |-> IF PhaseOf(events[f]) = "decided" THEN events[f].winner ELSE NoResult]'
           = [f \in Events |-> IF PhaseOf(events[f]) = "decided" THEN events[f].winner ELSE NoResult]
      /\ [f \in Events |-> events[f].stakes]' = [f \in Events |-> events[f].stakes]
    BY <1>6, <1>7
<1> QED BY <1>2, <1>6, <1>8, <1>9 DEF Book!Settle

\* The protocol implements the abstract book: whatever the queues and the oracle
\* do, an event takes bets until it starts, is decided once, after that, and
\* settles every bet at most once.
THEOREM BookIsBets == Spec => EventsAreBets
<1>1. Init => Book!Init
    <2> SUFFICES ASSUME Init PROVE Book!Init
        OBVIOUS
    <2>1. \A e \in Events : events[e] = UnknownEvent
        BY DEF Init
    <2>2. \A e \in Events :
              /\ PhaseOf(events[e]) = "open" /\ events[e].stakeFinalized = {}
              /\ \A p \in Players : events[e].stakes[p].amountVUND = 0
        BY <2>1 DEF UnknownEvent, NoStake, PhaseOf
    <2> HIDE DEF PhaseOf
    <2> QED BY <2>2 DEF Book!Init
<1>2. IInv /\ IInv' /\ AskedInPast /\ [Next]_vars => [Book!Next]_(Book!vars)
    <2> SUFFICES ASSUME IInv, IInv', AskedInPast, [Next]_vars PROVE Book!Next
        OBVIOUS
    <2>1. TypeOK /\ now \in Nat /\ now' \in Nat
        BY DEF IInv, TypeOK
    <2>2. CASE events' = events
        <3>1. now' >= now
            BY <2>1, TimeAlone
        <3> QED BY <2>1, <2>2, <3>1, RestIsStart DEF Book!Next
    <2>3. CASE now' = now
        <3>1. CASE BookRests
            BY <2>2, <3>1 DEF BookRests
        <3>2. ASSUME NEW e \in Events, NEW p \in Players, NEW vund \in Nat, NEW aton \in Nat,
                     NEW team \in Teams, Registers(e, p, vund, aton, team)
              PROVE  Book!Next
            BY <2>3, <3>2, RegisteringIsBetting DEF Book!Next
        <3>3. ASSUME NEW e \in Events, Closes(e) PROVE Book!Next
            BY <2>3, <3>3, ClosingIsDeciding DEF Book!Next
        <3>4. ASSUME NEW p \in Players, NEW e \in Events, Finalize(p, e) PROVE Book!Next
            BY <2>3, <3>4, FinalizingIsSettling DEF Book!Next
        <3> QED BY <3>1, <3>2, <3>3, <3>4, StepShape
    <2> QED BY <2>1, <2>2, <2>3, TimeAlone
<1> QED BY <1>1, <1>2, IInvHolds, AskedInPastHolds, PTL DEF Spec, EventsAreBets

-----------------------------------------------------------------------------
(* What a stake still needs.  That each of these calls is made, again when *)
(* a request has expired, is the liveness StakesAreSettled; that one of    *)
(* them can always be made is shown here.                                  *)

\* The checks of addOracleCloseRequest, fullfillCloseRequest and
\* finalizePlayerEvent, as the actions of the same names make them.
MayAsk(e) ==
    events[e].startDate < now /\ events[e].active /\ ~HasRequest(closeRequests, e)

MayAnswer(e) ==
    /\ HasRequest(closeRequests, e)
    /\ events[e].active /\ events[e].winner = NoResult
    /\ e \in Elements(activeEvents)

MayCollect(p, e) ==
    /\ ~events[e].active /\ events[e].winner # NoResult
    /\ p \notin events[e].stakeFinalized /\ HasStake(p, e)
    /\ e \in Elements(players[p].activeEvents)

HasNotStarted(e) == events[e].active /\ events[e].startDate >= now

NothingIsStuck ==
    \A p \in Players, e \in Events :
        HasStake(p, e) /\ p \notin events[e].stakeFinalized =>
            HasNotStarted(e) \/ MayAsk(e) \/ MayAnswer(e) \/ MayCollect(p, e)

\* An event of the book that no longer runs has a result.
DecidedHasResult ==
    \A e \in Events : Exists(e) /\ ~events[e].active => events[e].winner # NoResult

LEMMA NextKeepsDecided ==
    ASSUME NoResult \notin Winners, IInv, DecidedHasResult, [Next]_vars
    PROVE  DecidedHasResult'
<1> DEFINE Has(ev) == ev.stakeCount > 0 /\ ~ev.active => ev.winner # NoResult
<1>1. SUFFICES ASSUME NEW e \in Events PROVE Has(events'[e])
    BY DEF DecidedHasResult, Exists
<1>2. Has(events[e]) /\ TypeOK
    BY DEF DecidedHasResult, Exists, IInv
<1>3. CASE BookRests
    BY <1>2, <1>3 DEF BookRests
<1>4. ASSUME NEW f \in Events, NEW o \in Players, NEW vund \in Nat, NEW aton \in Nat,
             NEW team \in Teams, Registers(f, o, vund, aton, team)
      PROVE  Has(events'[e])
    <2>1. CASE f = e
        BY <1>4, <2>1 DEF Registers
    <2>2. CASE f # e
        BY <1>2, <1>4, <2>2 DEF Registers
    <2> QED BY <2>1, <2>2
<1>5. ASSUME NEW f \in Events, Closes(f) PROVE Has(events'[e])
    <2>1. CASE f = e
        <3>1. PICK w \in Winners :
                  events'[e] = [events[e] EXCEPT !.active = FALSE, !.winner = w]
            BY <1>5, <2>1 DEF Closes
        <3>2. events[e] \in Event
            BY <1>2 DEF TypeOK
        <3>3. events'[e].winner = w
            BY <3>1, <3>2 DEF Event
        <3> QED BY <3>3
    <2>2. CASE f # e
        BY <1>2, <1>5, <2>2 DEF Closes
    <2> QED BY <2>1, <2>2
<1>6. ASSUME NEW o \in Players, NEW f \in Events, Finalize(o, f) PROVE Has(events'[e])
    <2>1. /\ events'[f] = [events[f] EXCEPT !.stakeFinalized = @ \union {o}]
          /\ \A g \in Events \ {f} : events'[g] = events[g]
        BY <1>2, <1>6, FinalizeFields
    <2>2. CASE f = e
        <3>1. events[e] \in Event
            BY <1>2 DEF TypeOK
        <3>2. /\ events'[e].stakeCount = events[e].stakeCount
              /\ events'[e].active = events[e].active
              /\ events'[e].winner = events[e].winner
            BY <2>1, <2>2, <3>1 DEF Event
        <3> QED BY <1>2, <3>2
    <2>3. CASE f # e
        BY <1>2, <2>1, <2>3
    <2> QED BY <2>2, <2>3
<1> HIDE DEF Has
<1> QED BY <1>3, <1>4, <1>5, <1>6, StepShape

\* The invariants together leave a stake no state without a way on.
LEMMA NothingStuckNow ==
    ASSUME IInv, DecidedHasResult
    PROVE  NothingIsStuck
<1>1. SUFFICES ASSUME NEW p \in Players, NEW e \in Events,
                      HasStake(p, e), p \notin events[e].stakeFinalized
               PROVE  HasNotStarted(e) \/ MayAsk(e) \/ MayAnswer(e) \/ MayCollect(p, e)
    BY DEF NothingIsStuck
<1>2. now \in Nat /\ events[e].startDate \in Nat
    BY DEF IInv, TypeOK, Event
<1>3. CASE events[e].active
    <2>1. CASE HasRequest(closeRequests, e)
        BY <1>3, <2>1 DEF MayAnswer, HasRequest, IInv, CloseRequestsAreAnswerable
    <2>2. CASE ~HasRequest(closeRequests, e)
        <3>1. events[e].startDate >= now \/ events[e].startDate < now
            BY <1>2
        <3> QED BY <1>3, <2>2, <3>1 DEF MayAsk, HasNotStarted
    <2> QED BY <2>1, <2>2
<1>4. CASE ~events[e].active
    <2>1. Exists(e)
        BY <1>1 DEF IInv, UnusedEventsAreBlank, HasStake, UnknownEvent, NoStake
    <2>2. events[e].winner # NoResult
        BY <1>4, <2>1 DEF DecidedHasResult
    <2>3. e \in Elements(players[p].activeEvents)
        BY <1>1 DEF IInv, ListsAgree
    <2> QED BY <1>1, <1>4, <2>2, <2>3 DEF MayCollect
<1> QED BY <1>3, <1>4

\* No stake is ever locked in the vault: while it is not settled its event has
\* not started, or somebody may ask for the result, or the oracle may answer, or
\* the player may collect, and none of these calls reverts on the state of the
\* queues, the lists or the event (Arenaton.sol 287-312, 397-431, 907-927; Vault.sol
\* 562-625, 733-739, 849-873).  An oracle that reports the value of "no result"
\* would lock it.
THEOREM NoStakeIsStuck ==
    ASSUME NoResult \notin Winners
    PROVE  Spec => []NothingIsStuck
<1>1. Init => DecidedHasResult
    BY DEF Init, UnknownEvent, DecidedHasResult, Exists
<1>2. IInv /\ DecidedHasResult /\ [Next]_vars => DecidedHasResult'
    BY NextKeepsDecided
<1>3. IInv /\ DecidedHasResult => NothingIsStuck
    BY NothingStuckNow
<1> QED BY <1>1, <1>2, <1>3, IInvHolds, PTL DEF Spec

-----------------------------------------------------------------------------
(* Opening stakes, when no minimum stake is zero: an event of the book has *)
(* a worth, which is what the code takes for its existence.                *)

OpensInv ==
    /\ minimumStake > 0
    /\ \A e \in Events : Exists(e) => TotalStaked(e) > 0
    /\ \A r \in openRequests : WorthVUND(r.amountCoin, r.coin) > 0 /\ ~Exists(r.event)

LEMMA TotalGrows ==
    ASSUME TypeOK, NEW e \in Events, NEW p \in Players, NEW ev \in Event, NEW coin,
           NEW team, NEW vund \in Nat, NEW aton \in Nat, NEW isOpen, NEW opened,
           AddStake(e, ev, p, coin, vund, aton, team, isOpen, opened)
    PROVE  /\ TotalStaked(e)' = ev.totalVUND[1] + ev.totalVUND[2] + vund
           /\ ev.totalVUND[1] \in Nat /\ ev.totalVUND[2] \in Nat
           /\ \A f \in Events \ {e} : events'[f] = events[f]
<1> DEFINE joined == e \in Elements(players[p].activeEvents)
           r == WithStake(ev, p, vund, aton, team, isOpen, joined)
<1>1. events' = [events EXCEPT ![e] = r] /\ team \in Teams
    BY DEF AddStake, CanAddStake
<1>2. r.totalVUND = Plus(ev.totalVUND, team, vund)
    <2> HIDE DEF joined
    <2>1. r = WithStake(ev, p, vund, aton, team, isOpen, joined)
        OBVIOUS
    <2> HIDE DEF r
    <2> QED BY <1>1, <2>1, WithStakeFields
<1> HIDE DEF r
<1>3. events'[e] = r /\ \A f \in Events \ {e} : events'[f] = events[f]
    BY <1>1 DEF TypeOK
<1>4. ev.totalVUND \in [Teams -> Nat]
    BY DEF Event
<1>5. r.totalVUND[1] + r.totalVUND[2] = ev.totalVUND[1] + ev.totalVUND[2] + vund
    BY <1>1, <1>2, <1>4 DEF Plus, Teams
<1> QED BY <1>3, <1>4, <1>5 DEF TotalStaked, Teams

\* A stake on an event of the book leaves it in the book.
LEMMA StakesKeepOpens ==
    ASSUME IInv, OpensInv, NEW p \in Players, NEW e \in Events,
           NEW amount \in Amounts, NEW coin \in Coins, NEW aton \in AtonAmounts,
           NEW team \in Teams \union {BadTeam},
           \/ StakeOn(p, e, amount, coin, aton, team)
           \/ StakeOracle(p, e, amount, coin, aton, team)
    PROVE  OpensInv'
<1>1. UNCHANGED <<minimumStake, openRequests>> /\ TypeOK
    BY DEF StakeOn, StakeOracle, IInv
<1>2. PICK a \in Nat, isOpen \in BOOLEAN :
          AddStake(e, events[e], p, coin, WorthVUND(amount, coin), a, team, isOpen, 0)
    BY StakesRegister
<1>3. PICK w \in Nat : w = WorthVUND(amount, coin)
    BY WorthIsNat, ConstantsAssumption
<1>4. events[e] \in Event /\ Exists(e)
    BY <1>1, <1>2 DEF AddStake, CanAddStake, IInv, TypeOK, ActiveEventsMatchFlags
<1>5. /\ TotalStaked(e)' = events[e].totalVUND[1] + events[e].totalVUND[2] + w
      /\ events[e].totalVUND[1] \in Nat /\ events[e].totalVUND[2] \in Nat
      /\ \A f \in Events \ {e} : events'[f] = events[f]
    BY <1>1, <1>2, <1>3, <1>4, TotalGrows
<1>6. TotalStaked(e)' > 0
    BY <1>4, <1>5 DEF OpensInv, TotalStaked
<1>7. \A f \in Events : Exists(f)' => TotalStaked(f)' > 0
    BY <1>5, <1>6 DEF OpensInv, Exists, TotalStaked
<1>8. \A r \in openRequests : r.event \in Events /\ r.event # e
    BY <1>1, <1>4 DEF OpensInv, TypeOK, OpenRequest
<1> QED BY <1>1, <1>5, <1>7, <1>8 DEF OpensInv, Exists

\* The request answered was the only one for its event, and it had a worth.
LEMMA OpeningKeepsOpens ==
    ASSUME IInv, OpensInv, NEW e \in Events, NEW startDate \in 1..(MaxTime - 1),
           NEW sport \in Sports, FulfillOpenRequest(e, startDate, sport)
    PROVE  OpensInv'
<1> DEFINE ev == Populated(e, startDate, sport)
<1>1. PICK r \in openRequests :
          /\ r.event = e
          /\ CanAddEvent(e, startDate)
          /\ NewStake(e, ev, r.requester, r.coin, r.amountCoin, r.amountATON, r.team,
                      TRUE, 1)
          /\ openRequests' = Fresh(openRequests \ {r})
          /\ UNCHANGED <<now, minimumStake, activeCoins>>
    BY DEF FulfillOpenRequest
<1>2. r \in OpenRequest /\ TypeOK
    BY DEF IInv, TypeOK
<1>3. /\ ev \in Event
      /\ \E a \in Nat : AddStake(e, ev, r.requester, r.coin,
                                 WorthVUND(r.amountCoin, r.coin), a, r.team, TRUE, 1)
    BY <1>1, <1>2, OpeningRegisters
<1>4. PICK a \in Nat : AddStake(e, ev, r.requester, r.coin,
                                WorthVUND(r.amountCoin, r.coin), a, r.team, TRUE, 1)
    BY <1>3
<1> HIDE DEF ev
<1>5. PICK w \in Nat : w = WorthVUND(r.amountCoin, r.coin)
    BY <1>2, WorthIsNat DEF OpenRequest
<1>6. w > 0 /\ r.requester \in Players
    BY <1>2, <1>5 DEF OpensInv, OpenRequest
<1>7. /\ TotalStaked(e)' = ev.totalVUND[1] + ev.totalVUND[2] + w
      /\ ev.totalVUND[1] \in Nat /\ ev.totalVUND[2] \in Nat
      /\ \A f \in Events \ {e} : events'[f] = events[f]
    <2>1. AddStake(e, ev, r.requester, r.coin, w, a, r.team, TRUE, 1)
        BY <1>4, <1>5
    <2> QED BY <1>2, <1>3, <1>6, <2>1, TotalGrows
<1>8. TotalStaked(e)' > 0
    BY <1>6, <1>7
<1>9. \A f \in Events : Exists(f)' => TotalStaked(f)' > 0
    BY <1>7, <1>8 DEF OpensInv, Exists, TotalStaked
<1>10. /\ openRequests' \subseteq openRequests
       /\ \A s \in openRequests' : s.event \in Events /\ s.event # e
    BY <1>1, <1>2 DEF Fresh, TypeOK, OpenRequest, IInv, RequestsAreExclusive
<1> QED BY <1>1, <1>7, <1>9, <1>10 DEF OpensInv, Exists

\* The other calls write neither stakes nor the book's extent.
LEMMA OthersKeepOpens ==
    ASSUME IInv, OpensInv,
           \A e \in Events : /\ events'[e].stakeCount = events[e].stakeCount
                             /\ events'[e].totalVUND = events[e].totalVUND,
           minimumStake' = minimumStake, openRequests' \subseteq openRequests
    PROVE  OpensInv'
<1>1. \A r \in openRequests : r.event \in Events
    BY DEF IInv, TypeOK, OpenRequest
<1> QED BY <1>1 DEF OpensInv, Exists, TotalStaked

LEMMA NextKeepsOpens ==
    ASSUME 0 \notin MinimumStakes, IInv, OpensInv, [Next]_vars
    PROVE  OpensInv'
<1>1. TypeOK
    BY DEF IInv
<1>2. ASSUME NEW p \in Players, NEW e \in Events, StakeCall(p, e) PROVE OpensInv'
    <2>1. PICK amount \in Amounts, coin \in Coins, aton \in AtonAmounts,
               team \in Teams \union {BadTeam} :
                  \/ RequestOpen(p, e, amount, coin, aton, team)
                  \/ StakeOn(p, e, amount, coin, aton, team)
                  \/ StakeOracle(p, e, amount, coin, aton, team)
        BY <1>2 DEF StakeCall
    <2>2. CASE RequestOpen(p, e, amount, coin, aton, team)
        <3>1. PICK w \in Nat : w = WorthVUND(amount, coin)
            BY WorthIsNat, ConstantsAssumption
        <3>2. w > 0
            BY <1>1, <2>2, <3>1 DEF RequestOpen, OpensInv, TypeOK
        <3>3. ~Exists(e)
            BY <2>2 DEF RequestOpen, OpensInv
        <3> DEFINE r == [event |-> e, requester |-> p, amountCoin |-> amount, coin |-> coin,
                         amountATON |-> aton, team |-> team, time |-> now]
        <3>4. openRequests' = { q \in openRequests : q.event # e } \union {r}
            BY <2>2 DEF RequestOpen
        <3>5. WorthVUND(r.amountCoin, r.coin) > 0 /\ r.event = e
            BY <3>1, <3>2
        <3>6. UNCHANGED <<minimumStake, events>>
            BY <2>2 DEF RequestOpen
        <3> HIDE DEF r
        <3> QED BY <3>3, <3>4, <3>5, <3>6 DEF OpensInv, Exists, TotalStaked
    <2>3. CASE \/ StakeOn(p, e, amount, coin, aton, team)
               \/ StakeOracle(p, e, amount, coin, aton, team)
        BY <2>3, StakesKeepOpens
    <2> QED BY <2>1, <2>2, <2>3
<1>3. ASSUME NEW e \in Events, NEW startDate \in 1..(MaxTime - 1), NEW sport \in Sports,
             FulfillOpenRequest(e, startDate, sport)
      PROVE  OpensInv'
    BY <1>3, OpeningKeepsOpens
<1>4. ASSUME NEW e \in Events, NEW winner \in Winners, FulfillCloseRequest(e, winner)
      PROVE  OpensInv'
    <2>1. /\ events' = [events EXCEPT ![e].active = FALSE, ![e].winner = winner]
          /\ openRequests' = Fresh(openRequests) /\ minimumStake' = minimumStake
        BY <1>4 DEF FulfillCloseRequest
    <2>2. \A f \in Events : /\ events'[f].stakeCount = events[f].stakeCount
                            /\ events'[f].totalVUND = events[f].totalVUND
        BY <1>1, <2>1 DEF TypeOK, Event
    <2>3. openRequests' \subseteq openRequests
        BY <2>1 DEF Fresh
    <2> QED BY <2>1, <2>2, <2>3, OthersKeepOpens
<1>5. ASSUME NEW p \in Players, NEW e \in Events, Finalize(p, e) PROVE OpensInv'
    <2>1. /\ events' = [events EXCEPT ![e].stakeFinalized = @ \union {p}]
          /\ openRequests' = openRequests /\ minimumStake' = minimumStake
        BY <1>5 DEF Finalize
    <2>2. \A f \in Events : /\ events'[f].stakeCount = events[f].stakeCount
                            /\ events'[f].totalVUND = events[f].totalVUND
        BY <1>1, <2>1 DEF TypeOK, Event
    <2> QED BY <2>1, <2>2, OthersKeepOpens
<1>6. ASSUME NEW p \in Players, NEW e \in Events, AddCloseRequest(p, e) PROVE OpensInv'
    BY <1>6, OthersKeepOpens DEF AddCloseRequest
<1>7. CASE \/ \E coin \in Coins : ToggleCoin(coin)
           \/ Tick \/ UNCHANGED vars
    BY <1>7, OthersKeepOpens DEF ToggleCoin, Tick, vars
<1>8. ASSUME NEW amount \in MinimumStakes, SetMinimumStake(amount) PROVE OpensInv'
    <2>1. minimumStake' > 0 /\ UNCHANGED <<events, openRequests>>
        BY <1>8, ConstantsAssumption DEF SetMinimumStake
    <2> QED BY <2>1 DEF OpensInv, Exists, TotalStaked
<1> QED BY <1>2, <1>3, <1>4, <1>5, <1>6, <1>7, <1>8 DEF Next, OracleCall, OwnerCall

LEMMA InitOpens == ASSUME 0 \notin MinimumStakes, Init PROVE OpensInv
<1>1. minimumStake > 0 /\ openRequests = {}
    BY ConstantsAssumption DEF Init
<1>2. \A e \in Events : ~Exists(e)
    BY DEF Init, UnknownEvent, Exists
<1> QED BY <1>1, <1>2 DEF OpensInv

\* No opening stake waits for an event of the book, so that no answer reverts on
\* it, as long as the owner never sets a minimum of zero (Arenaton.sol 235-280).
THEOREM OpenRequestsStayNew ==
    ASSUME 0 \notin MinimumStakes
    PROVE  Spec => []OpenRequestsAreForNewEvents
<1>1. Init => OpensInv
    BY InitOpens
<1>2. IInv /\ OpensInv /\ [Next]_vars => OpensInv'
    BY NextKeepsOpens
<1>3. OpensInv => OpenRequestsAreForNewEvents
    BY DEF OpensInv, OpenRequestsAreForNewEvents
<1> QED BY <1>1, <1>2, <1>3, IInvHolds, PTL DEF Spec

-----------------------------------------------------------------------------
(* The counters of players, recomputed from the settled events.            *)

Won(p) == { e \in Events : p \in events[e].stakeFinalized /\ HasWon(events[e], p) }

WonIn(p, s) == { e \in Won(p) : events[e].sport = s }

WonAsOpener(p) == { e \in Won(p) : p \in events[e].isOpenEvent }

\* A sport of zero would count twice; only events without stakes have it.
CountersInv ==
    /\ \A e \in Events : Exists(e) => events[e].sport \in Sports
    /\ \A p \in Players :
          /\ players[p].totalCount[0] = Len(players[p].closedEvents)
          /\ players[p].winCount[0] = Cardinality(Won(p))
          /\ \A s \in Sports : players[p].winCount[s] = Cardinality(WonIn(p, s))
          /\ players[p].openWinCount[0] = Cardinality(WonAsOpener(p))

CountersOf(pl) == <<pl.totalCount, pl.closedEvents, pl.winCount, pl.openWinCount>>

\* Calls that settle nothing, and leave settled events alone, leave the counters.
LEMMA CountersRest ==
    ASSUME CountersInv,
           \A p \in Players : CountersOf(players'[p]) = CountersOf(players[p]),
           \A e \in Events : \/ /\ events'[e].stakeFinalized = events[e].stakeFinalized
                                /\ events'[e].winner = events[e].winner
                                /\ events'[e].sport = events[e].sport
                                /\ events'[e].stakes = events[e].stakes
                                /\ events'[e].isOpenEvent = events[e].isOpenEvent
                             \/ events[e].stakeFinalized = {} /\ events'[e].stakeFinalized = {},
           \A e \in Events : Exists(e)' => events'[e].sport \in Sports
    PROVE  CountersInv'
<1>1. ASSUME NEW p \in Players
      PROVE  /\ Won(p)' = Won(p) /\ WonAsOpener(p)' = WonAsOpener(p)
             /\ \A s \in Sports : WonIn(p, s)' = WonIn(p, s)
    <2>1. \A e \in Events : e \in Won(p)' <=> e \in Won(p)
        BY DEF Won, HasWon
    <2>2. Won(p)' = Won(p)
        BY <2>1 DEF Won
    <2>3. \A e \in Won(p) : /\ events'[e].sport = events[e].sport
                            /\ events'[e].isOpenEvent = events[e].isOpenEvent
        BY DEF Won
    <2> QED BY <2>2, <2>3 DEF WonIn, WonAsOpener
<1>2. \A p \in Players : /\ players'[p].totalCount = players[p].totalCount
                         /\ players'[p].closedEvents = players[p].closedEvents
                         /\ players'[p].winCount = players[p].winCount
                         /\ players'[p].openWinCount = players[p].openWinCount
    BY DEF CountersOf
<1> QED BY <1>1, <1>2 DEF CountersInv

\* A stake is registered where nothing has been settled yet.
LEMMA StakeKeepsCounters ==
    ASSUME IInv, CountersInv, NEW e \in Events, NEW p \in Players, NEW ev \in Event,
           NEW coin, NEW team, NEW vund \in Nat, NEW aton \in Nat, NEW isOpen, NEW opened,
           ev.stakeFinalized = events[e].stakeFinalized, ev.sport \in Sports,
           events[e].active \/ ~Exists(e),
           AddStake(e, ev, p, coin, vund, aton, team, isOpen, opened)
    PROVE  CountersInv'
<1> DEFINE joined == e \in Elements(players[p].activeEvents)
           r == WithStake(ev, p, vund, aton, team, isOpen, joined)
           q == WithBet(players[p], e, vund, ev, opened)
<1>1. /\ events' = [events EXCEPT ![e] = r] /\ players' = [players EXCEPT ![p] = q]
      /\ team \in Teams /\ TypeOK
    BY DEF AddStake, CanAddStake, IInv
<1>2. r.stakeFinalized = ev.stakeFinalized /\ r.sport = ev.sport
    <2> HIDE DEF joined
    <2>1. r = WithStake(ev, p, vund, aton, team, isOpen, joined)
        OBVIOUS
    <2> HIDE DEF r
    <2> QED BY <1>1, <2>1, WithStakeFields
<1>3. CountersOf(q) = CountersOf(players[p])
    BY <1>1 DEF WithBet, TypeOK, Player, CountersOf
<1> HIDE DEF r, q
<1>4. /\ events'[e] = r /\ \A f \in Events \ {e} : events'[f] = events[f]
      /\ \A o \in Players : CountersOf(players'[o]) = CountersOf(players[o])
    BY <1>1, <1>3 DEF TypeOK
<1>5. events[e].stakeFinalized = {}
    <2>1. \A o \in Players : o \notin events[e].stakeFinalized
        BY DEF IInv, FinalizedMeansDecided, UnusedEventsAreBlank, UnknownEvent
    <2>2. events[e].stakeFinalized \subseteq Players
        BY <1>1 DEF TypeOK, Event
    <2> QED BY <2>1, <2>2
<1>6. events'[e].stakeFinalized = {} /\ events'[e].sport \in Sports
    BY <1>2, <1>4, <1>5
<1>7. \A f \in Events : Exists(f)' => events'[f].sport \in Sports
    BY <1>4, <1>6 DEF CountersInv, Exists
<1>8. \A f \in Events : \/ /\ events'[f].stakeFinalized = events[f].stakeFinalized
                           /\ events'[f].winner = events[f].winner
                           /\ events'[f].sport = events[f].sport
                           /\ events'[f].stakes = events[f].stakes
                           /\ events'[f].isOpenEvent = events[f].isOpenEvent
                        \/ events[f].stakeFinalized = {} /\ events'[f].stakeFinalized = {}
    BY <1>4, <1>5, <1>6
<1> QED BY <1>4, <1>7, <1>8, CountersRest

LEMMA CountedAt ==
    ASSUME NEW c \in Counter, NEW sport \in Sports, NEW condition
    PROVE  /\ Counted(c, sport)[0] = c[0] + 1
           /\ CountedIf(condition, c, sport)[0] = IF condition THEN c[0] + 1 ELSE c[0]
           /\ \A s \in Sports : CountedIf(condition, c, sport)[s]
                 = IF condition /\ s = sport THEN c[s] + 1 ELSE c[s]
<1>1. 0 \notin Sports
    BY ConstantsAssumption
<1> QED BY <1>1 DEF Counted, CountedIf, Counter

\* A set that gains one element or none.
LEMMA CountAfter ==
    ASSUME IsFiniteSet(Events), NEW S \in SUBSET Events, NEW T, NEW e \in Events, e \notin S,
           NEW condition, T = IF condition THEN S \union {e} ELSE S
    PROVE  Cardinality(T) = IF condition THEN Cardinality(S) + 1 ELSE Cardinality(S)
BY FS_Subset, FS_AddElement

LEMMA FinalizeKeepsCounters ==
    ASSUME IsFiniteSet(Events), IInv, CountersInv,
           NEW p \in Players, NEW e \in Events, Finalize(p, e)
    PROVE  CountersInv'
<1>1. TypeOK
    BY DEF IInv
<1>2. /\ p \notin events[e].stakeFinalized
      /\ events'[e] = [events[e] EXCEPT !.stakeFinalized = @ \union {p}]
      /\ events'[e].stakes = events[e].stakes
      /\ events'[e].stakeFinalized = events[e].stakeFinalized \union {p}
      /\ \A f \in Events \ {e} : events'[f] = events[f]
      /\ \A o \in Players \ {p} : players'[o] = players[o]
    BY <1>1, FinalizeFields
<1>3. /\ events'[e].winner = events[e].winner /\ events'[e].sport = events[e].sport
      /\ events'[e].isOpenEvent = events[e].isOpenEvent
      /\ events'[e].stakeCount = events[e].stakeCount
    BY <1>1, <1>2 DEF TypeOK, Event
<1>4. \A f \in Events : /\ events'[f].winner = events[f].winner
                        /\ events'[f].sport = events[f].sport
                        /\ events'[f].stakes = events[f].stakes
                        /\ events'[f].isOpenEvent = events[f].isOpenEvent
    BY <1>2, <1>3
<1> DEFINE sport == events[e].sport
           won == HasWon(events[e], p)
           opener == p \in events[e].isOpenEvent
<1>5. sport \in Sports
    <2>1. events[e].stakes[p].amountVUND > 0
        BY DEF Finalize
    <2>2. UnknownEvent.stakes[p].amountVUND = 0
        BY DEF UnknownEvent, NoStake
    <2>3. Exists(e)
        BY <2>1, <2>2 DEF IInv, UnusedEventsAreBlank
    <2> QED BY <2>3 DEF CountersInv
<1>6. /\ \A f \in Events : Exists(f)' => events'[f].sport \in Sports
      /\ \A f \in Events, o \in Players : HasWon(events'[f], o) <=> HasWon(events[f], o)
    BY <1>2, <1>3, <1>4 DEF CountersInv, Exists, HasWon
<1>7. e \notin Won(p) /\ Won(p) \in SUBSET Events
    BY <1>2 DEF Won
<1>8. \A f \in Events : f \in Won(p)' <=> f \in Won(p) \/ (f = e /\ won)
    BY <1>2, <1>6 DEF Won
<1>9. Won(p)' = IF won THEN Won(p) \union {e} ELSE Won(p)
    <2>1. Won(p)' \in SUBSET Events
        BY DEF Won
    <2> HIDE DEF won
    <2> QED BY <1>7, <1>8, <2>1
<1>10. ASSUME NEW o \in Players \ {p}
       PROVE  /\ players'[o] = players[o]
              /\ Won(o)' = Won(o) /\ WonAsOpener(o)' = WonAsOpener(o)
              /\ \A s \in Sports : WonIn(o, s)' = WonIn(o, s)
    <2>1. Won(o)' = Won(o)
        BY <1>2, <1>6 DEF Won
    <2>2. Won(o) \in SUBSET Events
        BY DEF Won
    <2> QED BY <1>2, <1>4, <2>1, <2>2 DEF WonIn, WonAsOpener
<1>11. PICK c, d : c = players[p] /\ d = players'[p]
    OBVIOUS
<1>12. /\ c \in Player
       /\ d.totalCount = Counted(c.totalCount, sport)
       /\ d.winCount = CountedIf(won, c.winCount, sport)
       /\ d.openWinCount = CountedIf(won /\ opener, c.openWinCount, sport)
       /\ d.closedEvents = Append(c.closedEvents, e)
    <2>1. players' = [players EXCEPT ![p] = Settled(players[p], p, e, events[e])]
        BY <1>1 DEF Finalize, TypeOK
    <2>2. d = Settled(c, p, e, events[e]) /\ c \in Player
        BY <1>1, <1>11, <2>1 DEF TypeOK
    <2> QED BY <2>2 DEF Settled, Player
<1>13. /\ Len(d.closedEvents) = Len(c.closedEvents) + 1 /\ Len(c.closedEvents) \in Nat
       /\ c.totalCount \in Counter /\ c.winCount \in Counter /\ c.openWinCount \in Counter
    BY <1>12 DEF Player
<1>14. d.totalCount[0] = Len(d.closedEvents)
    BY <1>5, <1>11, <1>12, <1>13, CountedAt DEF CountersInv
<1>15. d.winCount[0] = Cardinality(Won(p)')
    <2>1. Cardinality(Won(p)') = IF won THEN Cardinality(Won(p)) + 1 ELSE Cardinality(Won(p))
        BY <1>7, <1>9, CountAfter
    <2> QED BY <1>5, <1>11, <1>12, <1>13, <2>1, CountedAt DEF CountersInv
<1>16. ASSUME NEW s \in Sports PROVE d.winCount[s] = Cardinality(WonIn(p, s)')
    <2>1. /\ e \notin WonIn(p, s) /\ WonIn(p, s) \in SUBSET Events
          /\ WonIn(p, s)' = IF won /\ s = sport THEN WonIn(p, s) \union {e} ELSE WonIn(p, s)
        BY <1>4, <1>7, <1>9 DEF WonIn
    <2>2. Cardinality(WonIn(p, s)') = IF won /\ s = sport THEN Cardinality(WonIn(p, s)) + 1
                                                         ELSE Cardinality(WonIn(p, s))
        BY <2>1, CountAfter
    <2> QED BY <1>5, <1>11, <1>12, <1>13, <2>2, CountedAt DEF CountersInv
<1>17. d.openWinCount[0] = Cardinality(WonAsOpener(p)')
    <2>1. \A f \in Events : f \in WonAsOpener(p)'
                               <=> f \in WonAsOpener(p) \/ (f = e /\ won /\ opener)
        BY <1>4, <1>7, <1>8 DEF WonAsOpener, Won
    <2>2. e \notin WonAsOpener(p) /\ WonAsOpener(p) \in SUBSET Events
          /\ WonAsOpener(p)' \in SUBSET Events
        BY <1>7 DEF WonAsOpener, Won
    <2>3. /\ e \notin WonAsOpener(p) /\ WonAsOpener(p) \in SUBSET Events
          /\ WonAsOpener(p)' = IF won /\ opener THEN WonAsOpener(p) \union {e}
                                                ELSE WonAsOpener(p)
        <3> HIDE DEF won, opener
        <3> QED BY <2>1, <2>2
    <2>4. Cardinality(WonAsOpener(p)') = IF won /\ opener THEN Cardinality(WonAsOpener(p)) + 1
                                                         ELSE Cardinality(WonAsOpener(p))
        BY <2>3, CountAfter
    <2>5. d.openWinCount[0] = IF won /\ opener THEN c.openWinCount[0] + 1
                                               ELSE c.openWinCount[0]
        <3>1. 0 \notin Sports
            BY ConstantsAssumption
        <3> QED BY <1>5, <1>12, <1>13, <3>1 DEF CountedIf, Counted, Counter
    <2>6. c.openWinCount[0] = Cardinality(WonAsOpener(p))
        BY <1>11 DEF CountersInv
    <2> HIDE DEF won, opener
    <2> QED BY <2>4, <2>5, <2>6
<1> QED BY <1>6, <1>10, <1>11, <1>14, <1>15, <1>16, <1>17 DEF CountersInv

LEMMA NextKeepsCounters ==
    ASSUME IsFiniteSet(Events), IInv, CountersInv, [Next]_vars
    PROVE  CountersInv'
<1>1. TypeOK
    BY DEF IInv
<1>2. ASSUME NEW p \in Players, NEW e \in Events, StakeCall(p, e) PROVE CountersInv'
    <2>1. PICK amount \in Amounts, coin \in Coins, aton \in AtonAmounts,
               team \in Teams \union {BadTeam} :
                  \/ RequestOpen(p, e, amount, coin, aton, team)
                  \/ StakeOn(p, e, amount, coin, aton, team)
                  \/ StakeOracle(p, e, amount, coin, aton, team)
        BY <1>2 DEF StakeCall
    <2>2. CASE RequestOpen(p, e, amount, coin, aton, team)
        <3>1. UNCHANGED <<events, players>>
            BY <2>2 DEF RequestOpen
        <3> QED BY <3>1, CountersRest DEF CountersInv, Exists
    <2>3. CASE \/ StakeOn(p, e, amount, coin, aton, team)
               \/ StakeOracle(p, e, amount, coin, aton, team)
        <3>1. PICK a \in Nat, isOpen \in BOOLEAN :
                  AddStake(e, events[e], p, coin, WorthVUND(amount, coin), a, team, isOpen, 0)
            BY <2>3, StakesRegister
        <3>2. events[e].active /\ events[e] \in Event
            BY <1>1, <3>1 DEF AddStake, CanAddStake, TypeOK
        <3>3. events[e].sport \in Sports
            BY <3>2 DEF IInv, ActiveEventsMatchFlags, CountersInv
        <3>4. PICK w \in Nat : w = WorthVUND(amount, coin)
            BY WorthIsNat, ConstantsAssumption
        <3>5. AddStake(e, events[e], p, coin, w, a, team, isOpen, 0)
            BY <3>1, <3>4
        <3> QED BY <3>2, <3>3, <3>5, StakeKeepsCounters
    <2> QED BY <2>1, <2>2, <2>3
<1>3. ASSUME NEW e \in Events, NEW startDate \in 1..(MaxTime - 1), NEW sport \in Sports,
             FulfillOpenRequest(e, startDate, sport)
      PROVE  CountersInv'
    <2> DEFINE ev == Populated(e, startDate, sport)
    <2>1. PICK r \in openRequests :
              /\ CanAddEvent(e, startDate)
              /\ NewStake(e, ev, r.requester, r.coin, r.amountCoin, r.amountATON, r.team,
                          TRUE, 1)
        BY <1>3 DEF FulfillOpenRequest
    <2>2. r \in OpenRequest
        BY <1>1 DEF TypeOK
    <2>3. PICK w \in Nat : w = WorthVUND(r.amountCoin, r.coin)
        BY <2>2, WorthIsNat DEF OpenRequest
    <2>4. /\ ev \in Event /\ ~Exists(e) /\ ev.stakeFinalized = events[e].stakeFinalized
          /\ \E a \in Nat : AddStake(e, ev, r.requester, r.coin,
                                     WorthVUND(r.amountCoin, r.coin), a, r.team, TRUE, 1)
        BY <1>1, <2>1, <2>2, OpeningRegisters
    <2>5. ev.sport \in Sports
        BY <1>1 DEF Populated, TypeOK, Event
    <2> HIDE DEF ev
    <2>6. PICK a \in Nat : AddStake(e, ev, r.requester, r.coin, w, a, r.team, TRUE, 1)
        BY <2>3, <2>4
    <2>7. r.requester \in Players
        BY <2>2 DEF OpenRequest
    <2> QED BY <2>4, <2>5, <2>6, <2>7, StakeKeepsCounters
<1>4. ASSUME NEW e \in Events, NEW winner \in Winners, FulfillCloseRequest(e, winner)
      PROVE  CountersInv'
    <2>1. PICK r \in closeRequests :
              /\ events[e].active
              /\ events' = [events EXCEPT ![e].active = FALSE, ![e].winner = winner]
              /\ players' = [players EXCEPT ![r.requester].level = @ + 1]
        BY <1>4 DEF FulfillCloseRequest
    <2>2. r.requester \in Players /\ events[e] \in Event
        BY <1>1 DEF TypeOK, CloseRequest
    <2>3. /\ events'[e].stakeFinalized = events[e].stakeFinalized
          /\ events'[e].sport = events[e].sport
          /\ events'[e].stakeCount = events[e].stakeCount
          /\ \A f \in Events \ {e} : events'[f] = events[f]
        BY <1>1, <2>1, <2>2 DEF TypeOK, Event
    <2>4. \A o \in Players : CountersOf(players'[o]) = CountersOf(players[o])
        BY <1>1, <2>1, <2>2 DEF TypeOK, Player, CountersOf
    <2>5. events[e].stakeFinalized = {}
        BY <2>1, <2>2 DEF IInv, FinalizedMeansDecided, Event
    <2>6. \A f \in Events : Exists(f)' => events'[f].sport \in Sports
        BY <2>3 DEF CountersInv, Exists
    <2> QED BY <2>3, <2>4, <2>5, <2>6, CountersRest
<1>5. ASSUME NEW p \in Players, NEW e \in Events, Finalize(p, e) PROVE CountersInv'
    BY <1>5, FinalizeKeepsCounters
<1>6. ASSUME UNCHANGED <<events, players>> PROVE CountersInv'
    BY <1>6, CountersRest DEF CountersInv, Exists
<1>7. ASSUME NEW p \in Players, NEW e \in Events, AddCloseRequest(p, e) PROVE CountersInv'
    BY <1>6, <1>7 DEF AddCloseRequest
<1>8. CASE OwnerCall \/ Tick \/ UNCHANGED vars
    BY <1>6, <1>8 DEF OwnerCall, SetMinimumStake, ToggleCoin, Tick, vars
<1> QED BY <1>2, <1>3, <1>4, <1>5, <1>7, <1>8 DEF Next, OracleCall

LEMMA InitCounters == ASSUME Init PROVE CountersInv
<1>1. \A e \in Events : ~Exists(e) /\ events[e].stakeFinalized = {}
    BY DEF Init, UnknownEvent, Exists
<1>2. \A p \in Players : Won(p) = {} /\ WonAsOpener(p) = {}
    BY <1>1 DEF Won, WonAsOpener
<1>3. \A p \in Players, s \in Sports : WonIn(p, s) = {}
    BY <1>2 DEF WonIn
<1>4. \A p \in Players : /\ players[p].totalCount[0] = 0 /\ players[p].winCount[0] = 0
                         /\ players[p].openWinCount[0] = 0 /\ Len(players[p].closedEvents) = 0
                         /\ \A s \in Sports : players[p].winCount[s] = 0
    BY DEF Init, NewPlayer, Zeroes
<1> QED BY <1>1, <1>2, <1>3, <1>4, FS_EmptySet DEF CountersInv

\* The counters of a player can be recomputed from the settled events, whatever the
\* order of settlements (Vault.sol 741-760).
THEOREM CountersAgree ==
    ASSUME IsFiniteSet(Events)
    PROVE  Spec => []CountersMatchBook
<1>1. Init => CountersInv
    BY InitCounters
<1>2. IInv /\ CountersInv /\ [Next]_vars => CountersInv'
    BY NextKeepsCounters
<1>3. CountersInv => CountersMatchBook
    <2> SUFFICES ASSUME CountersInv PROVE CountersMatchBook
        OBVIOUS
    <2>1. ASSUME NEW p \in Players
          PROVE  /\ Won(p) = { e \in Events : /\ p \in events[e].stakeFinalized
                                              /\ HasWon(events[e], p) }
                 /\ WonAsOpener(p) = { e \in Events :
                        /\ p \in events[e].stakeFinalized
                        /\ HasWon(events[e], p) /\ p \in events[e].isOpenEvent }
                 /\ \A s \in Sports : WonIn(p, s) = { e \in Events :
                        /\ p \in events[e].stakeFinalized
                        /\ HasWon(events[e], p) /\ events[e].sport = s }
        BY DEF Won, WonIn, WonAsOpener
    <2> QED BY <2>1 DEF CountersInv, CountersMatchBook, FinalizedWith
<1> QED BY <1>1, <1>2, <1>3, IInvHolds, PTL DEF Spec

-----------------------------------------------------------------------------
(* The totals of the teams.                                                *)

\* What every player has on team t, in one of the two currencies.
VUNDOn(stakes, t) ==
    [p \in Players |-> IF stakes[p].team = t THEN stakes[p].amountVUND ELSE 0]
ATONOn(stakes, t) ==
    [p \in Players |-> IF stakes[p].team = t THEN stakes[p].amountATON ELSE 0]

TotalsInv ==
    \A e \in Events, t \in Teams :
        /\ events[e].totalVUND[t] = SumFunctionOnSet(VUNDOn(events[e].stakes, t), Players)
        /\ events[e].totalATON[t] = SumFunctionOnSet(ATONOn(events[e].stakes, t), Players)

LEMMA StakesAreNaturals ==
    ASSUME NEW stakes \in [Players -> Stake], NEW t
    PROVE  \A p \in Players :
              /\ VUNDOn(stakes, t)[p] \in Nat /\ ATONOn(stakes, t)[p] \in Nat
              /\ stakes[p].amountVUND \in Nat /\ stakes[p].amountATON \in Nat
<1>1. \A p \in Players : stakes[p].amountVUND \in Nat /\ stakes[p].amountATON \in Nat
    BY DEF Stake
<1> QED BY <1>1 DEF VUNDOn, ATONOn

\* A stake adds its amounts to its team, in the sums as in the totals.
LEMMA RaisedSums ==
    ASSUME IsFiniteSet(Players), NEW stakes \in [Players -> Stake], NEW p \in Players,
           NEW vund \in Nat, NEW aton \in Nat, NEW team \in Teams, NEW t \in Teams,
           \/ stakes[p].amountVUND = 0 /\ stakes[p].amountATON = 0
           \/ stakes[p].team = team,
           NEW new, new = Raised(stakes, p, vund, aton, team), new \in [Players -> Stake]
    PROVE  /\ SumFunctionOnSet(VUNDOn(new, t), Players) =
                 SumFunctionOnSet(VUNDOn(stakes, t), Players) + (IF t = team THEN vund ELSE 0)
           /\ SumFunctionOnSet(ATONOn(new, t), Players) =
                 SumFunctionOnSet(ATONOn(stakes, t), Players) + (IF t = team THEN aton ELSE 0)
<1>1. /\ new[p].team = team
      /\ new[p].amountVUND = stakes[p].amountVUND + vund
      /\ new[p].amountATON = stakes[p].amountATON + aton
      /\ \A q \in Players \ {p} : new[q] = stakes[q]
    BY DEF Raised
<1>2. stakes[p].amountVUND \in Nat /\ stakes[p].amountATON \in Nat
    BY StakesAreNaturals
<1>3. /\ VUNDOn(new, t)[p] = VUNDOn(stakes, t)[p] + (IF t = team THEN vund ELSE 0)
      /\ \A q \in Players \ {p} : VUNDOn(stakes, t)[q] = VUNDOn(new, t)[q]
    BY <1>1, <1>2 DEF VUNDOn
<1>4. /\ ATONOn(new, t)[p] = ATONOn(stakes, t)[p] + (IF t = team THEN aton ELSE 0)
      /\ \A q \in Players \ {p} : ATONOn(stakes, t)[q] = ATONOn(new, t)[q]
    BY <1>1, <1>2 DEF ATONOn
<1>5. PICK v, w, a, b : /\ v = VUNDOn(stakes, t) /\ w = VUNDOn(new, t)
                        /\ a = ATONOn(stakes, t) /\ b = ATONOn(new, t)
    OBVIOUS
<1>6. \A q \in Players : v[q] \in Nat /\ w[q] \in Nat /\ a[q] \in Nat /\ b[q] \in Nat
    BY <1>5, StakesAreNaturals
<1>7. SumFunctionOnSet(w, Players) = SumFunctionOnSet(v, Players) - v[p] + w[p]
    BY <1>3, <1>5, <1>6, SumChange
<1>8. SumFunctionOnSet(b, Players) = SumFunctionOnSet(a, Players) - a[p] + b[p]
    BY <1>4, <1>5, <1>6, SumChange
<1>9. SumFunctionOnSet(v, Players) \in Int /\ SumFunctionOnSet(a, Players) \in Int
    BY <1>6, SumType
<1>10. w[p] = v[p] + (IF t = team THEN vund ELSE 0) /\ b[p] = a[p] + (IF t = team THEN aton ELSE 0)
    BY <1>3, <1>4, <1>5
<1> QED BY <1>5, <1>6, <1>7, <1>8, <1>9, <1>10

LEMMA NextKeepsTotals ==
    ASSUME IsFiniteSet(Players), IInv, TotalsInv, [Next]_vars
    PROVE  TotalsInv'
<1>1. TypeOK /\ TypeOK'
    BY NextKeepsIInv DEF IInv
<1>2. CASE \A e \in Events : /\ events'[e].stakes = events[e].stakes
                             /\ events'[e].totalVUND = events[e].totalVUND
                             /\ events'[e].totalATON = events[e].totalATON
    BY <1>2 DEF TotalsInv, VUNDOn, ATONOn
<1>3. ASSUME NEW e \in Events, NEW p \in Players, NEW vund \in Nat, NEW aton \in Nat,
             NEW team \in Teams, Registers(e, p, vund, aton, team)
      PROVE  TotalsInv'
    <2> SUFFICES ASSUME NEW f \in Events, NEW t \in Teams
                 PROVE  /\ events'[f].totalVUND[t] =
                              SumFunctionOnSet(VUNDOn(events'[f].stakes, t), Players)
                        /\ events'[f].totalATON[t] =
                              SumFunctionOnSet(ATONOn(events'[f].stakes, t), Players)
        BY DEF TotalsInv, VUNDOn, ATONOn
    <2>1. CASE f # e
        BY <1>3, <2>1 DEF Registers, TotalsInv
    <2>2. CASE f = e
        <3>1. PICK old, new : old = events[e] /\ new = events'[e]
            OBVIOUS
        <3>2. old \in Event /\ new \in Event
            BY <1>1, <3>1 DEF TypeOK
        <3>3. /\ new.stakes = Raised(old.stakes, p, vund, aton, team)
              /\ new.totalVUND = Plus(old.totalVUND, team, vund)
              /\ new.totalATON = Plus(old.totalATON, team, aton)
              /\ \/ old.stakes[p].amountVUND = 0 /\ old.stakes[p].amountATON = 0
                 \/ old.stakes[p].team = team
            BY <1>3, <3>1 DEF Registers
        <3>4. /\ old.stakes \in [Players -> Stake] /\ new.stakes \in [Players -> Stake]
              /\ old.totalVUND \in [Teams -> Nat] /\ old.totalATON \in [Teams -> Nat]
            BY <3>2 DEF Event
        <3>5. /\ SumFunctionOnSet(VUNDOn(new.stakes, t), Players) =
                    SumFunctionOnSet(VUNDOn(old.stakes, t), Players)
                        + (IF t = team THEN vund ELSE 0)
              /\ SumFunctionOnSet(ATONOn(new.stakes, t), Players) =
                    SumFunctionOnSet(ATONOn(old.stakes, t), Players)
                        + (IF t = team THEN aton ELSE 0)
            <4>1. PICK st, nw : st = old.stakes /\ nw = new.stakes
                OBVIOUS
            <4>2. /\ st \in [Players -> Stake] /\ nw \in [Players -> Stake]
                  /\ nw = Raised(st, p, vund, aton, team)
                  /\ \/ st[p].amountVUND = 0 /\ st[p].amountATON = 0
                     \/ st[p].team = team
                BY <3>3, <3>4, <4>1
            <4>3. /\ SumFunctionOnSet(VUNDOn(nw, t), Players) =
                        SumFunctionOnSet(VUNDOn(st, t), Players)
                            + (IF t = team THEN vund ELSE 0)
                  /\ SumFunctionOnSet(ATONOn(nw, t), Players) =
                        SumFunctionOnSet(ATONOn(st, t), Players)
                            + (IF t = team THEN aton ELSE 0)
                BY <4>2, RaisedSums
            <4> QED BY <4>1, <4>3
        <3>6. /\ old.totalVUND[t] = SumFunctionOnSet(VUNDOn(old.stakes, t), Players)
              /\ old.totalATON[t] = SumFunctionOnSet(ATONOn(old.stakes, t), Players)
            BY <3>1 DEF TotalsInv
        <3>7. /\ new.totalVUND[t] = old.totalVUND[t] + (IF t = team THEN vund ELSE 0)
              /\ new.totalATON[t] = old.totalATON[t] + (IF t = team THEN aton ELSE 0)
            BY <3>3, <3>4 DEF Plus
        <3> QED BY <2>2, <3>1, <3>5, <3>6, <3>7
    <2> QED BY <2>1, <2>2
<1>4. ASSUME NEW p \in Players, NEW e \in Events, Finalize(p, e) PROVE TotalsInv'
    <2>1. /\ events'[e] = [events[e] EXCEPT !.stakeFinalized = @ \union {p}]
          /\ \A f \in Events \ {e} : events'[f] = events[f]
        BY <1>1, <1>4, FinalizeFields
    <2>2. events[e] \in Event
        BY <1>1 DEF TypeOK
    <2>3. /\ events'[e].stakes = events[e].stakes
          /\ events'[e].totalVUND = events[e].totalVUND
          /\ events'[e].totalATON = events[e].totalATON
        BY <2>1, <2>2 DEF Event
    <2> QED BY <1>2, <2>1, <2>3
<1>5. ASSUME NEW e \in Events, Closes(e) PROVE TotalsInv'
    BY <1>2, <1>5 DEF Closes
<1>6. CASE BookRests
    BY <1>2, <1>6 DEF BookRests
<1> QED BY <1>3, <1>4, <1>5, <1>6, StepShape

LEMMA InitTotals == ASSUME IsFiniteSet(Players), Init PROVE TotalsInv
<1> SUFFICES ASSUME NEW e \in Events, NEW t \in Teams
             PROVE  /\ events[e].totalVUND[t] =
                          SumFunctionOnSet(VUNDOn(events[e].stakes, t), Players)
                    /\ events[e].totalATON[t] =
                          SumFunctionOnSet(ATONOn(events[e].stakes, t), Players)
    BY DEF TotalsInv
<1>1. events[e] = UnknownEvent
    BY DEF Init
<1>2. /\ events[e].totalVUND[t] = 0 /\ events[e].totalATON[t] = 0
      /\ \A p \in Players : events[e].stakes[p] = NoStake
    BY <1>1 DEF UnknownEvent
<1>3. PICK v, a : v = VUNDOn(events[e].stakes, t) /\ a = ATONOn(events[e].stakes, t)
    OBVIOUS
<1>4. \A p \in Players : v[p] = 0 /\ a[p] = 0
    BY <1>2, <1>3 DEF VUNDOn, ATONOn, NoStake
<1>5. SumFunctionOnSet(v, Players) = 0 /\ SumFunctionOnSet(a, Players) = 0
    BY <1>4, SumMasked, SumEmpty
<1> QED BY <1>2, <1>3, <1>5

\* The team totals that odds and payouts are computed from are the sums of the
\* players' stakes, for any number of players and stakes (Vault.sol 500-512).
THEOREM TotalsAreSums ==
    ASSUME IsFiniteSet(Players)
    PROVE  Spec => []TotalsMatchStakes
<1>1. Init => TotalsInv
    BY InitTotals
<1>2. IInv /\ TotalsInv /\ [Next]_vars => TotalsInv'
    BY NextKeepsTotals
<1>3. IInv /\ TotalsInv => TotalsMatchStakes
    <2> SUFFICES ASSUME IInv, TotalsInv, NEW e \in Events, NEW t \in Teams,
                        NEW side, side = { p \in Players : events[e].stakes[p].team = t }
                 PROVE  /\ events[e].totalVUND[t] = SumFunctionOnSet(
                              [p \in Players |-> events[e].stakes[p].amountVUND], side)
                        /\ events[e].totalATON[t] = SumFunctionOnSet(
                              [p \in Players |-> events[e].stakes[p].amountATON], side)
        BY DEF TotalsMatchStakes
    <2>1. events[e] \in Event
        BY DEF IInv, TypeOK
    <2>2. PICK stakes \in [Players -> Stake] : stakes = events[e].stakes
        BY <2>1 DEF Event
    <2>3. PICK v, a, vunds, atons :
              /\ v = VUNDOn(stakes, t) /\ a = ATONOn(stakes, t)
              /\ vunds = [p \in Players |-> stakes[p].amountVUND]
              /\ atons = [p \in Players |-> stakes[p].amountATON]
        OBVIOUS
    <2>4. \A p \in Players : v[p] \in Nat /\ a[p] \in Nat
        BY <2>3, StakesAreNaturals
    <2>5. /\ side \subseteq Players
          /\ \A p \in side : p \in Players /\ stakes[p].team = t
          /\ \A p \in Players \ side : stakes[p].team # t
        BY <2>2
    <2>6. /\ SumFunctionOnSet(v, Players) = SumFunctionOnSet(vunds, side)
          /\ SumFunctionOnSet(a, Players) = SumFunctionOnSet(atons, side)
        <3>1. /\ \A p \in Players : v[p] \in Int
              /\ \A p \in side : v[p] = vunds[p]
              /\ \A p \in Players \ side : v[p] = 0
            BY <2>3, <2>4, <2>5 DEF VUNDOn
        <3>2. /\ \A p \in Players : a[p] \in Int
              /\ \A p \in side : a[p] = atons[p]
              /\ \A p \in Players \ side : a[p] = 0
            BY <2>3, <2>4, <2>5 DEF ATONOn
        <3>3. side \subseteq Players
            BY <2>5
        <3>4. SumFunctionOnSet(v, Players) = SumFunctionOnSet(vunds, side)
            BY <3>1, <3>3, SumMasked
        <3>5. SumFunctionOnSet(a, Players) = SumFunctionOnSet(atons, side)
            BY <3>2, <3>3, SumMasked
        <3> QED BY <3>4, <3>5
    <2>7. /\ events[e].totalVUND[t] = SumFunctionOnSet(v, Players)
          /\ events[e].totalATON[t] = SumFunctionOnSet(a, Players)
        BY <2>2, <2>3 DEF TotalsInv
    <2>8. /\ vunds = [p \in Players |-> events[e].stakes[p].amountVUND]
          /\ atons = [p \in Players |-> events[e].stakes[p].amountATON]
        BY <2>2, <2>3
    <2>9. /\ events[e].totalVUND[t] = SumFunctionOnSet(vunds, side)
          /\ events[e].totalATON[t] = SumFunctionOnSet(atons, side)
        BY <2>6, <2>7
    <2> QED BY <2>8, <2>9, Zenon
<1> QED BY <1>1, <1>2, <1>3, IInvHolds, PTL DEF Spec
=============================================================================
