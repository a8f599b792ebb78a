SPECIFICATION Spec
CONSTANTS
    Events = {e1, e2}
    Players = {p1, p2}
    Sports = {1}
    Coins = {vund}
    VUND = vund
    CoinInfo <- CoinsInfo
    Amounts = {1}
    AtonAmounts = {0}
    Bonuses = {}
    MinimumStakes = {1}
    Winners <- TieOrA
    TenMinutes = 1
    MaxTime = 3
    MaxStakes = 2
INVARIANTS
    RequestsAreExclusive
    CloseRequestsAreAnswerable
    ActiveEventsMatchFlags
    CountersMatchBook
PROPERTIES
    EventsAreBets
    ClosedEventIsFrozen
    FinalizedOnce
SYMMETRY Symmetry
CHECK_DEADLOCK FALSE
