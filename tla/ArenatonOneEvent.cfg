SPECIFICATION Spec
CONSTANTS
    Events = {e1}
    Players = {p1, p2, p3}
    Sports = {1}
    Coins = {vund, fine}
    VUND = vund
    CoinInfo <- WideCoinsInfo
    Amounts = {1, 2}
    AtonAmounts = {2}
    Bonuses = {1}
    MinimumStakes = {1}
    Winners = {1}
    TenMinutes = 1
    MaxTime = 3
    MaxStakes = 3
INVARIANTS
    TypeOK
    OpenRequestsAreForNewEvents
    TotalsMatchStakes
    ListsAgree
SYMMETRY Symmetry
CHECK_DEADLOCK FALSE
