SPECIFICATION FairSpec
CONSTANTS
    Events = {e1, e2}
    Players = {p1}
    Sports = {1}
    Coins = {vund}
    VUND = vund
    CoinInfo <- CoinsInfo
    Amounts = {1}
    AtonAmounts = {0}
    Bonuses = {}
    MinimumStakes = {1}
    Winners <- TieOrA
    TenMinutes = 0
    MaxTime = 4
    MaxStakes = 2
PROPERTIES
    StakesAreSettled
CHECK_DEADLOCK FALSE
