SPECIFICATION Spec
CONSTANTS
    Players = {owner, p1, p2}
    Vault = vault
    Owner = owner
    dai = dai
    usdt = usdt
    wide = wide
    Coins = {dai}
    CoinInfo <- CoinsInfo
    ONE = 2
    pct_denom = 2
    Premiums = {}
    Amounts = {0, 1, 2}
    Fees = {0}
    MaxWorth = 4
    MaxUnbacked = 0
    MaxCommission = 3
INVARIANTS
    PaidFromTotalCommission
CHECK_DEADLOCK FALSE
