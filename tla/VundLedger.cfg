SPECIFICATION Spec
CONSTANTS
    Players = {owner, p1}
    Vault = vault
    Owner = owner
    dai = dai
    usdt = usdt
    wide = wide
    Coins = {dai, wide}
    CoinInfo <- CoinsInfo
    ONE = 2
    pct_denom = 2
    Premiums = {1}
    Amounts = {1, 2}
    Fees = {0, 1}
    MaxWorth = 3
    MaxUnbacked = 1
    MaxCommission = 2
INVARIANTS
    SupplyIsBalances
    SupplyIsBacked
    NoMarkAhead
PROPERTIES
    ClaimsAreKept
    ClaimsArePaidOnce
    ClaimsErasedOnlyWhenShort
CHECK_DEADLOCK FALSE
