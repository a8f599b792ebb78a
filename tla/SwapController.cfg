SPECIFICATION Spec
CONSTANTS
    CoinInfo <- TwoCoins
    UnlistedScale = 2
    MIN_RAMP_TIME = 2
    FutureAs = {0, 1, 100, 500}
    RampTimes = {1, 2}
    Amounts = {6, 10}
    Tolerances = {0, 1}
    StartBalances = {4, 12}
    ONE = 2
    MinLiquidity = 1
    premiumPositive = 1
    premiumNegative = 3
    pct_denom = 10
    MaxTime = 6
    MaxHeld = 14
INVARIANTS RateIsBounded CurveIsSolved
PROPERTIES OnlyTimeMovesA WorthIsKept
CHECK_DEADLOCK FALSE
