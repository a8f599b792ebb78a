SPECIFICATION Spec
CONSTANTS
    Players = {p1, p2, p3}
    AmountsVUND = {0, 20, 60}
    AmountsATON = {0, 10000, 20000}
    Factors = {10000, 15000, 30000}
    Winners <- AnyResult
INVARIANTS
    PureStakesArePaidAlike
PROPERTIES
    PoolIsEscrow
    FeeSparesTheStake
SYMMETRY Symmetry
CHECK_DEADLOCK FALSE
