SPECIFICATION Spec
CONSTANTS
    Players = {p1, p2, p3}
    AmountsVUND = {20, 60}
    AmountsATON = {0}
    Factors = {10000}
    Winners <- OnlyTie
INVARIANTS
    SharesWithinTheWhole
SYMMETRY Symmetry
CHECK_DEADLOCK FALSE
