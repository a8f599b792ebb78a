SPECIFICATION Spec
CONSTANTS
    Painters = {p1, p2}
    Pixels <- ThreePixels
    Colors = {0, 1}
    Tokens = {t1, t2, t3}
    Qualities = {1}
    baseRequirement = 2
    MaxPaints = 7
INVARIANTS
    PaintersCount
    GrowthCountsPaints
SYMMETRY Symmetry
CHECK_DEADLOCK FALSE
