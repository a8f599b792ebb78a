SPECIFICATION Spec
CONSTANTS
    Players = {owner, player}
    Owner = owner
    PVT = PVT
    Rolls = {0, 648}
    PricesATON = {5}
    ChestBase = 10
    ChestStep = 1
    ONE = 2
    MaxTokens = 3
    MaxRequests = 3
INVARIANTS PowersAgree AnswersBoundClaims ChestsAreConsumed ListsAgreeUnlessChestsMove OwnCommissionIsFunded
CHECK_DEADLOCK FALSE
