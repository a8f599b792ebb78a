SPECIFICATION Spec
CONSTANTS
    Requests = {r1}
    Funds = 0
    TopUps = {1}
    Spends = {1}
    Payments = {1}
    MaxFee = 1
    Confs = 1
    MaxConfs = 4
    FinalityDepth = 3
    HashWindow = 4
    CheckLag = 1
    MaxHead = 6
    MaxReorgs = 1
    MaxFaults = 1
INVARIANTS
    NoRequestIsSkipped
    InflightIsLive
    AnswersAreSentOnce
PROPERTIES
    EveryRequestEnds
CHECK_DEADLOCK FALSE
