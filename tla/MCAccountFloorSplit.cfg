CONSTANTS
    S <- MCS
    BaseDenom <- MCBaseDenom
    NoAmount <- MCNoAmount
    Strategies <- MCStrategies
    Dts <- MCDts
    Denoms <- MC3Denoms
    TargetSets <- MC3TargetSets
    Pids <- MC3Pids
    MaxLimitBps <- MC3MaxLimitBps
    Amounts <- MC3Amounts
    Prices <- MC3Prices
    MinAmounts <- MC3MinAmounts
SPECIFICATION Spec
INVARIANT FloorRespected
