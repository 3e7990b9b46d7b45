CONSTANTS
    S <- MCS
    BaseDenom <- MCBaseDenom
    NoAmount <- MCNoAmount
    Strategies <- MCStrategies
    Dts <- MCDts
    Denoms <- MC2Denoms
    TargetSets <- MC2TargetSets
    Pids <- MC2Pids
    MaxLimitBps <- MC2MaxLimitBps
    Amounts <- MC2Amounts
    Prices <- MC2Prices
    MinAmounts <- MC2MinAmounts
SPECIFICATION Spec
INVARIANT NoPagePanic
