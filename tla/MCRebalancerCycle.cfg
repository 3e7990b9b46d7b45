CONSTANTS
  NumAccounts <- MCNumAccounts
  Limits <- MCLimits
  CYCLE_PERIOD <- MCCyclePeriod
  DAY <- MCDay
  MaxTime <- MCMaxTime
  MaxPriceVersion <- MCMaxPriceVersion
  AdminTimes <- MCAdminTimes

SPECIFICATION Spec

INVARIANT TypeOK
INVARIANT ExactlyOncePerPass
INVARIANT SameSnapshotPerPass
