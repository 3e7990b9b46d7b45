CONSTANTS
  a1 = a1
  t1 = t1
  d1 = d1
  d2 = d2
  d3 = d3
  c1 = c1
  c2 = c2
  r1 = r1
  r2 = r2
  NoAddr = NoAddr
  Keep = Keep
  Clear = Clear
  NoConfig = NoConfig
  NoSnapshot = NoSnapshot
  Accounts <- MCAccounts
  Others <- MCOthers
  Denoms <- MCDenoms
  BaseDenoms <- MCBaseDenoms
  CodeIds <- MCCodeIds
  AccountCode <- MCAccountCode
  ServiceAddrs <- MCServiceAddrs
  RebalancerAddr = r1
  TargetSets <- MCTargetSets

SPECIFICATION Spec

INVARIANT PricesCoverTargets
