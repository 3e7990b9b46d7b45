CONSTANTS
  d1 = d1
  d2 = d2
  path1 = path1
  path2 = path2
  NoPath = NoPath
  NoPrice = NoPrice
  Keep = Keep
  Pairs <- MCPairs
  PriceVals <- MCPriceVals
  Paths <- MCPaths
  ConfigVals <- MCConfigVals
  TWAP_PRICE_MAX_LEN <- MCMaxLen
  MaxTime <- MCMaxTime
  MaxPushes <- MCMaxPushes

SPECIFICATION Spec

INVARIANT TypeOK
INVARIANT WindowAverage
