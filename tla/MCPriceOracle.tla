--------------------------- MODULE MCPriceOracle ---------------------------
(* One valid pair and one pair Pair::verify rejects; prices of 2 and 3     *)
(* atomics (their means floor); a buffer of 3 so that a fourth push        *)
(* evicts; config values 0 and 1 so that freshness and the manual gate     *)
(* both open and close within the four seconds of the model.               *)
EXTENDS PriceOracle

CONSTANTS d1, d2, path1, path2

MCPairs == {<<d1, d2>>, <<d1, d1>>}
MCPriceVals == {2, 3}
MCPaths == {path1, path2}
MCConfigVals == {0, 1}
MCMaxLen == 3
MCMaxTime == 3
MCMaxPushes == 4
=============================================================================
