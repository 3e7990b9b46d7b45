------------------------- MODULE MCRebalanceAccount -------------------------
(* Model values for RebalanceAccount.  Decimals have two decimal places    *)
(* (S = 100); denom 1 is the base denom; prices are 0.5, 1.5 and 2.        *)
EXTENDS RebalanceAccount

MCS == 100
MCBaseDenom == 1
MCNoAmount == -1
MCStrategies == {"Proportional", "Priority"}
MCDts == {100, 200}

(* Two targets: the floor on the priced denom, or on the base denom.       *)
MC2Denoms == {1, 2}
MC2TargetSets ==
    { << [denom |-> 1, bps |-> 5000, min_balance |-> MCNoAmount],
         [denom |-> 2, bps |-> 5000, min_balance |-> 3] >>,
      << [denom |-> 2, bps |-> 3000, min_balance |-> MCNoAmount],
         [denom |-> 1, bps |-> 7000, min_balance |-> 4] >> }
MC2Pids == { [p |-> 100, i |-> 0, d |-> 0], [p |-> 50, i |-> 50, d |-> 100] }
MC2MaxLimitBps == {10000, 2000}
MC2Amounts == {0, 2, 5, 10}
MC2Prices == {50, 200}
MC2MinAmounts == {MCNoAmount, 1, 3}

(* Three targets: one sell token matched against two buy tokens, and the  *)
(* override strategies redistributing over two other targets.             *)
MC3Denoms == {1, 2, 3}
MC3TargetSets ==
    { << [denom |-> 2, bps |-> 2000, min_balance |-> 2],
         [denom |-> 1, bps |-> 4000, min_balance |-> MCNoAmount],
         [denom |-> 3, bps |-> 4000, min_balance |-> MCNoAmount] >>,
      << [denom |-> 1, bps |-> 3000, min_balance |-> MCNoAmount],
         [denom |-> 3, bps |-> 5000, min_balance |-> MCNoAmount],
         [denom |-> 2, bps |-> 2000, min_balance |-> 3] >> }
MC3Pids == { [p |-> 100, i |-> 0, d |-> 0], [p |-> 50, i |-> 50, d |-> 100],
             [p |-> 150, i |-> 0, d |-> 0] }   \* the last fails ParsedPID::verify
MC3MaxLimitBps == {10000, 3000}
MC3Amounts == {0, 1, 3, 7}
MC3Prices == {50, 150}
MC3MinAmounts == {1, 3}
=============================================================================
