------------------------- MODULE MCRebalancerCycle -------------------------
(***************************************************************************)
(* Model-checking instance of RebalancerCycle.  Three accounts with page   *)
(* limits 1 and 2 give passes of one, two and three pages, including the   *)
(* empty last page when the accounts fill the pages exactly; limit 0 is    *)
(* what any caller may pass.  A day of 2 ticks equal to the cycle period   *)
(* lets a pass go stale, a Finished cycle fall behind the clock, and two   *)
(* passes meet in the same block.                                          *)
(***************************************************************************)
EXTENDS RebalancerCycle

MCNumAccounts == 3
MCLimits == {0, 1, 2}
MCCyclePeriod == 2
MCDay == 2
MCMaxTime == 4
MCMaxPriceVersion == 1
MCAdminTimes == {2}

=============================================================================
