----------------------- MODULE MCRebalancerRegistry -----------------------
(***************************************************************************)
(* One account a1 (code id c1) and one other address t1 that it may name   *)
(* as trustee; three denoms, two of which may also be base denoms, so a    *)
(* table built from two base denoms holds two pairs for the same target;   *)
(* a second code id and a second service address for the managers' admin  *)
(* to switch to.  The candidate target sets are two valid ones, one whose  *)
(* bps miss 10000, one with two min_balance targets, and a single target   *)
(* of 10000 bps that only Update accepts.                                  *)
(***************************************************************************)
EXTENDS RebalancerRegistry, TLC

CONSTANTS a1, t1, d1, d2, d3, c1, c2, r1, r2

MCAccounts == {a1}
MCOthers == {t1}
MCDenoms == {d1, d2, d3}
MCBaseDenoms == {d1, d2}
MCCodeIds == {c1, c2}
MCAccountCode == a1 :> c1
MCServiceAddrs == {r1, r2}

T(d, bps, min) == d :> [bps |-> bps, min |-> min]

MCTargetSets ==
  { T(d1, 5000, FALSE) @@ T(d2, 5000, TRUE),
    T(d2, 5000, FALSE) @@ T(d3, 5000, FALSE),
    T(d1, 6000, FALSE) @@ T(d3, 5000, TRUE),
    T(d1, 4000, TRUE)  @@ T(d3, 6000, TRUE),
    T(d3, 10000, FALSE) }

=============================================================================
