--------------------------- MODULE RebalancerCycle ---------------------------
(***************************************************************************)
(* The rebalancer's cycle driver: SYSTEM_REBALANCE_STATUS and the paginated *)
(* pass over CONFIGS made by execute_system_rebalance                       *)
(* (src/contracts/services/rebalancer/src/rebalance.rs), together with the  *)
(* handlers of contract.rs that change what the pass reads: Register,       *)
(* Deregister, Pause, Resume and the admin's UpdateSystemStatus.            *)
(*                                                                         *)
(* Accounts are the keys of CONFIGS; cw-storage ranges over them in        *)
(* ascending key order, modelled by the order of 1..NumAccounts.  The      *)
(* empty address Addr::unchecked("") that the code stores as a cursor when  *)
(* a page visited nothing sorts below every account and is modelled as 0.  *)
(* The per-account rebalance (do_rebalance) is abstracted to what the pass  *)
(* sees of it: an account with zero total value fails before the PID step   *)
(* (AccountBalanceIsZero), an account that reaches the PID step at the      *)
(* block time of its last rebalance divides by dt = 0 and aborts the whole  *)
(* transaction, and any account past the PID step may still fail (e.g.     *)
(* NoMinAuctionAmountFound); only an Ok result saves last_rebalance.        *)
(* The prices the pass freezes are modelled by the version of the oracle's  *)
(* prices that get_prices read.                                            *)
(***************************************************************************)
EXTENDS Integers, FiniteSets

CONSTANTS
  NumAccounts,   \* number of account addresses that may register
  Limits,        \* the `limit` values callers pass to SystemRebalance
  CYCLE_PERIOD,  \* seconds between cycle starts (rebalance.rs CYCLE_PERIOD)
  DAY,           \* length of a day, the granularity of start_of_day
  MaxTime,       \* bound on the block time
  MaxPriceVersion, \* bound on the number of oracle price updates
  AdminTimes     \* times the admin may store in a status

ASSUME NumAccounts \in Nat \ {0}
ASSUME Limits \subseteq Nat /\ Limits \ {0} # {}
ASSUME CYCLE_PERIOD \in Nat \ {0} /\ DAY \in Nat \ {0}
ASSUME MaxTime \in Nat /\ MaxPriceVersion \in Nat /\ AdminTimes \subseteq 0..MaxTime

Accounts == 1..NumAccounts
NoCursor == 0          \* Addr::unchecked(""), below every account
Times == 0..MaxTime
StatusTimes == 0..(MaxTime + CYCLE_PERIOD)   \* a cycle start plus the period

VARIABLES
  now,            \* env.block.time
  status,         \* SYSTEM_REBALANCE_STATUS
  registered,     \* the keys of CONFIGS
  paused,         \* accounts whose config.is_paused is Some
  rebalancedNow,  \* accounts whose config.last_rebalance is the block time
  funded,         \* accounts whose balances in their targets are not all zero
  priceVersion,   \* version of the prices the auctions manager quotes
  \* history variables, used by the properties only
  visits,         \* times each account was visited in the current pass
  stable,         \* accounts registered since the current pass began
  passPrices,     \* the prices the current pass fetched when it began
  usedPrices,     \* the prices each account's last Ok rebalance read
  rebalanced      \* accounts whose rebalance returned Ok in the current pass

vars == <<now, status, registered, paused, rebalancedNow, funded,
          priceVersion, visits, stable, passPrices, usedPrices, rebalanced>>

(***************************************************************************)
(* SystemRebalanceStatus.  Every variant is one record shape; the fields a *)
(* variant does not have are fixed.                                        *)
(***************************************************************************)
NotStarted(t) == [kind |-> "NotStarted", time |-> t, cursor |-> NoCursor, prices |-> 0]
Finished(t)   == [kind |-> "Finished",   time |-> t, cursor |-> NoCursor, prices |-> 0]
Processing(t, c, p) == [kind |-> "Processing", time |-> t, cursor |-> c, prices |-> p]

\* valence_package::helpers::start_of_day: midnight of the block's day.
StartOfDay(t) == t - (t % DAY)

(***************************************************************************)
(* The head of execute_system_rebalance: whether the stored status lets a  *)
(* call run, and whether it continues the current pass (Some(start_from),  *)
(* the frozen prices) or begins a new one (None, fresh prices).            *)
(***************************************************************************)
CycleReady ==
  \/ status.kind = "NotStarted" /\ now >= status.time
  \/ status.kind = "Processing"
  \/ status.kind = "Finished" /\ now >= status.time

ContinuesPass ==
  status.kind = "Processing" /\ ~(now > status.time + CYCLE_PERIOD)

CycleStart ==
  CASE status.kind = "NotStarted" -> StartOfDay(now)
    [] status.kind = "Processing" -> IF ContinuesPass THEN status.time ELSE StartOfDay(now)
    [] status.kind = "Finished"   -> status.time

StartFrom == IF ContinuesPass THEN status.cursor ELSE NoCursor

\* Mutant: get_prices on every call, not only when a pass begins.
PassPricesRefetched == priceVersion

PassPrices == IF ContinuesPass THEN status.prices ELSE priceVersion

(***************************************************************************)
(* CONFIGS.range(start_from exclusive, ascending).take(limit).             *)
(***************************************************************************)
After(c) == {a \in registered : a > c}

\* Mutant: the range bound made inclusive of start_from.
PageInclusive(c, limit) ==
  {a \in registered : a >= c /\ Cardinality({b \in registered : b >= c /\ b < a}) < limit}

Page(c, limit) == {a \in After(c) : Cardinality({b \in After(c) : b < a}) < limit}

MaxAccount(S) == CHOOSE a \in S : \A b \in S : b <= a

\* last_addr after the loop, stored with unwrap_or("").
LastAddr(c, page) == IF page = {} THEN c ELSE MaxAccount(page)

(***************************************************************************)
(* do_rebalance divides by dt = (now - last_rebalance) / CYCLE_PERIOD in   *)
(* do_pid unless last_rebalance is 0; dt = 0 panics and reverts the call.  *)
(* Block times are positive, so last_rebalance = now means a rebalance in  *)
(* an earlier transaction of the same block; no other use of the value is  *)
(* made by the pass, so the model keeps only whether it equals now.        *)
(***************************************************************************)
DtIsZero(a) == a \in rebalancedNow

\* History only: visit counts saturate at 2, all ExactlyOncePerPass tells apart.
VisitedAgain(v) == IF v < 2 THEN v + 1 ELSE 2

\* The status stored at the end of the call.
NextStatus(limit, page) ==
  IF Cardinality(page) < limit
    THEN Finished(CycleStart + CYCLE_PERIOD)
    ELSE Processing(CycleStart, LastAddr(StartFrom, page), PassPrices)

(***************************************************************************)
(* RebalancerExecuteMsg::SystemRebalance { limit }: one page of the pass.  *)
(* Paused accounts are counted and skipped; accounts with zero value fail   *)
(* before the PID step; the rest reach it, where a zero dt reverts the      *)
(* whole call (no state change, so no step); of those, `ok` are the ones    *)
(* whose rebalance returned Ok and whose config is saved.                  *)
(***************************************************************************)
SystemRebalance(limit) ==
  LET page  == Page(StartFrom, limit)
      reach == (page \ paused) \cap funded
  IN
  /\ CycleReady
  /\ \A a \in reach : ~DtIsZero(a)
  /\ \E ok \in SUBSET reach :
       /\ rebalancedNow' = rebalancedNow \cup ok
       /\ usedPrices' = [a \in Accounts |-> IF a \in ok THEN PassPrices ELSE usedPrices[a]]
       /\ rebalanced' = IF ContinuesPass THEN rebalanced \cup ok ELSE ok
  /\ status' = NextStatus(limit, page)
  /\ IF ContinuesPass
       THEN /\ visits' = [a \in Accounts |-> IF a \in page THEN VisitedAgain(visits[a]) ELSE visits[a]]
            /\ UNCHANGED <<stable, passPrices>>
       ELSE /\ visits' = [a \in Accounts |-> IF a \in page THEN 1 ELSE 0]
            /\ stable' = registered
            /\ passPrices' = priceVersion
  /\ UNCHANGED <<now, registered, paused, funded, priceVersion>>

(***************************************************************************)
(* Register: CONFIGS.save of data.to_config(), last_rebalance 0, unpaused. *)
(* The validation of the data (whitelists, bps, minimum value) either      *)
(* passes or rejects the message without a state change.                   *)
(***************************************************************************)
Register(a) ==
  /\ a \notin registered
  /\ registered' = registered \cup {a}
  /\ rebalancedNow' = rebalancedNow \ {a}
  /\ UNCHANGED <<now, status, paused, funded, priceVersion, visits, stable,
                 passPrices, usedPrices, rebalanced>>

\* Mutant: the pause kept outside the removed config.
DeregisterKeepsPause(a) ==
  /\ a \in registered
  /\ registered' = registered \ {a}
  /\ rebalancedNow' = rebalancedNow \ {a}
  /\ stable' = stable \ {a}
  /\ UNCHANGED <<now, status, paused, funded, priceVersion, visits, passPrices,
                 usedPrices, rebalanced>>

\* Deregister: CONFIGS.remove; the account drops out of the current pass.
Deregister(a) ==
  /\ a \in registered
  /\ registered' = registered \ {a}
  /\ paused' = paused \ {a}
  /\ rebalancedNow' = rebalancedNow \ {a}
  /\ stable' = stable \ {a}
  /\ UNCHANGED <<now, status, funded, priceVersion, visits, passPrices, usedPrices, rebalanced>>

(***************************************************************************)
(* Pause/Resume by the account or its trustee (who may do which is the     *)
(* subject of RebalancerPause); here only is_paused Some/None matters.     *)
(***************************************************************************)
Pause(a) ==
  /\ a \in registered \ paused
  /\ paused' = paused \cup {a}
  /\ UNCHANGED <<now, status, registered, rebalancedNow, funded, priceVersion,
                 visits, stable, passPrices, usedPrices, rebalanced>>

Resume(a) ==
  /\ a \in paused
  /\ paused' = paused \ {a}
  /\ UNCHANGED <<now, status, registered, rebalancedNow, funded, priceVersion,
                 visits, stable, passPrices, usedPrices, rebalanced>>

(***************************************************************************)
(* RebalancerAdminMsg::UpdateSystemStatus: the admin may store any status  *)
(* but Processing.  The pass in progress, if any, is abandoned.            *)
(***************************************************************************)
UpdateSystemStatus(s) ==
  /\ s.kind # "Processing"
  /\ status' = s
  /\ visits' = [a \in Accounts |-> 0]
  /\ stable' = {}
  /\ rebalanced' = {}
  /\ UNCHANGED <<now, registered, paused, rebalancedNow, funded, priceVersion,
                 passPrices, usedPrices>>

\* Environment: bank transfers in or out of an account, oracle updates, time.
SetFunded(a, b) ==
  /\ funded' = IF b THEN funded \cup {a} ELSE funded \ {a}
  /\ funded' # funded
  /\ UNCHANGED <<now, status, registered, paused, rebalancedNow, priceVersion,
                 visits, stable, passPrices, usedPrices, rebalanced>>

UpdatePrices ==
  /\ priceVersion < MaxPriceVersion
  /\ priceVersion' = priceVersion + 1
  /\ UNCHANGED <<now, status, registered, paused, rebalancedNow, funded,
                 visits, stable, passPrices, usedPrices, rebalanced>>

(***************************************************************************)
(* A new block.  The clock saturates at MaxTime: a block after it is later *)
(* than every stored last_rebalance, but its time compares with the       *)
(* stored status like MaxTime does.                                        *)
(***************************************************************************)
Tick ==
  /\ now' = IF now < MaxTime THEN now + 1 ELSE now
  /\ rebalancedNow' = {}
  /\ UNCHANGED <<status, registered, paused, funded, priceVersion,
                 visits, stable, passPrices, usedPrices, rebalanced>>

(***************************************************************************)
(* Instantiate stores NotStarted { cycle_start } (at most 30 days ahead);  *)
(* the block time starts above 0, which the code reserves for "never".     *)
(***************************************************************************)
Init ==
  /\ now = 1
  /\ status \in {NotStarted(t) : t \in Times}
  /\ registered = {}
  /\ paused = {}
  /\ rebalancedNow = {}
  /\ funded \in SUBSET Accounts
  /\ priceVersion = 0
  /\ visits = [a \in Accounts |-> 0]
  /\ stable = {}
  /\ passPrices = 0
  /\ usedPrices = [a \in Accounts |-> 0]
  /\ rebalanced = {}

Next ==
  \/ \E l \in Limits : SystemRebalance(l)
  \/ \E a \in Accounts : Register(a) \/ Deregister(a) \/ Pause(a) \/ Resume(a)
  \/ \E t \in AdminTimes : UpdateSystemStatus(NotStarted(t)) \/ UpdateSystemStatus(Finished(t))
  \/ \E a \in Accounts, b \in BOOLEAN : SetFunded(a, b)
  \/ UpdatePrices
  \/ Tick

Spec == Init /\ [][Next]_vars

-----------------------------------------------------------------------------
TypeOK ==
  /\ now \in Times
  /\ status \in {NotStarted(t) : t \in StatusTimes} \cup {Finished(t) : t \in StatusTimes}
                \cup {Processing(t, c, p) : t \in Times, c \in {NoCursor} \cup Accounts,
                                            p \in 0..MaxPriceVersion}
  /\ registered \subseteq Accounts
  /\ paused \subseteq registered
  /\ rebalancedNow \subseteq registered
  /\ funded \subseteq Accounts
  /\ priceVersion \in 0..MaxPriceVersion
  /\ visits \in [Accounts -> 0..2]
  /\ stable \subseteq registered
  /\ passPrices \in 0..MaxPriceVersion
  /\ usedPrices \in [Accounts -> 0..MaxPriceVersion]
  /\ rebalanced \subseteq Accounts

(***************************************************************************)
(* Pagination (spec 4.2): within one pass the exclusive cursor visits no   *)
(* account twice, every account registered since the pass began that lies *)
(* at or below the cursor has been visited, and a pass that ends Finished  *)
(* has visited all of them.  Breaks if the Bound were inclusive, if        *)
(* last_addr skipped paused accounts, if a stale restart kept the old      *)
(* cursor, or if a full page were taken for the last one.                  *)
(***************************************************************************)
ExactlyOncePerPass ==
  /\ \A a \in Accounts : visits[a] <= 1
  /\ status.kind = "Processing" =>
       \A a \in stable : a <= status.cursor => visits[a] = 1
  /\ status.kind = "Finished" => \A a \in stable : visits[a] = 1

(***************************************************************************)
(* Price snapshot (spec 4.1): every account rebalanced in a pass read the   *)
(* prices fetched when the pass began, although the oracle's prices move   *)
(* between the pages of the pass.                                          *)
(***************************************************************************)
SameSnapshotPerPass ==
  \A a \in rebalanced : usedPrices[a] = passPrices

=============================================================================
