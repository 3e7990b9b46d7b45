# TLA+ models of the rebalancer

This directory holds TLA+ models of the rebalancer service in `src/`, the
TLC configurations that check them, and `PROJECT.json`. `PROJECT.json` lists:
- the components and what covers each;
- the runs and the properties they check;
- the mutants that show each passing property can fail;
- the source lines behind every definition;
- the findings and the hazards.

## The system

The rebalancer is a CosmWasm contract (`src/contracts/services/rebalancer`).
It keeps each registered account's portfolio close to its target
percentages by sending part of its balances to auctions. Its parts are:

| part | code | state | operations |
|---|---|---|---|
| cycle driver | `rebalance.rs` `execute_system_rebalance` | `SYSTEM_REBALANCE_STATUS` (NotStarted / Processing{cycle_started, start_from, prices} / Finished) | `SystemRebalance{limit}`: one page of a pass over `CONFIGS` |
| per-account rebalance | `rebalance.rs` `do_rebalance` and helpers | the account's `RebalancerConfig` (targets, PID gains, max_limit, last_rebalance) | inputs → min-balance override → PID → auction minimums → trade matching |
| registration | `contract.rs` Register / Update / Deregister, `valence-package` `to_config` | `CONFIGS` | validate and store or remove a config |
| pause / resume | `contract.rs` Pause / Resume | `config.is_paused` (PauseReason) | pause by account or trustee; resume after a minimum-value check |
| admin | `contract.rs` `admin::handle_msg` | status, whitelists, cycle period, addresses | `UpdateSystemStatus` (anything but Processing), whitelists, … |
| price oracle | `auction/price_oracle` | per-pair local price buffer (10 entries) | `UpdatePrice` (auction TWAP or astroport), `ManualPriceUpdate` |
| services manager | `services_manager` | service registry, code-id whitelist | add / update / remove a service |
| cw-pid | `packages/cw-pid` | none | the PID step as a wasm function for clients, unused by the contracts |

**Interactions.** A keeper (anyone) calls `SystemRebalance`. The first call
of a pass reads prices from the auctions manager, which gets them from the
oracle, and freezes them in the Processing status. Each call ranges over
`CONFIGS` after an exclusive cursor and takes up to `limit` accounts. For
each unpaused account it runs `do_rebalance` and saves the returned config
if the result is Ok. Each Ok account gets a `SendFundsByService` message
with `atomic: false`, which sends funds to the auctions. A per-account
error skips that account. A panic reverts the whole page. Between pages,
accounts register, deregister, pause and resume, the admin can reset the
status, and balances and prices move.

**Hard behaviours.** These are:
- interleaving of those handlers between the pages of a pass;
- a pass restarted when it outlives `CYCLE_PERIOD`;
- a `dt = 0` division when an account is rebalanced twice in one block;
- fixed-point rounding (18-decimal `Decimal`, floor on multiply and divide,
  `to_uint_ceil` on amounts);
- panics on Decimal underflow, on division by zero and on `to_sell[0]`;
- one shared max-sell budget across all pairs of an account;
- the reserve floor (`min_balance`) of at most one target.

## Modules

### `RebalancerCycle`: the cycle driver

| | code |
|---|---|
| `now` | `env.block.time` |
| `status` (records `NotStarted(t)`, `Processing(t, cursor, prices)`, `Finished(t)`) | `SYSTEM_REBALANCE_STATUS` |
| `registered`, `paused` | keys of `CONFIGS`, `config.is_paused.is_some()` |
| `rebalancedNow` | accounts whose `last_rebalance` equals the block time |
| `funded` | accounts whose targets' balances are not all zero |
| `priceVersion` | the prices the auctions manager would quote now |
| `SystemRebalance(limit)` | `execute_system_rebalance`, whole handler |
| `Register`, `Deregister`, `Pause`, `Resume`, `UpdateSystemStatus` | the `contract.rs` handlers, as far as the pass can see them |
| `SetFunded`, `UpdatePrices`, `Tick` | environment: transfers, oracle, blocks |

Accounts are `1..NumAccounts`. The storage key order is the order of the
numbers, and the empty address `""` that the code stores as a cursor is
`0`.

`do_rebalance` is abstracted to the outcomes the pass can tell apart:
- zero value: an error before the PID step;
- `dt = 0` for an account in `rebalancedNow`: a panic, so the call makes
  no step;
- an error after the PID step;
- Ok: the only outcome that saves `last_rebalance`.

The clock saturates at `MaxTime`. A `Tick` at `MaxTime` stands for a later
block: it clears `rebalancedNow` and compares with the status like
`MaxTime` does.

`visits`, `stable`, `passPrices`, `usedPrices` and `rebalanced` are history
variables, read only by the properties.

### `RebalanceAccount`: one account's `do_rebalance`

`Decimal` is an integer scaled by `S`:
- `DMul` and `DDiv` floor;
- `ToUintCeil` rounds up;
- a subtraction below zero, a division by zero or `to_sell[0]` on an empty
  vector is recorded as a `Panic` result.

`SignedDecimal` is not in this repository. Its product and quotient floor
the magnitude. Whether a zero output counts as a buy is left open: it is
the per-call choice `zeroBuy`.

Definitions follow the code's functions:
- `GetInputs`/`TotalValue`: `get_inputs`.
- `VerifyTargets`: `verify_targets`, a fold over the targets in order with
  the Proportional and Priority strategies. The Proportional share is
  `ProportionalShare`.
- `DoPid`: `do_pid`, with its integral term `Integral`.
- `VerifyPid`: `PID::into_parsed` and `ParsedPID::verify`. `Configs` holds
  only gains it accepts.
- `CwPid`/`IntoSignedDecimal`: cw-pid's `pid()`, with gains in basis
  points and a `last_input` of 0 meaning none.
- `GetAuctionMinAmount`/`MinMissing`: `get_auction_min_amount`.
- `GenerateTradesMsgs`: `generate_trades_msgs`. It is built from:
  - `SpecialCase`/`MinBalanceBuy`: the forced min-balance trade;
  - a nested fold of `Match` over sells × buys, with `FloorClamp`,
    `ClampToMaxSell` and `MatchedValue`.
- `DoRebalance`: `do_rebalance`, including its error order.

The variables:
- `config`: the stored `RebalancerConfig`, built from registration data by
  `ToConfig`;
- `balances`, `prices`, `min_amounts`: the environment;
- `result`: the last call's outcome, with the inputs, PID helpers and
  trades it produced.

The actions:
- `Rebalance`: the pass calling `do_rebalance` and saving the config on Ok.
- `Env(d)`: one balance, price or auction minimum changing between calls.

Two precision choices:
- **The `0.9999` threshold.** `verify_targets` rejects an override whose
  percentages sum below `0.9999`. At 18 decimals rounding never comes near
  that margin. At `S = 100` the literal would be `0.99`, which the model's
  own rounding would cross, so `MinTotalPerc` keeps the margin at 2 units
  per redistributed target, above what rounding loses (two floored
  operations, each losing under one unit). `RedistributionAccepted` checks
  that both strategies stay inside it.
- **Amounts** are atomic units, as in the code, so the off-by-one of
  `to_uint_ceil` is the code's own.

### `RebalancerRegistry`: registration, pause and the services manager

This module composes the rebalancer's user handlers with the services
manager that forwards them, and with the admin's whitelist edits.

**State.**
- `configs`: `CONFIGS`. Each config holds trustee, base denom, targets
  (denom → bps and min_balance flag), `has_min_balance` and `is_paused`.
  `is_paused` holds the pausing address or `NoAddr`.
- `denomWhitelist`, `baseWhitelist`: the rebalancer's whitelists.
- `codeWhitelist`, `service`: the manager's code-id whitelist and the
  address stored under "rebalancer".
- `snapshot`: the pairs a pass froze (`get_prices`), or `NoSnapshot`.
- `funded`: the environment's answer to the minimum-value check.
- `unpauser`: a history variable for the refinement, the sender of the
  last successful Resume.

**Actions.**
- `RegisterToService`, `UpdateService`, `DeregisterFromService`,
  `PauseService` and `ResumeService` are the manager's forwarding
  (`Routed`) joined with the rebalancer's handler. Each carries the
  handler's own checks, in the code's order.
- `UpdateDenomWhitelist` and `UpdateBaseDenomWhitelist` remove, then add.
  `UpdateCodeIdWhitelist` adds, then removes.
- `AddService`, `ManagerUpdateService` and `RemoveService` edit `service`.
- `BeginPass` and `EndPass` freeze and drop the price table.

HashSet iteration order is unknown, so the price `get_inputs` finds for a
target is any member of `LookupPairs`.

### `RebalancerPause`: the pause protocol, abstractly

Per account, it records who holds the pause and who lifted the last one:
- the account may pause at any time, and may lift any pause;
- the trustee may pause only an unpaused account, and may lift only its own
  pause.

`RebalancerRegistry` instantiates it with this refinement mapping:
- `pausedBy`: the role of `configs[a].paused`;
- `resumedBy`: the role of `unpauser[a]`.

A role is the account itself, any other address (a trustee), or none. The
property `PauseProtocol == Pause!Spec` shows the registry implements the
protocol. This holds even when Update replaces or clears the trustee while
it holds a pause.

### `PriceOracle`: the oracle's price buffer

One record of state per valid pair, as the contract keys its maps by pair:
- `localPrices`: `LOCAL_PRICES`, newest first;
- `prices`: `PRICES`, the stored average and its time, or `NoPrice`;
- `astroPath`: `ASTRO_PRICE_PATHS`, a path model value or `NoPath`;
- `config`: `seconds_allow_manual_change` and
  `seconds_auction_prices_fresh`;
- `auctionLen` and `auctionHead`: the pair auction's `TWAP_PRICES`. Only
  whether it has 3 entries and its head matter to the oracle. This is
  environment state, since the auction contract is outside `src/`;
- `pushed`: a history variable, every observation pushed.

Actions:
- `UpdatePrice`: the auction head if `can_update_price_from_auction`;
  else an astroport quote stamped now, any of `PriceVals` or 0; else
  nothing (`NoAstroPath`).
- `ManualPriceUpdate`: the zero check, then the gate on `PRICES.time +
  seconds_allow_manual_change`.
- `AddAstroPath`, `UpdateAstroPath`, `UpdateConfig`.
- Environment: `AuctionRecords` and `Tick`.

Both updates end in `Store`, which is `update_local_price`, then
`get_avg_price`, then the save. Prices are `Decimal` atomics, so the floor
of sum / count is integer division. `Pair::verify` is `Verify`, and `Pairs`
includes a pair it rejects.

## Runs

| run | cfg | expect | what it shows |
|---|---|---|---|
| `cycle_safety` | `MCRebalancerCycle.cfg` | pass (3.2M states, ~2 min) | `ExactlyOncePerPass`: no account is visited twice in a pass, every account registered since the pass began that lies at or below the cursor was visited, and a Finished pass visited them all. This holds across Register/Deregister/Pause between pages, admin resets and stale-pass restarts. `SameSnapshotPerPass`: every account rebalanced in a pass used the prices frozen when it began. |
| `account_three_targets` | `MCRebalanceAccount.cfg` | pass (139K states, ~35 s) | `BuysWithinPidOutputs`: no buy receives more than its PID output. `TypeOK`: every trade has a positive amount and two different denoms. `RedistributionAccepted`: the min-balance override never produces shares that `verify_targets` rejects as `InvalidTargetPercentage`. `CwPidAgrees`: for every target of an Ok call, cw-pid with the same gains (in bps), input, target value, dt and stored state gives the value, direction and integral `do_pid` computed. |
| `max_sell_rounding` | `MCAccountMaxSell.cfg` | violation | `MaxSellRespected` (spec 8.3): the amounts one call sends are worth at most `max_limit * total`. The budget is charged in value, but each amount is rounded up with `to_uint_ceil`: a budget worth 0.4 units sends 1 unit. The repository's `test_limits.rs` expects the same excess ("because we are rounding, its at 11"). |
| `pid_state_not_saved` | `MCAccountPidState.cfg` | violation | `PidStateCarried`: the PID's `last_input`/`last_i` are never stored. |
| `floor_split_trades` | `MCAccountFloorSplit.cfg` | violation | `FloorRespected`: split trades round up separately against a stale balance and go below the floor. |
| `floor_clamp_formula` | `MCAccountFloorClamp.cfg` | violation | `FloorClampSellsDifference`: `price / diff` is not the value of the difference. |
| `dust_trades` | `MCAccountDust.cfg` | violation | `NoDustTrades`: the max-sell clamp emits a trade below the auction minimum. |
| `page_panic` | `MCAccountPanic.cfg` | violation | `NoPagePanic`: a floor token below its floor is sold, and `balance - min_balance` underflows. |
| `override_reserve_value` | `MCAccountOverride.cfg` | violation | `OverrideUsesReserveValue`: `min_balance * price` where spec 4.4 has `/ price`. |
| `registry_safety` | `MCRegistry.cfg` | pass (0.93M states, ~2 min) | `PercentageConservation`: every stored config sums to 10000 bps with at most one min_balance target, through Register, Update and whitelist edits. `PauseProtocol`: the registry refines `RebalancerPause`. |
| `oracle_window` | `MCPriceOracle.cfg` | pass (1.3M states, ~2 min) | `WindowAverage`: `LOCAL_PRICES` is always the last `TWAP_PRICE_MAX_LEN` observations pushed, newest first, and `PRICES` is their floored mean with the newest one's time. This holds through auction, astroport and manual updates and the eviction at the limit. `TypeOK` bounds the buffer. |
| `price_table_coverage` | `MCRegistryPrices.cfg` | violation | `PricesCoverTargets`: with two base denoms, the frozen table has a pair per base for each denom, and `get_inputs` may take another base's price. The same property is broken by a denom whitelisted mid-pass, and by a delisted target. |

Each violation is described in `PROJECT.json` "findings".

Other panics reachable with the same model values:
- `to_sell[0]` with no sell token;
- `max_sell -= auction_min_amount` below zero;
- `price / 0` when the balance equals the floor.

`NoPagePanic` covers them all, and TLC reports the shortest.

### Bounds and why they are enough

- **Cycle** (`MCRebalancerCycle`):
  - 3 accounts, limits {0, 1, 2}, period 2, day 2, time 0..4, one price
    update, admin times {2}.
  - Three accounts with limits 1 and 2 give:
    - full pages and short pages;
    - an account inserted before and after the cursor;
    - a page that is exactly full, where L divides N.
  - Time 4 with period 2 lets a pass outlive its period and restart, and
    lets a second cycle start.
  - Limit 0 is the degenerate call, which never finishes a pass.
- **Account** (`MCRebalanceAccount`, three targets):
  - balances {0, 1, 3, 7};
  - prices 0.5 and 1.5;
  - auction minimums 1 and 3;
  - two PID gain sets, including Kp = Ki = 0.5 with Kd = 1, and a third
    with Kp = 1.5 that `ParsedPID::verify` rejects;
  - `max_limit` 30% and 100%;
  - both override strategies;
  - dt 1 and 2.

  These reach:
  - the override with both strategies, including leftover exhaustion;
  - the forced trade;
  - the floor clamp;
  - the max-sell clamp;
  - one sell token matched against two buy tokens.

  The two-target values (`MC2*`), used by the violation runs, add a price
  of 2, missing auction minimums, and a floor on the base denom.

- **Registry** (`MCRebalancerRegistry`):
  - one account, one other address (the trustee), three denoms, two of
    them base denoms, two code ids, two service addresses;
  - five target sets, including one that sums to 11000, one with two
    min_balance targets and a single 10000 bps target;
  - whitelist edits add or remove at most one element per call.

  This reaches:
  - every validation branch of Register and Update;
  - a trustee pause taken over by the account;
  - a trustee replaced while it holds the pause;
  - the routing lost to a service change;
  - a table built over two base denoms.

- **Oracle** (`MCPriceOracle`):
  - one valid pair, since pairs share no state, plus one pair
    `Pair::verify` rejects;
  - prices 2 and 3 atomics (0 from astroport), whose means floor;
  - a buffer of 3 (the code's 10), with 4 pushes per pair, so the fourth
    push evicts;
  - config values 0 and 1;
  - time 0..3.

  This reaches:
  - an auction head going stale;
  - the astroport fallback, and `NoAstroPath`;
  - the manual gate open and shut;
  - an auction price older than a manual one.

### Liveness

No liveness property is checked. The one this project used to check, that
a Processing pass eventually ends under a fair keeper, held only because
the model's clock stops at `MaxTime` and because `RebalancerCycle` reduces
`do_rebalance` to outcomes that no later call repeats. In the code a page
that panics deterministically (`page_panic` shows one such panic is
reachable) reverts on every call while the account's balances stay, and
keeps the status Processing for good. A keeper calling fairly does not
change that, and nothing promises a call within `CYCLE_PERIOD`.

## Not modelled (yet), and why

- Fees, PID and max_limit fields of Register, manager addresses and the
  cycle period. `PauseReason` is not used by this contract.
- In the oracle:
  - `auction_manager_addr` and the auctions manager that maps a pair to
    its auction (every pair is taken to have one);
  - the steps of an astroport path (a quote is the environment's choice);
  - the admin-change helpers, which are outside `src/`;
  - queries.
- `UpdateCyclePeriod`: it saves the `CYCLE_PERIOD` item, but
  `rebalance.rs` uses `CYCLE_PERIOD` as a constant, and the repository's
  `state.rs` is missing. The cycle model keeps the period fixed.
- cw-pid's wasm and serde boundary (`from_value(...).unwrap()`): I/O.
  The formula is modelled. It drops the derivative when `last_input` is
  zero, where `do_pid` drops it only when there is none. While
  `do_rebalance` drops the PID state (`pid_state_not_saved`) that case
  never arises, so `CwPidAgrees` holds. It would not hold once the state
  is carried.
- The services manager's queries and the save/remove helpers outside
  `src/`.
- `reply` (emits an event), queries (read only), `Pair` (a data type),
  messages and errors.
- The per-page cache of auction minimums. A model call covers one account.
- Trade settlement: the environment moves balances arbitrarily.

## Plan

Most important first:

1. **Done:**
   - `RebalancerCycle` (safety);
   - `RebalanceAccount`, with the per-account algorithm and its
     divergences.
2. **Settlement across cycles.** Extend `RebalanceAccount` with trade
   execution at the auction. Check the reserve-floor convergence of spec
   8.2 as liveness, and the `atomic: false` partial failure.
3. **Deterministic panics in the cycle.** Feed the account panics into the
   cycle model as a per-account condition that persists until the
   balances change. Then "a pass in progress eventually ends" becomes a
   violation run: one stuck account blocks the pass for every account.
4. **Done:** `RebalancerRegistry` with the `RebalancerPause` refinement,
   and the price-table finding. Still open:
   - Update skips Register's bps range and two-target checks;
   - a delisted base denom makes Resume panic;
   - a moved service strands its accounts.
   All twelve run slots are in use. A new question must replace a run.
   The `pages_per_pass` run (spec 8.4's ceil(N/L) calls: when L divides
   N, the code needs one more call, an empty page) was retired to make
   room for the oracle. The behaviour is unchanged and unchecked.
5. **Done:** `PriceOracle`, with `WindowAverage`. Each of these needs a
   violation run, and none is left:
   - an astroport quote of 0 is stored, since only the manual path checks
     for zero, and the rebalancer then divides by the average;
   - `PRICES.time` goes backwards when an auction price older than a
     manual update is stored, which opens the manual gate early;
   - repeated `UpdatePrice` calls fill the buffer with one price.
6. **`RebalancerCycleAbstract`.** An abstract pass (a set of accounts done
   per cycle), and `RebalancerCycle` shown to implement it through
   `INSTANCE ... WITH`. The set of accounts a pass has covered is not
   observable from the cursor, so the mapping needs a history variable.
7. **Done:** `CwPid` versus `DoPid`, as the invariant `CwPidAgrees` of
   `account_three_targets`. If the PID state is ever saved, that invariant
   is what exposes the `last_input = 0` difference.
8. **Services manager:** done, as part of `RebalancerRegistry`.
