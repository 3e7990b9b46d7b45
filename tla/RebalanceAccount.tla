--------------------------- MODULE RebalanceAccount ---------------------------
(***************************************************************************)
(* The per-account rebalance of the rebalancer service (do_rebalance in    *)
(* rebalance.rs): read balances and prices, apply the min-balance          *)
(* override, run the PID controller, look up the auction minimums and      *)
(* match sells to buys under the max-sell budget and the reserve floor.    *)
(*                                                                         *)
(* cosmwasm Decimal is a fixed-point number with 18 decimals; here it is   *)
(* an integer scaled by S (S = 1 is the number 1/S).  Multiplication and   *)
(* division floor, to_uint_ceil rounds up, and a subtraction that would go *)
(* below zero, a division by zero and an index out of range are panics,    *)
(* which abort the whole transaction: they are recorded as a "Panic"       *)
(* result.  The account's balances, the oracle prices and the auction      *)
(* minimums are the environment and change arbitrarily between calls.      *)
(***************************************************************************)
EXTENDS Integers, Sequences, SequencesExt

CONSTANTS
    S,              \* the Decimal scale: the number 1
    Denoms,         \* the denoms of the account's targets
    BaseDenom,      \* the config's base denom: price 1
    TargetSets,     \* candidate registered target lists [denom, bps, min_balance]
    Pids,           \* candidate PID gains [p, i, d], as scaled decimals
    MaxLimitBps,    \* candidate max_limit_bps
    Strategies,     \* target override strategies
    Amounts,        \* balance amounts the account can hold
    Prices,         \* prices of the non-base denoms, as scaled decimals
    MinAmounts,     \* auction min amounts, NoAmount for none
    Dts,            \* time deltas (elapsed / cycle period) after a first rebalance
    NoAmount        \* Option::None for amounts and values

ASSUME S \in Nat \ {0} /\ BaseDenom \in Denoms
ASSUME NoAmount \notin Nat
ASSUME Prices \subseteq Nat \ {0} /\ Dts \subseteq Nat \ {0}

VARIABLES
    config,         \* the account's RebalancerConfig as stored in CONFIGS
    balances,       \* the account's bank balances
    prices,         \* the frozen price table of the pass
    min_amounts,    \* the auction manager's MIN_AUCTION_AMOUNT per denom
    result          \* what the last do_rebalance call returned

vars == <<config, balances, prices, min_amounts, result>>

-----------------------------------------------------------------------------
(* Decimal and SignedDecimal arithmetic at scale S.                        *)

FromAtomics(n) == n * S
DMul(a, b) == (a * b) \div S
DDiv(a, b) == (a * S) \div b
ToUintCeil(a) == (a + S - 1) \div S
Bps(b) == (b * S) \div 10000
\* Decimal::from_str("0.9999"): at 18 decimals the margin below one is far
\* above what rounding loses, so only a miscalculation trips the check.  At
\* scale S each redistributed target loses under 2 units to rounding, and
\* the margin is kept above that.
MinTotalPerc(n) == S - 2 * n

Magnitude(x) == IF x < 0 THEN -x ELSE x
SignOf(x, y, m) == IF (x < 0) = (y < 0) THEN m ELSE -m
SMul(a, b) == SignOf(a, b, (Magnitude(a) * Magnitude(b)) \div S)
SDiv(a, b) == SignOf(a, b, (Magnitude(a) * S) \div Magnitude(b))

HasMin(t) == t.min_balance # NoAmount

-----------------------------------------------------------------------------
(* get_inputs: one TargetHelper per target, and the total value.           *)

PriceOf(t) == IF t.denom = BaseDenom THEN S ELSE prices[t.denom]

GetInputs(cfg) ==
    [k \in DOMAIN cfg.targets |->
        LET t == cfg.targets[k] IN
        [target             |-> t,
         balance_amount     |-> balances[t.denom],
         price              |-> PriceOf(t),
         balance_value      |-> DDiv(FromAtomics(balances[t.denom]), PriceOf(t)),
         value_to_trade     |-> 0,
         auction_min_amount |-> 0,
         is_buy             |-> FALSE]]

TotalValue(hs) == FoldLeft(LAMBDA acc, h : acc + h.balance_value, 0, hs)

-----------------------------------------------------------------------------
(* verify_targets: when the min-balance target's share of the total is     *)
(* below its floor, raise it and shrink the others by the strategy.       *)

SetPerc(h, p) == [h EXCEPT !.target.percentage = p]

FloorIndex(hs) == CHOOSE k \in DOMAIN hs : HasMin(hs[k].target)

MinBalanceTarget(h) == DMul(FromAtomics(h.target.min_balance), h.price)

\* Mutant: the old share is not renormalised by the old leftover.
ProportionalShareUnscaled(perc, oldLeftover, left) == DMul(perc, left)

\* Proportional: the target's share of the old leftover, of the new leftover.
ProportionalShare(perc, oldLeftover, left) == DMul(DDiv(perc, oldLeftover), left)

VerifyTargets(cfg, total, hs) ==
    LET ft   == hs[FloorIndex(hs)]
        mbt  == MinBalanceTarget(ft)
        full == mbt >= total
        newPerc == IF full THEN S ELSE DDiv(mbt, total)
        oldLeftover == S - ft.target.percentage
        Step(st, h) ==
            CASE h.target.denom = ft.target.denom ->
                    [st EXCEPT !.out = Append(@, SetPerc(h, newPerc))]
              [] st.left = 0 ->
                    [st EXCEPT !.out = Append(@, SetPerc(h, 0))]
              [] cfg.target_override_strategy = "Proportional" ->
                    LET p == ProportionalShare(h.target.percentage, oldLeftover, st.left)
                    IN  [st EXCEPT !.out = Append(@, SetPerc(h, p)),
                                   !.total = @ + p]
              [] st.left >= h.target.percentage ->
                    [st EXCEPT !.out = Append(@, h),
                               !.left = @ - h.target.percentage,
                               !.total = @ + h.target.percentage]
              [] OTHER ->
                    [st EXCEPT !.out = Append(@, SetPerc(h, st.left)),
                               !.left = 0,
                               !.total = @ + st.left]
        r == FoldLeft(Step, [out   |-> <<>>,
                             left  |-> IF full THEN 0 ELSE S - newPerc,
                             total |-> newPerc], hs)
    IN  IF DMul(total, ft.target.percentage) >= mbt
        THEN [err |-> FALSE, hs |-> hs, overridden |-> FALSE]
        ELSE [err |-> r.total > S \/ r.total < MinTotalPerc(Len(hs) - 1),
              hs  |-> r.out, overridden |-> TRUE]

-----------------------------------------------------------------------------
(* do_pid.  SignedDecimal is not in this repository: a product or quotient *)
(* floors the magnitude, and whether a zero output counts as a buy or a    *)
(* sell is left open: zeroBuy, the same for every target of the call.      *)

\* Mutant: the integral term forgets the time delta.
IntegralNoDt(last_i, error, ki, dt) == last_i + SMul(error, ki)

\* The integral term: last_i + error * i * dt.
Integral(last_i, error, ki, dt) == last_i + SMul(SMul(error, ki), dt)

DoPid(total, hs, pid, dt, zeroBuy) ==
    [k \in DOMAIN hs |->
        LET h      == hs[k]
            input  == h.balance_value
            error  == DMul(total, h.target.percentage) - input
            p      == SMul(error, pid.p)
            i      == Integral(h.target.last_i, error, pid.i, dt)
            dIn    == IF h.target.last_input = NoAmount THEN 0
                      ELSE input - h.target.last_input
            d      == SDiv(SMul(dIn, pid.d), dt)
            output == p + i - d
        IN  [h EXCEPT !.value_to_trade    = Magnitude(output),
                      !.is_buy            = output > 0 \/ (output = 0 /\ zeroBuy),
                      !.target.last_input = input,
                      !.target.last_i     = i]]

ToSell(hs) == SelectSeq(hs, LAMBDA h : ~h.is_buy)
ToBuy(hs)  == SelectSeq(hs, LAMBDA h : h.is_buy)

(* get_auction_min_amount: a sell denom without a minimum is an error.     *)

MinMissing(sells) == \E k \in DOMAIN sells : min_amounts[sells[k].target.denom] = NoAmount

GetAuctionMinAmount(sells) ==
    [k \in DOMAIN sells |->
        [sells[k] EXCEPT !.auction_min_amount =
            DDiv(FromAtomics(min_amounts[sells[k].target.denom]), sells[k].price)]]

-----------------------------------------------------------------------------
(* generate_trades_msgs.  The matcher state: the sell and buy helpers with *)
(* their remaining value_to_trade, the max_sell budget left, the trades    *)
(* emitted and the panic that aborted it, if any.                          *)

NoPanic == "none"

Trade(s, b, amount, value, forced) ==
    [sell |-> s.target.denom, buy |-> b.target.denom,
     amount |-> amount, value |-> value, forced |-> forced]

\* The special case: the min-balance target buys less than the auction
\* minimum of the first sell token, so that minimum is sold into it.
MinBalanceBuy(g) ==
    LET jb == CHOOSE j \in DOMAIN g.buy : HasMin(g.buy[j].target)
        s  == g.sell[1]
        b  == g.buy[jb]
    IN  CASE g.sell = <<>> -> [g EXCEPT !.panic = "to_sell_empty"]
          [] b.value_to_trade >= s.auction_min_amount -> g
          [] s.auction_min_amount > g.max_sell -> [g EXCEPT !.panic = "max_sell_underflow"]
          [] OTHER ->
               [g EXCEPT
                  !.sell[1].value_to_trade =
                      IF s.value_to_trade < s.auction_min_amount THEN 0
                      ELSE s.value_to_trade - s.auction_min_amount,
                  !.buy[jb].value_to_trade = 0,
                  !.max_sell = @ - s.auction_min_amount,
                  !.msgs = Append(@, Trade(s, b,
                             ToUintCeil(DMul(s.auction_min_amount, s.price)),
                             s.auction_min_amount, TRUE))]

SpecialCase(cfg, g) ==
    IF cfg.has_min_balance /\ \E j \in DOMAIN g.buy : HasMin(g.buy[j].target)
    THEN MinBalanceBuy(g) ELSE g

\* Mutant: the max-sell clamp is dropped.
ClampUnbounded(v, max_sell) ==
    [value |-> v, max_sell |-> IF v > max_sell THEN 0 ELSE max_sell - v]

\* Mutant: the two assignments of the clamp in the other order.
ClampZeroFirst(v, max_sell) ==
    IF v > max_sell THEN [value |-> 0, max_sell |-> 0]
    ELSE [value |-> v, max_sell |-> max_sell - v]

\* Sell at most what is left of the max_sell budget, and charge it.
ClampToMaxSell(v, max_sell) ==
    IF v > max_sell THEN [value |-> max_sell, max_sell |-> 0]
    ELSE [value |-> v, max_sell |-> max_sell - v]

\* Mutant: the whole sell value is matched whatever the buy still needs.
MatchedWhole(v, need) == v

\* The value one trade moves: min(sell remaining, buy remaining).
MatchedValue(v, need) == IF v >= need THEN need ELSE v

\* The reserve-floor check of a min-balance sell token: the value it may
\* sell, or a panic.  balance_amount is the balance read by get_inputs.
FloorClamp(s, v) ==
    LET sellAmount == ToUintCeil(DMul(v, s.price))
        mb == s.target.min_balance
        Keep(skip, panic) == [skip |-> skip, panic |-> panic, value |-> v, clamped |-> FALSE]
    IN  CASE ~HasMin(s.target) -> Keep(FALSE, NoPanic)
          [] s.balance_amount < sellAmount -> Keep(TRUE, NoPanic)
          [] s.balance_amount - sellAmount >= mb -> Keep(FALSE, NoPanic)
          [] s.balance_amount < mb -> Keep(TRUE, "floor_underflow")
          [] s.balance_amount = mb -> Keep(TRUE, "floor_div_zero")
          [] OTHER -> [skip |-> FALSE, panic |-> NoPanic, clamped |-> TRUE,
                       value |-> DDiv(s.price, FromAtomics(s.balance_amount - mb))]

\* One iteration of the inner loop: sell token k against buy token j.
Match(g, k, j) ==
    LET s == g.sell[k]
        b == g.buy[j]
        fc == FloorClamp(s, s.value_to_trade)
        c  == ClampToMaxSell(fc.value, g.max_sell)
        tv == MatchedValue(c.value, b.value_to_trade)
        gc == IF fc.clamped
              THEN [g EXCEPT !.clamps = Append(@, [amount |-> s.balance_amount - s.target.min_balance,
                                                   value |-> fc.value, price |-> s.price])]
              ELSE g
    IN  CASE g.panic # NoPanic \/ b.value_to_trade = 0
             \/ s.value_to_trade = 0 \/ g.max_sell = 0 -> g
          [] fc.panic # NoPanic -> [g EXCEPT !.panic = fc.panic]
          [] fc.skip -> g
          [] fc.value < s.auction_min_amount -> [gc EXCEPT !.sell[k].value_to_trade = 0]
          [] OTHER ->
               [gc EXCEPT !.sell[k].value_to_trade = c.value - tv,
                         !.buy[j].value_to_trade = b.value_to_trade - tv,
                         !.max_sell = c.max_sell,
                         !.msgs = Append(@, Trade(s, b, ToUintCeil(DMul(tv, s.price)),
                                                  tv, FALSE))]

GenerateTradesMsgs(cfg, sells, buys, total) ==
    LET g0 == [sell |-> sells, buy |-> buys, msgs |-> <<>>, panic |-> NoPanic,
               clamps |-> <<>>, max_sell |-> DMul(cfg.max_limit, total)]
        g1 == SpecialCase(cfg, g0)
    IN  IF g1.panic # NoPanic THEN g1
        ELSE FoldLeftDomain(LAMBDA g, k :
                 FoldLeftDomain(LAMBDA h, j : Match(h, k, j), g, g.buy), g1, sells)

-----------------------------------------------------------------------------
(* do_rebalance, and the config a registration stores (to_config).         *)

NoResult == [kind |-> "None", reason |-> "", inputs |-> <<>>, total |-> 0,
             pid |-> <<>>, overridden |-> FALSE, max_sell |-> 0, trades |-> <<>>,
             clamps |-> <<>>, dt |-> 0]

DoRebalance(cfg, dt, zeroBuy) ==
    LET hs    == GetInputs(cfg)
        total == TotalValue(hs)
        vt    == IF cfg.has_min_balance THEN VerifyTargets(cfg, total, hs)
                 ELSE [err |-> FALSE, hs |-> hs, overridden |-> FALSE]
        ph    == DoPid(total, vt.hs, cfg.pid, dt, zeroBuy)
        sells == ToSell(ph)
        g     == GenerateTradesMsgs(cfg, GetAuctionMinAmount(sells), ToBuy(ph), total)
        base  == [NoResult EXCEPT !.inputs = hs, !.total = total]
    IN  CASE total = 0 -> [base EXCEPT !.kind = "Err", !.reason = "AccountBalanceIsZero"]
          [] vt.err -> [base EXCEPT !.kind = "Err", !.reason = "InvalidTargetPercentage"]
          [] MinMissing(sells) -> [base EXCEPT !.kind = "Err", !.reason = "NoMinAuctionAmountFound"]
          [] g.panic # NoPanic -> [base EXCEPT !.kind = "Panic", !.reason = g.panic]
          [] OTHER -> [base EXCEPT !.kind = "Ok", !.pid = ph, !.overridden = vt.overridden,
                                   !.max_sell = DMul(cfg.max_limit, total), !.trades = g.msgs,
                                   !.clamps = g.clamps, !.dt = dt]

ToConfig(targets, pid, maxLimitBps, strategy) ==
    [targets  |-> [k \in DOMAIN targets |->
                     [denom       |-> targets[k].denom,
                      percentage  |-> Bps(targets[k].bps),
                      min_balance |-> targets[k].min_balance,
                      last_input  |-> NoAmount,
                      last_i      |-> 0]],
     pid      |-> pid,
     max_limit |-> Bps(maxLimitBps),
     last_rebalance |-> FALSE,
     has_min_balance |-> \E k \in DOMAIN targets : targets[k].min_balance # NoAmount,
     target_override_strategy |-> strategy]

\* ParsedPID::verify, through PID::into_parsed: p and i at most one, no gain
\* negative; a registration with other gains is rejected.
VerifyPid(pid) ==
    /\ pid.p <= S /\ pid.i <= S
    /\ pid.p >= 0 /\ pid.i >= 0 /\ pid.d >= 0

Configs == {ToConfig(t, p, m, st) : t \in TargetSets, p \in {q \in Pids : VerifyPid(q)},
                                    m \in MaxLimitBps, st \in Strategies}

-----------------------------------------------------------------------------
(* cw-pid (src/packages/cw-pid): the same PID step as a wasm function for  *)
(* clients.  Gains arrive as basis points, the other inputs as             *)
(* SignedDecimals; a last_input of zero means there is none.               *)

IntoSignedDecimal(gains) == [p |-> Bps(gains.p), i |-> Bps(gains.i), d |-> Bps(gains.d)]

CwPid(gains, input, target, dt, last_i, last_input) ==
    LET pid   == IntoSignedDecimal(gains)
        error == target - input
        p     == SMul(error, pid.p)
        i     == last_i + SMul(SMul(error, pid.i), dt)
        dIn   == IF last_input = 0 THEN 0 ELSE input - last_input
        d     == SDiv(SMul(dIn, pid.d), dt)
    IN  [value |-> p + i - d, i |-> i]

Markets == [balances : [Denoms -> Amounts],
            prices : [Denoms \ {BaseDenom} -> Prices],
            min_amounts : [Denoms -> MinAmounts]]

-----------------------------------------------------------------------------

Init ==
    /\ config \in Configs
    /\ \E m \in Markets : /\ balances = m.balances
                          /\ prices = m.prices
                          /\ min_amounts = m.min_amounts
    /\ result = NoResult

\* The system rebalance calls do_rebalance for the account; on Ok the pass
\* saves the returned config, whose only change is last_rebalance.
Rebalance ==
    \E dt \in (IF config.last_rebalance THEN Dts ELSE {S}),
       zeroBuy \in BOOLEAN :
        LET r == DoRebalance(config, dt, zeroBuy) IN
        /\ result' = r
        /\ config' = IF r.kind = "Ok" THEN [config EXCEPT !.last_rebalance = TRUE]
                     ELSE config
        /\ UNCHANGED <<balances, prices, min_amounts>>

\* Between calls the environment moves, one value at a time: trades settle
\* and deposits arrive (a balance), the oracle moves (a price), the auction
\* manager changes a minimum.  A result describes the call it came from.
Env(d) ==
    /\ \/ \E a \in Amounts : balances' = [balances EXCEPT ![d] = a]
          /\ UNCHANGED <<prices, min_amounts>>
       \/ \E p \in Prices : d # BaseDenom /\ prices' = [prices EXCEPT ![d] = p]
          /\ UNCHANGED <<balances, min_amounts>>
       \/ \E m \in MinAmounts : min_amounts' = [min_amounts EXCEPT ![d] = m]
          /\ UNCHANGED <<balances, prices>>
    /\ result' = NoResult
    /\ UNCHANGED config

Next == Rebalance \/ \E d \in Denoms : Env(d)

Spec == Init /\ [][Next]_vars

-----------------------------------------------------------------------------
(* Properties.                                                             *)

Trades == result.trades

SoldAmount(d) == FoldLeft(LAMBDA acc, t : IF t.sell = d THEN acc + t.amount ELSE acc,
                          0, Trades)
MatchedBuyValue(d) ==
    FoldLeft(LAMBDA acc, t : IF t.buy = d /\ ~t.forced THEN acc + t.value ELSE acc,
             0, Trades)
\* The price the call used for a denom, and what the sent amounts are worth
\* at it (floored, so a sum above the budget is a real excess).
PriceUsed(d) == LET k == CHOOSE k \in DOMAIN result.inputs :
                             result.inputs[k].target.denom = d
                IN  result.inputs[k].price
SoldAmountsValue ==
    FoldLeft(LAMBDA acc, t : acc + DDiv(FromAtomics(t.amount), PriceUsed(t.sell)),
             0, Trades)

TypeOK ==
    /\ config \in Configs \cup {[c EXCEPT !.last_rebalance = TRUE] : c \in Configs}
    /\ balances \in [Denoms -> Amounts]
    /\ min_amounts \in [Denoms -> MinAmounts]
    /\ result.kind \in {"None", "Ok", "Err", "Panic"}
    /\ \A i \in DOMAIN Trades : /\ Trades[i].sell # Trades[i].buy
                                /\ Trades[i].amount \in Nat \ {0}

\* The max-sell bound (spec 8.3: one cycle reduces a balance by no more
\* than max_limit * total_value, "1000 -> 990, not lower"): the amounts one
\* call sends, the forced min-balance trade included, are worth at most
\* max_sell.  generate_trades_msgs charges the budget in value but sends
\* to_uint_ceil(value * price), so each trade may send up to one unit more.
MaxSellRespected ==
    result.kind = "Ok" => SoldAmountsValue <= result.max_sell

\* The matcher never buys more value for a token than its PID output asked
\* for, however many sell tokens are matched against it (the forced
\* min-balance trade is the documented exception).
BuysWithinPidOutputs ==
    result.kind = "Ok" =>
        \A k \in DOMAIN result.pid :
            result.pid[k].is_buy =>
                MatchedBuyValue(result.pid[k].target.denom) <= result.pid[k].value_to_trade

\* PID carry-over (spec 4.5 and 8.7, and the comment "Rebalacing does edit
\* some config fields that are needed for future rebalancing" before
\* CONFIGS.save): after a successful rebalance the stored targets hold the
\* last_input and last_i the PID controller just computed.
PidStateCarried ==
    result.kind = "Ok" =>
        \A k \in DOMAIN config.targets :
            /\ config.targets[k].last_input = result.pid[k].target.last_input
            /\ config.targets[k].last_i = result.pid[k].target.last_i

\* The reserve floor (spec 4.7, the comment "If our sell results in less
\* then min_balance, we sell the difference to hit min_balance"): the trades
\* of one call never take a min-balance token below its min_balance.
FloorRespected ==
    result.kind = "Ok" =>
        \A k \in DOMAIN result.inputs :
            LET h == result.inputs[k] IN
            HasMin(h.target) /\ SoldAmount(h.target.denom) > 0 =>
                h.balance_amount - SoldAmount(h.target.denom) >= h.target.min_balance

\* No dust (spec 4.7, "Drop (zero) any residual sell amount below the venue
\* minimum rather than emitting a dust trade"): every trade sends at least
\* the auction's min amount of the sold denom.
NoDustTrades ==
    result.kind = "Ok" =>
        \A i \in DOMAIN Trades : Trades[i].amount >= min_amounts[Trades[i].sell]

\* The floor clamp (the comment "we sell the difference to hit
\* min_balance"): when a min-balance token's sell is cut back to its floor,
\* the value it may still sell is worth exactly balance - min_balance.
FloorClampSellsDifference ==
    result.kind = "Ok" =>
        \A i \in DOMAIN result.clamps :
            ToUintCeil(DMul(result.clamps[i].value, result.clamps[i].price))
                = result.clamps[i].amount

\* A SystemRebalance page never aborts because of one account: nothing in
\* do_rebalance panics (to_sell[0] with no sell token, max_sell going below
\* zero, balance_amount - min_balance below zero, price / 0).  A panic
\* reverts the page for every account on it.
NoPagePanic == result.kind # "Panic"

\* The min-balance override (spec 4.4): the floor target's share is raised
\* exactly when its normal allocation is worth less than the reserve value
\* min_balance / price.
OverrideUsesReserveValue ==
    result.kind = "Ok" /\ config.has_min_balance =>
        LET h == result.inputs[FloorIndex(result.inputs)] IN
        result.overridden <=>
            DMul(result.total, h.target.percentage)
                < DDiv(FromAtomics(h.target.min_balance), h.price)

\* verify_targets' redistribution (the check "If the new percentage is
\* smaller then 0.9999 or higher then 1, we have something wrong in
\* calculation"): whatever the balances, prices and strategy, the shares
\* the override hands out after the floor target's new share never trip
\* that check, so no account is refused a rebalance for it.
RedistributionAccepted == result.reason # "InvalidTargetPercentage"

\* cw-pid and do_pid agree: for every target of an Ok rebalance, a client
\* calling cw-pid with the config's gains in basis points and the call's
\* input, target value, dt and stored PID state gets the value_to_trade,
\* trade direction and integral that do_pid computed on chain.
CwPidAgrees ==
    result.kind = "Ok" =>
        \A k \in DOMAIN result.pid :
            LET h      == result.pid[k]
                stored == config.targets[k]
                gains  == [g \in {"p", "i", "d"} |-> (config.pid[g] * 10000) \div S]
                out    == CwPid(gains, h.balance_value,
                                DMul(result.total, h.target.percentage), result.dt,
                                stored.last_i,
                                IF stored.last_input = NoAmount THEN 0 ELSE stored.last_input)
            IN  /\ h.value_to_trade = Magnitude(out.value)
                /\ out.value # 0 => h.is_buy = (out.value > 0)
                /\ h.target.last_i = out.i

=============================================================================
