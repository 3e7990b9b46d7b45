---------------------------- MODULE PriceOracle ----------------------------
(***************************************************************************)
(* The price oracle (src/contracts/auction/price_oracle).  For each pair   *)
(* it keeps LOCAL_PRICES, the last TWAP_PRICE_MAX_LEN observations newest *)
(* first, and PRICES, their average stamped with the newest one's time.    *)
(*                                                                         *)
(*   - UpdatePrice (anyone): the observation is the head of the pair's     *)
(*     auction TWAP_PRICES when the auction has at least 3 prices and the  *)
(*     head is fresh, else a price simulated along the admin's astroport   *)
(*     path, stamped now.                                                  *)
(*   - ManualPriceUpdate (admin): a non-zero price stamped now, allowed    *)
(*     only seconds_allow_manual_change after PRICES' time.                *)
(*   - AddAstroPath, UpdateAstroPath, UpdateConfig (admin).                *)
(*                                                                         *)
(* The auction contract is outside src/: its TWAP_PRICES is environment    *)
(* state, of which only the head and whether it has 3 entries matter.      *)
(* Prices are Decimal atomics, so Decimal's floor division of a sum by a   *)
(* count is integer division.  A path is a model value: its steps play no *)
(* part beyond the simulated price, which the environment chooses.        *)
(***************************************************************************)
EXTENDS Integers, Sequences, SequencesExt

CONSTANTS
  Pairs,        \* candidate pairs <<denom1, denom2>>, valid or not
  PriceVals,    \* Decimal atomics an auction, astroport or the admin may give
  Paths,        \* astroport price paths the admin may store
  NoPath,       \* no entry in ASTRO_PRICE_PATHS
  NoPrice,      \* no entry in PRICES
  Keep,         \* None for an optional field of UpdateConfig
  ConfigVals,   \* values seconds_allow_manual_change / _fresh may take
  TWAP_PRICE_MAX_LEN,
  MaxTime,      \* bound on block time (seconds)
  MaxPushes     \* bound on the observations pushed per pair

ASSUME TWAP_PRICE_MAX_LEN \in Nat \ {0}
ASSUME PriceVals \subseteq Nat /\ ConfigVals \subseteq Nat

(* Pair::verify: both denoms non-empty and different. *)
Verify(p) == p[1] # p[2]

ValidPairs == {p \in Pairs : Verify(p)}

VARIABLES
  now,          \* env.block.time
  config,       \* CONFIG: [allow, fresh]
  auctionLen,   \* the pair auction's TWAP_PRICES length, saturated at 3
  auctionHead,  \* its TWAP_PRICES[0], or NoPrice
  astroPath,    \* ASTRO_PRICE_PATHS
  localPrices,  \* LOCAL_PRICES: sequence of Price, newest first
  prices,       \* PRICES
  pushed        \* history: every observation pushed, newest first

vars == <<now, config, auctionLen, auctionHead, astroPath, localPrices,
          prices, pushed>>

Price(v, t) == [price |-> v, time |-> t]

(* can_update_price_from_auction *)
CanUpdateFromAuction(p) ==
  /\ auctionLen[p] >= 3
  /\ ~(auctionHead[p].time + config.fresh < now)

(* update_local_price: drop the oldest when full, push the new one first. *)
UpdateLocalPriceOffByOne(buf, pr) ==
  <<pr>> \o (IF Len(buf) > TWAP_PRICE_MAX_LEN THEN Front(buf) ELSE buf)

UpdateLocalPriceEvictNewest(buf, pr) ==
  <<pr>> \o (IF Len(buf) >= TWAP_PRICE_MAX_LEN THEN Tail(buf) ELSE buf)

UpdateLocalPrice(buf, pr) ==
  <<pr>> \o (IF Len(buf) >= TWAP_PRICE_MAX_LEN THEN Front(buf) ELSE buf)

(* get_avg_price: sum / count, floored, with the newest entry's time. *)
GetAvgPrice(buf) ==
  Price(FoldSeq(LAMBDA e, acc : e.price + acc, 0, buf) \div Len(buf),
        buf[1].time)

(* Push an observation and save the new average: the common tail of      *)
(* UpdatePrice and ManualPriceUpdate.                                    *)
Store(p, pr) ==
  LET buf == UpdateLocalPrice(localPrices[p], pr) IN
  /\ Len(pushed[p]) < MaxPushes
  /\ localPrices' = [localPrices EXCEPT ![p] = buf]
  /\ prices' = [prices EXCEPT ![p] = GetAvgPrice(buf)]
  /\ pushed' = [pushed EXCEPT ![p] = <<pr>> \o @]

(* The observation UpdatePrice takes: the auction's head, or astroport's. *)
LastPrice(p) ==
  IF CanUpdateFromAuction(p)
  THEN {auctionHead[p]}
  ELSE IF astroPath[p] = NoPath THEN {}            \* NoAstroPath error
       ELSE {Price(v, now) : v \in PriceVals \cup {0}}  \* get_price_from_astroport

UpdatePrice(p) ==
  /\ Verify(p)
  /\ \E pr \in LastPrice(p) : Store(p, pr)
  /\ UNCHANGED <<now, config, auctionLen, auctionHead, astroPath>>

(* The manual-change gate: no PRICES entry, or enough time since its time. *)
ManualAllowed(p) ==
  IF prices[p] = NoPrice THEN TRUE
  ELSE ~(now < prices[p].time + config.allow)

ManualPriceUpdate(p, v) ==
  /\ Verify(p)
  /\ v # 0
  /\ ManualAllowed(p)
  /\ Store(p, Price(v, now))
  /\ UNCHANGED <<now, config, auctionLen, auctionHead, astroPath>>

(* A path is stored only if non-empty, from pair.0 and to pair.1: the    *)
(* model's Paths are such paths, so the shape checks always pass.        *)
AddAstroPath(p, path) ==
  /\ Verify(p)
  /\ astroPath[p] = NoPath
  /\ astroPath' = [astroPath EXCEPT ![p] = path]
  /\ UNCHANGED <<now, config, auctionLen, auctionHead, localPrices, prices, pushed>>

UpdateAstroPath(p, path) ==
  /\ Verify(p)
  /\ astroPath[p] # NoPath
  /\ astroPath' = [astroPath EXCEPT ![p] = path]
  /\ UNCHANGED <<now, config, auctionLen, auctionHead, localPrices, prices, pushed>>

Opt(new, old) == IF new = Keep THEN old ELSE new

UpdateConfig(allow, fresh) ==
  /\ config' = [allow |-> Opt(allow, config.allow), fresh |-> Opt(fresh, config.fresh)]
  /\ UNCHANGED <<now, auctionLen, auctionHead, astroPath, localPrices, prices, pushed>>

(* Environment: the pair's auction closes and records a TWAP price now. *)
AuctionRecords(p, v) ==
  /\ auctionLen' = [auctionLen EXCEPT ![p] = IF @ < 3 THEN @ + 1 ELSE 3]
  /\ auctionHead' = [auctionHead EXCEPT ![p] = Price(v, now)]
  /\ UNCHANGED <<now, config, astroPath, localPrices, prices, pushed>>

Tick ==
  /\ now < MaxTime
  /\ now' = now + 1
  /\ UNCHANGED <<config, auctionLen, auctionHead, astroPath, localPrices, prices, pushed>>

(* instantiate: CONFIG from the message; no paths, no prices. *)
Init ==
  /\ now = 0
  /\ config \in [allow : ConfigVals, fresh : ConfigVals]
  /\ auctionLen = [p \in ValidPairs |-> 0]
  /\ auctionHead = [p \in ValidPairs |-> NoPrice]
  /\ astroPath = [p \in ValidPairs |-> NoPath]
  /\ localPrices = [p \in ValidPairs |-> <<>>]
  /\ prices = [p \in ValidPairs |-> NoPrice]
  /\ pushed = [p \in ValidPairs |-> <<>>]

Next ==
  \/ \E p \in Pairs : UpdatePrice(p)
  \/ \E p \in Pairs, v \in PriceVals \cup {0} : ManualPriceUpdate(p, v)
  \/ \E p \in Pairs, path \in Paths : AddAstroPath(p, path) \/ UpdateAstroPath(p, path)
  \/ \E allow, fresh \in ConfigVals \cup {Keep} : UpdateConfig(allow, fresh)
  \/ \E p \in ValidPairs, v \in PriceVals : AuctionRecords(p, v)
  \/ Tick

Spec == Init /\ [][Next]_vars

-----------------------------------------------------------------------------
(* Every variable holds a value of its type; LOCAL_PRICES never exceeds    *)
(* TWAP_PRICE_MAX_LEN entries.                                             *)
TypeOK ==
  LET Prices == [price : 0..Max(PriceVals), time : 0..MaxTime] IN
  /\ now \in 0..MaxTime
  /\ config \in [allow : ConfigVals, fresh : ConfigVals]
  /\ auctionLen \in [ValidPairs -> 0..3]
  /\ auctionHead \in [ValidPairs -> Prices \cup {NoPrice}]
  /\ astroPath \in [ValidPairs -> Paths \cup {NoPath}]
  /\ localPrices \in [ValidPairs -> BoundedSeq(Prices, TWAP_PRICE_MAX_LEN)]
  /\ prices \in [ValidPairs -> Prices \cup {NoPrice}]

(* Reference: the sum of a sequence of prices, by recursion. *)
RECURSIVE SumOf(_)
SumOf(s) == IF s = <<>> THEN 0 ELSE Head(s).price + SumOf(Tail(s))

(* update_local_price and get_avg_price together: LOCAL_PRICES holds       *)
(* exactly the last TWAP_PRICE_MAX_LEN observations ever pushed for the    *)
(* pair, newest first, and PRICES is their floored mean stamped with the   *)
(* newest one's time, across any interleaving of UpdatePrice and manual    *)
(* updates and across the eviction at the buffer's limit.                  *)
WindowAverage ==
  \A p \in ValidPairs :
    LET n == IF Len(pushed[p]) < TWAP_PRICE_MAX_LEN THEN Len(pushed[p])
             ELSE TWAP_PRICE_MAX_LEN
        window == SubSeq(pushed[p], 1, n) IN
    /\ localPrices[p] = window
    /\ prices[p] = IF n = 0 THEN NoPrice
                   ELSE Price(SumOf(window) \div n, pushed[p][1].time)

=============================================================================
