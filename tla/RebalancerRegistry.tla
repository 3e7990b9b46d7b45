------------------------ MODULE RebalancerRegistry ------------------------
(***************************************************************************)
(* The account registry of the rebalancer and the services manager that    *)
(* routes to it, composed with the price table a pass freezes.             *)
(*                                                                         *)
(* An account contract reaches the rebalancer only through the services    *)
(* manager (RegisterToService, DeregisterFromService, UpdateService,       *)
(* PauseService, ResumeService), which forwards the message to the address *)
(* it has stored for the "rebalancer" service with the account as sender.  *)
(* The rebalancer validates it against its denom whitelists and stores the *)
(* account's config in CONFIGS.  The admin of each contract edits the      *)
(* whitelists and the service registry.  A pass of SystemRebalance builds  *)
(* its price table from the whitelists when it begins (get_prices) and     *)
(* looks every target up in it (get_inputs).                               *)
(*                                                                         *)
(* PID gains, max_limit and the override strategy are validated the same  *)
(* way or not at all and play no part here; the minimum-value check of     *)
(* Register and Resume (balances over oracle prices) is the environment's  *)
(* `funded`.                                                               *)
(***************************************************************************)
EXTENDS Integers, FiniteSets, Functions, FiniteSetsExt

CONSTANTS
  Accounts,        \* account contracts that may register
  Others,          \* other addresses: trustees, strangers
  Denoms,          \* denoms an admin may whitelist as targets
  BaseDenoms,      \* denoms an admin may whitelist as base denoms
  CodeIds,         \* code ids of account contracts
  AccountCode,     \* [Accounts -> CodeIds]
  ServiceAddrs,    \* addresses the "rebalancer" service may be stored with
  RebalancerAddr,  \* the address of the rebalancer modelled here
  TargetSets,      \* candidate data.targets: [denom -> [bps, min]]
  NoAddr,          \* None for an address
  Keep,            \* None for an optional field of RebalancerUpdateData
  Clear,           \* OptionalField::Clear
  NoConfig,        \* no entry in CONFIGS
  NoSnapshot       \* no pass in progress: no frozen prices

ASSUME RebalancerAddr \in ServiceAddrs
ASSUME AccountCode \in [Accounts -> CodeIds]

Addrs == Accounts \cup Others

VARIABLES
  configs,         \* CONFIGS: [Accounts -> config record or NoConfig]
  denomWhitelist,  \* DENOM_WHITELIST
  baseWhitelist,   \* BASE_DENOM_WHITELIST (by denom)
  codeWhitelist,   \* services manager ACCOUNT_WHITELISTED_CODE_IDS
  service,         \* services manager SERVICES_TO_ADDR["rebalancer"]
  funded,          \* whether the account's value meets min_balance_limit
  snapshot,        \* the prices frozen by the pass in progress
  unpauser         \* history: sender of the Resume that last unpaused

vars == <<configs, denomWhitelist, baseWhitelist, codeWhitelist, service,
          funded, snapshot, unpauser>>

NoTargets == [d \in {} |-> [bps |-> 0, min |-> FALSE]]

(***************************************************************************)
(* Targets are keyed by denom (Target's equality and hash are the denom's, *)
(* so data.targets holds a denom at most once).                            *)
(***************************************************************************)
TotalBps(tg) == SumFunction([d \in DOMAIN tg |-> tg[d].bps])

MinTargets(tg) == {d \in DOMAIN tg : tg[d].min}

\* RebalancerData::to_config: unpaused, never rebalanced, has_min_balance derived.
ToConfig(data) ==
  [trustee |-> data.trustee, base |-> data.base, targets |-> data.targets,
   has_min |-> MinTargets(data.targets) # {}, paused |-> NoAddr]

\* The services manager forwards to the stored service address.
Routed == service = RebalancerAddr

(***************************************************************************)
(* RegisterToService, then Register: code id whitelisted, not registered,  *)
(* base denom whitelisted, at least two targets, each 1..9999 bps, one     *)
(* min_balance at most, every denom whitelisted, the minimum value met and *)
(* the bps summing to 10000.  Any failure reverts both messages.           *)
(***************************************************************************)
RegisterValid(data) ==
  /\ data.base \in baseWhitelist
  /\ Cardinality(DOMAIN data.targets) >= 2
  /\ \A d \in DOMAIN data.targets : data.targets[d].bps \in 1..9999
  /\ Cardinality(MinTargets(data.targets)) <= 1
  /\ DOMAIN data.targets \subseteq denomWhitelist
  /\ TotalBps(data.targets) = 10000

RegisterToService(a, data) ==
  /\ AccountCode[a] \in codeWhitelist
  /\ Routed
  /\ configs[a] = NoConfig
  /\ RegisterValid(data)
  /\ funded[a]
  /\ configs' = [configs EXCEPT ![a] = ToConfig(data)]
  /\ UNCHANGED <<denomWhitelist, baseWhitelist, codeWhitelist, service, funded,
                 snapshot, unpauser>>

\* DeregisterFromService, then Deregister: CONFIGS.remove, no error if absent.
DeregisterFromService(a) ==
  /\ Routed
  /\ configs' = [configs EXCEPT ![a] = NoConfig]
  /\ UNCHANGED <<denomWhitelist, baseWhitelist, codeWhitelist, service, funded,
                 snapshot, unpauser>>

(***************************************************************************)
(* Update: new targets must sum to 10000, hold one min_balance at most and *)
(* be whitelisted (the per-target range and the two-target minimum of      *)
(* Register are not checked); without new targets the stored ones must    *)
(* still be whitelisted.  The trustee is kept, set or cleared; a new base  *)
(* denom must be whitelisted.                                              *)
(***************************************************************************)
\* Mutant: the new targets' bps sum not checked.
UpdateTargetsNoSum(tg) ==
  /\ Cardinality(MinTargets(tg)) <= 1
  /\ DOMAIN tg \subseteq denomWhitelist

UpdateTargetsValid(tg) ==
  /\ TotalBps(tg) = 10000
  /\ Cardinality(MinTargets(tg)) <= 1
  /\ DOMAIN tg \subseteq denomWhitelist

Updated(c, upd) ==
  [c EXCEPT !.targets = IF upd.targets # NoTargets THEN upd.targets ELSE @,
            !.has_min = IF upd.targets # NoTargets THEN MinTargets(upd.targets) # {} ELSE @,
            !.trustee = CASE upd.trustee = Keep  -> @
                          [] upd.trustee = Clear -> NoAddr
                          [] OTHER               -> upd.trustee,
            !.base = IF upd.base = Keep THEN @ ELSE upd.base]

UpdateService(a, upd) ==
  /\ Routed
  /\ configs[a] # NoConfig
  /\ IF upd.targets # NoTargets
       THEN UpdateTargetsValid(upd.targets)
       ELSE DOMAIN configs[a].targets \subseteq denomWhitelist
  /\ upd.base # Keep => upd.base \in baseWhitelist
  /\ configs' = [configs EXCEPT ![a] = Updated(@, upd)]
  /\ UNCHANGED <<denomWhitelist, baseWhitelist, codeWhitelist, service, funded,
                 snapshot, unpauser>>

(***************************************************************************)
(* Pause for an account by `sender`.  Unpaused: the account, or else its   *)
(* trustee, becomes the pauser.  Paused by the trustee: the account may    *)
(* take the pause over.  Anything else is rejected.                        *)
(***************************************************************************)
Pauser(c, a, sender) ==
  CASE c.paused # NoAddr /\ c.trustee # NoAddr /\ c.paused = c.trustee /\ sender = a -> a
    [] c.paused = NoAddr /\ sender = a                                  -> a
    [] c.paused = NoAddr /\ c.trustee # NoAddr /\ sender = c.trustee    -> c.trustee
    [] OTHER                                                            -> NoAddr

PauseService(a, sender) ==
  /\ Routed
  /\ configs[a] # NoConfig
  /\ Pauser(configs[a], a, sender) # NoAddr
  /\ configs' = [configs EXCEPT ![a].paused = Pauser(configs[a], a, sender)]
  /\ unpauser' = [unpauser EXCEPT ![a] = NoAddr]
  /\ UNCHANGED <<denomWhitelist, baseWhitelist, codeWhitelist, service, funded, snapshot>>

(***************************************************************************)
(* Resume: the base denom is looked up in the whitelist (expect: a panic   *)
(* if it was removed), the minimum value must be met, and then the account *)
(* may resume any pause, the trustee only its own.                         *)
(***************************************************************************)
\* Mutant: the trustee may lift any pause.
MayResumeAnyTrustee(c, a, sender) ==
  \/ sender = a
  \/ c.trustee # NoAddr /\ sender = c.trustee

MayResume(c, a, sender) ==
  \/ sender = a
  \/ c.trustee # NoAddr /\ sender = c.trustee /\ c.paused = c.trustee

ResumeService(a, sender) ==
  /\ Routed
  /\ configs[a] # NoConfig
  /\ configs[a].base \in baseWhitelist
  /\ funded[a]
  /\ configs[a].paused # NoAddr
  /\ MayResume(configs[a], a, sender)
  /\ configs' = [configs EXCEPT ![a].paused = NoAddr]
  /\ unpauser' = [unpauser EXCEPT ![a] = sender]
  /\ UNCHANGED <<denomWhitelist, baseWhitelist, codeWhitelist, service, funded, snapshot>>

(***************************************************************************)
(* Rebalancer admin: UpdateDenomWhitelist and UpdateBaseDenomWhitelist     *)
(* remove first (every denom removed must be present), then add.  Configs  *)
(* that hold a removed denom are left as they are.                         *)
(***************************************************************************)
UpdateDenomWhitelist(toAdd, toRemove) ==
  /\ toRemove \subseteq denomWhitelist
  /\ denomWhitelist' = (denomWhitelist \ toRemove) \cup toAdd
  /\ UNCHANGED <<configs, baseWhitelist, codeWhitelist, service, funded, snapshot, unpauser>>

UpdateBaseDenomWhitelist(toAdd, toRemove) ==
  /\ toRemove \subseteq baseWhitelist
  /\ baseWhitelist' = (baseWhitelist \ toRemove) \cup toAdd
  /\ UNCHANGED <<configs, denomWhitelist, codeWhitelist, service, funded, snapshot, unpauser>>

(***************************************************************************)
(* Services manager admin.  One service name ("rebalancer") is modelled;   *)
(* AddService needs the name free, UpdateService needs it taken and a new  *)
(* address, RemoveService needs it taken.  UpdateCodeIdWhitelist adds      *)
(* first, then removes (every id removed must then be present).            *)
(***************************************************************************)
AddService(addr) ==
  /\ service = NoAddr
  /\ service' = addr
  /\ UNCHANGED <<configs, denomWhitelist, baseWhitelist, codeWhitelist, funded, snapshot, unpauser>>

ManagerUpdateService(addr) ==
  /\ service # NoAddr
  /\ addr # service
  /\ service' = addr
  /\ UNCHANGED <<configs, denomWhitelist, baseWhitelist, codeWhitelist, funded, snapshot, unpauser>>

RemoveService ==
  /\ service # NoAddr
  /\ service' = NoAddr
  /\ UNCHANGED <<configs, denomWhitelist, baseWhitelist, codeWhitelist, funded, snapshot, unpauser>>

UpdateCodeIdWhitelist(toAdd, toRemove) ==
  /\ toRemove \subseteq codeWhitelist \cup toAdd
  /\ codeWhitelist' = (codeWhitelist \cup toAdd) \ toRemove
  /\ UNCHANGED <<configs, denomWhitelist, baseWhitelist, service, funded, snapshot, unpauser>>

(***************************************************************************)
(* get_prices: a price for every (base, denom) pair of the whitelists with *)
(* base # denom, fetched when a pass begins and frozen in the Processing   *)
(* status until the pass ends (Finished, a stale restart, an admin reset). *)
(***************************************************************************)
GetPrices(bases, denoms) == {p \in bases \X denoms : p[1] # p[2]}

BeginPass ==
  /\ snapshot = NoSnapshot
  /\ snapshot' = GetPrices(baseWhitelist, denomWhitelist)
  /\ UNCHANGED <<configs, denomWhitelist, baseWhitelist, codeWhitelist, service, funded, unpauser>>

EndPass ==
  /\ snapshot # NoSnapshot
  /\ snapshot' = NoSnapshot
  /\ UNCHANGED <<configs, denomWhitelist, baseWhitelist, codeWhitelist, service, funded, unpauser>>

(***************************************************************************)
(* get_inputs: a target that is not the base denom takes the price of the  *)
(* first pair of the table whose second denom is the target (then unwrap). *)
(* The table's order is the HashSets' iteration order, so any of these     *)
(* pairs may be the one found.                                             *)
(***************************************************************************)
LookupPairs(snap, d) == {p \in snap : p[2] = d}

\* Environment: transfers and price moves decide the minimum-value checks.
SetFunded(a) ==
  /\ funded' = [funded EXCEPT ![a] = ~@]
  /\ UNCHANGED <<configs, denomWhitelist, baseWhitelist, codeWhitelist, service, snapshot, unpauser>>

\* Instantiate of both contracts: any whitelists, no service, no config.
(* The services manager's instantiate: the code ids from the message, no *)
(* service registered yet.                                              *)
ManagerInit ==
  /\ codeWhitelist \in SUBSET CodeIds
  /\ service = NoAddr

Init ==
  /\ configs = [a \in Accounts |-> NoConfig]
  /\ denomWhitelist \in SUBSET Denoms
  /\ baseWhitelist \in SUBSET BaseDenoms
  /\ ManagerInit
  /\ funded \in [Accounts -> BOOLEAN]
  /\ snapshot = NoSnapshot
  /\ unpauser = [a \in Accounts |-> NoAddr]

RegisterData == [trustee : Addrs \cup {NoAddr}, base : BaseDenoms, targets : TargetSets]

UpdateData == [targets : TargetSets \cup {NoTargets}, trustee : Addrs \cup {Keep, Clear},
               base : BaseDenoms \cup {Keep}]

\* The to_add and to_remove lists of the admin messages: one entry at most.
AtMostOne(S) == {{}} \cup {{x} : x \in S}

Next ==
  \/ \E a \in Accounts :
       \/ \E data \in RegisterData : RegisterToService(a, data)
       \/ DeregisterFromService(a)
       \/ \E upd \in UpdateData : UpdateService(a, upd)
       \/ \E s \in Addrs : PauseService(a, s) \/ ResumeService(a, s)
       \/ SetFunded(a)
  \/ \E add, rem \in AtMostOne(Denoms) : UpdateDenomWhitelist(add, rem)
  \/ \E add, rem \in AtMostOne(BaseDenoms) : UpdateBaseDenomWhitelist(add, rem)
  \/ \E addr \in ServiceAddrs : AddService(addr) \/ ManagerUpdateService(addr)
  \/ RemoveService
  \/ \E add, rem \in AtMostOne(CodeIds) : UpdateCodeIdWhitelist(add, rem)
  \/ BeginPass
  \/ EndPass

Spec == Init /\ [][Next]_vars

-----------------------------------------------------------------------------
(***************************************************************************)
(* Pause authority (Pause/Resume handlers): the registry implements the    *)
(* pause protocol of RebalancerPause.  The holder of a pause is the        *)
(* account if is_paused is the account itself, the trustee for any other  *)
(* address (also a former trustee); the last Resume's sender is read the  *)
(* same way.  Breaks if the trustee could lift or take over the account's *)
(* own pause, or pause a paused account, whatever Update does to the       *)
(* trustee in between.                                                     *)
(***************************************************************************)
Role(x, a) == IF x = NoAddr THEN "none" ELSE IF x = a THEN "account" ELSE "trustee"

Pause == INSTANCE RebalancerPause WITH
  pausedBy <- [a \in Accounts |-> IF configs[a] = NoConfig THEN "none"
                                   ELSE Role(configs[a].paused, a)],
  resumedBy <- [a \in Accounts |-> Role(unpauser[a], a)]

PauseProtocol == Pause!Spec

(***************************************************************************)
(* Percentage conservation (spec 7.1) across Register and Update: every    *)
(* stored config's targets sum to 10000 bps, hold one min_balance target   *)
(* at most, and has_min_balance says whether they hold one.                *)
(***************************************************************************)
PercentageConservation ==
  \A a \in Accounts : configs[a] # NoConfig =>
    /\ TotalBps(configs[a].targets) = 10000
    /\ Cardinality(MinTargets(configs[a].targets)) <= 1
    /\ configs[a].has_min = (MinTargets(configs[a].targets) # {})

(***************************************************************************)
(* Price coverage (spec 4.3: "absence is a fatal internal-consistency      *)
(* error since whitelisting guarantees coverage"; get_inputs: "we are 100% *)
(* sure we have all prices"): while a pass is in progress, every target of *)
(* an unpaused account other than its base denom is found in the frozen    *)
(* table, and only under the account's own base denom.                     *)
(***************************************************************************)
PricesCoverTargets ==
  snapshot # NoSnapshot =>
    \A a \in Accounts :
      configs[a] # NoConfig /\ configs[a].paused = NoAddr =>
        \A d \in DOMAIN configs[a].targets \ {configs[a].base} :
          /\ LookupPairs(snapshot, d) # {}
          /\ \A p \in LookupPairs(snapshot, d) : p[1] = configs[a].base
====
