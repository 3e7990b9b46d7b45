--------------------------- MODULE RebalancerPause ---------------------------
(***************************************************************************)
(* The pause protocol the rebalancer promises an account and its trustee,  *)
(* without addresses, routing or whitelists.  Per account, who holds the   *)
(* pause ("none", "account" or "trustee") and who lifted the last one.     *)
(*   - The account may pause at any time, also taking over the trustee's   *)
(*     pause; the trustee may pause only an unpaused account.              *)
(*   - The account may lift any pause; the trustee only its own.           *)
(*   - An account that leaves (deregisters) drops its pause.               *)
(***************************************************************************)
CONSTANT Accounts

VARIABLES
  pausedBy,   \* [Accounts -> Roles]: who holds the pause
  resumedBy   \* [Accounts -> Roles]: who lifted the last pause, "none" once paused again

vars == <<pausedBy, resumedBy>>

Roles == {"none", "account", "trustee"}

Init ==
  /\ pausedBy = [a \in Accounts |-> "none"]
  /\ resumedBy = [a \in Accounts |-> "none"]

AccountPauses(a) ==
  /\ pausedBy' = [pausedBy EXCEPT ![a] = "account"]
  /\ resumedBy' = [resumedBy EXCEPT ![a] = "none"]

TrusteePauses(a) ==
  /\ pausedBy[a] = "none"
  /\ pausedBy' = [pausedBy EXCEPT ![a] = "trustee"]
  /\ resumedBy' = [resumedBy EXCEPT ![a] = "none"]

AccountResumes(a) ==
  /\ pausedBy[a] # "none"
  /\ pausedBy' = [pausedBy EXCEPT ![a] = "none"]
  /\ resumedBy' = [resumedBy EXCEPT ![a] = "account"]

TrusteeResumes(a) ==
  /\ pausedBy[a] = "trustee"
  /\ pausedBy' = [pausedBy EXCEPT ![a] = "none"]
  /\ resumedBy' = [resumedBy EXCEPT ![a] = "trustee"]

Leaves(a) ==
  /\ pausedBy' = [pausedBy EXCEPT ![a] = "none"]
  /\ UNCHANGED resumedBy

Next ==
  \E a \in Accounts :
    \/ AccountPauses(a) \/ TrusteePauses(a)
    \/ AccountResumes(a) \/ TrusteeResumes(a)
    \/ Leaves(a)

Spec == Init /\ [][Next]_vars

=============================================================================
