------------------------------ MODULE RateLimit ------------------------------
(***************************************************************************)
(* services/rate_limit.py: per (model, key) cooldowns that escalate with   *)
(* the number of failures, and the reading of an error message that        *)
(* decides whether a failure earns one.                                    *)
(*                                                                         *)
(* A pair <<m, k>> stands for the string "platform:model_id:key_id" that   *)
(* indexes the three dictionaries of the module.  An expiry of 0, or any   *)
(* expiry in the past, stands for a pair that has no entry: the code       *)
(* deletes an expired entry when it next looks at it.  The penalty scores  *)
(* are left out: nothing in the program reads them.                        *)
(***************************************************************************)
EXTENDS Naturals

CONSTANTS
    TransientCooldown,  \* TRANSIENT_COOLDOWN_S, 90 s in the code
    EscalatedCooldown,  \* ESCALATED_COOLDOWN_S, 600 s
    MaxCooldown         \* MAX_COOLDOWN_S, one day

ASSUME CooldownAssumption ==
    /\ TransientCooldown \in Nat
    /\ EscalatedCooldown \in Nat
    /\ MaxCooldown \in Nat

(***************************************************************************)
(* What the routers tell apart in the text of a provider error.            *)
(*   "auth"       401/403: the key is refused                              *)
(*   "credit"     402: the key is out of credit                            *)
(*   "throttled"  429, rate limit, quota                                   *)
(*   "exhausted"  RESOURCE_EXHAUSTED: a quota word that the list of        *)
(*                retryable patterns does not hold                         *)
(*   "missing"    404, model not found                                     *)
(*   "transient"  timeouts, 5xx, connection errors, an empty answer        *)
(*   "rejected"   anything else, such as a malformed request               *)
(***************************************************************************)
ErrorKinds == {"auth", "credit", "throttled", "exhausted", "missing",
               "transient", "rejected"}

IsRetryable(e) == e \in {"credit", "throttled", "missing", "transient"}

SpeaksOfQuota(e) == e \in {"throttled", "exhausted"}

OnCooldown(expiry, now) == now <= expiry

(* The cooldown earned by the n-th failure that successes have not paid    *)
(* back.                                                                   *)
CooldownFor(n) == IF n <= 1 THEN TransientCooldown
                  ELSE IF n <= 3 THEN EscalatedCooldown
                  ELSE MaxCooldown

(* Faulty variant: the count falls below zero.                             *)
AfterSuccessNoFloor(count) == count - 1

(* A success takes one failure back; the cooldown itself stays.            *)
AfterSuccess(count) == IF count <= 1 THEN 0 ELSE count - 1

=============================================================================
