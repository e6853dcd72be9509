---------------------------- MODULE FallbackRouter ----------------------------
(***************************************************************************)
(* services/fallback_router.py, route_chat and route_stream_chat: one      *)
(* request walks an ordered list of models, and for each model the keys of *)
(* its platform, until a provider answers.  Several requests interleave;   *)
(* they share the cooldowns (module RateLimit) and the rows of the keys    *)
(* (module ProviderHealth).                                                *)
(*                                                                         *)
(* The server is one asyncio event loop, so a request runs without         *)
(* interruption from the moment a provider call ends to the moment the     *)
(* next one starts.  One action is therefore one such stretch: the         *)
(* bookkeeping for the call that ended, then the scan for the next call.   *)
(* A request that waits for a provider is in phase "calling"; meanwhile    *)
(* other requests run, the clock advances, and users edit keys.            *)
(***************************************************************************)
EXTENDS ProviderHealth, Sequences, FiniteSets

CONSTANTS
    Requests, Models, Keys, Platforms,
    ModelPlatform,      \* [Models -> Platforms]
    KeyPlatform,        \* [Keys -> Platforms]
    Scope,              \* [Requests -> SUBSET Keys]: the owner's and the shared keys
    Registered,         \* platforms that provider_registry knows
    Orders,             \* the lists that _get_ordered_models can return
    MaxRetries,         \* fallback.max_retries
    OverallBudget,      \* OVERALL_BUDGET_S
    PlatformLimit,      \* _PLATFORM_429_LIMIT
    Errors,             \* the kinds of error that the providers return
    Saves,              \* can a health update reach the database?  TRUE, FALSE or both
    Modes,              \* the entry points in use: "chat", "stream"
    MaxTime,            \* bound on the clock
    MaxEdits            \* bound on the users' edits of keys

ASSUME RouterAssumption ==
    /\ Keys # {}
    /\ ModelPlatform \in [Models -> Platforms]
    /\ KeyPlatform \in [Keys -> Platforms]
    /\ Scope \in [Requests -> SUBSET Keys]
    /\ Orders \subseteq Seq(Models)
    /\ MaxRetries \in Nat
    /\ OverallBudget \in Nat
    /\ PlatformLimit \in Nat \ {0}
    /\ Errors \subseteq ErrorKinds
    /\ Saves \subseteq BOOLEAN
    /\ Modes \subseteq {"chat", "stream"}
    /\ MaxTime \in Nat
    /\ MaxEdits \in Nat

VARIABLES
    now,        \* the wall clock
    cooldown,   \* _cooldowns: the expiry of each pair
    failures,   \* _failure_counts
    keys,       \* the rows of the api_keys table
    req,        \* the local state of each request
    edits       \* how many times users have edited keys

vars == <<now, cooldown, failures, keys, req, edits>>

Pairs == Models \X Keys

(***************************************************************************)
(* The locals of one request.  slot is <<attempt, index>>, the place of    *)
(* the two outer loops; left holds the keys of the current model that the  *)
(* innermost loop has not reached.                                         *)
(***************************************************************************)
Locals ==
    [phase : {"idle", "calling", "served", "failed", "gone"},
     mode : {"chat", "stream"},
     models : Seq(Models),
     slot : Nat \X Nat,
     key : Keys,
     left : SUBSET Keys,
     deadline : Nat,
     skipKeys : SUBSET Pairs,
     skipModels : SUBSET Models,
     skipPlatforms : SUBSET Platforms,
     hits : [Platforms -> Nat]]

(* Every variable has a value of its type.                                 *)
TypeOK ==
    /\ now \in Nat
    /\ cooldown \in [Pairs -> Nat]
    /\ failures \in [Pairs -> Nat]
    /\ keys \in [Keys -> KeyRows]
    /\ req \in [Requests -> Locals]
    /\ edits \in Nat

Idle ==
    [phase |-> "idle", mode |-> "chat", models |-> <<>>, slot |-> <<0, 0>>,
     key |-> CHOOSE k \in Keys : TRUE, left |-> {}, deadline |-> 0, skipKeys |-> {}, skipModels |-> {},
     skipPlatforms |-> {}, hits |-> [p \in Platforms |-> 0]]

(* A key that a user adds later is one that starts switched off.           *)
Init ==
    /\ now = 1
    /\ cooldown = [p \in Pairs |-> 0]
    /\ failures = [p \in Pairs |-> 0]
    /\ \E on \in [Keys -> BOOLEAN] :
          keys = [k \in Keys |-> [present |-> TRUE, enabled |-> on[k],
                                  status |-> "unknown", checked |-> 0]]
    /\ req = [r \in Requests |-> Idle]
    /\ edits = 0

-----------------------------------------------------------------------------
(***************************************************************************)
(* The scan for the next call.  q is the request's locals after its        *)
(* bookkeeping, cd the cooldowns and tbl the key rows at that moment.      *)
(***************************************************************************)

Current(q) == q.models[q.slot[2]]

(* The keys of S that the innermost loop would call for model m.           *)
Ready(q, m, S, cd) ==
    {k \in S : <<m, k>> \notin q.skipKeys /\ ~OnCooldown(cd[<<m, k>>], now)}

(* The query for the keys of a platform, restricted to the account.        *)
KeysFor(r, platform, tbl) ==
    {k \in Scope[r] : KeyPlatform[k] = platform /\ Usable(tbl[k], now)}

Open(q, m) ==
    /\ m \notin q.skipModels
    /\ ModelPlatform[m] \notin q.skipPlatforms
    /\ ModelPlatform[m] \in Registered

Before(s, t) == s[1] < t[1] \/ (s[1] = t[1] /\ s[2] < t[2])

(* Faulty variant: the last pass is lost.                                  *)
PlacesOnePassShort(q) == (0 .. MaxRetries - 2) \X (1 .. Len(q.models))

(* <<attempt, index>>, the values of the two outer loops.                  *)
Places(q) == (0 .. MaxRetries - 1) \X (1 .. Len(q.models))

(* The places, still ahead, where a call is possible.                      *)
Chances(r, q, cd, tbl) ==
    {s \in Places(q) :
        /\ Before(q.slot, s)
        /\ Open(q, q.models[s[2]])
        /\ LET m == q.models[s[2]]
           IN  Ready(q, m, KeysFor(r, ModelPlatform[m], tbl), cd) # {}}

(***************************************************************************)
(* The call of key k for the model at slot s, out of the keys S.  The      *)
(* query has no ORDER BY, so the loop may meet any ready key first, and    *)
(* may or may not have passed the keys that are cooling down.              *)
(***************************************************************************)
CallOneOf(r, q, s, S, cd) ==
    LET m == q.models[s[2]]
        ready == Ready(q, m, S, cd)
        cooling == {k \in S : OnCooldown(cd[<<m, k>>], now)}
    IN  \E k \in ready, passed \in SUBSET cooling :
            req' = [req EXCEPT ![r] =
                      [q EXCEPT !.phase = "calling", !.slot = s, !.key = k,
                                !.left = ((ready \cup cooling) \ passed) \ {k}]]

(* The next key of the same model: no look at the deadline here.           *)
NextKey(r, q, cd) ==
    /\ Ready(q, Current(q), q.left, cd) # {}
    /\ CallOneOf(r, q, q.slot, q.left, cd)

(* Faulty variant: the wall clock is not looked at.                        *)
NoBudget(q) == TRUE

InBudget(q) == now <= q.deadline

(* The next model that has a ready key, in this pass or a later one.       *)
NextModel(r, q, cd, tbl) ==
    /\ Ready(q, Current(q), q.left, cd) = {}
    /\ InBudget(q)
    /\ \E s \in Chances(r, q, cd, tbl) :
          /\ \A t \in Chances(r, q, cd, tbl) : ~Before(t, s)
          /\ CallOneOf(r, q, s, KeysFor(r, ModelPlatform[q.models[s[2]]], tbl), cd)

(* "All models exhausted": the passes are over or the budget is spent.     *)
GiveUp(r, q, cd, tbl) ==
    /\ Ready(q, Current(q), q.left, cd) = {}
    /\ ~InBudget(q) \/ Chances(r, q, cd, tbl) = {}
    /\ req' = [req EXCEPT ![r] = [q EXCEPT !.phase = "failed", !.left = {}]]

Resume(r, q, cd, tbl) ==
    \/ NextKey(r, q, cd)
    \/ NextModel(r, q, cd, tbl)
    \/ GiveUp(r, q, cd, tbl)

-----------------------------------------------------------------------------
(***************************************************************************)
(* The start of a request.  _get_ordered_models only lists models of the   *)
(* platforms with a usable key; which of them, and in what order, depends  *)
(* on the mode and on the messages.  Then the first scan runs.             *)
(***************************************************************************)
ActivePlatforms(r) == {KeyPlatform[k] : k \in {j \in Scope[r] : Usable(keys[j], now)}}

OrderedModels(r) ==
    {order \in Orders : \A i \in 1 .. Len(order) :
                           ModelPlatform[order[i]] \in ActivePlatforms(r)}

Start(r) ==
    /\ req[r].phase = "idle"
    /\ \E models \in OrderedModels(r), mode \in Modes :
          Resume(r, [req[r] EXCEPT !.mode = mode, !.models = models,
                                   !.deadline = now + OverallBudget],
                 cooldown, keys)
    /\ UNCHANGED <<now, cooldown, failures, keys, edits>>

Pair(r) == <<Current(req[r]), req[r].key>>

PlatformOf(r) == ModelPlatform[Current(req[r])]

(* The coroutine ends and its locals go with it.                           *)
Leave(r, phase) == req' = [req EXCEPT ![r] = [Idle EXCEPT !.phase = phase]]

(* The provider answered (for a stream: its first non-empty chunk came).   *)
Succeed(r) ==
    /\ req[r].phase = "calling"
    /\ failures' = [failures EXCEPT ![Pair(r)] = AfterSuccess(@)]
    /\ \E saved \in Saves :
          keys' = [keys EXCEPT ![req[r].key] = RecordSuccess(@, saved, now)]
    /\ Leave(r, "served")
    /\ UNCHANGED <<now, cooldown, edits>>

(* Faulty variant: the keys are read again and the pair is not remembered. *)
TriedStartsOver(r) == [req[r] EXCEPT !.left = KeysFor(r, PlatformOf(r), keys)]

(* The locals after any failure of the current pair.                       *)
Tried(r) == [req[r] EXCEPT !.skipKeys = @ \cup {Pair(r)}]

(* Faulty variants: the break is missing; the model is not skipped.        *)
ModelDroppedNoBreak(r) ==
    [Tried(r) EXCEPT !.skipModels = @ \cup {Current(req[r])}]

ModelKept(r) == [Tried(r) EXCEPT !.left = {}]

(* ... and after a failure that ends the loop over the model's keys.       *)
ModelDropped(r) ==
    [Tried(r) EXCEPT !.skipModels = @ \cup {Current(req[r])}, !.left = {}]

Remember(r, e, saved) ==
    keys' = [keys EXCEPT ![req[r].key] = RecordFailure(@, e, saved, now)]

CoolDown(r) ==
    LET n == failures[Pair(r)] + 1
    IN  /\ failures' = [failures EXCEPT ![Pair(r)] = n]
        /\ cooldown' = [cooldown EXCEPT ![Pair(r)] = now + CooldownFor(n)]

(* The error condemns the key: the whole platform is skipped.              *)
KeyRefused(r, e, saved) ==
    /\ req[r].phase = "calling"
    /\ Verdict(keys[req[r].key], e, saved) = "error"
    /\ Remember(r, e, saved)
    /\ Resume(r, [ModelDropped(r) EXCEPT !.skipPlatforms = @ \cup {PlatformOf(r)}],
              cooldown, keys')
    /\ UNCHANGED <<now, cooldown, failures, edits>>

(* Platforms of the request's models other than p that are not skipped.    *)
OtherPlatforms(q, p) ==
    {ModelPlatform[q.models[i]] : i \in 1 .. Len(q.models)} \ (q.skipPlatforms \cup {p})

(* A quota or rate-limit error; enough of them bench the platform for this *)
(* request, unless it is the only one.                                     *)
Throttled(r, e, saved) ==
    /\ req[r].phase = "calling"
    /\ Verdict(keys[req[r].key], e, saved) # "error"
    /\ IsRetryable(e) /\ SpeaksOfQuota(e)
    /\ Remember(r, e, saved)
    /\ CoolDown(r)
    /\ LET p == PlatformOf(r)
           abandon == /\ req[r].hits[p] + 1 >= PlatformLimit
                      /\ OtherPlatforms(req[r], p) # {}
       IN  Resume(r, [ModelDropped(r) EXCEPT
                        !.hits[p] = @ + 1,
                        !.skipPlatforms = IF abandon THEN @ \cup {p} ELSE @],
                  cooldown', keys')
    /\ UNCHANGED <<now, edits>>

(* The provider does not know the model.                                   *)
ModelMissing(r, e, saved) ==
    /\ req[r].phase = "calling"
    /\ Verdict(keys[req[r].key], e, saved) # "error"
    /\ e = "missing"
    /\ Remember(r, e, saved)
    /\ CoolDown(r)
    /\ Resume(r, ModelDropped(r), cooldown', keys')
    /\ UNCHANGED <<now, edits>>

(* Any other retryable error: cool the pair down, try the next key.        *)
Flaky(r, e, saved) ==
    /\ req[r].phase = "calling"
    /\ Verdict(keys[req[r].key], e, saved) # "error"
    /\ IsRetryable(e) /\ ~SpeaksOfQuota(e) /\ e # "missing"
    /\ Remember(r, e, saved)
    /\ CoolDown(r)
    /\ Resume(r, Tried(r), cooldown', keys')
    /\ UNCHANGED <<now, edits>>

(* An error that is not retryable: drop the model, no cooldown.            *)
NotRetryable(r, e, saved) ==
    /\ req[r].phase = "calling"
    /\ Verdict(keys[req[r].key], e, saved) # "error"
    /\ ~IsRetryable(e)
    /\ Remember(r, e, saved)
    /\ Resume(r, ModelDropped(r), cooldown, keys')
    /\ UNCHANGED <<now, cooldown, failures, edits>>

Fail(r) ==
    \E e \in Errors, saved \in Saves :
        \/ KeyRefused(r, e, saved)
        \/ Throttled(r, e, saved)
        \/ ModelMissing(r, e, saved)
        \/ Flaky(r, e, saved)
        \/ NotRetryable(r, e, saved)

(* Faulty variant: the pair that answered nothing is not remembered.       *)
StreamEmptyForgets(r) ==
    /\ req[r].phase = "calling"
    /\ req[r].mode = "stream"
    /\ Resume(r, req[r], cooldown, keys)
    /\ UNCHANGED <<now, cooldown, failures, keys, edits>>

(* route_stream_chat only: the stream ended without a non-empty chunk.     *)
StreamEmpty(r) ==
    /\ req[r].phase = "calling"
    /\ req[r].mode = "stream"
    /\ Resume(r, Tried(r), cooldown, keys)
    /\ UNCHANGED <<now, cooldown, failures, keys, edits>>

(* The caller went away or timed out: CancelledError is not an Exception,  *)
(* so no bookkeeping runs.                                                 *)
Cancel(r) ==
    /\ req[r].phase = "calling"
    /\ Leave(r, "gone")
    /\ UNCHANGED <<now, cooldown, failures, keys, edits>>

-----------------------------------------------------------------------------
Tick ==
    /\ now < MaxTime
    /\ now' = now + 1
    /\ UNCHANGED <<cooldown, failures, keys, req, edits>>

(* routes/keys.py: the switch of a key, its deletion, and the end of its   *)
(* Test call.                                                              *)
EditKey(k, row) ==
    /\ edits < MaxEdits
    /\ edits' = edits + 1
    /\ keys' = [keys EXCEPT ![k] = row]
    /\ UNCHANGED <<now, cooldown, failures, req>>

ToggleKey(k) ==
    /\ keys[k].present
    /\ EditKey(k, [keys[k] EXCEPT !.enabled = ~@])

DeleteKey(k) ==
    /\ keys[k].present
    /\ EditKey(k, [keys[k] EXCEPT !.present = FALSE])

TestKey(k) ==
    /\ keys[k].present
    /\ \/ EditKey(k, RecordSuccess(keys[k], TRUE, now))
       \/ \E e \in Errors : EditKey(k, RecordFailure(keys[k], e, TRUE, now))

(* A request needs nobody's permission to end once its provider returns.   *)
Return(r) == Succeed(r) \/ Fail(r) \/ StreamEmpty(r)

Next ==
    \/ \E r \in Requests : Start(r) \/ Return(r) \/ Cancel(r)
    \/ \E k \in Keys : ToggleKey(k) \/ DeleteKey(k) \/ TestKey(k)
    \/ Tick

Spec == Init /\ [][Next]_vars

(* Provider calls end: httpx gives every one of them a timeout.            *)
FairSpec == Spec /\ \A r \in Requests : WF_vars(Return(r))

-----------------------------------------------------------------------------
(***************************************************************************)
(* Properties.                                                             *)
(***************************************************************************)

(* A provider call in progress is one that nothing the request has learnt  *)
(* forbids: its pair has not failed before, its model and its platform     *)
(* have not been dropped, and the key is one the account may use.  The     *)
(* break after a failure is what keeps the rest of a key list from being   *)
(* called for a model or a platform that was just given up.                *)
SkipsRespected ==
    \A r \in Requests :
        req[r].phase = "calling" =>
            /\ Pair(r) \notin req[r].skipKeys
            /\ Open(req[r], Current(req[r]))
            /\ req[r].key \in Scope[r]
            /\ KeyPlatform[req[r].key] = PlatformOf(r)

(* Models and platforms are only given up for a cause: a dropped model was *)
(* called, a dropped platform has a dropped model, and the count of 429s   *)
(* of a platform never exceeds its dropped models, so a platform with      *)
(* fewer than PlatformLimit models is never abandoned by that count.       *)
SkipsHaveCause ==
    \A r \in Requests :
        /\ \A m \in req[r].skipModels : \E k \in Keys : <<m, k>> \in req[r].skipKeys
        /\ \A p \in req[r].skipPlatforms :
              \E m \in req[r].skipModels : ModelPlatform[m] = p
        /\ \A p \in Platforms :
              req[r].hits[p] <= Cardinality({m \in req[r].skipModels : ModelPlatform[m] = p})

(* r starts a provider call in this step.                                  *)
StartsCall(r) == req'[r].phase = "calling" /\ req'[r] # req[r]

(* No request calls the same model with the same key twice, whatever       *)
(* max_retries is: a call that ends without serving joins skip_keys, which *)
(* only grows, and a new call is never in it.                              *)
NeverCalledTwice ==
    [][\A r \in Requests :
         /\ req'[r].phase = "calling" => req[r].skipKeys \subseteq req'[r].skipKeys
         /\ StartsCall(r) =>
              /\ req[r].phase = "calling" => Pair(r) \in req'[r].skipKeys
              /\ Pair(r)' \notin req'[r].skipKeys]_vars

(* Once the wall-clock budget is spent, the only calls a request can still *)
(* start are with further keys of the model it was calling.                *)
LateCallsStayOnModel ==
    [][\A r \in Requests :
         StartsCall(r) /\ now > req'[r].deadline =>
             req[r].phase = "calling" /\ req'[r].slot = req[r].slot]_vars

(* A key that is benched for a fatal error is only called by a request     *)
(* that read its list of keys before: a fresh query never returns it.      *)
BenchedKeyOnlyFromOldList ==
    [][\A r \in Requests :
         StartsCall(r) /\ Benched(keys'[req'[r].key], now) =>
             req'[r].slot = req[r].slot /\ req'[r].key \in req[r].left]_vars

(* A request that gives up within its budget, before its last pass, leaves *)
(* nothing untried: every pair of its list that is usable at that moment   *)
(* has failed in this request, cools down, or belongs to a model or a      *)
(* platform that the request dropped.                                      *)
GivesUpWithReason ==
    [][\A r \in Requests :
         LET q == req'[r]
         IN  /\ q.phase = "failed" /\ req[r].phase # "failed"
             /\ now <= q.deadline /\ q.slot[1] < MaxRetries - 1
             => \A i \in 1 .. Len(q.models), k \in Scope[r] :
                  LET m == q.models[i]
                  IN  /\ Open(q, m)
                      /\ KeyPlatform[k] = ModelPlatform[m]
                      /\ Usable(keys'[k], now)
                      => <<m, k>> \in q.skipKeys \/ OnCooldown(cooldown'[<<m, k>>], now)]_vars

(* Every request that waits for a provider ends, served or not.            *)
EveryRequestEnds ==
    \A r \in Requests : (req[r].phase = "calling") ~> (req[r].phase # "calling"
        /\ req[r].phase # "idle")

=============================================================================
