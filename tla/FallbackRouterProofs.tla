------------------------- MODULE FallbackRouterProofs -------------------------
(***************************************************************************)
(* Proofs about FallbackRouter, for every set of requests, models, keys    *)
(* and platforms and every value of the limits.                            *)
(***************************************************************************)
EXTENDS FallbackRouter, FiniteSetTheorems, TLAPS

-----------------------------------------------------------------------------
(***************************************************************************)
(* The strengthening of SkipsRespected: the keys that the innermost loop   *)
(* has still to reach also belong to the account and to the platform of    *)
(* the current model, and the current slot is inside the list.             *)
(***************************************************************************)
ListOK(r, q) ==
    /\ q.slot[2] \in 1 .. Len(q.models)
    /\ q.left \subseteq {k \in Scope[r] : KeyPlatform[k] = ModelPlatform[Current(q)]}

CallOK(r, q) ==
    /\ ListOK(r, q)
    /\ <<Current(q), q.key>> \notin q.skipKeys
    /\ Open(q, Current(q))
    /\ q.key \in Scope[r]
    /\ KeyPlatform[q.key] = ModelPlatform[Current(q)]

RouterInv == \A r \in Requests : req[r].phase = "calling" => CallOK(r, req[r])

(* A request that has not started holds no list of keys.                   *)
StartClean == \A r \in Requests : req[r].phase = "idle" => req[r].left = {}

(* What a scan may be started from: either nothing is left of a key list,  *)
(* or the rest of it belongs to a model that is still open.                *)
Resumable(r, q) == q.left = {} \/ (ListOK(r, q) /\ Open(q, Current(q)))

(* A call is either one with a further key of the list in hand, or, within *)
(* the budget, one with a key that a fresh query returns.                  *)
KeyInHand(q, q2) == q2.slot = q.slot /\ q2.key \in q.left

KeyJustRead(q, q2, tbl) == now <= q.deadline /\ Usable(tbl[q2.key], now)

(* What a scan does to the locals: it moves on to a call that respects the *)
(* skips, or gives up; it forgets nothing of what the request has learnt.  *)
Moved(r, q, q2, cd, tbl) ==
    /\ q2 \in Locals
    /\ q2.skipKeys = q.skipKeys
    /\ q2.skipModels = q.skipModels
    /\ q2.skipPlatforms = q.skipPlatforms
    /\ q2.hits = q.hits
    /\ q2.models = q.models
    /\ q2.deadline = q.deadline
    /\ \/ /\ q2.phase = "calling"
          /\ CallOK(r, q2)
          /\ KeyInHand(q, q2) \/ KeyJustRead(q, q2, tbl)
       \/ /\ q2.phase = "failed"
          /\ q2.slot = q.slot
          /\ now > q.deadline \/ Chances(r, q, cd, tbl) = {}

(* What the locals say about the reasons for what was given up.  The set   *)
(* of dropped models must be finite for its cardinality to mean anything.  *)
Justified(q) ==
    /\ IsFiniteSet(q.skipModels)
    /\ \A m \in q.skipModels : \E k \in Keys : <<m, k>> \in q.skipKeys
    /\ \A p \in q.skipPlatforms : \E m \in q.skipModels : ModelPlatform[m] = p
    /\ \A p \in Platforms :
          q.hits[p] <= Cardinality({m \in q.skipModels : ModelPlatform[m] = p})

CauseInv == \A r \in Requests : Justified(req[r])

(* The assumptions on the constants, in the form the proofs use them.      *)
LEMMA ConstantTypes ==
    /\ ModelPlatform \in [Models -> Platforms]
    /\ KeyPlatform \in [Keys -> Platforms]
    /\ Scope \in [Requests -> SUBSET Keys]
    /\ Orders \subseteq Seq(Models)
    /\ Errors \subseteq ErrorKinds
    /\ MaxRetries \in Nat
    /\ OverallBudget \in Nat
    /\ TransientCooldown \in Nat
    /\ EscalatedCooldown \in Nat
    /\ MaxCooldown \in Nat
  BY RouterAssumption, CooldownAssumption

(* The locals of a request that calls a key of S for the model at slot s.  *)
Called(r, q, s, S, q2) ==
    /\ q2 \in Locals
    /\ q2 = [q EXCEPT !.phase = "calling", !.slot = s, !.key = q2.key, !.left = q2.left]
    /\ q2.key \in S
    /\ CallOK(r, q2)

(* The call of a key out of S leads to locals that respect the skips, if   *)
(* the model at the slot is open and S are keys of its platform.           *)
LEMMA CallOneOfMoves ==
    ASSUME NEW r \in Requests, NEW q \in Locals, NEW s \in Nat \X Nat,
           NEW S \in SUBSET Keys, NEW cd,
           s[2] \in 1 .. Len(q.models),
           S \subseteq {k \in Scope[r] : KeyPlatform[k] = ModelPlatform[q.models[s[2]]]},
           Open(q, q.models[s[2]]),
           CallOneOf(r, q, s, S, cd)
    PROVE  \E q2 : req' = [req EXCEPT ![r] = q2] /\ Called(r, q, s, S, q2)
<1>1. PICK k \in Ready(q, q.models[s[2]], S, cd),
          passed \in SUBSET {j \in S : OnCooldown(cd[<<q.models[s[2]], j>>], now)} :
        req' = [req EXCEPT ![r] =
                  [q EXCEPT !.phase = "calling", !.slot = s, !.key = k,
                            !.left = ((Ready(q, q.models[s[2]], S, cd)
                                       \cup {j \in S : OnCooldown(cd[<<q.models[s[2]], j>>], now)})
                                       \ passed) \ {k}]]
  BY DEF CallOneOf
<1> DEFINE left == ((Ready(q, q.models[s[2]], S, cd)
                     \cup {j \in S : OnCooldown(cd[<<q.models[s[2]], j>>], now)})
                     \ passed) \ {k}
           q2 == [q EXCEPT !.phase = "calling", !.slot = s, !.key = k, !.left = left]
<1>2. left \subseteq S /\ k \in S /\ <<q.models[s[2]], k>> \notin q.skipKeys
  BY DEF Ready
<1>3. q2 \in Locals
  BY <1>2 DEF Locals
<1>4. /\ q2.slot = s /\ q2.key = k /\ q2.left = left /\ q2.models = q.models
      /\ q2.skipKeys = q.skipKeys /\ q2.skipModels = q.skipModels
      /\ q2.skipPlatforms = q.skipPlatforms /\ q2.hits = q.hits
      /\ q2.phase = "calling"
  BY DEF Locals
<1> HIDE DEF q2, left
<1>5. Current(q2) = q.models[s[2]]
  BY <1>4 DEF Current
<1>6. Open(q2, Current(q2))
  BY <1>4, <1>5 DEF Open
<1>7. CallOK(r, q2)
  BY <1>2, <1>4, <1>5, <1>6 DEF CallOK, ListOK
<1>8. req' = [req EXCEPT ![r] = q2]
  BY <1>1 DEF q2, left
<1>9. q2 = [q EXCEPT !.phase = "calling", !.slot = s, !.key = q2.key, !.left = q2.left]
  BY <1>4 DEF q2
<1> QED
  BY <1>2, <1>3, <1>4, <1>7, <1>8, <1>9 DEF Called

(* Every outcome of a scan is such a move.                                 *)
LEMMA ResumeMoves ==
    ASSUME NEW r \in Requests, NEW q \in Locals, NEW cd, NEW tbl, now \in Nat,
           Resumable(r, q),
           Resume(r, q, cd, tbl)
    PROVE  \E q2 : req' = [req EXCEPT ![r] = q2] /\ Moved(r, q, q2, cd, tbl)
<1>1. CASE NextKey(r, q, cd)
  <2>1. q.left # {}
    BY <1>1 DEF NextKey, Ready
  <2>2. ListOK(r, q) /\ Open(q, Current(q))
    BY <2>1 DEF Resumable
  <2>3. q.slot \in Nat \X Nat /\ q.left \in SUBSET Keys
    BY DEF Locals
  <2>4. CallOneOf(r, q, q.slot, q.left, cd)
    BY <1>1 DEF NextKey
  <2>5. PICK q2 : req' = [req EXCEPT ![r] = q2] /\ Called(r, q, q.slot, q.left, q2)
    BY <2>2, <2>3, <2>4, CallOneOfMoves DEF ListOK, Current
  <2>6. Moved(r, q, q2, cd, tbl)
    BY <2>5 DEF Called, Moved, KeyInHand, Locals
  <2> QED
    BY <2>5, <2>6
<1>2. CASE NextModel(r, q, cd, tbl)
  <2>1. PICK s \in Chances(r, q, cd, tbl) :
          CallOneOf(r, q, s, KeysFor(r, ModelPlatform[q.models[s[2]]], tbl), cd)
    BY <1>2 DEF NextModel
  <2>2. s \in Nat \X Nat /\ s[2] \in 1 .. Len(q.models) /\ Open(q, q.models[s[2]])
    BY <2>1, ConstantTypes DEF Chances, Places
  <2> DEFINE S == KeysFor(r, ModelPlatform[q.models[s[2]]], tbl)
  <2>3. /\ S \subseteq {k \in Scope[r] : KeyPlatform[k] = ModelPlatform[q.models[s[2]]]}
        /\ \A k \in S : Usable(tbl[k], now)
    BY DEF KeysFor
  <2>4. S \in SUBSET Keys
    BY <2>3, ConstantTypes
  <2>5. CallOneOf(r, q, s, S, cd)
    BY <2>1
  <2> HIDE DEF S
  <2>6. PICK q2 : req' = [req EXCEPT ![r] = q2] /\ Called(r, q, s, S, q2)
    BY <2>2, <2>3, <2>4, <2>5, CallOneOfMoves
  <2>7. KeyJustRead(q, q2, tbl)
    BY <1>2, <2>3, <2>6 DEF Called, NextModel, InBudget, KeyJustRead
  <2>8. Moved(r, q, q2, cd, tbl)
    BY <2>6, <2>7 DEF Called, Moved, Locals
  <2> QED
    BY <2>6, <2>8
<1>3. CASE GiveUp(r, q, cd, tbl)
  <2> DEFINE q2 == [q EXCEPT !.phase = "failed", !.left = {}]
  <2>1. req' = [req EXCEPT ![r] = q2]
    BY <1>3 DEF GiveUp
  <2>2. q2 \in Locals /\ q2.slot = q.slot /\ q.deadline \in Nat
    BY DEF Locals
  <2>3. now > q.deadline \/ Chances(r, q, cd, tbl) = {}
    BY <1>3, <2>2 DEF GiveUp, InBudget
  <2>4. Moved(r, q, q2, cd, tbl)
    BY <2>2, <2>3 DEF Moved, Locals
  <2> QED
    BY <2>1, <2>4
<1> QED
  BY <1>1, <1>2, <1>3 DEF Resume

-----------------------------------------------------------------------------
(***************************************************************************)
(* What the end of a call adds to the locals, before the scan.             *)
(***************************************************************************)
Learnt(r, q) ==
    /\ q \in Locals
    /\ Resumable(r, q)
    /\ q.skipKeys = req[r].skipKeys \cup {Pair(r)}
    /\ q.slot = req[r].slot
    /\ q.left \subseteq req[r].left
    /\ Justified(req[r]) => Justified(q)

(* A model that is dropped, together with a pair of it that has failed,    *)
(* leaves every reason in place.                                           *)
LEMMA DropIsJustified ==
    ASSUME NEW q \in Locals, Justified(q), NEW m \in Models, NEW k \in Keys,
           NEW q2 \in Locals,
           m \notin q.skipModels,
           q2.skipModels = q.skipModels \cup {m},
           q2.skipKeys = q.skipKeys \cup {<<m, k>>},
           q2.skipPlatforms \subseteq q.skipPlatforms \cup {ModelPlatform[m]},
           \A p \in Platforms :
              \/ q2.hits[p] = q.hits[p]
              \/ p = ModelPlatform[m] /\ q2.hits[p] = q.hits[p] + 1
    PROVE  Justified(q2)
<1>1. IsFiniteSet(q2.skipModels)
  BY FS_AddElement DEF Justified
<1>2. \A n \in q2.skipModels : \E j \in Keys : <<n, j>> \in q2.skipKeys
  BY DEF Justified
<1>3. \A p \in q2.skipPlatforms : \E n \in q2.skipModels : ModelPlatform[n] = p
  BY DEF Justified
<1>4. ASSUME NEW p \in Platforms
      PROVE  q2.hits[p] <= Cardinality({n \in q2.skipModels : ModelPlatform[n] = p})
  <2> DEFINE old == {n \in q.skipModels : ModelPlatform[n] = p}
             new == {n \in q2.skipModels : ModelPlatform[n] = p}
  <2>1. IsFiniteSet(old) /\ Cardinality(old) \in Nat
    BY FS_Subset, FS_CardinalityType DEF Justified
  <2>2. q.hits[p] \in Nat /\ q.hits[p] <= Cardinality(old)
    BY DEF Justified, Locals
  <2>3. CASE ModelPlatform[m] = p
    <3>1. new = old \cup {m} /\ m \notin old
      BY <2>3
    <3>2. Cardinality(new) = Cardinality(old) + 1
      BY <2>1, <3>1, FS_AddElement
    <3> HIDE DEF old, new
    <3>3. q2.hits[p] <= Cardinality(new)
      BY <2>1, <2>2, <3>2
    <3> QED
      BY <3>3 DEF new
  <2>4. CASE ModelPlatform[m] # p
    <3>1. new = old /\ q2.hits[p] = q.hits[p]
      BY <2>4
    <3> QED
      BY <2>2, <3>1
  <2> QED
    BY <2>3, <2>4
<1> QED
  BY <1>1, <1>2, <1>3, <1>4 DEF Justified

(* A call in progress has a model of the list, hence a pair.               *)
LEMMA CurrentType ==
    ASSUME TypeOK, RouterInv, NEW r \in Requests, req[r].phase = "calling"
    PROVE  /\ req[r] \in Locals
           /\ Current(req[r]) \in Models
           /\ req[r].key \in Keys
           /\ Pair(r) \in Pairs
           /\ PlatformOf(r) \in Platforms
<1>1. req[r] \in Locals
  BY DEF TypeOK
<1>2. req[r].models \in Seq(Models) /\ req[r].key \in Keys
  BY <1>1 DEF Locals
<1>3. req[r].slot[2] \in 1 .. Len(req[r].models)
  BY DEF RouterInv, CallOK, ListOK
<1>4. Current(req[r]) \in Models
  BY <1>2, <1>3 DEF Current
<1> QED
  BY <1>1, <1>2, <1>4, ConstantTypes DEF Pair, PlatformOf, Pairs

(* Tried: the pair is remembered, the rest of the list stays resumable.    *)
LEMMA TriedLearns ==
    ASSUME TypeOK, RouterInv, NEW r \in Requests, req[r].phase = "calling"
    PROVE  Learnt(r, Tried(r))
<1>1. req[r] \in Locals /\ Pair(r) \in Pairs
  BY CurrentType
<1>2. Tried(r) \in Locals
  BY <1>1 DEF Tried, Locals
<1>3. /\ Tried(r).skipKeys = req[r].skipKeys \cup {Pair(r)}
      /\ Tried(r).left = req[r].left /\ Tried(r).slot = req[r].slot
      /\ Tried(r).models = req[r].models /\ Tried(r).skipModels = req[r].skipModels
      /\ Tried(r).skipPlatforms = req[r].skipPlatforms
  BY <1>1 DEF Tried, Locals
<1>4. ListOK(r, req[r]) /\ Open(req[r], Current(req[r]))
  BY DEF RouterInv, CallOK
<1>5. Current(Tried(r)) = Current(req[r])
  BY <1>3 DEF Current
<1>6. ListOK(r, Tried(r)) /\ Open(Tried(r), Current(Tried(r)))
  BY <1>3, <1>4, <1>5 DEF ListOK, Open
<1>7. Tried(r).hits = req[r].hits
  BY <1>1 DEF Tried, Locals
<1>8. Justified(req[r]) => Justified(Tried(r))
  BY <1>3, <1>7 DEF Justified
<1> QED
  BY <1>2, <1>3, <1>6, <1>8 DEF Learnt, Resumable

(* ModelDropped: the list is closed, so anything may follow.               *)
LEMMA ModelDroppedLearns ==
    ASSUME TypeOK, RouterInv, NEW r \in Requests, req[r].phase = "calling"
    PROVE  /\ Learnt(r, ModelDropped(r))
           /\ ModelDropped(r).left = {}
           /\ ModelDropped(r).skipModels = req[r].skipModels \cup {Current(req[r])}
           /\ ModelDropped(r).skipPlatforms = req[r].skipPlatforms
           /\ ModelDropped(r).hits = req[r].hits
           /\ Current(req[r]) \notin req[r].skipModels
<1>1. /\ Tried(r) \in Locals /\ Tried(r).skipKeys = req[r].skipKeys \cup {Pair(r)}
      /\ Tried(r).slot = req[r].slot
  BY TriedLearns DEF Learnt
<1>2. Current(req[r]) \in Models
  BY CurrentType
<1>3. ModelDropped(r) \in Locals
  BY <1>1, <1>2 DEF ModelDropped, Locals
<1>4. /\ ModelDropped(r).left = {} /\ ModelDropped(r).skipKeys = Tried(r).skipKeys
      /\ ModelDropped(r).slot = Tried(r).slot
      /\ ModelDropped(r).skipModels = Tried(r).skipModels \cup {Current(req[r])}
      /\ ModelDropped(r).skipPlatforms = Tried(r).skipPlatforms
      /\ ModelDropped(r).hits = Tried(r).hits
  BY <1>1 DEF ModelDropped, Locals
<1>5. req[r] \in Locals /\ req[r].key \in Keys
  BY CurrentType
<1>6. /\ Tried(r).skipModels = req[r].skipModels
      /\ Tried(r).skipPlatforms = req[r].skipPlatforms
      /\ Tried(r).hits = req[r].hits
  BY <1>5 DEF Tried, Locals
<1>7. Current(req[r]) \notin req[r].skipModels
  BY DEF RouterInv, CallOK, Open
<1>8. Justified(req[r]) => Justified(ModelDropped(r))
  <2> SUFFICES ASSUME Justified(req[r]) PROVE Justified(ModelDropped(r))
    OBVIOUS
  <2>1. Pair(r) = <<Current(req[r]), req[r].key>>
    BY DEF Pair
  <2>2. \A p \in Platforms : ModelDropped(r).hits[p] = req[r].hits[p]
    BY <1>4, <1>6
  <2> QED
    BY <1>1, <1>2, <1>3, <1>4, <1>5, <1>6, <1>7, <2>1, <2>2, DropIsJustified
<1> QED
  BY <1>1, <1>3, <1>4, <1>6, <1>7, <1>8 DEF Learnt, Resumable

(* Every way a call can end without an answer learns that its pair failed  *)
(* and then scans.                                                         *)
LEMMA FailureMoves ==
    ASSUME TypeOK, RouterInv, NEW r \in Requests, Fail(r) \/ StreamEmpty(r)
    PROVE  /\ req[r].phase = "calling"
           /\ \E q, q2 : /\ Learnt(r, q)
                         /\ Moved(r, q, q2, cooldown', keys')
                         /\ req' = [req EXCEPT ![r] = q2]
<1>1. req[r].phase = "calling"
  BY DEF Fail, StreamEmpty, KeyRefused, Throttled, ModelMissing, Flaky, NotRetryable
<1>2. \E q : Learnt(r, q) /\ Resume(r, q, cooldown', keys')
  <2>1. CASE StreamEmpty(r)
    BY <2>1, <1>1, TriedLearns DEF StreamEmpty
  <2>2. ASSUME NEW e \in Errors, NEW saved \in Saves, KeyRefused(r, e, saved)
        PROVE  \E q : Learnt(r, q) /\ Resume(r, q, cooldown', keys')
    <3> DEFINE q == [ModelDropped(r) EXCEPT !.skipPlatforms = @ \cup {PlatformOf(r)}]
    <3>1. Resume(r, q, cooldown', keys')
      BY <2>2 DEF KeyRefused
    <3>2. /\ ModelDropped(r) \in Locals /\ ModelDropped(r).left = {}
          /\ ModelDropped(r).skipKeys = req[r].skipKeys \cup {Pair(r)}
          /\ ModelDropped(r).slot = req[r].slot
          /\ ModelDropped(r).skipModels = req[r].skipModels \cup {Current(req[r])}
          /\ ModelDropped(r).skipPlatforms = req[r].skipPlatforms
          /\ ModelDropped(r).hits = req[r].hits
          /\ Current(req[r]) \notin req[r].skipModels
      BY <1>1, ModelDroppedLearns DEF Learnt
    <3>3. PlatformOf(r) \in Platforms
      BY <1>1, CurrentType
    <3>4. /\ q \in Locals /\ q.left = {} /\ q.slot = req[r].slot
          /\ q.skipKeys = req[r].skipKeys \cup {Pair(r)}
          /\ q.skipModels = req[r].skipModels \cup {Current(req[r])}
          /\ q.skipPlatforms = req[r].skipPlatforms \cup {PlatformOf(r)}
          /\ q.hits = req[r].hits
      BY <3>2, <3>3 DEF Locals
    <3> HIDE DEF q
    <3>5. Justified(req[r]) => Justified(q)
      BY <1>1, <3>2, <3>4, CurrentType, DropIsJustified DEF Pair, PlatformOf
    <3>6. Learnt(r, q)
      BY <3>4, <3>5 DEF Learnt, Resumable
    <3> QED
      BY <3>1, <3>6
  <2>3. ASSUME NEW e \in Errors, NEW saved \in Saves, Throttled(r, e, saved)
        PROVE  \E q : Learnt(r, q) /\ Resume(r, q, cooldown', keys')
    <3> DEFINE p == PlatformOf(r)
               abandon == /\ req[r].hits[p] + 1 >= PlatformLimit
                          /\ OtherPlatforms(req[r], p) # {}
               q == [ModelDropped(r) EXCEPT
                        !.hits[p] = @ + 1,
                        !.skipPlatforms = IF abandon THEN @ \cup {p} ELSE @]
    <3>1. Resume(r, q, cooldown', keys')
      BY <2>3 DEF Throttled
    <3>2. /\ ModelDropped(r) \in Locals /\ ModelDropped(r).left = {}
          /\ ModelDropped(r).skipKeys = req[r].skipKeys \cup {Pair(r)}
          /\ ModelDropped(r).slot = req[r].slot
          /\ ModelDropped(r).skipModels = req[r].skipModels \cup {Current(req[r])}
          /\ ModelDropped(r).skipPlatforms = req[r].skipPlatforms
          /\ ModelDropped(r).hits = req[r].hits
          /\ Current(req[r]) \notin req[r].skipModels
      BY <1>1, ModelDroppedLearns DEF Learnt
    <3>3. p \in Platforms
      BY <1>1, CurrentType
    <3> DEFINE platforms == IF abandon THEN ModelDropped(r).skipPlatforms \cup {p}
                            ELSE ModelDropped(r).skipPlatforms
               hits == [ModelDropped(r).hits EXCEPT ![p] = @ + 1]
    <3>4. q = [ModelDropped(r) EXCEPT !.hits = hits, !.skipPlatforms = platforms]
      BY <3>2 DEF Locals
    <3>5. platforms \in SUBSET Platforms /\ hits \in [Platforms -> Nat]
      BY <3>2, <3>3 DEF Locals
    <3>6. /\ platforms \subseteq req[r].skipPlatforms \cup {p}
          /\ \A x \in Platforms : hits[x] = IF x = p THEN req[r].hits[x] + 1 ELSE req[r].hits[x]
      BY <3>2, <3>3 DEF Locals
    <3> DEFINE q3 == [ModelDropped(r) EXCEPT !.hits = hits, !.skipPlatforms = platforms]
    <3> HIDE DEF abandon, platforms, hits
    <3>7. /\ q3 \in Locals /\ q3.left = {} /\ q3.slot = req[r].slot
          /\ q3.skipKeys = req[r].skipKeys \cup {Pair(r)}
          /\ q3.skipModels = req[r].skipModels \cup {Current(req[r])}
          /\ q3.skipPlatforms = platforms
          /\ q3.hits = hits
      BY <3>2, <3>5 DEF Locals
    <3>8. q = q3
      BY <3>4
    <3> HIDE DEF q, q3
    <3>9. Justified(req[r]) => Justified(q)
      <4>1. Pair(r) = <<Current(req[r]), req[r].key>> /\ p = ModelPlatform[Current(req[r])]
        BY DEF Pair, PlatformOf
      <4> HIDE DEF p
      <4>2. q3.skipKeys = req[r].skipKeys \cup {<<Current(req[r]), req[r].key>>}
        BY <3>7, <4>1
      <4>3. \A x \in Platforms : \/ q3.hits[x] = req[r].hits[x]
                                 \/ x = ModelPlatform[Current(req[r])] /\ q3.hits[x] = req[r].hits[x] + 1
        BY <3>6, <3>7, <4>1
      <4>4. q3.skipPlatforms \subseteq req[r].skipPlatforms \cup {ModelPlatform[Current(req[r])]}
        BY <3>6, <3>7, <4>1
      <4>5. req[r] \in Locals /\ Current(req[r]) \in Models /\ req[r].key \in Keys
        BY <1>1, CurrentType
      <4> QED
        BY <3>2, <3>7, <3>8, <4>2, <4>3, <4>4, <4>5, DropIsJustified
    <3>10. Learnt(r, q)
      BY <3>7, <3>8, <3>9 DEF Learnt, Resumable
    <3> QED
      BY <3>1, <3>10
  <2>4. ASSUME NEW e \in Errors, NEW saved \in Saves,
               ModelMissing(r, e, saved) \/ NotRetryable(r, e, saved)
        PROVE  \E q : Learnt(r, q) /\ Resume(r, q, cooldown', keys')
    BY <2>4, <1>1, ModelDroppedLearns DEF ModelMissing, NotRetryable
  <2>5. ASSUME NEW e \in Errors, NEW saved \in Saves, Flaky(r, e, saved)
        PROVE  \E q : Learnt(r, q) /\ Resume(r, q, cooldown', keys')
    BY <2>5, <1>1, TriedLearns DEF Flaky
  <2> QED
    BY <2>1, <2>2, <2>3, <2>4, <2>5 DEF Fail
<1>3. now \in Nat
  BY DEF TypeOK
<1> QED
  BY <1>1, <1>2, <1>3, ResumeMoves DEF Learnt

(* The start of a request has learnt nothing yet.                          *)
LEMMA StartMoves ==
    ASSUME TypeOK, StartClean, NEW r \in Requests, Start(r)
    PROVE  \E q, q2 : /\ q \in Locals
                      /\ q.skipKeys = req[r].skipKeys
                      /\ q.left = {}
                      /\ Justified(req[r]) => Justified(q)
                      /\ Moved(r, q, q2, cooldown', keys')
                      /\ req' = [req EXCEPT ![r] = q2]
<1>1. PICK models \in Orders, mode \in Modes :
        Resume(r, [req[r] EXCEPT !.mode = mode, !.models = models,
                                 !.deadline = now + OverallBudget], cooldown, keys)
  BY DEF Start, OrderedModels
<1> DEFINE q == [req[r] EXCEPT !.mode = mode, !.models = models,
                               !.deadline = now + OverallBudget]
<1>2. req[r] \in Locals /\ now \in Nat
  BY DEF TypeOK
<1>3. models \in Seq(Models) /\ mode \in {"chat", "stream"} /\ OverallBudget \in Nat
  BY ConstantTypes, RouterAssumption
<1>4. /\ q \in Locals /\ q.skipKeys = req[r].skipKeys /\ q.left = req[r].left
      /\ q.skipModels = req[r].skipModels /\ q.skipPlatforms = req[r].skipPlatforms
      /\ q.hits = req[r].hits
  <2> DEFINE deadline == now + OverallBudget
  <2>1. deadline \in Nat
    BY <1>2, <1>3
  <2> HIDE DEF deadline
  <2>2. LET q2 == [req[r] EXCEPT !.mode = mode, !.models = models, !.deadline = deadline]
        IN  /\ q2 \in Locals /\ q2.skipKeys = req[r].skipKeys /\ q2.left = req[r].left
            /\ q2.skipModels = req[r].skipModels /\ q2.skipPlatforms = req[r].skipPlatforms
            /\ q2.hits = req[r].hits
    BY <1>2, <1>3, <2>1 DEF Locals
  <2> QED
    BY <2>2 DEF deadline
<1>5. q.left = {}
  BY <1>4 DEF StartClean, Start
<1>6. Resume(r, q, cooldown', keys')
  BY <1>1 DEF Start
<1> HIDE DEF q
<1>7. \E q2 : req' = [req EXCEPT ![r] = q2] /\ Moved(r, q, q2, cooldown', keys')
  BY <1>2, <1>4, <1>5, <1>6, ResumeMoves DEF Resumable
<1>8. Justified(req[r]) => Justified(q)
  BY <1>4 DEF Justified
<1> QED
  BY <1>4, <1>5, <1>7, <1>8

-----------------------------------------------------------------------------
(***************************************************************************)
(* The invariant and the theorems.                                         *)
(***************************************************************************)
IInv == TypeOK /\ RouterInv /\ StartClean /\ CauseInv

(* A move replaces the locals of one request by good ones.                 *)
LEMMA MovePreserves ==
    ASSUME TypeOK, RouterInv, StartClean, CauseInv,
           NEW r \in Requests, NEW q, NEW q2, NEW cd, NEW tbl,
           Justified(req[r]) => Justified(q),
           Moved(r, q, q2, cd, tbl), req' = [req EXCEPT ![r] = q2]
    PROVE  /\ req' \in [Requests -> Locals]
           /\ RouterInv'
           /\ StartClean'
           /\ CauseInv'
<1>1. q2 \in Locals /\ q2.phase \in {"calling", "failed"}
      /\ (q2.phase = "calling" => CallOK(r, q2))
  BY DEF Moved
<1>2. req \in [Requests -> Locals]
  BY DEF TypeOK
<1>3. req' \in [Requests -> Locals]
  BY <1>1, <1>2
<1>4. \A s \in Requests : req'[s] = IF s = r THEN q2 ELSE req[s]
  BY <1>2
<1>5. RouterInv'
  BY <1>1, <1>4 DEF RouterInv
<1>6. StartClean'
  BY <1>1, <1>4 DEF StartClean
<1>7. Justified(q2)
  BY DEF CauseInv, Moved, Justified
<1>8. CauseInv'
  BY <1>4, <1>7 DEF CauseInv
<1> QED
  BY <1>3, <1>5, <1>6, <1>8

(* A health update and a cooldown keep the types of what they write.       *)
LEMMA BookkeepingTypes ==
    ASSUME NEW row \in KeyRows, NEW e \in ErrorKinds, NEW saved \in BOOLEAN, NEW t \in Nat
    PROVE  /\ RecordFailure(row, e, saved, t) \in KeyRows
           /\ RecordSuccess(row, saved, t) \in KeyRows
<1>1. Verdict(row, e, saved) # NoVerdict => Classify(e) \in Statuses
  BY DEF Verdict, Classify, NoVerdict, Statuses
<1>2. RecordFailure(row, e, saved, t) \in KeyRows
  BY <1>1 DEF RecordFailure, KeyRows
<1>3. RecordSuccess(row, saved, t) \in KeyRows
  BY DEF RecordSuccess, KeyRows, Statuses
<1> QED
  BY <1>2, <1>3

(* The other variables keep their types when a call ends without answer.   *)
LEMMA FailureTypes ==
    ASSUME TypeOK, RouterInv, NEW r \in Requests, Fail(r) \/ StreamEmpty(r)
    PROVE  /\ now' \in Nat /\ edits' \in Nat
           /\ cooldown' \in [Pairs -> Nat]
           /\ failures' \in [Pairs -> Nat]
           /\ keys' \in [Keys -> KeyRows]
<1>1. req[r].phase = "calling"
  BY FailureMoves
<1>2. Pair(r) \in Pairs /\ req[r].key \in Keys
  BY <1>1, CurrentType
<1>3. now' = now /\ edits' = edits
  BY DEF Fail, StreamEmpty, KeyRefused, Throttled, ModelMissing, Flaky, NotRetryable
<1>4. UNCHANGED <<cooldown, failures>> \/ CoolDown(r)
  BY DEF Fail, StreamEmpty, KeyRefused, Throttled, ModelMissing, Flaky, NotRetryable
<1>5. ASSUME CoolDown(r)
      PROVE  cooldown' \in [Pairs -> Nat] /\ failures' \in [Pairs -> Nat]
  <2> DEFINE n == failures[Pair(r)] + 1
  <2>1. n \in Nat /\ now \in Nat
    BY <1>2 DEF TypeOK
  <2>2. CooldownFor(n) \in Nat
    BY ConstantTypes DEF CooldownFor
  <2> DEFINE expiry == now + CooldownFor(n)
  <2>3. expiry \in Nat
    BY <2>1, <2>2
  <2>4. failures' = [failures EXCEPT ![Pair(r)] = n]
        /\ cooldown' = [cooldown EXCEPT ![Pair(r)] = expiry]
    BY <1>5 DEF CoolDown
  <2> HIDE DEF n, expiry
  <2> QED
    BY <2>1, <2>3, <2>4 DEF TypeOK
<1>6. UNCHANGED keys \/ \E e \in Errors, saved \in Saves : Remember(r, e, saved)
  BY DEF Fail, StreamEmpty, KeyRefused, Throttled, ModelMissing, Flaky, NotRetryable
<1>7. ASSUME NEW e \in Errors, NEW saved \in Saves, Remember(r, e, saved)
      PROVE  keys' \in [Keys -> KeyRows]
  <2> DEFINE row == RecordFailure(keys[req[r].key], e, saved, now)
  <2>1. e \in ErrorKinds /\ saved \in BOOLEAN /\ keys[req[r].key] \in KeyRows /\ now \in Nat
    BY <1>2, RouterAssumption DEF TypeOK
  <2>2. row \in KeyRows
    BY <2>1, BookkeepingTypes
  <2>3. keys' = [keys EXCEPT ![req[r].key] = row]
    BY <1>7 DEF Remember
  <2> HIDE DEF row
  <2> QED
    BY <2>2, <2>3 DEF TypeOK
<1> QED
  BY <1>3, <1>4, <1>5, <1>6, <1>7 DEF TypeOK

(* The locals of a request that leaves, and those of one that has not      *)
(* come.                                                                   *)
LEMMA IdleType ==
    Idle \in Locals /\ Idle.left = {} /\ Idle.phase = "idle" /\ Justified(Idle)
<1> DEFINE k0 == CHOOSE k \in Keys : TRUE
           none == [p \in Platforms |-> 0]
           q == [phase |-> "idle", mode |-> "chat", models |-> <<>>, slot |-> <<0, 0>>,
                 key |-> k0, left |-> {}, deadline |-> 0, skipKeys |-> {}, skipModels |-> {},
                 skipPlatforms |-> {}, hits |-> none]
<1>1. k0 \in Keys
  BY RouterAssumption
<1>2. none \in [Platforms -> Nat] /\ \A p \in Platforms : none[p] = 0
  OBVIOUS
<1>3. Idle = q
  BY DEF Idle
<1> HIDE DEF k0, none
<1>4. /\ q \in Locals /\ q.left = {} /\ q.phase = "idle"
      /\ q.skipModels = {} /\ q.skipPlatforms = {} /\ q.hits = none
  BY <1>1, <1>2 DEF Locals
<1> HIDE DEF q
<1>5. Justified(q)
  <2>1. IsFiniteSet(q.skipModels)
    BY <1>4, FS_EmptySet
  <2>2. ASSUME NEW p \in Platforms
        PROVE  q.hits[p] <= Cardinality({m \in q.skipModels : ModelPlatform[m] = p})
    <3>1. {m \in q.skipModels : ModelPlatform[m] = p} = {}
      BY <1>4
    <3> QED
      BY <1>2, <1>4, <3>1, FS_EmptySet
  <2> QED
    BY <1>4, <2>1, <2>2 DEF Justified
<1> QED
  BY <1>3, <1>4, <1>5

LEMMA InitIInv == Init => IInv
<1> SUFFICES ASSUME Init PROVE IInv
  OBVIOUS
<1>1. TypeOK
  <2>1. now \in Nat /\ edits \in Nat
    BY DEF Init
  <2>2. cooldown \in [Pairs -> Nat] /\ failures \in [Pairs -> Nat]
    BY DEF Init
  <2>4. keys \in [Keys -> KeyRows]
    BY DEF Init, KeyRows, Statuses
  <2>5. req \in [Requests -> Locals]
    <3>1. req = [r \in Requests |-> Idle]
      BY DEF Init
    <3> QED
      BY <3>1, IdleType
  <2> QED
    BY <2>1, <2>2, <2>4, <2>5 DEF TypeOK
<1>2. \A r \in Requests : req[r].phase = "idle" /\ req[r].left = {} /\ Justified(req[r])
  BY IdleType DEF Init
<1> QED
  BY <1>1, <1>2 DEF IInv, RouterInv, StartClean, CauseInv

(* A request that is answered or abandoned leaves with fresh locals.       *)
LEMMA LeavePreserves ==
    ASSUME IInv, NEW r \in Requests, NEW phase \in {"served", "gone"}, Leave(r, phase)
    PROVE  /\ req' \in [Requests -> Locals]
           /\ RouterInv'
           /\ StartClean'
           /\ CauseInv'
<1> DEFINE q2 == [Idle EXCEPT !.phase = phase]
<1>1. q2 \in Locals /\ q2.phase = phase /\ Justified(q2)
  BY IdleType DEF Locals, Justified
<1>2. req' = [req EXCEPT ![r] = q2]
  BY DEF Leave
<1> HIDE DEF q2
<1>3. \A s \in Requests : req'[s] = IF s = r THEN q2 ELSE req[s]
  BY <1>2 DEF IInv, TypeOK
<1>4. req' \in [Requests -> Locals]
  BY <1>1, <1>2 DEF IInv, TypeOK
<1> QED
  BY <1>1, <1>3, <1>4 DEF IInv, RouterInv, StartClean, CauseInv

LEMMA NextIInv == IInv /\ [Next]_vars => IInv'
<1> SUFFICES ASSUME IInv, [Next]_vars PROVE IInv'
  OBVIOUS
<1>1. TypeOK /\ RouterInv /\ StartClean /\ CauseInv
  BY DEF IInv
<1>2. ASSUME NEW r \in Requests, Start(r)
      PROVE  IInv'
  <2>1. PICK q, q2 : /\ Justified(req[r]) => Justified(q)
                     /\ Moved(r, q, q2, cooldown', keys')
                     /\ req' = [req EXCEPT ![r] = q2]
    BY <1>1, <1>2, StartMoves
  <2>2. UNCHANGED <<now, cooldown, failures, keys, edits>>
    BY <1>2 DEF Start
  <2>3. req' \in [Requests -> Locals] /\ RouterInv' /\ StartClean' /\ CauseInv'
    BY <1>1, <2>1, MovePreserves
  <2> QED
    BY <1>1, <2>2, <2>3 DEF IInv, TypeOK
<1>3. ASSUME NEW r \in Requests, Fail(r) \/ StreamEmpty(r)
      PROVE  IInv'
  <2>1. PICK q, q2 : /\ Justified(req[r]) => Justified(q)
                     /\ Moved(r, q, q2, cooldown', keys')
                     /\ req' = [req EXCEPT ![r] = q2]
    BY <1>1, <1>3, FailureMoves DEF Learnt
  <2>2. req' \in [Requests -> Locals] /\ RouterInv' /\ StartClean' /\ CauseInv'
    BY <1>1, <2>1, MovePreserves
  <2> QED
    BY <1>1, <1>3, <2>2, FailureTypes DEF IInv, TypeOK
<1>4. ASSUME NEW r \in Requests, Succeed(r)
      PROVE  IInv'
  <2>1. req[r].phase = "calling" /\ Leave(r, "served") /\ UNCHANGED <<now, cooldown, edits>>
    BY <1>4 DEF Succeed
  <2>2. Pair(r) \in Pairs /\ req[r].key \in Keys
    BY <1>1, <2>1, CurrentType
  <2>3. failures' \in [Pairs -> Nat]
    BY <1>1, <1>4, <2>2 DEF Succeed, AfterSuccess, TypeOK
  <2>4. PICK saved \in Saves :
          keys' = [keys EXCEPT ![req[r].key] = RecordSuccess(keys[req[r].key], saved, now)]
    BY <1>4 DEF Succeed
  <2>5. RecordSuccess(keys[req[r].key], saved, now) \in KeyRows
    BY <1>1, <2>2, RouterAssumption, BookkeepingTypes DEF TypeOK, ErrorKinds
  <2>6. keys' \in [Keys -> KeyRows]
    BY <1>1, <2>4, <2>5 DEF TypeOK
  <2>7. req' \in [Requests -> Locals] /\ RouterInv' /\ StartClean' /\ CauseInv'
    BY <2>1, LeavePreserves
  <2> QED
    BY <1>1, <2>1, <2>3, <2>6, <2>7 DEF IInv, TypeOK
<1>5. ASSUME NEW r \in Requests, Cancel(r)
      PROVE  IInv'
  <2>1. Leave(r, "gone") /\ UNCHANGED <<now, cooldown, failures, keys, edits>>
    BY <1>5 DEF Cancel
  <2>2. req' \in [Requests -> Locals] /\ RouterInv' /\ StartClean' /\ CauseInv'
    BY <2>1, LeavePreserves
  <2> QED
    BY <1>1, <2>1, <2>2 DEF IInv, TypeOK
<1>6. ASSUME NEW k \in Keys, ToggleKey(k) \/ DeleteKey(k) \/ TestKey(k)
      PROVE  IInv'
  <2>1. PICK row \in KeyRows : EditKey(k, row)
    <3>1. keys[k] \in KeyRows /\ now \in Nat
      BY <1>1 DEF TypeOK
    <3>2. [keys[k] EXCEPT !.enabled = ~@] \in KeyRows /\ [keys[k] EXCEPT !.present = FALSE] \in KeyRows
      BY <3>1 DEF KeyRows
    <3>3. \A e \in Errors : RecordFailure(keys[k], e, TRUE, now) \in KeyRows
      BY <3>1, RouterAssumption, BookkeepingTypes
    <3>4. RecordSuccess(keys[k], TRUE, now) \in KeyRows
      BY <3>1, BookkeepingTypes DEF ErrorKinds
    <3> QED
      BY <1>6, <3>2, <3>3, <3>4 DEF ToggleKey, DeleteKey, TestKey
  <2>2. UNCHANGED <<now, cooldown, failures, req>> /\ edits' \in Nat
    BY <1>1, <2>1 DEF EditKey, TypeOK
  <2>3. keys' \in [Keys -> KeyRows]
    BY <1>1, <2>1 DEF EditKey, TypeOK
  <2> QED
    BY <1>1, <2>2, <2>3 DEF IInv, TypeOK, RouterInv, StartClean, CauseInv
<1>7. ASSUME Tick
      PROVE  IInv'
  BY <1>1, <1>7 DEF Tick, IInv, TypeOK, RouterInv, StartClean, CauseInv
<1>8. CASE UNCHANGED vars
  BY <1>1, <1>8 DEF vars, IInv, TypeOK, RouterInv, StartClean, CauseInv
<1> QED
  BY <1>2, <1>3, <1>4, <1>5, <1>6, <1>7, <1>8 DEF Next, Return

(* Every variable of the router keeps its type: in particular the failure  *)
(* counts of rate_limit.py never fall below zero and the cooldowns are     *)
(* times.                                                                  *)
THEOREM TypeCorrect == Spec => []TypeOK
<1>1. IInv => TypeOK
  BY DEF IInv
<1> QED
  BY <1>1, InitIInv, NextIInv, PTL DEF Spec

(* No request calls a provider with a pair, a model or a platform that it  *)
(* has given up, or with a key of another account or platform.             *)
THEOREM SkipsAreRespected == Spec => []SkipsRespected
<1>1. IInv => SkipsRespected
  BY DEF IInv, RouterInv, CallOK, SkipsRespected, Pair, PlatformOf
<1> QED
  BY <1>1, InitIInv, NextIInv, PTL DEF Spec

(* A request gives up models and platforms for a cause only: every dropped *)
(* model was called, every dropped platform has a dropped model, and the   *)
(* 429s counted against a platform are those of different dropped models.  *)
THEOREM SkipsAlwaysHaveCause == Spec => []SkipsHaveCause
<1>1. IInv => SkipsHaveCause
  BY DEF IInv, CauseInv, Justified, SkipsHaveCause
<1> QED
  BY <1>1, InitIInv, NextIInv, PTL DEF Spec

(* What a step can do to one request: nothing, end it, or let it scan      *)
(* with what it holds, from the start or after a call without an answer.   *)
Scanned(r) ==
    \E q : /\ Moved(r, q, req'[r], cooldown', keys')
           /\ \/ /\ req[r].phase = "idle"
                 /\ q.left = {}
                 /\ q.skipKeys = req[r].skipKeys
              \/ /\ req[r].phase = "calling"
                 /\ Learnt(r, q)

LEMMA StepOfRequest ==
    ASSUME IInv, [Next]_vars, NEW r \in Requests
    PROVE  req'[r] = req[r] \/ req'[r].phase \in {"served", "gone"} \/ Scanned(r)
<1> DEFINE Goal == req'[r] = req[r] \/ req'[r].phase \in {"served", "gone"} \/ Scanned(r)
<1>1. TypeOK /\ RouterInv /\ StartClean /\ req \in [Requests -> Locals]
  BY DEF IInv, TypeOK
<1>2. ASSUME NEW s \in Requests, NEW q2, req' = [req EXCEPT ![s] = q2], s # r
      PROVE  Goal
  BY <1>1, <1>2
<1>3. ASSUME NEW s \in Requests, Start(s)
      PROVE  Goal
  <2>1. PICK q, q2 : /\ q.skipKeys = req[s].skipKeys
                     /\ q.left = {}
                     /\ Moved(s, q, q2, cooldown', keys')
                     /\ req' = [req EXCEPT ![s] = q2]
    BY <1>1, <1>3, StartMoves
  <2>2. req[s].phase = "idle"
    BY <1>3 DEF Start
  <2>3. s = r => req'[r] = q2
    BY <1>1, <2>1
  <2>4. s = r => Scanned(r)
    BY <2>1, <2>2, <2>3 DEF Scanned
  <2> QED
    BY <1>2, <2>1, <2>4
<1>4. ASSUME NEW s \in Requests, Fail(s) \/ StreamEmpty(s)
      PROVE  Goal
  <2>1. PICK q, q2 : /\ Learnt(s, q)
                     /\ Moved(s, q, q2, cooldown', keys')
                     /\ req' = [req EXCEPT ![s] = q2]
    BY <1>1, <1>4, FailureMoves
  <2>2. req[s].phase = "calling"
    BY <1>1, <1>4, FailureMoves
  <2>3. s = r => req'[r] = q2
    BY <1>1, <2>1
  <2>4. s = r => Scanned(r)
    BY <2>1, <2>2, <2>3 DEF Scanned
  <2> QED
    BY <1>2, <2>1, <2>4
<1>5. ASSUME NEW s \in Requests, NEW phase \in {"served", "gone"}, Leave(s, phase)
      PROVE  Goal
  <2> DEFINE q2 == [Idle EXCEPT !.phase = phase]
  <2>1. q2.phase = phase
    BY IdleType DEF Locals
  <2>2. req' = [req EXCEPT ![s] = q2]
    BY <1>5 DEF Leave
  <2> HIDE DEF q2
  <2>3. s = r => req'[r] = q2
    BY <1>1, <2>2
  <2> QED
    BY <1>2, <2>1, <2>2, <2>3
<1>6. UNCHANGED req => Goal
  OBVIOUS
<1> HIDE DEF Goal
<1>7. Goal
  BY <1>3, <1>4, <1>5, <1>6 DEF Next, Return, Succeed, Cancel, ToggleKey, DeleteKey, TestKey,
                                EditKey, Tick, vars
<1> QED
  BY <1>7 DEF Goal

(* A request never calls the same model with the same key a second time,   *)
(* whatever max_retries is and whatever other requests and users do.       *)
THEOREM NeverRepeats == Spec => NeverCalledTwice
<1> DEFINE Obeys(r) == /\ req'[r].phase = "calling" => req[r].skipKeys \subseteq req'[r].skipKeys
                       /\ StartsCall(r) =>
                            /\ req[r].phase = "calling" => Pair(r) \in req'[r].skipKeys
                            /\ Pair(r)' \notin req'[r].skipKeys
<1>1. ASSUME IInv, [Next]_vars, NEW r \in Requests
      PROVE  Obeys(r)
  <2>1. CASE Scanned(r)
    <3>1. PICK q : /\ Moved(r, q, req'[r], cooldown', keys')
                   /\ req[r].skipKeys \subseteq q.skipKeys
                   /\ req[r].phase = "calling" => Pair(r) \in q.skipKeys
      BY <2>1 DEF Scanned, Learnt
    <3>2. Pair(r)' = <<Current(req'[r]), req'[r].key>>
      BY DEF Pair, Current
    <3> QED
      BY <3>1, <3>2 DEF Moved, CallOK, StartsCall
  <2>2. CASE req'[r] = req[r] \/ req'[r].phase \in {"served", "gone"}
    BY <2>2 DEF StartsCall
  <2> QED
    BY <1>1, <2>1, <2>2, StepOfRequest
<1> HIDE DEF Obeys
<1>2. IInv /\ [Next]_vars => [\A r \in Requests : Obeys(r)]_vars
  BY <1>1
<1>3. Spec => [][\A r \in Requests : Obeys(r)]_vars
  BY <1>2, InitIInv, NextIInv, PTL DEF Spec
<1> QED
  BY <1>3 DEF NeverCalledTwice, Obeys

(* Once the budget is spent a request starts no call but one with a        *)
(* further key of the model it was already calling.                        *)
THEOREM LateCallsStay == Spec => LateCallsStayOnModel
<1> DEFINE Obeys(r) == StartsCall(r) /\ now > req'[r].deadline =>
                         req[r].phase = "calling" /\ req'[r].slot = req[r].slot
<1>1. ASSUME IInv, [Next]_vars, NEW r \in Requests
      PROVE  Obeys(r)
  <2>1. CASE Scanned(r)
    <3> SUFFICES ASSUME req'[r].phase = "calling", now > req'[r].deadline
                 PROVE  req[r].phase = "calling" /\ req'[r].slot = req[r].slot
      BY DEF StartsCall
    <3>1. PICK q : /\ Moved(r, q, req'[r], cooldown', keys')
                   /\ \/ req[r].phase = "idle" /\ q.left = {}
                      \/ req[r].phase = "calling" /\ Learnt(r, q)
      BY <2>1 DEF Scanned
    <3>2. now \in Nat /\ q.deadline \in Nat /\ q.deadline = req'[r].deadline
      BY <1>1, <3>1 DEF IInv, TypeOK, Moved, Locals
    <3>3. KeyInHand(q, req'[r])
      BY <3>1, <3>2 DEF Moved, KeyJustRead
    <3> QED
      BY <3>1, <3>3 DEF KeyInHand, Learnt
  <2>2. CASE req'[r] = req[r] \/ req'[r].phase \in {"served", "gone"}
    BY <2>2 DEF StartsCall
  <2> QED
    BY <1>1, <2>1, <2>2, StepOfRequest
<1> HIDE DEF Obeys
<1>2. IInv /\ [Next]_vars => [\A r \in Requests : Obeys(r)]_vars
  BY <1>1
<1>3. Spec => [][\A r \in Requests : Obeys(r)]_vars
  BY <1>2, InitIInv, NextIInv, PTL DEF Spec
<1> QED
  BY <1>3 DEF LateCallsStayOnModel, Obeys

(* A benched key is only called by a request that had read its list of     *)
(* keys before: a fresh query never hands it out.                          *)
THEOREM BenchedKeysAreOld == Spec => BenchedKeyOnlyFromOldList
<1> DEFINE Obeys(r) == StartsCall(r) /\ Benched(keys'[req'[r].key], now) =>
                         req'[r].slot = req[r].slot /\ req'[r].key \in req[r].left
<1>1. ASSUME IInv, [Next]_vars, NEW r \in Requests
      PROVE  Obeys(r)
  <2>1. CASE Scanned(r)
    <3> SUFFICES ASSUME req'[r].phase = "calling", Benched(keys'[req'[r].key], now)
                 PROVE  req'[r].slot = req[r].slot /\ req'[r].key \in req[r].left
      BY DEF StartsCall
    <3>1. PICK q : /\ Moved(r, q, req'[r], cooldown', keys')
                   /\ \/ req[r].phase = "idle" /\ q.left = {}
                      \/ req[r].phase = "calling" /\ Learnt(r, q)
      BY <2>1 DEF Scanned
    <3>2. KeyInHand(q, req'[r])
      BY <3>1 DEF Moved, KeyJustRead, Usable
    <3> QED
      BY <3>1, <3>2 DEF KeyInHand, Learnt
  <2>2. CASE req'[r] = req[r] \/ req'[r].phase \in {"served", "gone"}
    BY <2>2 DEF StartsCall
  <2> QED
    BY <1>1, <2>1, <2>2, StepOfRequest
<1> HIDE DEF Obeys
<1>2. IInv /\ [Next]_vars => [\A r \in Requests : Obeys(r)]_vars
  BY <1>1
<1>3. Spec => [][\A r \in Requests : Obeys(r)]_vars
  BY <1>2, InitIInv, NextIInv, PTL DEF Spec
<1> QED
  BY <1>3 DEF BenchedKeyOnlyFromOldList, Obeys

(* With no chance left, before the last pass, every usable pair of the     *)
(* list has failed, cools down, or was dropped with its model or platform: *)
(* otherwise the next pass would offer it.                                 *)
LEMMA NoChanceNoPair ==
    ASSUME NEW r \in Requests, NEW q \in Locals, NEW cd, NEW tbl,
           Chances(r, q, cd, tbl) = {}, q.slot[1] < MaxRetries - 1,
           NEW i \in 1 .. Len(q.models), NEW k \in Scope[r],
           Open(q, q.models[i]),
           KeyPlatform[k] = ModelPlatform[q.models[i]],
           Usable(tbl[k], now)
    PROVE  <<q.models[i], k>> \in q.skipKeys \/ OnCooldown(cd[<<q.models[i], k>>], now)
<1> DEFINE s == <<q.slot[1] + 1, i>>
           m == q.models[i]
<1>1. q.slot \in Nat \X Nat /\ MaxRetries \in Nat
  BY ConstantTypes DEF Locals
<1>2. s \in Places(q) /\ s[2] = i
  BY <1>1 DEF Places
<1>3. Before(q.slot, s)
  BY <1>1 DEF Before
<1>4. s \notin Chances(r, q, cd, tbl)
  OBVIOUS
<1>5. Ready(q, m, KeysFor(r, ModelPlatform[m], tbl), cd) = {}
  BY <1>2, <1>3, <1>4 DEF Chances
<1>6. k \in KeysFor(r, ModelPlatform[m], tbl)
  BY DEF KeysFor
<1> QED
  BY <1>5, <1>6 DEF Ready

(* A request that gives up early, within its budget, has left no usable    *)
(* pair untried without a reason.                                          *)
THEOREM GivingUpHasReason == Spec => GivesUpWithReason
<1> DEFINE Excused(r) ==
             LET q == req'[r]
             IN  /\ q.phase = "failed" /\ req[r].phase # "failed"
                 /\ now <= q.deadline /\ q.slot[1] < MaxRetries - 1
                 => \A i \in 1 .. Len(q.models), k \in Scope[r] :
                      LET m == q.models[i]
                      IN  /\ Open(q, m)
                          /\ KeyPlatform[k] = ModelPlatform[m]
                          /\ Usable(keys'[k], now)
                          => <<m, k>> \in q.skipKeys \/ OnCooldown(cooldown'[<<m, k>>], now)
<1>1. ASSUME IInv, [Next]_vars, NEW r \in Requests
      PROVE  Excused(r)
  <2>1. CASE Scanned(r)
    <3> DEFINE q2 == req'[r]
    <3> SUFFICES ASSUME q2.phase = "failed", now <= q2.deadline, q2.slot[1] < MaxRetries - 1,
                        NEW i \in 1 .. Len(q2.models), NEW k \in Scope[r],
                        Open(q2, q2.models[i]),
                        KeyPlatform[k] = ModelPlatform[q2.models[i]],
                        Usable(keys'[k], now)
                 PROVE  \/ <<q2.models[i], k>> \in q2.skipKeys
                        \/ OnCooldown(cooldown'[<<q2.models[i], k>>], now)
      OBVIOUS
    <3>1. PICK q : Moved(r, q, q2, cooldown', keys')
      BY <2>1 DEF Scanned
    <3>2. now \in Nat /\ q2 \in Locals /\ q2.deadline \in Nat
      BY <1>1, <3>1 DEF IInv, TypeOK, Moved, Locals
    <3>3. Chances(r, q, cooldown', keys') = {} /\ q2.slot = q.slot
      BY <3>1, <3>2 DEF Moved
    <3>4. Chances(r, q2, cooldown', keys') = Chances(r, q, cooldown', keys')
      BY <3>1, <3>3 DEF Moved, Chances, Places, Open, Ready
    <3> HIDE DEF q2
    <3> QED
      BY <3>2, <3>3, <3>4, NoChanceNoPair
  <2>2. CASE req'[r] = req[r] \/ req'[r].phase \in {"served", "gone"}
    BY <2>2
  <2> QED
    BY <1>1, <2>1, <2>2, StepOfRequest
<1> HIDE DEF Excused
<1>2. IInv /\ [Next]_vars => [\A r \in Requests : Excused(r)]_vars
  BY <1>1
<1>3. Spec => [][\A r \in Requests : Excused(r)]_vars
  BY <1>2, InitIInv, NextIInv, PTL DEF Spec
<1> QED
  BY <1>3 DEF GivesUpWithReason, Excused

=============================================================================
