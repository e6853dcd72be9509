--------------------------- MODULE DeepResearchRelay ---------------------------
(***************************************************************************)
(* services/fallback_router.py, _deep_research_relay and its two entry     *)
(* points: one answer is stitched together from segments of several        *)
(* models.  A model that hits its token cap goes on; one that fails,       *)
(* stalls or writes nothing hands over to the next one of the list.        *)
(*                                                                         *)
(* One action is a stretch of the coroutine between two waits: a chunk     *)
(* arrives, or a segment ends, its bookkeeping runs and the next segment   *)
(* is chosen.  When the model changes, the generator is suspended at the   *)
(* hand-off marker between the choice and the call.  Relays interleave and *)
(* share the cooldowns.  The text is abstracted to its authors: the models *)
(* whose non-blank chunks it holds.                                        *)
(* The keys are abstracted to the set of those that the relay's query      *)
(* returns: enabled, and with a status other than "error".                 *)
(***************************************************************************)
EXTENDS RateLimit, Sequences, FiniteSets

CONSTANTS
    Relays, Models, Keys, Platforms,
    ModelPlatform,      \* [Models -> Platforms]
    KeyPlatform,        \* [Keys -> Platforms]
    Scope,              \* [Relays -> SUBSET Keys]: the owner's and the shared keys
    Registered,         \* platforms that provider_registry knows
    Orders,             \* the lists of large models that _get_ordered_models can return
    MaxIters,           \* DEEP_RESEARCH_MAX_ITERS, 12 in the code
    Budget,             \* DEEP_RESEARCH_BUDGET_S, 240 s
    Errors,             \* the errors met: <<kind, does the text speak of authentication>>
    MaxTime,            \* bound on the clock
    MaxEdits            \* bound on the changes to the keys from outside

ASSUME RelayAssumption ==
    /\ Keys # {}
    /\ ModelPlatform \in [Models -> Platforms]
    /\ KeyPlatform \in [Keys -> Platforms]
    /\ Scope \in [Relays -> SUBSET Keys]
    /\ Orders \subseteq Seq(Models)     \* rows of one query: no model twice
    /\ \A list \in Orders : \A i, j \in 1 .. Len(list) : list[i] = list[j] => i = j
    /\ MaxIters \in Nat
    /\ Budget \in Nat
    /\ Errors \subseteq ErrorKinds \X BOOLEAN
    /\ MaxTime \in Nat
    /\ MaxEdits \in Nat

VARIABLES
    now,        \* the monotonic clock
    cooldown,   \* _cooldowns
    failures,   \* _failure_counts
    live,       \* the keys that the relay's query returns
    relay,      \* the locals of each relay
    edits       \* how many times others have changed live or the cooldowns

vars == <<now, cooldown, failures, live, relay, edits>>

Pairs == Models \X Keys

(***************************************************************************)
(* The locals.  idx counts from 1.  produced says whether the segment has  *)
(* written text.  A relay that is "announcing" has chosen a model and a    *)
(* key and waits at the hand-off marker, which is no author's text.        *)
(***************************************************************************)
Locals ==
    [phase : {"new", "announcing", "writing", "done", "refused", "gone"},
     models : Seq(Models), idx : Nat, iters : Nat, deadline : Nat, key : Keys,
     skipModels : SUBSET Models, skipPlatforms : SUBSET Platforms,
     produced : BOOLEAN,
     authors : Seq(Models), used : Seq(Models)]

(* Every variable has a value of its type.                                 *)
TypeOK ==
    /\ now \in Nat
    /\ cooldown \in [Pairs -> Nat]
    /\ failures \in [Pairs -> Nat]
    /\ live \in SUBSET Keys
    /\ relay \in [Relays -> Locals]
    /\ edits \in Nat

Fresh ==
    [phase |-> "new", models |-> <<>>, idx |-> 1, iters |-> 0, deadline |-> 0,
     key |-> CHOOSE k \in Keys : TRUE, skipModels |-> {}, skipPlatforms |-> {},
     produced |-> FALSE, authors |-> <<>>, used |-> <<>>]

Init ==
    /\ now = 1
    /\ cooldown = [p \in Pairs |-> 0]
    /\ failures = [p \in Pairs |-> 0]
    /\ live \in SUBSET Keys
    /\ relay = [r \in Relays |-> Fresh]
    /\ edits = 0

-----------------------------------------------------------------------------
(***************************************************************************)
(* The choice of the next segment.  q is the relay's locals after its      *)
(* bookkeeping, cd the cooldowns at that moment.                           *)
(***************************************************************************)
Current(q) == q.models[q.idx]

(* Faulty variant: the cooldowns are not looked at.                        *)
ReadyKeysCooling(r, m, cd) == {k \in Scope[r] \cap live : KeyPlatform[k] = ModelPlatform[m]}

ReadyKeys(r, m, cd) ==
    {k \in Scope[r] \cap live :
        /\ KeyPlatform[k] = ModelPlatform[m]
        /\ ~OnCooldown(cd[<<m, k>>], now)}

(* Places from idx on whose platform has not been skipped.                 *)
Ahead(q) ==
    {i \in q.idx .. Len(q.models) :
        /\ q.models[i] \notin q.skipModels
        /\ ModelPlatform[q.models[i]] \notin q.skipPlatforms}

Eligible(r, q, cd) ==
    {i \in Ahead(q) :
        /\ ModelPlatform[q.models[i]] \in Registered
        /\ ReadyKeys(r, q.models[i], cd) # {}}

(* Appends m unless it is the last one already.                            *)
Joined(list, m) ==
    IF list # <<>> /\ list[Len(list)] = m THEN list ELSE Append(list, m)

(* Faulty variant: the model that goes on is announced, too.               *)
AnnouncesAny(q, m) == q.used # <<>>

(* The marker is sent when another model was credited last.                *)
Announces(q, m) == q.used # <<>> /\ q.used[Len(q.used)] # m

(* Where the coroutine waits once m is chosen.                             *)
Waiting(q, m) == IF Announces(q, m) THEN "announcing" ELSE "writing"

(* Faulty variant: the rounds are not counted.                             *)
ChooseUncounted(r, q, cd) ==
    /\ q.iters < MaxIters
    /\ now < q.deadline
    /\ \E i \in Eligible(r, q, cd) :
          /\ \A j \in Eligible(r, q, cd) : i <= j
          /\ \E k \in ReadyKeys(r, q.models[i], cd) :
                relay' = [relay EXCEPT ![r] =
                    [q EXCEPT !.phase = Waiting(q, q.models[i]), !.idx = i, !.key = k,
                              !.produced = FALSE]]

(* One more round of the loop: the first eligible model is chosen, with    *)
(* any of its ready keys (the query has no ORDER BY).  The models passed   *)
(* over are given up.  The call starts at once, or after the marker.       *)
Choose(r, q, cd) ==
    /\ q.iters < MaxIters
    /\ now < q.deadline
    /\ \E i \in Eligible(r, q, cd) :
          /\ \A j \in Eligible(r, q, cd) : i <= j
          /\ \E k \in ReadyKeys(r, q.models[i], cd) :
                relay' = [relay EXCEPT ![r] =
                    [q EXCEPT !.phase = Waiting(q, q.models[i]), !.idx = i, !.iters = @ + 1,
                              !.key = k,
                              !.skipModels = @ \cup {q.models[j] : j \in {x \in Ahead(q) : x < i}},
                              !.produced = FALSE]]

(* The generator's last event: the answer, with its footer, is complete.   *)
Close(r, q) == relay' = [relay EXCEPT ![r] = [q EXCEPT !.phase = "done"]]

(* The loop ends: too many rounds, the budget is spent, or no model left.  *)
Exhausted(r, q, cd) ==
    /\ \/ q.iters >= MaxIters
       \/ now >= q.deadline
       \/ Eligible(r, q, cd) = {}
    /\ Close(r, q)

Continue(r, q, cd) == Choose(r, q, cd) \/ Exhausted(r, q, cd)

-----------------------------------------------------------------------------
(* route_deep_research and route_deep_research_stream.                     *)
Start(r) ==
    /\ relay[r].phase = "new"
    /\ \E models \in Orders \ {<<>>} :
          Continue(r, [relay[r] EXCEPT !.models = models, !.deadline = now + Budget], cooldown)
    /\ UNCHANGED <<now, cooldown, failures, live, edits>>

(* DeepResearchUnavailableError: no large model at all.                    *)
Refuse(r) ==
    /\ relay[r].phase = "new"
    /\ <<>> \in Orders
    /\ relay' = [relay EXCEPT ![r].phase = "refused"]
    /\ UNCHANGED <<now, cooldown, failures, live, edits>>

(* The consumer has taken the hand-off marker and asks for more: the call  *)
(* starts with the model and the key chosen before, whatever has become of *)
(* them and of the deadline.  route_deep_research asks at once; a stream   *)
(* waits for its client.                                                   *)
Resume(r) ==
    /\ relay[r].phase = "announcing"
    /\ relay' = [relay EXCEPT ![r].phase = "writing"]
    /\ UNCHANGED <<now, cooldown, failures, live, edits>>

(* A non-blank chunk reaches the client: no look at the deadline here.     *)
Chunk(r) ==
    /\ relay[r].phase = "writing"
    /\ relay' = [relay EXCEPT ![r].produced = TRUE,
                              ![r].authors = Joined(@, Current(relay[r]))]
    /\ UNCHANGED <<now, cooldown, failures, live, edits>>

Pair(r) == <<Current(relay[r]), relay[r].key>>

(* Faulty variant: the relay stays at the model.                           *)
StayAt(q) == q

(* The current model is given up.                                          *)
HandOver(q) == [q EXCEPT !.skipModels = @ \cup {Current(q)}, !.idx = @ + 1]

(* Faulty variant: a segment is credited before it is known to have text.  *)
CreditAlways(q) == [q EXCEPT !.used = Joined(@, Current(q))]

(* A segment that produced text is credited.                               *)
Credit(q) == IF q.produced THEN [q EXCEPT !.used = Joined(@, Current(q))] ELSE q

(* The stream of the provider ends: cut off at the token cap, or not.      *)
Finish(r, reason) ==
    LET q == Credit(relay[r])
    IN  /\ relay[r].phase = "writing"
        /\ failures' = [failures EXCEPT ![Pair(r)] = AfterSuccess(@)]
        /\ \/ ~q.produced /\ Continue(r, HandOver(q), cooldown)
           \/ q.produced /\ reason = "length" /\ Continue(r, q, cooldown)
           \/ q.produced /\ reason = "stop" /\ Close(r, q)
        /\ UNCHANGED <<now, cooldown, live, edits>>

(* A retryable error cools the pair down; if its text also speaks of       *)
(* authentication, the platform is skipped.                                *)
RetryableError(r, error) ==
    LET n == failures[Pair(r)] + 1
        q == HandOver(relay[r])
    IN  /\ relay[r].phase = "writing"
        /\ IsRetryable(error[1])
        /\ failures' = [failures EXCEPT ![Pair(r)] = n]
        /\ cooldown' = [cooldown EXCEPT ![Pair(r)] = now + CooldownFor(n)]
        /\ Continue(r, IF error[2]
                       THEN [q EXCEPT !.skipPlatforms =
                                         @ \cup {ModelPlatform[Current(relay[r])]}]
                       ELSE q,
                    cooldown')
        /\ UNCHANGED <<now, live, edits>>

(* Any other error, a stall among them ("stalled" is no retryable word).   *)
OtherError(r, error) ==
    /\ relay[r].phase = "writing"
    /\ ~IsRetryable(error[1])
    /\ Continue(r, HandOver(relay[r]), cooldown)
    /\ UNCHANGED <<now, cooldown, failures, live, edits>>

(* A segment is chosen or under way.                                       *)
Busy(r) == relay[r].phase \in {"announcing", "writing"}

(* The client goes away and the generator is closed where it waits.        *)
Cancel(r) ==
    /\ Busy(r)
    /\ relay' = [relay EXCEPT ![r].phase = "gone"]
    /\ UNCHANGED <<now, cooldown, failures, live, edits>>

Tick ==
    /\ now < MaxTime
    /\ now' = now + 1
    /\ UNCHANGED <<cooldown, failures, live, relay, edits>>

(* Users and other requests change which keys the query returns.           *)
KeyChanges(k) ==
    /\ edits < MaxEdits
    /\ edits' = edits + 1
    /\ live' = IF k \in live THEN live \ {k} ELSE live \cup {k}
    /\ UNCHANGED <<now, cooldown, failures, relay>>

(* A chat request fails with p: the cooldowns are the whole process's.     *)
OthersFail(p) ==
    LET n == failures[p] + 1
    IN  /\ edits < MaxEdits
        /\ edits' = edits + 1
        /\ failures' = [failures EXCEPT ![p] = n]
        /\ cooldown' = [cooldown EXCEPT ![p] = now + CooldownFor(n)]
        /\ UNCHANGED <<now, live, relay>>

SegmentEnds(r) ==
    \/ \E reason \in {"stop", "length"} : Finish(r, reason)
    \/ \E error \in Errors : RetryableError(r, error) \/ OtherError(r, error)

Next ==
    \/ \E r \in Relays : Start(r) \/ Refuse(r) \/ Resume(r) \/ Chunk(r) \/ SegmentEnds(r) \/ Cancel(r)
    \/ Tick
    \/ \E k \in Keys : KeyChanges(k)
    \/ \E p \in Pairs : OthersFail(p)

Spec == Init /\ [][Next]_vars

(* A stream ends, fails, or falls silent and is then cut off by the stall  *)
(* timeout; one that writes forever is the exception that is left out.  A  *)
(* client takes what it is sent, or leaves.                                *)
FairSpec == Spec /\ \A r \in Relays : WF_vars(SegmentEnds(r)) /\ WF_vars(Resume(r))

-----------------------------------------------------------------------------
(***************************************************************************)
(* Properties.                                                             *)
(***************************************************************************)

(* In this step r chooses the model and the key of a segment ...           *)
Chooses(r) == Busy(r)' /\ relay'[r].iters # relay[r].iters

(* ... or calls the provider.                                              *)
Calls(r) == relay'[r].phase = "writing" /\ (relay[r].phase = "writing" => Chooses(r))

(* The pair that r holds after this step is good to be called in it.       *)
PairIsReady(r) ==
    /\ relay'[r].key \in Scope[r] \cap live
    /\ ~OnCooldown(cooldown'[Pair(r)'], now)

(* A segment is chosen with a pair that is not cooling down and a key that *)
(* the account may use and that is live at that moment, also when the same *)
(* model merely goes on after its token cap: another relay may have cooled *)
(* the pair down in the meantime.  Nothing looks again between the choice  *)
(* and the call.  So a call with a pair that is no longer ready exists,    *)
(* but only behind a hand-off marker, for the pair chosen before it: the   *)
(* first segment and a model that goes on are called with a ready pair.    *)
SegmentUsesReadyKey ==
    [][\A r \in Relays :
         /\ Chooses(r) => PairIsReady(r)
         /\ Calls(r) /\ ~PairIsReady(r) =>
               LET q == relay[r]
               IN  /\ q.phase = "announcing"
                   /\ Pair(r)' = Pair(r)
                   /\ q.used # <<>> /\ q.used[Len(q.used)] # Current(q)]_vars

(* The footer is honest: whatever fails, and in whatever order relays take *)
(* turns, the models it names are distinct, come in the order of the list, *)
(* and each of them has text in the answer.  Every variable has its type.  *)
PlaceIn(q, m) == CHOOSE i \in 1 .. Len(q.models) : q.models[i] = m

FooterTruthful ==
    /\ TypeOK
    /\ \A r \in Relays :
        LET q == relay[r]
        IN  /\ \A i \in 1 .. Len(q.used) :
                  \E j \in 1 .. Len(q.authors) : q.authors[j] = q.used[i]
            /\ \A i, j \in 1 .. Len(q.used) :
                  i < j => PlaceIn(q, q.used[i]) < PlaceIn(q, q.used[j])

(* Every relay that has begun ends, however often the models are cut off,  *)
(* fail or write nothing, and although the clock may stand still: the      *)
(* rounds are counted.                                                     *)
EveryRelayEnds ==
    \A r \in Relays : Busy(r) ~> relay[r].phase \in {"done", "gone"}

(* The relay keeps the contract of module RelayContract.                   *)
Contract == INSTANCE RelayContract WITH
    MaxCalls <- MaxIters,
    state <- [r \in Relays |-> CASE relay[r].phase = "new" -> "new"
                                 [] Busy(r) -> "open"
                                 [] OTHER -> "closed"],
    place <- [r \in Relays |-> IF Busy(r) THEN relay[r].idx ELSE 0],
    calls <- [r \in Relays |-> relay[r].iters],
    credits <- [r \in Relays |-> [i \in 1 .. Len(relay[r].used) |->
                                     PlaceIn(relay[r], relay[r].used[i])]]

(* The steps of the contract: a bounded number of calls that only moves    *)
(* forward, no model called again after a failed segment, credit only for  *)
(* segments that produced text.                                            *)
KeepsContract == Contract!ContractSpec

(* What intellectual-routing/requirements.md says in 3.3: after an         *)
(* authentication error the relay "SHALL skip the entire platform for the  *)
(* remainder of the Relay, not just the one model".  Stated for a segment  *)
(* that had written text and for a run where this is the only error: such  *)
(* a step is no other step of the relay.                                   *)
AuthSkipsPlatform ==
    [][\A r \in Relays :
         /\ relay[r].phase = "writing" /\ relay[r].produced
         /\ \E error \in Errors : error[1] = "auth" /\ OtherError(r, error)
         => ModelPlatform[Current(relay[r])] \in relay'[r].skipPlatforms]_vars

=============================================================================
