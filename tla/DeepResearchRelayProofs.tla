------------------------ MODULE DeepResearchRelayProofs ------------------------
(***************************************************************************)
(* Proofs about DeepResearchRelay, for every set of relays, models, keys   *)
(* and platforms, every list of models and every limit.                    *)
(***************************************************************************)
EXTENDS DeepResearchRelay, SequenceTheorems, TLAPS

-----------------------------------------------------------------------------
(***************************************************************************)
(* The inductive invariant.                                                *)
(***************************************************************************)

(* No model is twice in the list of a relay.                               *)
Distinct(q) == \A i, j \in 1 .. Len(q.models) : q.models[i] = q.models[j] => i = j

(* The models credited so far are authors and stand in the list no further *)
(* than place, in the order in which they were credited.                   *)
Footer(q, place) ==
    /\ \A i \in 1 .. Len(q.used) :
          /\ \E j \in 1 .. Len(q.authors) : q.authors[j] = q.used[i]
          /\ \E p \in 1 .. Len(q.models) : p <= place /\ q.models[p] = q.used[i]
    /\ \A i, j \in 1 .. Len(q.used) :
          i < j => PlaceIn(q, q.used[i]) < PlaceIn(q, q.used[j])

(* A segment that has produced text has its model among the authors.       *)
WritingOK(q) ==
    /\ q.idx \in 1 .. Len(q.models)
    /\ q.produced => \E j \in 1 .. Len(q.authors) : q.authors[j] = Current(q)

(* A segment is chosen or under way.                                       *)
Called(q) == q.phase \in {"announcing", "writing"}

RelayOK(q) ==
    /\ Distinct(q)
    /\ q.phase = "new" => q.used = <<>> /\ q.idx = 1
    /\ q.phase = "announcing" => Announces(q, Current(q))
    /\ Called(q) => WritingOK(q) /\ Footer(q, q.idx)
    /\ Footer(q, Len(q.models))

IInv == TypeOK /\ \A r \in Relays : RelayOK(relay[r])

(* What a relay's loop is continued with.                                  *)
Resumes(q) ==
    /\ q \in Locals
    /\ q.idx >= 1
    /\ Distinct(q)
    /\ Footer(q, q.idx)
    /\ Footer(q, Len(q.models))

(* What the loop does with it: the next segment, further on or at the same *)
(* place, with a key that is ready, or the end of the answer.              *)
NextSegment(r, q, q2, cd) ==
    /\ Called(q2)
    /\ q2.phase = "announcing" => Announces(q, Current(q2))
    /\ ~q2.produced
    /\ q.iters < MaxIters
    /\ q2.iters = q.iters + 1
    /\ q2.idx \in q.idx .. Len(q.models)
    /\ q2.key \in ReadyKeys(r, Current(q2), cd)

Closes(q, q2) == q2.phase = "done" /\ q2.iters = q.iters

GoesOn(r, q, q2, cd) ==
    /\ q2 \in Locals
    /\ q2.models = q.models
    /\ q2.used = q.used
    /\ q2.authors = q.authors
    /\ NextSegment(r, q, q2, cd) \/ Closes(q, q2)

(* The assumptions on the constants, in the form the proofs use them.      *)
LEMMA ConstantTypes ==
    /\ Keys # {}
    /\ ModelPlatform \in [Models -> Platforms]
    /\ Scope \in [Relays -> SUBSET Keys]
    /\ Orders \subseteq Seq(Models)
    /\ \A list \in Orders : \A i, j \in 1 .. Len(list) : list[i] = list[j] => i = j
    /\ MaxIters \in Nat
    /\ Budget \in Nat
    /\ \A n : CooldownFor(n) \in Nat
  BY RelayAssumption, CooldownAssumption DEF CooldownFor

-----------------------------------------------------------------------------
(***************************************************************************)
(* Places and credits.                                                     *)
(***************************************************************************)
LEMMA PlaceOf ==
    ASSUME NEW q \in Locals, Distinct(q), NEW p \in 1 .. Len(q.models)
    PROVE  PlaceIn(q, q.models[p]) = p
  BY DEF PlaceIn, Distinct

LEMMA FooterReaches ==
    ASSUME NEW q \in Locals, NEW place \in Int, NEW further \in Int, place <= further,
           Footer(q, place)
    PROVE  Footer(q, further)
<1>1. \A i \in 1 .. Len(q.used) :
         \E p \in 1 .. Len(q.models) : p <= further /\ q.models[p] = q.used[i]
  <2> SUFFICES ASSUME NEW i \in 1 .. Len(q.used)
               PROVE  \E p \in 1 .. Len(q.models) : p <= further /\ q.models[p] = q.used[i]
    OBVIOUS
  <2>1. PICK p \in 1 .. Len(q.models) : p <= place /\ q.models[p] = q.used[i]
    BY DEF Footer
  <2>2. p <= further
    BY <2>1
  <2> QED
    BY <2>1, <2>2
<1> QED
  BY <1>1 DEF Footer

(* Whatever has the same list, the same credits and all the authors has    *)
(* the same footer.                                                        *)
LEMMA FooterCopied ==
    ASSUME NEW q, NEW q2, NEW place,
           q2.models = q.models, q2.used = q.used,
           \A j \in 1 .. Len(q.authors) : \E k \in 1 .. Len(q2.authors) :
               q2.authors[k] = q.authors[j],
           Footer(q, place)
    PROVE  Footer(q2, place)
<1>1. \A m : PlaceIn(q2, m) = PlaceIn(q, m)
  BY DEF PlaceIn
<1>2. \A i \in 1 .. Len(q.used) : \E j \in 1 .. Len(q2.authors) : q2.authors[j] = q.used[i]
  BY DEF Footer
<1> QED
  BY <1>1, <1>2 DEF Footer

(* The credits as the contract sees them.                                  *)
Places(q) == [i \in 1 .. Len(q.used) |-> PlaceIn(q, q.used[i])]

LEMMA JoinedType ==
    ASSUME NEW list \in Seq(Models), NEW m \in Models
    PROVE  /\ Joined(list, m) \in Seq(Models)
           /\ \E j \in 1 .. Len(Joined(list, m)) : Joined(list, m)[j] = m
           /\ \A i \in 1 .. Len(list) : \E j \in 1 .. Len(Joined(list, m)) :
                 Joined(list, m)[j] = list[i]
<1>1. CASE list # <<>> /\ list[Len(list)] = m
  <2>1. Joined(list, m) = list /\ Len(list) \in 1 .. Len(list)
    BY <1>1 DEF Joined
  <2> QED
    BY <1>1, <2>1
<1>2. CASE ~(list # <<>> /\ list[Len(list)] = m)
  <2>1. Joined(list, m) = Append(list, m)
    BY <1>2 DEF Joined
  <2>2. /\ Append(list, m) \in Seq(Models)
        /\ Len(Append(list, m)) = Len(list) + 1
        /\ Append(list, m)[Len(list) + 1] = m
        /\ \A i \in 1 .. Len(list) : Append(list, m)[i] = list[i]
        /\ Len(list) \in Nat
    OBVIOUS
  <2>3. Len(list) + 1 \in 1 .. Len(Append(list, m))
        /\ \A i \in 1 .. Len(list) : i \in 1 .. Len(Append(list, m))
    BY <2>2
  <2> HIDE <1>2
  <2> QED
    BY <2>1, <2>2, <2>3
<1> QED
  BY <1>1, <1>2

(* A segment's credit keeps the footer in order, as the segment is no      *)
(* further back than what was credited before, and counts for the contract *)
(* as the credit of its place.                                             *)
LEMMA CreditKeepsFooter ==
    ASSUME NEW q \in Locals, Distinct(q), WritingOK(q), Footer(q, q.idx), q.produced
    PROVE  /\ Credit(q) = [q EXCEPT !.used = Joined(@, Current(q))]
           /\ Credit(q) \in Locals
           /\ Footer(Credit(q), q.idx)
           /\ Places(Credit(q)) = Contract!Credited(Places(q), q.idx)
<1> DEFINE m == Current(q)
           q2 == [q EXCEPT !.used = Joined(@, m)]
<1>1. /\ q.models \in Seq(Models) /\ q.used \in Seq(Models) /\ q.authors \in Seq(Models)
      /\ q.idx \in 1 .. Len(q.models) /\ m \in Models /\ m = q.models[q.idx]
  BY DEF Locals, WritingOK, Current
<1>2. Credit(q) = q2 /\ Credit(q) = [q EXCEPT !.used = Joined(@, Current(q))]
  BY DEF Credit
<1>3. Joined(q.used, m) \in Seq(Models)
  BY <1>1, JoinedType
<1>4. q2 \in Locals
  BY <1>3 DEF Locals
<1>5. /\ q2.used = Joined(q.used, m) /\ q2.models = q.models /\ q2.authors = q.authors
  BY DEF Locals
<1> HIDE DEF q2
<1>6. \A x : PlaceIn(q2, x) = PlaceIn(q, x)
  BY <1>5 DEF PlaceIn
<1>7. PlaceIn(q, m) = q.idx
  BY <1>1, PlaceOf
<1>8. CASE q.used # <<>> /\ q.used[Len(q.used)] = m
  <2>1. q2.used = q.used
    BY <1>5, <1>8 DEF Joined
  <2>2. Footer(q2, q.idx)
    BY <1>5, <2>1, FooterCopied
  <2>3. Places(q2) = Places(q)
    BY <1>6, <2>1 DEF Places
  <2>4. Len(q.used) \in 1 .. Len(q.used) /\ Len(Places(q)) = Len(q.used) /\ Places(q) # <<>>
    BY <1>1, <1>8 DEF Places
  <2>5. Places(q)[Len(Places(q))] = q.idx
    BY <1>7, <1>8, <2>4 DEF Places
  <2> QED
    BY <1>2, <1>4, <2>2, <2>3, <2>4, <2>5 DEF Contract!Credited
<1>9. CASE ~(q.used # <<>> /\ q.used[Len(q.used)] = m)
  <2>1. q2.used = Append(q.used, m)
    BY <1>5, <1>9 DEF Joined
  <2>2. /\ Len(q2.used) = Len(q.used) + 1 /\ Len(q.used) \in Nat
        /\ \A i \in 1 .. Len(q.used) : q2.used[i] = q.used[i]
        /\ q2.used[Len(q.used) + 1] = m
    BY <1>1, <2>1
  <2>3. \A i \in 1 .. Len(q.used) :
           PlaceIn(q, q.used[i]) \in 1 .. q.idx /\ q.models[PlaceIn(q, q.used[i])] = q.used[i]
    BY <1>1, PlaceOf DEF Footer
  <2>4. q.used # <<>> => PlaceIn(q, q.used[Len(q.used)]) < q.idx
    <3> SUFFICES ASSUME q.used # <<>> PROVE PlaceIn(q, q.used[Len(q.used)]) < q.idx
      OBVIOUS
    <3>1. Len(q.used) \in 1 .. Len(q.used)
      BY <1>1
    <3>2. PlaceIn(q, q.used[Len(q.used)]) # q.idx
      BY <1>1, <1>9, <2>3, <3>1
    <3> QED
      BY <1>1, <2>3, <3>1, <3>2
  <2>5. \A i \in 1 .. Len(q.used) : PlaceIn(q, q.used[i]) < q.idx
    <3> SUFFICES ASSUME NEW i \in 1 .. Len(q.used) PROVE PlaceIn(q, q.used[i]) < q.idx
      OBVIOUS
    <3>1. q.used # <<>> /\ Len(q.used) \in 1 .. Len(q.used)
      BY <1>1
    <3>2. CASE i = Len(q.used)
      BY <2>4, <3>1, <3>2
    <3>3. CASE i # Len(q.used)
      <4>1. PlaceIn(q, q.used[i]) < PlaceIn(q, q.used[Len(q.used)])
        BY <3>1, <3>3 DEF Footer
      <4> QED
        BY <1>1, <2>3, <2>4, <3>1, <4>1
    <3> QED
      BY <3>2, <3>3
  <2>6. Footer(q2, q.idx)
    <3>1. ASSUME NEW i \in 1 .. Len(q2.used)
          PROVE  /\ \E j \in 1 .. Len(q2.authors) : q2.authors[j] = q2.used[i]
                 /\ \E p \in 1 .. Len(q2.models) : p <= q.idx /\ q2.models[p] = q2.used[i]
      <4>1. CASE i = Len(q.used) + 1
        BY <1>1, <1>5, <2>2, <4>1 DEF WritingOK
      <4>2. CASE i # Len(q.used) + 1
        <5>1. i \in 1 .. Len(q.used)
          BY <2>2, <4>2
        <5> QED
          BY <1>5, <2>2, <5>1 DEF Footer
      <4> QED
        BY <4>1, <4>2
    <3>2. ASSUME NEW i \in 1 .. Len(q2.used), NEW j \in 1 .. Len(q2.used), i < j
          PROVE  PlaceIn(q2, q2.used[i]) < PlaceIn(q2, q2.used[j])
      <4>1. i \in 1 .. Len(q.used)
        BY <2>2, <3>2
      <4>2. CASE j = Len(q.used) + 1
        BY <1>6, <1>7, <2>2, <2>5, <4>1, <4>2
      <4>3. CASE j # Len(q.used) + 1
        <5>1. j \in 1 .. Len(q.used)
          BY <2>2, <4>3
        <5>2. PlaceIn(q, q.used[i]) < PlaceIn(q, q.used[j])
          BY <3>2, <4>1, <5>1 DEF Footer
        <5> QED
          BY <1>6, <2>2, <4>1, <5>1, <5>2
      <4> QED
        BY <4>2, <4>3
    <3> QED
      BY <3>1, <3>2 DEF Footer
  <2>7. Places(q2) = Append(Places(q), q.idx)
    <3>1. Len(Places(q)) = Len(q.used) /\ Places(q) \in Seq(Int)
      BY <2>2, <2>3 DEF Places
    <3>2. ASSUME NEW i \in 1 .. Len(q.used) + 1
          PROVE  Places(q2)[i] = Append(Places(q), q.idx)[i]
      <4>1. CASE i = Len(q.used) + 1
        BY <1>1, <1>6, <1>7, <2>2, <3>1, <4>1 DEF Places
      <4>2. CASE i # Len(q.used) + 1
        <5>1. i \in 1 .. Len(q.used)
          BY <2>2, <4>2
        <5> QED
          BY <1>6, <2>2, <3>1, <5>1 DEF Places
      <4> QED
        BY <4>1, <4>2
    <3>3. /\ Places(q2) = [i \in 1 .. Len(q.used) + 1 |-> Places(q2)[i]]
          /\ Append(Places(q), q.idx) = [i \in 1 .. Len(q.used) + 1 |-> Append(Places(q), q.idx)[i]]
      <4>1. Places(q2) = [i \in 1 .. Len(q.used) + 1 |-> Places(q2)[i]]
        BY <2>2 DEF Places
      <4>2. Append(Places(q), q.idx) \in Seq(Int) /\ Len(Append(Places(q), q.idx)) = Len(q.used) + 1
        BY <1>1, <3>1
      <4> QED
        BY <4>1, <4>2
    <3> QED
      BY <3>2, <3>3
  <2>8. ~(Places(q) # <<>> /\ Places(q)[Len(Places(q))] = q.idx)
    <3>1. Len(Places(q)) = Len(q.used)
      BY <2>2 DEF Places
    <3>2. Places(q) # <<>> => q.used # <<>> /\ Len(q.used) \in 1 .. Len(q.used)
      BY <1>1, <3>1 DEF Places
    <3>3. Places(q) # <<>> => Places(q)[Len(Places(q))] < q.idx
      BY <2>4, <3>1, <3>2 DEF Places
    <3> QED
      BY <1>1, <3>2, <3>3, <2>5, <3>1 DEF Places
  <2> QED
    BY <1>2, <1>4, <2>6, <2>7, <2>8 DEF Contract!Credited
<1> QED
  BY <1>2, <1>8, <1>9

-----------------------------------------------------------------------------
(***************************************************************************)
(* The loop of the relay.                                                  *)
(***************************************************************************)

(* Giving up the current model changes nothing of the footer.              *)
LEMMA HandOverResumes ==
    ASSUME NEW q \in Locals, Distinct(q), WritingOK(q),
           Footer(q, q.idx), Footer(q, Len(q.models))
    PROVE  /\ Resumes(HandOver(q))
           /\ HandOver(q).models = q.models /\ HandOver(q).used = q.used
           /\ HandOver(q).authors = q.authors /\ HandOver(q).iters = q.iters
           /\ HandOver(q).idx = q.idx + 1
<1> DEFINE q2 == HandOver(q)
<1>1. q.models \in Seq(Models) /\ q.idx \in 1 .. Len(q.models) /\ Current(q) \in Models
  BY DEF Locals, WritingOK, Current
<1>2. q2 = [q EXCEPT !.skipModels = @ \cup {Current(q)}, !.idx = @ + 1]
  BY DEF HandOver
<1>3. q2 \in Locals
  <2>1. q.skipModels \cup {Current(q)} \in SUBSET Models /\ q.idx + 1 \in Nat
    BY <1>1 DEF Locals
  <2> QED
    BY <1>2, <2>1 DEF Locals
<1>4. /\ q2.models = q.models /\ q2.used = q.used /\ q2.authors = q.authors
      /\ q2.iters = q.iters /\ q2.idx = q.idx + 1
  BY <1>2 DEF Locals
<1> HIDE DEF q2
<1>5. Footer(q, q.idx + 1)
  BY <1>1, FooterReaches
<1>6. Footer(q2, q.idx + 1) /\ Footer(q2, Len(q.models))
  BY <1>4, <1>5, FooterCopied
<1>7. Distinct(q2)
  BY <1>4 DEF Distinct
<1>8. Resumes(q2)
  BY <1>1, <1>3, <1>4, <1>6, <1>7 DEF Resumes
<1> QED
  BY <1>4, <1>8 DEF q2

LEMMA ContinueGoesOn ==
    ASSUME NEW r \in Relays, NEW q, NEW cd, Resumes(q), Continue(r, q, cd)
    PROVE  \E q2 : relay' = [relay EXCEPT ![r] = q2] /\ GoesOn(r, q, q2, cd)
<1>0. q \in Locals /\ q.idx >= 1
  BY DEF Resumes
<1>1. CASE Choose(r, q, cd)
  <2>1. PICK i \in Eligible(r, q, cd) : \E k \in ReadyKeys(r, q.models[i], cd) :
          relay' = [relay EXCEPT ![r] =
              [q EXCEPT !.phase = Waiting(q, q.models[i]), !.idx = i, !.iters = @ + 1, !.key = k,
                        !.skipModels = @ \cup {q.models[j] : j \in {x \in Ahead(q) : x < i}},
                        !.produced = FALSE]]
    BY <1>1 DEF Choose
  <2>2. PICK k \in ReadyKeys(r, q.models[i], cd) :
          relay' = [relay EXCEPT ![r] =
              [q EXCEPT !.phase = Waiting(q, q.models[i]), !.idx = i, !.iters = @ + 1, !.key = k,
                        !.skipModels = @ \cup {q.models[j] : j \in {x \in Ahead(q) : x < i}},
                        !.produced = FALSE]]
    BY <2>1
  <2> DEFINE passed == {q.models[j] : j \in {x \in Ahead(q) : x < i}}
             q2 == [q EXCEPT !.phase = Waiting(q, q.models[i]), !.idx = i, !.iters = @ + 1, !.key = k,
                             !.skipModels = @ \cup passed, !.produced = FALSE]
  <2>3. i \in q.idx .. Len(q.models) /\ i \in Nat /\ q.iters < MaxIters
    BY <1>0, <1>1, <2>1 DEF Choose, Eligible, Ahead, Locals
  <2>4. k \in Keys
    BY <2>2, ConstantTypes DEF ReadyKeys
  <2>5. passed \subseteq Models
    <3>1. \A j \in Ahead(q) : j \in 1 .. Len(q.models)
      BY <1>0 DEF Ahead, Locals
    <3> QED
      BY <1>0, <3>1 DEF Locals
  <2> HIDE DEF passed
  <2>6. q2 \in Locals
    <3>1. q.skipModels \cup passed \in SUBSET Models /\ q.iters + 1 \in Nat
      BY <1>0, <2>5 DEF Locals
    <3>2. Waiting(q, q.models[i]) \in {"announcing", "writing"}
      BY DEF Waiting
    <3> QED
      BY <1>0, <2>3, <2>4, <3>1, <3>2 DEF Locals
  <2>7. /\ q2.phase = Waiting(q, q.models[i]) /\ q2.idx = i /\ q2.iters = q.iters + 1 /\ q2.key = k
        /\ q2.produced = FALSE /\ q2.models = q.models /\ q2.used = q.used
        /\ q2.authors = q.authors
    BY <1>0 DEF Locals
  <2>8. relay' = [relay EXCEPT ![r] = q2]
    BY <2>2 DEF passed
  <2> HIDE DEF q2
  <2>9. NextSegment(r, q, q2, cd)
    BY <2>2, <2>3, <2>7 DEF NextSegment, Current, Called, Waiting
  <2> QED
    BY <2>6, <2>7, <2>8, <2>9 DEF GoesOn
<1>2. CASE Exhausted(r, q, cd)
  <2> DEFINE q2 == [q EXCEPT !.phase = "done"]
  <2>1. relay' = [relay EXCEPT ![r] = q2]
    BY <1>2 DEF Exhausted, Close
  <2>2. GoesOn(r, q, q2, cd)
    BY <1>0 DEF GoesOn, Closes, Locals
  <2> QED
    BY <2>1, <2>2
<1> QED
  BY <1>1, <1>2 DEF Continue

(* The locals that the loop leaves behind are as they should be.           *)
LEMMA GoesOnOK ==
    ASSUME NEW r, NEW q, NEW q2, NEW cd, Resumes(q), GoesOn(r, q, q2, cd)
    PROVE  RelayOK(q2)
<1>1. /\ q \in Locals /\ q2 \in Locals
      /\ q2.models = q.models /\ q2.used = q.used /\ q2.authors = q.authors
      /\ q.idx >= 1 /\ q.idx \in Nat
  BY DEF Resumes, GoesOn, Locals
<1>2. Distinct(q2)
  BY <1>1 DEF Resumes, Distinct
<1>3. Footer(q2, Len(q2.models)) /\ Footer(q2, q.idx)
  BY <1>1, FooterCopied DEF Resumes
<1>4. ASSUME Called(q2)
      PROVE  WritingOK(q2) /\ Footer(q2, q2.idx)
  <2>1. q2.idx \in q.idx .. Len(q2.models) /\ ~q2.produced
    BY <1>1, <1>4 DEF GoesOn, NextSegment, Closes, Called
  <2>2. WritingOK(q2)
    BY <1>1, <2>1 DEF WritingOK
  <2> QED
    BY <1>1, <1>3, <2>1, <2>2, FooterReaches
<1>5. q2.phase # "new"
  BY DEF GoesOn, NextSegment, Closes, Called
<1>6. q2.phase = "announcing" => Announces(q2, Current(q2))
  BY <1>1 DEF GoesOn, NextSegment, Closes, Announces
<1> QED
  BY <1>2, <1>3, <1>4, <1>5, <1>6 DEF RelayOK

-----------------------------------------------------------------------------
(***************************************************************************)
(* What a step of relay r does, q and q2 being its locals before and after *)
(* it: nothing that the contract sees, or a new call or the end.           *)
(***************************************************************************)
Stays(q, q2) ==
    /\ q2.phase = q.phase \/ (q.phase = "announcing" /\ q2.phase = "writing" /\ q2.key = q.key
                              /\ Current(q2) = Current(q))
    /\ q2.idx = q.idx /\ q2.iters = q.iters
    /\ Places(q2) = Places(q)

CallsOrEnds(q, q2) ==
    \/ Called(q2) /\ q.iters < MaxIters /\ q2.iters = q.iters + 1
    \/ q2.phase \in {"done", "refused", "gone"} /\ q2.iters = q.iters

Opens(q, q2) ==
    /\ q.phase = "new"
    /\ CallsOrEnds(q, q2)
    /\ Places(q2) = Places(q)

Fails(q, q2) ==
    /\ Called(q)
    /\ CallsOrEnds(q, q2)
    /\ Called(q2) => q2.idx > q.idx
    /\ Places(q2) = Places(q)

Succeeds(q, q2) ==
    /\ q.phase = "writing"
    /\ CallsOrEnds(q, q2)
    /\ Called(q2) => q2.idx >= q.idx
    /\ Places(q2) = Contract!Credited(Places(q), q.idx)

(* A segment is chosen with a key that is ready.                           *)
KeyReady(r, q, q2) ==
    Called(q2) /\ q2.iters # q.iters =>
        /\ q2.key \in Scope[r] \cap live
        /\ ~OnCooldown(cooldown'[<<Current(q2), q2.key>>], now)

Effect(r) ==
    \E q2 \in Locals :
        /\ relay' = [relay EXCEPT ![r] = q2]
        /\ RelayOK(q2)
        /\ KeyReady(r, relay[r], q2)
        /\ \/ Stays(relay[r], q2)
           \/ Opens(relay[r], q2)
           \/ Fails(relay[r], q2)
           \/ Succeeds(relay[r], q2)

LEMMA GoesOnCalls ==
    ASSUME NEW r, NEW q, NEW q2, NEW cd, GoesOn(r, q, q2, cd)
    PROVE  /\ CallsOrEnds(q, q2)
           /\ Called(q2) => q2.idx >= q.idx
           /\ Places(q2) = Places(q)
           /\ cd = cooldown' => KeyReady(r, q, q2)
<1>1. CallsOrEnds(q, q2) /\ (Called(q2) => q2.idx >= q.idx)
  BY DEF GoesOn, NextSegment, Closes, CallsOrEnds, Called
<1>2. Places(q2) = Places(q)
  BY DEF GoesOn, Places, PlaceIn
<1>3. cd = cooldown' => KeyReady(r, q, q2)
  BY DEF GoesOn, NextSegment, Closes, KeyReady, ReadyKeys, Called
<1> QED
  BY <1>1, <1>2, <1>3

LEMMA StartEffect ==
    ASSUME NEW r \in Relays, IInv, Start(r)
    PROVE  Effect(r)
<1> DEFINE old == relay[r]
<1>1. old \in Locals /\ RelayOK(old) /\ old.phase = "new" /\ now \in Nat
  BY DEF IInv, TypeOK, Start
<1>2. PICK models \in Orders \ {<<>>} :
        Continue(r, [old EXCEPT !.models = models, !.deadline = now + Budget], cooldown)
  BY DEF Start
<1> DEFINE q == [old EXCEPT !.models = models, !.deadline = now + Budget]
<1>3. models \in Seq(Models) /\ now + Budget \in Nat
  BY <1>1, ConstantTypes
<1>4. q \in Locals
  BY <1>1, <1>3 DEF Locals
<1>5. q.models = models /\ q.used = old.used /\ q.idx = old.idx /\ q.iters = old.iters
  BY <1>1 DEF Locals
<1>6. old.used = <<>> /\ old.idx = 1
  BY <1>1 DEF RelayOK
<1> HIDE DEF q
<1>7. Resumes(q)
  BY <1>4, <1>5, <1>6, ConstantTypes DEF Resumes, Distinct, Footer
<1>8. PICK q2 : relay' = [relay EXCEPT ![r] = q2] /\ GoesOn(r, q, q2, cooldown)
  BY <1>2, <1>7, ContinueGoesOn DEF q
<1>9. RelayOK(q2) /\ q2 \in Locals
  BY <1>7, <1>8, GoesOnOK DEF GoesOn
<1>10. /\ CallsOrEnds(q, q2)
       /\ Places(q2) = Places(q)
       /\ KeyReady(r, q, q2)
  BY <1>8, GoesOnCalls DEF Start
<1>11. Places(q) = Places(old)
  BY <1>5, <1>6 DEF Places
<1>12. Opens(old, q2)
  BY <1>1, <1>5, <1>10, <1>11 DEF Opens, CallsOrEnds
<1>13. KeyReady(r, old, q2)
  BY <1>5, <1>10 DEF KeyReady
<1> QED
  BY <1>8, <1>9, <1>12, <1>13 DEF Effect

(* The model of the segment is given up and the loop goes on from q, whose *)
(* platforms may be skipped.                                               *)
LEMMA FailureEffect ==
    ASSUME NEW r \in Relays, IInv, relay[r].phase = "writing",
           NEW platforms \in SUBSET Platforms,
           Continue(r, [HandOver(relay[r]) EXCEPT !.skipPlatforms = @ \cup platforms], cooldown')
    PROVE  Effect(r)
<1> DEFINE old == relay[r]
           hand == HandOver(old)
           q == [hand EXCEPT !.skipPlatforms = @ \cup platforms]
<1>1. /\ old \in Locals /\ Distinct(old) /\ WritingOK(old)
      /\ Footer(old, old.idx) /\ Footer(old, Len(old.models))
  BY DEF IInv, TypeOK, RelayOK, Called
<1>2. /\ Resumes(hand) /\ hand.models = old.models /\ hand.used = old.used
      /\ hand.authors = old.authors /\ hand.iters = old.iters /\ hand.idx = old.idx + 1
  BY <1>1, HandOverResumes
<1> HIDE DEF hand
<1>3. hand \in Locals
  BY <1>2 DEF Resumes
<1>4. q \in Locals
  BY <1>3 DEF Locals
<1>5. /\ q.models = old.models /\ q.used = old.used /\ q.authors = old.authors
      /\ q.iters = old.iters /\ q.idx = old.idx + 1
      /\ q.models = hand.models /\ q.used = hand.used /\ q.authors = hand.authors
      /\ q.idx = hand.idx
  BY <1>2, <1>3 DEF Locals
<1>6. Continue(r, q, cooldown')
  BY DEF hand
<1> HIDE DEF q
<1>7. Resumes(q)
  BY <1>2, <1>4, <1>5, FooterCopied DEF Resumes, Distinct
<1>8. PICK q2 : relay' = [relay EXCEPT ![r] = q2] /\ GoesOn(r, q, q2, cooldown')
  BY <1>6, <1>7, ContinueGoesOn
<1>9. RelayOK(q2) /\ q2 \in Locals
  BY <1>7, <1>8, GoesOnOK DEF GoesOn
<1>10. /\ CallsOrEnds(q, q2)
       /\ Called(q2) => q2.idx >= q.idx
       /\ Places(q2) = Places(q)
       /\ KeyReady(r, q, q2)
  BY <1>8, GoesOnCalls
<1>11. Places(q) = Places(old)
  BY <1>5 DEF Places, PlaceIn
<1>12. old.idx \in Nat /\ q2.idx \in Nat
  BY <1>1, <1>9 DEF Locals
<1>13. Fails(old, q2)
  BY <1>5, <1>10, <1>11, <1>12 DEF Fails, CallsOrEnds, Called
<1>14. KeyReady(r, old, q2)
  BY <1>5, <1>10 DEF KeyReady
<1> QED
  BY <1>8, <1>9, <1>13, <1>14 DEF Effect

LEMMA FinishEffect ==
    ASSUME NEW r \in Relays, NEW reason, IInv, Finish(r, reason)
    PROVE  Effect(r)
<1> DEFINE old == relay[r]
           q == Credit(old)
<1>1. /\ old \in Locals /\ Distinct(old) /\ WritingOK(old) /\ old.phase = "writing"
      /\ Footer(old, old.idx) /\ Footer(old, Len(old.models)) /\ cooldown' = cooldown
  BY DEF IInv, TypeOK, RelayOK, Finish, Called
<1>2. CASE ~old.produced
  <2>1. q = old
    BY <1>2 DEF Credit
  <2>2. ~q.produced /\ Continue(r, HandOver(q), cooldown)
    BY <1>2, <2>1 DEF Finish
  <2>3. Continue(r, HandOver(old), cooldown')
    BY <1>1, <2>1, <2>2
  <2>4. HandOver(old) = [HandOver(old) EXCEPT !.skipPlatforms = @ \cup {}]
    <3>1. HandOver(old) \in Locals
      BY <1>1, HandOverResumes DEF Resumes
    <3> QED
      BY <3>1 DEF Locals
  <2>5. Continue(r, [HandOver(old) EXCEPT !.skipPlatforms = @ \cup {}], cooldown')
    BY <2>3, <2>4
  <2>6. {} \in SUBSET Platforms
    OBVIOUS
  <2> QED
    BY <1>1, <2>5, <2>6, FailureEffect
<1>3. CASE old.produced
  <2>1. /\ q = [old EXCEPT !.used = Joined(@, Current(old))]
        /\ q \in Locals
        /\ Footer(q, old.idx)
        /\ Places(q) = Contract!Credited(Places(old), old.idx)
    BY <1>1, <1>3, CreditKeepsFooter
  <2>2. /\ q.models = old.models /\ q.authors = old.authors /\ q.iters = old.iters
        /\ q.idx = old.idx /\ q.produced = old.produced /\ q.phase = old.phase
    BY <1>1, <2>1 DEF Locals
  <2>3. \/ Continue(r, q, cooldown)
        \/ Close(r, q)
    BY <1>3, <2>2 DEF Finish
  <2> HIDE DEF q
  <2>4. old.idx \in 1 .. Len(old.models) /\ Len(old.models) \in Nat
    BY <1>1 DEF WritingOK, Locals
  <2>5. Footer(q, Len(q.models))
    BY <2>1, <2>2, <2>4, FooterReaches
  <2>6. Resumes(q)
    BY <1>1, <2>1, <2>2, <2>4, <2>5 DEF Resumes, Distinct
  <2>7. CASE Continue(r, q, cooldown)
    <3>1. PICK q2 : relay' = [relay EXCEPT ![r] = q2] /\ GoesOn(r, q, q2, cooldown)
      BY <2>6, <2>7, ContinueGoesOn
    <3>2. RelayOK(q2) /\ q2 \in Locals
      BY <2>6, <3>1, GoesOnOK DEF GoesOn
    <3>3. /\ CallsOrEnds(q, q2)
          /\ Called(q2) => q2.idx >= q.idx
          /\ Places(q2) = Places(q)
          /\ KeyReady(r, q, q2)
      BY <1>1, <3>1, GoesOnCalls
    <3>4. Succeeds(old, q2) /\ KeyReady(r, old, q2)
      BY <1>1, <2>1, <2>2, <3>3 DEF Succeeds, CallsOrEnds, KeyReady
    <3> QED
      BY <3>1, <3>2, <3>4 DEF Effect
  <2>8. CASE Close(r, q)
    <3> DEFINE q2 == [q EXCEPT !.phase = "done"]
    <3>1. relay' = [relay EXCEPT ![r] = q2]
      BY <2>8 DEF Close
    <3>2. q2 \in Locals
      BY <2>1 DEF Locals
    <3>3. /\ q2.phase = "done" /\ q2.models = q.models /\ q2.used = q.used
          /\ q2.authors = q.authors /\ q2.iters = q.iters
      BY <2>1 DEF Locals
    <3> HIDE DEF q2
    <3>4. RelayOK(q2)
      BY <2>5, <2>6, <3>3, FooterCopied DEF RelayOK, Resumes, Distinct, Called
    <3>5. Places(q2) = Places(q)
      BY <3>3 DEF Places, PlaceIn
    <3>6. Succeeds(old, q2) /\ KeyReady(r, old, q2)
      BY <1>1, <2>1, <2>2, <3>3, <3>5 DEF Succeeds, CallsOrEnds, KeyReady, Called
    <3> QED
      BY <3>1, <3>2, <3>4, <3>6 DEF Effect
  <2> QED
    BY <2>3, <2>7, <2>8
<1> QED
  BY <1>2, <1>3

LEMMA ErrorEffect ==
    ASSUME NEW r \in Relays, NEW error, IInv, RetryableError(r, error) \/ OtherError(r, error)
    PROVE  Effect(r)
<1> DEFINE old == relay[r]
<1>1. /\ old \in Locals /\ Distinct(old) /\ WritingOK(old) /\ old.phase = "writing"
      /\ Footer(old, old.idx) /\ Footer(old, Len(old.models))
  BY DEF IInv, TypeOK, RelayOK, RetryableError, OtherError, Called
<1>2. HandOver(old) \in Locals
  BY <1>1, HandOverResumes DEF Resumes
<1>3. HandOver(old) = [HandOver(old) EXCEPT !.skipPlatforms = @ \cup {}]
  BY <1>2 DEF Locals
<1>4. ModelPlatform[Current(old)] \in Platforms
  BY <1>1, ConstantTypes DEF Locals, WritingOK, Current
<1>5. \E platforms \in SUBSET Platforms :
        Continue(r, [HandOver(old) EXCEPT !.skipPlatforms = @ \cup platforms], cooldown')
  <2>1. CASE RetryableError(r, error) /\ error[2]
    <3>1. Continue(r, [HandOver(old) EXCEPT
                          !.skipPlatforms = @ \cup {ModelPlatform[Current(old)]}], cooldown')
      BY <2>1 DEF RetryableError
    <3> QED
      BY <1>4, <3>1
  <2>2. CASE RetryableError(r, error) /\ ~error[2]
    <3>1. Continue(r, HandOver(old), cooldown')
      BY <2>2 DEF RetryableError
    <3>2. Continue(r, [HandOver(old) EXCEPT !.skipPlatforms = @ \cup {}], cooldown')
      BY <1>3, <3>1
    <3> QED
      BY <3>2
  <2>3. CASE OtherError(r, error)
    <3>1. Continue(r, HandOver(old), cooldown')
      BY <2>3 DEF OtherError
    <3>2. Continue(r, [HandOver(old) EXCEPT !.skipPlatforms = @ \cup {}], cooldown')
      BY <1>3, <3>1
    <3> QED
      BY <3>2
  <2> QED
    BY <2>1, <2>2, <2>3
<1> QED
  BY <1>1, <1>5, FailureEffect

(* A chunk adds its model to the authors.                                  *)
LEMMA ChunkEffect ==
    ASSUME NEW r \in Relays, IInv, Chunk(r)
    PROVE  Effect(r)
<1> DEFINE old == relay[r]
           q2 == [old EXCEPT !.produced = TRUE, !.authors = Joined(@, Current(old))]
<1>1. /\ old \in Locals /\ Distinct(old) /\ WritingOK(old) /\ old.phase = "writing"
      /\ Footer(old, old.idx) /\ Footer(old, Len(old.models))
      /\ relay \in [Relays -> Locals]
  BY DEF IInv, TypeOK, RelayOK, Chunk, Called
<1>2. old.authors \in Seq(Models) /\ Current(old) \in Models
  BY <1>1 DEF Locals, WritingOK, Current
<1>3. /\ Joined(old.authors, Current(old)) \in Seq(Models)
      /\ \E j \in 1 .. Len(Joined(old.authors, Current(old))) :
            Joined(old.authors, Current(old))[j] = Current(old)
      /\ \A i \in 1 .. Len(old.authors) : \E j \in 1 .. Len(Joined(old.authors, Current(old))) :
            Joined(old.authors, Current(old))[j] = old.authors[i]
  BY <1>2, JoinedType
<1>4. relay' = [relay EXCEPT ![r] = q2]
  BY <1>1 DEF Chunk, Locals
<1>5. q2 \in Locals
  BY <1>1, <1>3 DEF Locals
<1>6. /\ q2.phase = old.phase /\ q2.idx = old.idx /\ q2.iters = old.iters
      /\ q2.models = old.models /\ q2.used = old.used /\ q2.produced = TRUE
      /\ q2.authors = Joined(old.authors, Current(old))
  BY <1>1 DEF Locals
<1> HIDE DEF q2
<1>7. Footer(q2, old.idx) /\ Footer(q2, Len(old.models))
  <2>1. \A j \in 1 .. Len(old.authors) : \E k \in 1 .. Len(q2.authors) :
           q2.authors[k] = old.authors[j]
    BY <1>3, <1>6
  <2> HIDE DEF old
  <2> QED
    BY <1>1, <1>6, <2>1, FooterCopied
<1>8. WritingOK(q2)
  BY <1>1, <1>3, <1>6 DEF WritingOK, Current
<1>9. RelayOK(q2)
  BY <1>1, <1>6, <1>7, <1>8 DEF RelayOK, Distinct, Called
<1>10. Stays(old, q2) /\ KeyReady(r, old, q2)
  BY <1>6 DEF Stays, KeyReady, Places, PlaceIn
<1> QED
  BY <1>4, <1>5, <1>9, <1>10 DEF Effect

(* The client has taken the marker: the call starts with what was chosen.  *)
LEMMA ResumeEffect ==
    ASSUME NEW r \in Relays, IInv, Resume(r)
    PROVE  Effect(r)
<1> DEFINE old == relay[r]
           q2 == [old EXCEPT !.phase = "writing"]
<1>1. /\ old \in Locals /\ RelayOK(old) /\ old.phase = "announcing"
      /\ relay \in [Relays -> Locals] /\ relay' = [relay EXCEPT ![r] = q2]
  BY DEF IInv, TypeOK, Resume
<1>2. q2 \in Locals
  BY <1>1 DEF Locals
<1>3. /\ q2.phase = "writing" /\ q2.idx = old.idx /\ q2.iters = old.iters /\ q2.key = old.key
      /\ q2.models = old.models /\ q2.used = old.used /\ q2.authors = old.authors
      /\ q2.produced = old.produced
  BY <1>1 DEF Locals
<1> HIDE DEF q2
<1>4. Distinct(old) /\ WritingOK(old) /\ Footer(old, old.idx) /\ Footer(old, Len(old.models))
  BY <1>1 DEF RelayOK, Called
<1>5. Footer(q2, old.idx) /\ Footer(q2, Len(old.models))
  <2> HIDE DEF old
  <2> QED
    BY <1>3, <1>4, FooterCopied
<1>6. RelayOK(q2)
  BY <1>3, <1>4, <1>5 DEF RelayOK, Distinct, WritingOK, Current
<1>7. Stays(old, q2) /\ KeyReady(r, old, q2)
  BY <1>1, <1>3 DEF Stays, KeyReady, Places, PlaceIn, Current
<1> QED
  BY <1>1, <1>2, <1>6, <1>7 DEF Effect

(* No relay at all, or a client that has left.                             *)
LEMMA EndEffect ==
    ASSUME NEW r \in Relays, IInv, Refuse(r) \/ Cancel(r)
    PROVE  Effect(r)
<1> DEFINE old == relay[r]
<1>1. old \in Locals /\ RelayOK(old) /\ relay \in [Relays -> Locals]
  BY DEF IInv, TypeOK
<1>2. PICK phase \in {"refused", "gone"} :
        /\ relay' = [relay EXCEPT ![r] = [old EXCEPT !.phase = phase]]
        /\ IF phase = "refused" THEN old.phase = "new" ELSE Called(old)
  BY <1>1 DEF Refuse, Cancel, Busy, Called
<1> DEFINE q2 == [old EXCEPT !.phase = phase]
<1>3. q2 \in Locals
  BY <1>1 DEF Locals
<1>4. /\ q2.phase = phase /\ q2.iters = old.iters /\ q2.models = old.models
      /\ q2.used = old.used /\ q2.authors = old.authors
  BY <1>1 DEF Locals
<1> HIDE DEF q2
<1>5. RelayOK(q2)
  BY <1>1, <1>4, FooterCopied DEF RelayOK, Distinct, Called
<1>6. Places(q2) = Places(old)
  BY <1>4 DEF Places, PlaceIn
<1>7. Opens(old, q2) \/ Fails(old, q2)
  BY <1>2, <1>4, <1>6 DEF Opens, Fails, CallsOrEnds, Called
<1>8. KeyReady(r, old, q2)
  BY <1>4 DEF KeyReady
<1>9. relay' = [relay EXCEPT ![r] = q2]
  BY <1>2 DEF q2
<1> QED
  BY <1>3, <1>5, <1>7, <1>8, <1>9 DEF Effect

LEMMA StepEffect ==
    ASSUME NEW r \in Relays, IInv,
           Start(r) \/ Refuse(r) \/ Resume(r) \/ Chunk(r) \/ SegmentEnds(r) \/ Cancel(r)
    PROVE  Effect(r)
  BY StartEffect, FinishEffect, ErrorEffect, ChunkEffect, ResumeEffect, EndEffect DEF SegmentEnds

-----------------------------------------------------------------------------
(***************************************************************************)
(* The invariant.                                                          *)
(***************************************************************************)
LEMMA InitHolds == Init => IInv
<1> SUFFICES ASSUME Init PROVE IInv
  OBVIOUS
<1>1. (CHOOSE k \in Keys : TRUE) \in Keys
  BY ConstantTypes
<1>2. Fresh \in Locals
  BY <1>1 DEF Fresh, Locals
<1>3. RelayOK(Fresh)
  BY DEF Fresh, RelayOK, Distinct, Footer, Called
<1>4. TypeOK
  BY <1>2 DEF Init, TypeOK
<1> QED
  BY <1>3, <1>4 DEF Init, IInv

(* The variables that are no relay's locals keep their types.              *)
LEMMA OtherTypes ==
    ASSUME IInv, Next
    PROVE  /\ now' \in Nat
           /\ cooldown' \in [Pairs -> Nat]
           /\ failures' \in [Pairs -> Nat]
           /\ live' \in SUBSET Keys
           /\ edits' \in Nat
<1> USE ConstantTypes
<1>0. /\ now \in Nat /\ cooldown \in [Pairs -> Nat] /\ failures \in [Pairs -> Nat]
      /\ live \in SUBSET Keys /\ edits \in Nat
  BY DEF IInv, TypeOK
<1>1. ASSUME NEW r \in Relays, relay[r].phase = "writing"
      PROVE  Pair(r) \in Pairs
  BY <1>1 DEF IInv, TypeOK, RelayOK, WritingOK, Called, Locals, Pair, Pairs, Current
<1>2. ASSUME NEW r \in Relays, Start(r) \/ Refuse(r) \/ Resume(r) \/ Chunk(r) \/ Cancel(r)
      PROVE  UNCHANGED <<now, cooldown, failures, live, edits>>
  BY <1>2 DEF Start, Refuse, Resume, Chunk, Cancel
<1>3. ASSUME NEW r \in Relays, NEW reason, Finish(r, reason)
      PROVE  /\ UNCHANGED <<now, cooldown, live, edits>>
             /\ failures' \in [Pairs -> Nat]
  <2>1. Pair(r) \in Pairs
    BY <1>1, <1>3 DEF Finish
  <2>2. failures[Pair(r)] \in Nat /\ AfterSuccess(failures[Pair(r)]) \in Nat
    BY <1>0, <2>1 DEF AfterSuccess
  <2> QED
    BY <1>0, <1>3, <2>2 DEF Finish
<1>4. ASSUME NEW r \in Relays, NEW error, RetryableError(r, error) \/ OtherError(r, error)
      PROVE  /\ UNCHANGED <<now, live, edits>>
             /\ failures' \in [Pairs -> Nat]
             /\ cooldown' \in [Pairs -> Nat]
  <2>1. CASE OtherError(r, error)
    BY <1>0, <2>1 DEF OtherError
  <2>2. CASE RetryableError(r, error)
    <3>1. Pair(r) \in Pairs
      BY <1>1, <2>2 DEF RetryableError
    <3>2. failures[Pair(r)] + 1 \in Nat /\ now + CooldownFor(failures[Pair(r)] + 1) \in Nat
      BY <1>0, <3>1
    <3> QED
      BY <1>0, <2>2, <3>2 DEF RetryableError
  <2> QED
    BY <1>4, <2>1, <2>2
<1>5. ASSUME NEW p \in Pairs, OthersFail(p)
      PROVE  /\ UNCHANGED <<now, live>>
             /\ edits' \in Nat
             /\ failures' \in [Pairs -> Nat]
             /\ cooldown' \in [Pairs -> Nat]
  <2>1. failures[p] + 1 \in Nat /\ now + CooldownFor(failures[p] + 1) \in Nat
    BY <1>0
  <2> QED
    BY <1>0, <1>5, <2>1 DEF OthersFail
<1>6. ASSUME NEW k \in Keys, KeyChanges(k)
      PROVE  UNCHANGED <<now, cooldown, failures>> /\ edits' \in Nat /\ live' \in SUBSET Keys
  BY <1>0, <1>6 DEF KeyChanges
<1>7. CASE Tick
  BY <1>0, <1>7 DEF Tick
<1> QED
  BY <1>0, <1>2, <1>3, <1>4, <1>5, <1>6, <1>7 DEF Next, SegmentEnds

LEMMA QuietSteps ==
    ASSUME Tick \/ (\E k \in Keys : KeyChanges(k)) \/ (\E p \in Pairs : OthersFail(p))
    PROVE  relay' = relay
  BY DEF Tick, KeyChanges, OthersFail

LEMMA NextEffect ==
    ASSUME IInv, Next
    PROVE  relay' = relay \/ \E r \in Relays : Effect(r)
  BY StepEffect, QuietSteps DEF Next

LEMMA StepKeeps == IInv /\ [Next]_vars => IInv'
<1> SUFFICES ASSUME IInv, [Next]_vars PROVE IInv'
  OBVIOUS
<1>1. CASE Next
  <2>1. relay' \in [Relays -> Locals] /\ \A r \in Relays : RelayOK(relay'[r])
    <3>1. relay \in [Relays -> Locals] /\ \A r \in Relays : RelayOK(relay[r])
      BY DEF IInv, TypeOK
    <3>2. CASE relay' = relay
      BY <3>1, <3>2
    <3>3. ASSUME NEW r \in Relays, Effect(r)
          PROVE  relay' \in [Relays -> Locals] /\ \A s \in Relays : RelayOK(relay'[s])
      BY <3>1, <3>3 DEF Effect
    <3> QED
      BY <1>1, <3>2, <3>3, NextEffect
  <2> QED
    BY <1>1, <2>1, OtherTypes DEF IInv, TypeOK
<1>2. CASE UNCHANGED vars
  BY <1>2 DEF IInv, TypeOK, vars
<1> QED
  BY <1>1, <1>2

LEMMA AlwaysIInv == Spec => []IInv
  BY InitHolds, StepKeeps, PTL DEF Spec

(* The footer of an answer names distinct models, in the order of the list,*)
(* each of which has text in the answer: _deep_research_relay, whatever    *)
(* providers, keys, the clock and other relays do.                         *)
THEOREM FooterAlwaysTruthful == Spec => []FooterTruthful
<1>1. IInv => FooterTruthful
  BY DEF IInv, RelayOK, Footer, FooterTruthful
<1> QED
  BY <1>1, AlwaysIInv, PTL

(* A segment is chosen with a key of the account that is live and not      *)
(* cooling down for its model, however late the relay gets to it; only     *)
(* what is called behind a hand-off marker may no longer be ready then.    *)
THEOREM SegmentsUseReadyKeys == Spec => SegmentUsesReadyKey
<1> DEFINE Ready(r) ==
             /\ Chooses(r) => PairIsReady(r)
             /\ Calls(r) /\ ~PairIsReady(r) =>
                   LET q == relay[r]
                   IN  /\ q.phase = "announcing"
                       /\ Pair(r)' = Pair(r)
                       /\ q.used # <<>> /\ q.used[Len(q.used)] # Current(q)
<1>1. IInv /\ [Next]_vars => [\A r \in Relays : Ready(r)]_vars
  <2> SUFFICES ASSUME IInv, Next PROVE \A r \in Relays : Ready(r)
    OBVIOUS
  <2>1. relay \in [Relays -> Locals]
    BY DEF IInv, TypeOK
  <2>2. ASSUME NEW r \in Relays, relay'[r] = relay[r]
        PROVE  Ready(r)
    BY <2>2 DEF Chooses, Calls
  <2>3. ASSUME NEW s \in Relays, Effect(s), NEW r \in Relays
        PROVE  Ready(r)
    <3>1. PICK q2 \in Locals :
            /\ relay' = [relay EXCEPT ![s] = q2] /\ KeyReady(s, relay[s], q2)
            /\ \/ Stays(relay[s], q2) \/ Opens(relay[s], q2)
               \/ Fails(relay[s], q2) \/ Succeeds(relay[s], q2)
      BY <2>3 DEF Effect
    <3>2. CASE r = s
      <4>1. relay'[r] = q2 /\ relay[r] \in Locals /\ RelayOK(relay[r])
        BY <2>1, <3>1, <3>2 DEF IInv
      <4>2. Chooses(r) => PairIsReady(r)
        BY <3>1, <3>2, <4>1 DEF Chooses, Busy, Called, KeyReady, PairIsReady, Pair
      <4>3. CASE Stays(relay[r], q2)
        <5>1. ASSUME Calls(r)
              PROVE  /\ relay[r].phase = "announcing"
                     /\ Pair(r)' = Pair(r)
                     /\ Announces(relay[r], Current(relay[r]))
          BY <4>1, <4>3, <5>1 DEF Calls, Chooses, Stays, Pair, RelayOK
        <5> QED
          BY <4>2, <5>1 DEF Announces
      <4>4. CASE CallsOrEnds(relay[r], q2)
        <5>1. Calls(r) => Chooses(r)
          BY <4>1, <4>4 DEF Calls, Chooses, Busy, CallsOrEnds, Locals
        <5> QED
          BY <4>2, <5>1
      <4> QED
        BY <3>1, <3>2, <4>3, <4>4 DEF Opens, Fails, Succeeds
    <3>3. CASE r # s
      BY <2>1, <2>2, <3>1, <3>3
    <3> QED
      BY <3>2, <3>3
  <2> QED
    BY <2>2, <2>3, NextEffect
<1> QED
  BY <1>1, AlwaysIInv, PTL DEF Spec, SegmentUsesReadyKey

-----------------------------------------------------------------------------
(***************************************************************************)
(* The relay implements its contract.                                      *)
(***************************************************************************)

(* The contract's variables as functions of the relay's locals.            *)
StateOf(q) == CASE q.phase = "new" -> "new"
                [] Called(q) -> "open"
                [] OTHER -> "closed"
PlaceOfCall(q) == IF Called(q) THEN q.idx ELSE 0

LEMMA EffectContract ==
    ASSUME NEW r \in Relays, IInv, Effect(r)
    PROVE  Contract!ContractNext \/ UNCHANGED Contract!contractVars
<1> DEFINE state == [s \in Relays |-> StateOf(relay[s])]
           place == [s \in Relays |-> PlaceOfCall(relay[s])]
           calls == [s \in Relays |-> relay[s].iters]
           credits == [s \in Relays |-> Places(relay[s])]
           old == relay[r]
<1>1. PICK q2 \in Locals :
        /\ relay' = [relay EXCEPT ![r] = q2]
        /\ RelayOK(q2)
        /\ Stays(old, q2) \/ Opens(old, q2) \/ Fails(old, q2) \/ Succeeds(old, q2)
  BY DEF Effect
<1>2. relay \in [Relays -> Locals] /\ old \in Locals /\ RelayOK(old)
  BY DEF IInv, TypeOK
<1>3. relay'[r] = q2 /\ \A s \in Relays \ {r} : relay'[s] = relay[s]
  BY <1>1, <1>2
<1>4. /\ state' = [state EXCEPT ![r] = StateOf(q2)]
      /\ place' = [place EXCEPT ![r] = PlaceOfCall(q2)]
      /\ calls' = [calls EXCEPT ![r] = q2.iters]
      /\ credits' = [credits EXCEPT ![r] = Places(q2)]
  BY <1>3
<1>5. state[r] = StateOf(old) /\ place[r] = PlaceOfCall(old)
      /\ calls[r] = old.iters /\ credits[r] = Places(old)
  OBVIOUS
<1>6. /\ place'[r] = PlaceOfCall(q2)
      /\ \A x : x = place[r] => [place EXCEPT ![r] = x] = place
      /\ \A x : x = calls[r] => [calls EXCEPT ![r] = x] = calls
      /\ \A x : x = credits[r] => [credits EXCEPT ![r] = x] = credits
      /\ \A x : x = state[r] => [state EXCEPT ![r] = x] = state
  BY <1>4
<1>7. q2.idx \in Nat /\ old.idx \in Nat
  BY <1>2 DEF Locals
<1> HIDE DEF state, place, calls, credits
<1>8. CASE Stays(old, q2)
  <2>1. StateOf(q2) = StateOf(old) /\ PlaceOfCall(q2) = PlaceOfCall(old)
    BY <1>8 DEF Stays, StateOf, PlaceOfCall, Called
  <2>2. state' = state /\ place' = place /\ calls' = calls /\ credits' = credits
    BY <1>4, <1>5, <1>6, <1>8, <2>1 DEF Stays
  <2> QED
    BY <2>2 DEF Contract!contractVars, state, place, calls, credits, StateOf, PlaceOfCall, Places,
       Called, Busy
<1> DEFINE CallsNow == /\ calls[r] < MaxIters
                       /\ state' = [state EXCEPT ![r] = "open"]
                       /\ place' = [place EXCEPT ![r] = place'[r]]
                       /\ calls' = [calls EXCEPT ![r] = @ + 1]
           Ended == /\ state' = [state EXCEPT ![r] = "closed"]
                    /\ place' = [place EXCEPT ![r] = 0]
                    /\ UNCHANGED calls
<1>9. ASSUME CallsOrEnds(old, q2)
      PROVE  Ended \/ (CallsNow /\ Called(q2) /\ place'[r] = q2.idx /\ q2.idx >= 1)
  <2>1. CASE Called(q2)
    <3>1. StateOf(q2) = "open" /\ PlaceOfCall(q2) = q2.idx
      BY <2>1 DEF StateOf, PlaceOfCall, Called
    <3>2. q2.idx >= 1
      BY <1>1, <2>1 DEF RelayOK, WritingOK
    <3>3. old.iters < MaxIters /\ q2.iters = old.iters + 1
      BY <1>9, <2>1 DEF CallsOrEnds, Called
    <3>4. CallsNow
      BY <1>4, <1>5, <1>6, <3>1, <3>3
    <3>5. place'[r] = q2.idx
      BY <1>6, <3>1
    <3> QED
      BY <2>1, <3>2, <3>4, <3>5
  <2>2. CASE ~Called(q2)
    <3>1. StateOf(q2) = "closed" /\ PlaceOfCall(q2) = 0 /\ q2.iters = old.iters
      BY <1>9, <2>2 DEF StateOf, PlaceOfCall, CallsOrEnds
    <3>2. calls' = calls
      BY <1>4, <1>5, <1>6, <3>1
    <3> QED
      BY <1>4, <3>1, <3>2
  <2> QED
    BY <2>1, <2>2
<1>10. /\ CallsNow => Contract!Call(r)
       /\ Ended => Contract!Shut(r)
  BY DEF Contract!Call, Contract!Shut, state, place, calls, StateOf, PlaceOfCall, Called, Busy
<1> HIDE DEF CallsNow, Ended
<1>11. /\ place'[r] = [s \in Relays |-> IF Busy(s)' THEN relay'[s].idx ELSE 0][r]
       /\ place[r] = [s \in Relays |-> IF Busy(s) THEN relay[s].idx ELSE 0][r]
       /\ state[r] = [s \in Relays |-> CASE relay[s].phase = "new" -> "new"
                                         [] Busy(s) -> "open"
                                         [] OTHER -> "closed"][r]
  BY DEF place, state, PlaceOfCall, StateOf, Called, Busy
<1>12. CASE Opens(old, q2)
  <2>1. CallsOrEnds(old, q2) /\ state[r] = "new"
    BY <1>5, <1>12 DEF Opens, StateOf, Called
  <2>2. credits' = credits
    BY <1>4, <1>5, <1>6, <1>12 DEF Opens
  <2>3. Contract!Shut(r) \/ (Contract!Call(r) /\ place'[r] \in Nat \ {0})
    BY <1>7, <1>9, <1>10, <2>1
  <2>4. Contract!Open(r)
    BY <1>11, <2>1, <2>2, <2>3 DEF Contract!Open, credits, Places
  <2> QED
    BY <2>4 DEF Contract!ContractNext
<1>13. CASE Fails(old, q2)
  <2>1. CallsOrEnds(old, q2) /\ state[r] = "open" /\ place[r] = old.idx
    BY <1>5, <1>13 DEF Fails, StateOf, PlaceOfCall, Called
  <2>2. credits' = credits
    BY <1>4, <1>5, <1>6, <1>13 DEF Fails
  <2>3. Contract!Shut(r) \/ (Contract!Call(r) /\ place'[r] > place[r])
    BY <1>9, <1>10, <1>13, <2>1 DEF Fails
  <2>4. Contract!Unproductive(r)
    BY <1>11, <2>1, <2>2, <2>3 DEF Contract!Unproductive, credits, Places
  <2> QED
    BY <2>4 DEF Contract!ContractNext
<1>14. CASE Succeeds(old, q2)
  <2>1. CallsOrEnds(old, q2) /\ state[r] = "open" /\ place[r] = old.idx
    BY <1>5, <1>14 DEF Succeeds, StateOf, PlaceOfCall, Called
  <2>2. credits' = [credits EXCEPT ![r] = Contract!Credited(credits[r], place[r])]
    BY <1>4, <1>5, <1>14, <2>1 DEF Succeeds
  <2>3. Contract!Shut(r) \/ (Contract!Call(r) /\ place'[r] >= place[r])
    BY <1>9, <1>10, <1>14, <2>1 DEF Succeeds
  <2>4. Contract!Productive(r)
    BY <1>11, <2>1, <2>2, <2>3 DEF Contract!Productive, credits, Places
  <2> QED
    BY <2>4 DEF Contract!ContractNext
<1> QED
  BY <1>1, <1>8, <1>12, <1>13, <1>14

(* .kiro/specs/intellectual-routing: a relay is a bounded number of calls  *)
(* that moves forward along its list, does not return to a model whose     *)
(* segment failed, and is credited only for segments with text.            *)
THEOREM ImplementsContract == Spec => KeepsContract
<1>1. Init => Contract!ContractInit
  BY DEF Init, Fresh, Contract!ContractInit, Busy
<1>2. IInv /\ [Next]_vars => [Contract!ContractNext]_(Contract!contractVars)
  <2> SUFFICES ASSUME IInv, [Next]_vars
               PROVE  Contract!ContractNext \/ UNCHANGED Contract!contractVars
    OBVIOUS
  <2>1. CASE \E r \in Relays : Effect(r)
    BY <2>1, EffectContract
  <2>2. CASE relay' = relay
    BY <2>2 DEF Contract!contractVars, Busy
  <2> QED
    BY <2>1, <2>2, NextEffect DEF vars
<1> QED
  BY <1>1, <1>2, AlwaysIInv, PTL DEF Spec, KeepsContract, Contract!ContractSpec

=============================================================================
