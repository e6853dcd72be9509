-------------------------- MODULE ToolExecutorProofs --------------------------
(***************************************************************************)
(* Proofs about ToolExecutor, for every set of batches, calls and tools,   *)
(* every number of permits and attempts and every rate limit.              *)
(***************************************************************************)
EXTENDS ToolExecutor, FiniteSetTheorems, SequenceTheorems, WellFoundedInduction, TLAPS

-----------------------------------------------------------------------------
(***************************************************************************)
(* The inductive invariant, by the four things it is about.                *)
(***************************************************************************)

(* The calls of a batch that hold a permit.                                *)
Holders(b) == {c \in Members(b) : IsRunning(c)}

Semaphore ==
    /\ permits \in [Batches -> Nat]
    /\ \A b \in Batches :
          /\ IsFiniteSet(Holders(b))
          /\ permits[b] + Cardinality(Holders(b)) = MaxConcurrent

(* Nothing runs for a call that waits for a permit.                        *)
QueuedIdle == \A c \in Calls : call[c] = "queued" => body[c] = "none"

(* Only a request that may be sent again waits for its next attempt.       *)
RetriesLeft == \A c \in Calls : body[c] = "backoff" => attempts[c] < MaxAttempts

Standings == {"queued", "firstHalf", "secondHalf", "cancelled"} \cup Statuses

Tasks ==
    /\ batch \in [Batches -> {"new", "running", "returned", "cancelled"}]
    /\ call \in [Calls -> Standings]
    /\ body \in [Calls -> {"none", "running", "backoff", "success", "error", "timeout", "killed"}]
    /\ attempts \in [Calls -> 0 .. MaxAttempts]
    /\ QueuedIdle
    /\ RetriesLeft
    /\ TimeoutStopsTask
    /\ ResultsTruthful

(* The list of the limiter is the end of the list of all admissions, and   *)
(* what was popped from its front is outside the window for good.          *)
TailOf(rest, whole, limit) ==
    LET popped == Len(whole) - Len(rest)
    IN  /\ popped \in Nat
        /\ \A i \in 1 .. Len(rest) : rest[i] = whole[popped + i]
        /\ \A i \in 1 .. popped : whole[i] < limit

IsTail(t) == TailOf(invocations[t], admitted[t], now - Window)

Limiter ==
    /\ now \in Nat
    /\ invocations \in [Tools -> Seq(Nat)]
    /\ admitted \in [Tools -> Seq(Nat)]
    /\ \A t \in Tools : IsTail(t)
    /\ WindowRespected

IInv == Semaphore /\ Tasks /\ Limiter

(* The assumptions on the constants, in the form the proofs use them.      *)
LEMMA ConstantTypes ==
    /\ BatchOf \in [Calls -> Batches]
    /\ ToolOf \in [Calls -> Tools]
    /\ \A t \in Tools : Rpm[t] = NoLimit \/ Rpm[t] \in Nat
    /\ NoLimit \notin Nat
    /\ MaxConcurrent \in Nat
    /\ MaxAttempts \in Nat /\ MaxAttempts >= 1
    /\ Window \in Nat
  BY ExecutorAssumption

LEMMA IInvImplies ==
    IInv => PermitsBalance /\ TimeoutStopsTask /\ ResultsTruthful /\ WindowRespected
<1> SUFFICES ASSUME IInv
             PROVE  PermitsBalance /\ TimeoutStopsTask /\ ResultsTruthful /\ WindowRespected
  OBVIOUS
<1>1. \A b \in Batches : permits[b] \in 0 .. MaxConcurrent
  BY FS_CardinalityType, ConstantTypes DEF IInv, Semaphore
<1>2. permits \in [Batches -> 0 .. MaxConcurrent]
  BY <1>1 DEF IInv, Semaphore
<1>3. TypeOK
  BY <1>2 DEF TypeOK, Standings, IInv, Tasks, Limiter
<1>4. PermitsBalance
  BY <1>3 DEF PermitsBalance, IInv, Semaphore, Holders
<1> QED
  BY <1>4 DEF IInv, Tasks, Limiter

-----------------------------------------------------------------------------
(***************************************************************************)
(* The semaphore.                                                          *)
(***************************************************************************)

(* A call that starts to run takes the place of a permit.                  *)
LEMMA TakeKeepsSemaphore ==
    ASSUME NEW c \in Calls, Semaphore, call \in [Calls -> Standings],
           permits[BatchOf[c]] > 0, ~IsRunning(c),
           permits' = [permits EXCEPT ![BatchOf[c]] = @ - 1],
           call' = [call EXCEPT ![c] = "firstHalf"]
    PROVE  Semaphore'
<1> USE ConstantTypes
<1>0. /\ BatchOf[c] \in Batches
      /\ permits \in [Batches -> Nat]
      /\ permits[BatchOf[c]] - 1 \in Nat
  <2>1. BatchOf[c] \in Batches
    OBVIOUS
  <2>2. permits \in [Batches -> Nat]
    BY DEF Semaphore
  <2> QED
    BY <2>1, <2>2
<1>1. permits' \in [Batches -> Nat]
  BY <1>0 DEF Semaphore
<1>2. ASSUME NEW b \in Batches
      PROVE  /\ IsFiniteSet(Holders(b)')
             /\ permits'[b] + Cardinality(Holders(b)') = MaxConcurrent
  <2>1. IsFiniteSet(Holders(b)) /\ permits[b] + Cardinality(Holders(b)) = MaxConcurrent
        /\ Cardinality(Holders(b)) \in Nat /\ permits[b] \in Nat
    BY FS_CardinalityType DEF Semaphore
  <2>2. CASE b = BatchOf[c]
    <3>1. Holders(b)' = Holders(b) \cup {c} /\ c \notin Holders(b)
      BY <2>2 DEF Holders, Members, IsRunning
    <3>2. IsFiniteSet(Holders(b)') /\ Cardinality(Holders(b)') = Cardinality(Holders(b)) + 1
      BY <2>1, <3>1, FS_AddElement
    <3>3. permits'[b] = permits[b] - 1
      BY <2>2 DEF Semaphore
    <3> QED
      BY <2>1, <3>2, <3>3
  <2>3. CASE b # BatchOf[c]
    <3>1. Holders(b)' = Holders(b)
      BY <2>3 DEF Holders, Members, IsRunning
    <3> QED
      BY <2>1, <2>3, <3>1 DEF Semaphore
  <2> QED
    BY <2>2, <2>3
<1> QED
  BY <1>1, <1>2 DEF Semaphore

(* A call that stops running gives its permit back.                        *)
LEMMA GiveKeepsSemaphore ==
    ASSUME NEW c \in Calls, NEW status \in Statuses, Semaphore,
           call \in [Calls -> Standings], IsRunning(c), GivePermitBack(c),
           call' = [call EXCEPT ![c] = status]
    PROVE  Semaphore'
<1> USE ConstantTypes
<1>0. /\ BatchOf[c] \in Batches
      /\ permits \in [Batches -> Nat]
      /\ permits[BatchOf[c]] + 1 \in Nat
  <2>1. BatchOf[c] \in Batches
    OBVIOUS
  <2>2. permits \in [Batches -> Nat]
    BY DEF Semaphore
  <2> QED
    BY <2>1, <2>2
<1>1. permits' \in [Batches -> Nat]
  BY <1>0 DEF Semaphore, GivePermitBack
<1>2. ASSUME NEW b \in Batches
      PROVE  /\ IsFiniteSet(Holders(b)')
             /\ permits'[b] + Cardinality(Holders(b)') = MaxConcurrent
  <2>1. IsFiniteSet(Holders(b)) /\ permits[b] + Cardinality(Holders(b)) = MaxConcurrent
        /\ Cardinality(Holders(b)) \in Nat /\ permits[b] \in Nat
    BY FS_CardinalityType DEF Semaphore
  <2>2. CASE b = BatchOf[c]
    <3>1. Holders(b)' = Holders(b) \ {c} /\ c \in Holders(b)
      BY <2>2 DEF Holders, Members, IsRunning, Statuses
    <3>2. IsFiniteSet(Holders(b)') /\ Cardinality(Holders(b)') = Cardinality(Holders(b)) - 1
      BY <2>1, <3>1, FS_RemoveElement
    <3>3. permits'[b] = permits[b] + 1
      BY <2>2 DEF Semaphore, GivePermitBack
    <3> QED
      BY <2>1, <3>2, <3>3
  <2>3. CASE b # BatchOf[c]
    <3>1. Holders(b)' = Holders(b)
      BY <2>3 DEF Holders, Members, IsRunning
    <3> QED
      BY <2>1, <2>3, <3>1 DEF Semaphore, GivePermitBack
  <2> QED
    BY <2>2, <2>3
<1> QED
  BY <1>1, <1>2 DEF Semaphore

(* Whatever else happens to a call changes no permit and no holder.        *)
LEMMA SameHoldersKeepSemaphore ==
    ASSUME Semaphore, permits' = permits,
           \A c \in Calls : IsRunning(c)' <=> IsRunning(c)
    PROVE  Semaphore'
<1>1. \A b \in Batches : Holders(b)' = Holders(b)
  BY DEF Holders, Members
<1> QED
  BY <1>1 DEF Semaphore

LEMMA CancelKeepsSemaphore ==
    ASSUME NEW b \in Batches, Semaphore, CancelBatch(b)
    PROVE  Semaphore'
<1> USE ConstantTypes
<1>1. permits' = [permits EXCEPT ![b] = MaxConcurrent]
      /\ call' = [c \in Calls |-> IF c \in Members(b) /\ ~IsOver(c) THEN "cancelled" ELSE call[c]]
  BY DEF CancelBatch
<1>2. Holders(b)' = {}
  BY <1>1 DEF Holders, Members, IsRunning, IsOver, Statuses
<1>3. \A other \in Batches \ {b} : Holders(other)' = Holders(other)
  BY <1>1 DEF Holders, Members, IsRunning
<1>4. permits' \in [Batches -> Nat]
  BY <1>1 DEF Semaphore
<1>5. permits'[b] = MaxConcurrent /\ IsFiniteSet({}) /\ Cardinality({}) = 0
  BY <1>1, FS_EmptySet DEF Semaphore
<1>6. \A other \in Batches \ {b} : permits'[other] = permits[other]
  BY <1>1 DEF Semaphore
<1>7. ASSUME NEW other \in Batches
      PROVE  /\ IsFiniteSet(Holders(other)')
             /\ permits'[other] + Cardinality(Holders(other)') = MaxConcurrent
  <2>1. CASE other = b
    <3>1. IsFiniteSet(Holders(b)') /\ Cardinality(Holders(b)') = 0
      BY <1>2, <1>5
    <3> QED
      BY <1>5, <2>1, <3>1
  <2>2. CASE other # b
    BY <1>3, <1>6, <2>2 DEF Semaphore
  <2> QED
    BY <2>1, <2>2
<1> QED
  BY <1>4, <1>7 DEF Semaphore

-----------------------------------------------------------------------------
(***************************************************************************)
(* The limiter.                                                            *)
(***************************************************************************)

(* The loop of check_and_record stops at the first entry that is not old,  *)
(* or at the end of the list.                                              *)
LEMMA FirstKept ==
    ASSUME NEW list \in Seq(Nat), NEW since \in Int
    PROVE  \E i \in 1 .. Len(list) + 1 :
              /\ \A j \in 1 .. i - 1 : list[j] < since
              /\ i <= Len(list) => list[i] >= since
<1> DEFINE Stops == {i \in 1 .. Len(list) + 1 : i <= Len(list) => list[i] >= since}
<1>1. Stops \subseteq Nat /\ Stops # {}
  <2>1. Len(list) + 1 \in Stops
    OBVIOUS
  <2> QED
    BY <2>1
<1>2. PICK i \in Stops : \A j \in Stops : ~(<<j, i>> \in OpToRel(<, Nat))
  BY <1>1, NatLessThanWellFounded, WFMin, Zenon
<1>3. \A j \in Stops : ~(j < i)
  BY <1>1, <1>2 DEF OpToRel
<1>4. \A j \in 1 .. i - 1 : list[j] < since
  <2> SUFFICES ASSUME NEW j \in 1 .. i - 1 PROVE list[j] < since
    OBVIOUS
  <2>1. j \in 1 .. Len(list) /\ list[j] \in Nat /\ j < i
    OBVIOUS
  <2>2. j \notin Stops
    BY <1>3, <2>1
  <2> QED
    BY <2>1, <2>2
<1> QED
  BY <1>4

(* What is left of the end of a list without its own front is an end too.  *)
LEMMA TailOfTail ==
    ASSUME NEW whole \in Seq(Nat), NEW rest \in Seq(Nat), NEW less \in Seq(Nat),
           NEW limit \in Int,
           TailOf(rest, whole, limit), TailOf(less, rest, limit)
    PROVE  TailOf(less, whole, limit)
<1> DEFINE m == Len(whole) - Len(rest)
           n == Len(rest) - Len(less)
<1>1. /\ m \in Nat /\ n \in Nat
      /\ \A i \in 1 .. Len(rest) : rest[i] = whole[m + i]
      /\ \A i \in 1 .. m : whole[i] < limit
      /\ \A i \in 1 .. Len(less) : less[i] = rest[n + i]
      /\ \A i \in 1 .. n : rest[i] < limit
  BY DEF TailOf
<1>2. /\ Len(whole) - Len(less) = m + n
      /\ Len(rest) = Len(less) + n
      /\ Len(less) \in Nat
  OBVIOUS
<1> HIDE DEF m, n
<1>3. ASSUME NEW i \in 1 .. Len(less)
      PROVE  less[i] = whole[m + n + i]
  <2>1. n + i \in 1 .. Len(rest)
    BY <1>1, <1>2
  <2>2. less[i] = rest[n + i] /\ rest[n + i] = whole[m + (n + i)]
    BY <1>1, <2>1
  <2>3. m + (n + i) = m + n + i
    BY <1>1
  <2> QED
    BY <2>2, <2>3
<1>4. ASSUME NEW i \in 1 .. m + n
      PROVE  whole[i] < limit
  <2>1. CASE i <= m
    BY <1>1, <2>1
  <2>2. CASE ~(i <= m)
    <3>1. i - m \in 1 .. n /\ i - m \in 1 .. Len(rest) /\ m + (i - m) = i
      BY <1>1, <1>2, <2>2
    <3>2. rest[i - m] = whole[m + (i - m)] /\ rest[i - m] < limit
      BY <1>1, <3>1
    <3> QED
      BY <3>1, <3>2
  <2> QED
    BY <2>1, <2>2
<1>5. m + n \in Nat
  BY <1>1
<1> QED
  BY <1>2, <1>3, <1>4, <1>5 DEF TailOf

(* An entry appended to both keeps the one the end of the other.           *)
LEMMA TailOfAppend ==
    ASSUME NEW whole \in Seq(Nat), NEW rest \in Seq(Nat), NEW limit \in Int, NEW x \in Nat,
           TailOf(rest, whole, limit)
    PROVE  TailOf(Append(rest, x), Append(whole, x), limit)
<1> DEFINE m == Len(whole) - Len(rest)
           rest2 == Append(rest, x)
           whole2 == Append(whole, x)
<1>1. /\ m \in Nat
      /\ \A i \in 1 .. Len(rest) : rest[i] = whole[m + i]
      /\ \A i \in 1 .. m : whole[i] < limit
  BY DEF TailOf
<1>2. /\ Len(rest2) = Len(rest) + 1 /\ Len(whole2) = Len(whole) + 1
      /\ \A i \in 1 .. Len(rest) : rest2[i] = rest[i]
      /\ \A i \in 1 .. Len(whole) : whole2[i] = whole[i]
      /\ rest2[Len(rest) + 1] = x /\ whole2[Len(whole) + 1] = x
      /\ Len(rest) \in Nat /\ Len(whole) \in Nat /\ Len(whole) = m + Len(rest)
  OBVIOUS
<1>3. Len(whole2) - Len(rest2) = m
  BY <1>2
<1> HIDE DEF m, rest2, whole2
<1>4. ASSUME NEW i \in 1 .. Len(rest2)
      PROVE  rest2[i] = whole2[m + i]
  <2>1. CASE i = Len(rest) + 1
    <3>1. m + i = Len(whole) + 1
      BY <1>1, <1>2, <2>1
    <3> QED
      BY <1>2, <2>1, <3>1
  <2>2. CASE i # Len(rest) + 1
    <3>1. i \in 1 .. Len(rest) /\ m + i \in 1 .. Len(whole)
      BY <1>1, <1>2, <2>2
    <3> QED
      BY <1>1, <1>2, <3>1
  <2> QED
    BY <2>1, <2>2
<1>5. \A i \in 1 .. m : whole2[i] < limit
  BY <1>1, <1>2
<1>6. TailOf(rest2, whole2, limit)
  BY <1>1, <1>3, <1>4, <1>5 DEF TailOf
<1> QED
  BY <1>6 DEF rest2, whole2

(* An end stays one as time goes on.                                       *)
LEMMA TailOfLater ==
    ASSUME NEW whole \in Seq(Nat), NEW rest \in Seq(Nat), NEW limit \in Int,
           TailOf(rest, whole, limit)
    PROVE  TailOf(rest, whole, limit + 1)
<1>1. ASSUME NEW i \in 1 .. Len(whole) - Len(rest)
      PROVE  whole[i] < limit + 1
  <2>1. i \in 1 .. Len(whole) /\ whole[i] \in Nat /\ whole[i] < limit
    BY DEF TailOf
  <2> QED
    BY <2>1
<1> QED
  BY <1>1 DEF TailOf

(* What is popped is older than the window, and the rest stays in place.   *)
LEMMA InWindowIsTail ==
    ASSUME NEW t \in Tools, now \in Nat, invocations \in [Tools -> Seq(Nat)]
    PROVE  /\ InWindow(t) \in Seq(Nat)
           /\ TailOf(InWindow(t), invocations[t], now - Window)
<1> DEFINE list == invocations[t]
           since == now - Window
           IsFirst(i) == /\ \A j \in 1 .. i - 1 : list[j] < since
                         /\ i <= Len(list) => list[i] >= since
           first == CHOOSE i \in 1 .. Len(list) + 1 : IsFirst(i)
           rest == SubSeq(list, first, Len(list))
<1>1. list \in Seq(Nat) /\ since \in Int
  BY ConstantTypes
<1>2. InWindow(t) = rest
  BY DEF InWindow, Popped
<1> HIDE DEF list, since
<1>3. \E i \in 1 .. Len(list) + 1 : IsFirst(i)
  BY <1>1, FirstKept
<1>4. first \in 1 .. Len(list) + 1 /\ IsFirst(first)
  BY <1>3, Zenon
<1> HIDE DEF first
<1>5. /\ rest \in Seq(Nat)
      /\ Len(rest) = Len(list) - (first - 1)
      /\ \A i \in 1 .. Len(rest) : rest[i] = list[first - 1 + i]
  BY <1>1, <1>4
<1>6. Len(list) - Len(rest) = first - 1 /\ first - 1 \in Nat
  BY <1>1, <1>4, <1>5
<1> HIDE DEF rest
<1>7. TailOf(rest, list, since)
  BY <1>4, <1>5, <1>6 DEF TailOf
<1> QED
  BY <1>2, <1>5, <1>7 DEF list, since

(* A list that is only pruned stays the end of the admissions.             *)
LEMMA PruneKeepsLimiter ==
    ASSUME NEW t \in Tools, Limiter,
           invocations' = [invocations EXCEPT ![t] = InWindow(t)],
           UNCHANGED <<now, admitted>>
    PROVE  Limiter'
<1>1. /\ InWindow(t) \in Seq(Nat)
      /\ TailOf(InWindow(t), invocations[t], now - Window)
      /\ now - Window \in Int
  BY InWindowIsTail, ConstantTypes DEF Limiter
<1>2. TailOf(InWindow(t), admitted[t], now - Window)
  BY <1>1, TailOfTail DEF Limiter, IsTail
<1>3. invocations' \in [Tools -> Seq(Nat)] /\ invocations'[t] = InWindow(t)
  BY <1>1 DEF Limiter
<1>4. \A u \in Tools : IsTail(u)'
  BY <1>2, <1>3 DEF Limiter, IsTail
<1> QED
  BY <1>3, <1>4 DEF Limiter, WindowRespected

(* An admission is further than a window away from the one that many       *)
(* admissions before it: that one was popped.                              *)
LEMMA RecordKeepsLimiter ==
    ASSUME NEW t \in Tools, Limiter, HasRoom(t), Record(t), UNCHANGED now
    PROVE  Limiter'
<1>1. CASE Rpm[t] = NoLimit
  BY <1>1 DEF Record, Limiter, IsTail, WindowRespected
<1>2. CASE Rpm[t] # NoLimit
  <2> DEFINE whole == admitted[t]
             rest == InWindow(t)
  <2>1. /\ invocations' = [invocations EXCEPT ![t] = Append(rest, now)]
        /\ admitted' = [admitted EXCEPT ![t] = Append(whole, now)]
        /\ Len(rest) < Rpm[t]
        /\ Rpm[t] \in Nat
    BY <1>2, ConstantTypes DEF Record, HasRoom
  <2>2. /\ rest \in Seq(Nat)
        /\ TailOf(rest, invocations[t], now - Window)
        /\ now - Window \in Int
        /\ whole \in Seq(Nat)
        /\ now \in Nat
    BY InWindowIsTail, ConstantTypes DEF Limiter
  <2>3. TailOf(rest, whole, now - Window)
    BY <2>2, TailOfTail DEF Limiter, IsTail
  <2> HIDE DEF whole, rest
  <2>4. TailOf(Append(rest, now), Append(whole, now), now - Window)
    BY <2>2, <2>3, TailOfAppend
  <2>5. /\ invocations' \in [Tools -> Seq(Nat)] /\ invocations'[t] = Append(rest, now)
        /\ admitted' \in [Tools -> Seq(Nat)] /\ admitted'[t] = Append(whole, now)
        /\ \A u \in Tools \ {t} : invocations'[u] = invocations[u] /\ admitted'[u] = admitted[u]
    BY <2>1, <2>2 DEF Limiter
  <2>6. \A u \in Tools : IsTail(u)'
    BY <2>4, <2>5 DEF Limiter, IsTail
  <2>7. ASSUME NEW i \in 1 .. Len(Append(whole, now)),
               i + Rpm[t] <= Len(Append(whole, now))
        PROVE  Append(whole, now)[i + Rpm[t]] - Append(whole, now)[i] > Window
    <3>1. /\ Len(Append(whole, now)) = Len(whole) + 1
          /\ Len(whole) \in Nat /\ Len(rest) \in Nat
          /\ \A j \in 1 .. Len(whole) : Append(whole, now)[j] = whole[j] /\ whole[j] \in Nat
          /\ Append(whole, now)[Len(whole) + 1] = now
      BY <2>2
    <3>2. CASE i + Rpm[t] = Len(whole) + 1
      <4>1. i \in 1 .. Len(whole) - Len(rest) /\ i \in 1 .. Len(whole)
        BY <2>1, <3>1, <3>2
      <4>2. whole[i] < now - Window
        BY <2>3, <4>1 DEF TailOf
      <4> QED
        BY <2>2, <3>1, <3>2, <4>1, <4>2, ConstantTypes
    <3>3. CASE i + Rpm[t] # Len(whole) + 1
      <4>1. i \in 1 .. Len(whole) /\ i + Rpm[t] \in 1 .. Len(whole)
        <5>1. i \in 1 .. Len(whole) + 1 /\ i + Rpm[t] <= Len(whole) + 1
          BY <2>7, <3>1
        <5>2. Rpm[t] \in Nat /\ Rpm[t] >= 1
          BY <2>1, <3>1
        <5> QED
          BY <3>1, <3>3, <5>1, <5>2
      <4>2. whole[i + Rpm[t]] - whole[i] > Window
        BY <1>2, <4>1 DEF Limiter, WindowRespected, whole
      <4> QED
        BY <3>1, <4>1, <4>2
    <3> QED
      BY <3>2, <3>3
  <2>8. WindowRespected'
    BY <2>5, <2>7 DEF Limiter, WindowRespected
  <2> QED
    BY <2>5, <2>6, <2>8 DEF Limiter
<1> QED
  BY <1>1, <1>2

LEMMA TickKeepsLimiter ==
    ASSUME Limiter, Tick
    PROVE  Limiter'
<1>1. now \in Nat /\ now' = now + 1 /\ UNCHANGED <<invocations, admitted>>
  BY DEF Limiter, Tick
<1>2. now - Window \in Int /\ now' - Window = (now - Window) + 1 /\ now' \in Nat
  BY <1>1, ConstantTypes
<1>3. \A t \in Tools : TailOf(invocations[t], admitted[t], (now - Window) + 1)
  BY <1>2, TailOfLater DEF Limiter, IsTail
<1>4. \A t \in Tools : IsTail(t)'
  BY <1>1, <1>2, <1>3 DEF IsTail
<1> QED
  BY <1>1, <1>2, <1>4 DEF Limiter, WindowRespected

LEMMA UnchangedLimiter ==
    ASSUME Limiter, UNCHANGED <<now, invocations, admitted>>
    PROVE  Limiter'
  BY DEF Limiter, IsTail, WindowRespected

-----------------------------------------------------------------------------
(***************************************************************************)
(* The calls and the bodies of their tools.                                *)
(***************************************************************************)

(* A call that is refused has no body.                                     *)
LEMMA RefusalKeepsTasks ==
    ASSUME NEW c \in Calls, Tasks, IsQueued(c),
           call' = [call EXCEPT ![c] = "error"],
           UNCHANGED <<batch, body, attempts>>
    PROVE  Tasks'
<1> USE DEF Tasks, QueuedIdle, RetriesLeft, IsQueued, IsRunning, BodyRuns, KindOf, Standings, Statuses
<1>1. TimeoutStopsTask'
  BY DEF TimeoutStopsTask
<1>2. ResultsTruthful'
  BY DEF ResultsTruthful
<1> QED
  BY <1>1, <1>2

LEMMA CallKeepsTasks ==
    ASSUME NEW c \in Calls, Tasks, CallStep(c)
    PROVE  Tasks'
<1> USE ConstantTypes
<1> USE DEF Tasks, QueuedIdle, RetriesLeft, IsRunning, BodyRuns, KindOf, Standings, Statuses
<1>1. CASE Launch(c)
  <2>1. attempts' \in [Calls -> 0 .. MaxAttempts] /\ RetriesLeft'
    BY <1>1 DEF Launch
  <2>2. TimeoutStopsTask'
    BY <1>1 DEF Launch, TimeoutStopsTask
  <2>3. ResultsTruthful'
    BY <1>1 DEF Launch, ResultsTruthful
  <2>4. QueuedIdle'
    BY <1>1 DEF Launch
  <2> QED
    BY <1>1, <2>1, <2>2, <2>3, <2>4 DEF Launch
<1>2. CASE RefuseForRate(c) \/ RefuseParameters(c) \/ RefuseUnknown(c)
  BY <1>2, RefusalKeepsTasks DEF RefuseForRate, RefuseParameters, RefuseUnknown, Acquires
<1>3. CASE HalfTime(c)
  <2>1. TimeoutStopsTask' /\ ResultsTruthful'
    BY <1>3 DEF HalfTime, TimeoutStopsTask, ResultsTruthful
  <2> QED
    BY <1>3, <2>1 DEF HalfTime
<1>4. CASE Collect(c)
  <2>1. call' = [call EXCEPT ![c] = body[c]] /\ body[c] \in Statuses
        /\ UNCHANGED <<batch, body, attempts>>
    BY <1>4 DEF Collect, StatusFor
  <2>2. TimeoutStopsTask'
    BY <2>1 DEF TimeoutStopsTask
  <2>3. ResultsTruthful'
    BY <2>1 DEF ResultsTruthful
  <2> QED
    BY <2>1, <2>2, <2>3
<1>5. CASE TimeOut(c)
  <2>1. /\ call[c] = "secondHalf"
        /\ call' = [call EXCEPT ![c] = "timeout"]
        /\ body' = [body EXCEPT ![c] = KilledBody(c)]
        /\ UNCHANGED <<batch, attempts>>
    BY <1>5 DEF TimeOut
  <2>2. KilledBody(c) \in {"none", "running", "backoff", "success", "error", "timeout", "killed"}
        /\ (KilledBody(c) = "backoff" => body[c] = "backoff")
        /\ (KilledBody(c) \in {"running", "backoff"} => KindOf(c) = "sync")
    BY DEF KilledBody
  <2>3. TimeoutStopsTask'
    BY <2>1, <2>2 DEF TimeoutStopsTask
  <2>4. ResultsTruthful'
    BY <2>1 DEF ResultsTruthful
  <2>5. QueuedIdle' /\ RetriesLeft'
    BY <2>1, <2>2
  <2> QED
    BY <2>1, <2>2, <2>3, <2>4, <2>5
<1> QED
  BY <1>1, <1>2, <1>3, <1>4, <1>5 DEF CallStep

(* A body that ends or pauses: its call has not collected a result yet.    *)
LEMMA EndKeepsTasks ==
    ASSUME NEW c \in Calls, NEW outcome \in Statuses \cup {"backoff"}, Tasks,
           body[c] = "running", Ends(c, outcome),
           outcome = "backoff" => attempts[c] < MaxAttempts
    PROVE  Tasks'
<1> USE DEF Tasks, QueuedIdle, RetriesLeft, IsRunning, BodyRuns, KindOf, Standings, Statuses
<1>1. body' = [body EXCEPT ![c] = outcome] /\ UNCHANGED <<batch, call, attempts>>
  BY DEF Ends
<1>2. call[c] \notin {"queued", "success", "error"}
  BY DEF ResultsTruthful
<1>3. TimeoutStopsTask'
  BY <1>1 DEF TimeoutStopsTask
<1>4. ResultsTruthful'
  BY <1>1, <1>2 DEF ResultsTruthful
<1> QED
  BY <1>1, <1>2, <1>3, <1>4

LEMMA BodyKeepsTasks ==
    ASSUME NEW c \in Calls, Tasks, BodyStep(c)
    PROVE  Tasks'
<1> USE ConstantTypes
<1>1. CASE ToolEnds(c) \/ HttpAnswers(c)
  BY <1>1, EndKeepsTasks DEF ToolEnds, HttpAnswers, Statuses
<1>2. CASE HttpFails(c)
  BY <1>2, EndKeepsTasks DEF HttpFails, MayRetry, Statuses
<1>3. CASE HttpRetries(c)
  <2> USE DEF Tasks, QueuedIdle, RetriesLeft, IsRunning, BodyRuns, KindOf, Standings, Statuses
  <2>1. /\ body[c] = "backoff"
        /\ body' = [body EXCEPT ![c] = "running"]
        /\ attempts' = [attempts EXCEPT ![c] = @ + 1]
        /\ UNCHANGED <<batch, call>>
    BY <1>3 DEF HttpRetries
  <2>2. attempts[c] \in 0 .. MaxAttempts /\ attempts[c] < MaxAttempts
    BY <2>1
  <2>3. attempts' \in [Calls -> 0 .. MaxAttempts] /\ RetriesLeft'
    BY <2>1, <2>2
  <2>4. TimeoutStopsTask'
    BY <2>1 DEF TimeoutStopsTask
  <2>5. ResultsTruthful'
    BY <2>1 DEF ResultsTruthful
  <2>6. QueuedIdle'
    BY <2>1
  <2> QED
    BY <2>1, <2>3, <2>4, <2>5, <2>6
<1> QED
  BY <1>1, <1>2, <1>3 DEF BodyStep

LEMMA CancelKeepsTasks ==
    ASSUME NEW b \in Batches, Tasks, CancelBatch(b)
    PROVE  Tasks'
<1> USE DEF Tasks, QueuedIdle, RetriesLeft, IsRunning, BodyRuns, KindOf, Standings, Statuses
<1>1. /\ batch' = [batch EXCEPT ![b] = "cancelled"]
      /\ call' = [c \in Calls |-> IF c \in Members(b) /\ ~IsOver(c) THEN "cancelled" ELSE call[c]]
      /\ body' = [c \in Calls |-> IF c \in Members(b) /\ call[c] = "secondHalf"
                                  THEN KilledBody(c) ELSE body[c]]
      /\ UNCHANGED attempts
  BY DEF CancelBatch
<1>2. \A c \in Calls :
        /\ body'[c] = body[c] \/ (body'[c] = "killed" /\ c \in Members(b) /\ call[c] = "secondHalf")
        /\ call'[c] = call[c] \/ (call'[c] = "cancelled" /\ c \in Members(b))
  BY <1>1 DEF KilledBody
<1>3. /\ body' \in [Calls -> {"none", "running", "backoff", "success", "error", "timeout", "killed"}]
      /\ call' \in [Calls -> Standings]
      /\ batch' \in [Batches -> {"new", "running", "returned", "cancelled"}]
  BY <1>1, <1>2 DEF KilledBody
<1>4. \A c \in Calls : call[c] = "secondHalf" /\ c \in Members(b) => call'[c] = "cancelled"
  BY <1>1 DEF IsOver
<1>5. TimeoutStopsTask'
  <2> SUFFICES ASSUME NEW c \in Calls, BodyRuns(c)', KindOf(c) # "sync"
               PROVE  IsRunning(c)' \/ batch'[BatchOf[c]] = "cancelled"
    BY DEF TimeoutStopsTask
  <2>1. body'[c] = body[c]
    BY <1>2
  <2>2. IsRunning(c) \/ batch[BatchOf[c]] = "cancelled"
    BY <2>1 DEF TimeoutStopsTask
  <2>3. c \in Members(b) => batch'[BatchOf[c]] = "cancelled"
    BY <1>1 DEF Members
  <2>4. batch[BatchOf[c]] = "cancelled" => batch'[BatchOf[c]] = "cancelled"
    BY <1>1, ConstantTypes
  <2> QED
    BY <1>2, <2>2, <2>3, <2>4
<1>6. ResultsTruthful'
  BY <1>2, <1>4 DEF ResultsTruthful
<1>7. QueuedIdle' /\ RetriesLeft'
  BY <1>1, <1>2, <1>4
<1> QED
  BY <1>1, <1>3, <1>5, <1>6, <1>7

(* A batch that starts or returns was not cancelled and is not.            *)
LEMMA BatchKeepsTasks ==
    ASSUME NEW b \in Batches, Tasks, StartBatch(b) \/ ReturnResults(b)
    PROVE  Tasks'
<1>1. /\ \A other \in Batches : batch[other] = "cancelled" => batch'[other] = "cancelled"
      /\ batch' \in [Batches -> {"new", "running", "returned", "cancelled"}]
      /\ UNCHANGED <<call, body, attempts>>
  BY DEF StartBatch, ReturnResults, Tasks
<1>2. TimeoutStopsTask'
  BY <1>1, ConstantTypes DEF Tasks, TimeoutStopsTask, BodyRuns, IsRunning
<1> QED
  BY <1>1, <1>2 DEF Tasks, QueuedIdle, RetriesLeft, ResultsTruthful

LEMMA UnchangedTasks ==
    ASSUME Tasks, UNCHANGED <<batch, call, body, attempts>>
    PROVE  Tasks'
  BY DEF Tasks, QueuedIdle, RetriesLeft, TimeoutStopsTask, ResultsTruthful, BodyRuns, IsRunning

-----------------------------------------------------------------------------
(***************************************************************************)
(* The steps.                                                              *)
(***************************************************************************)
LEMMA InitHolds == Init => IInv
<1> SUFFICES ASSUME Init PROVE IInv
  OBVIOUS
<1>1. \A b \in Batches : Holders(b) = {}
  BY DEF Init, Holders, Members, IsRunning
<1>2. IsFiniteSet({}) /\ Cardinality({}) = 0
  BY FS_EmptySet
<1>3. permits = [b \in Batches |-> MaxConcurrent]
  BY DEF Init
<1>4. Semaphore
  BY <1>1, <1>2, <1>3, ConstantTypes DEF Semaphore
<1>5. Tasks
  BY ConstantTypes DEF Init, Tasks, QueuedIdle, RetriesLeft, TimeoutStopsTask, ResultsTruthful,
                       BodyRuns, Standings
<1>6. Limiter
  BY ConstantTypes DEF Init, Limiter, IsTail, TailOf, WindowRespected
<1> QED
  BY <1>4, <1>5, <1>6 DEF IInv

LEMMA CallKeeps ==
    ASSUME NEW c \in Calls, IInv, CallStep(c)
    PROVE  IInv'
<1> USE DEF IInv
<1>0. Tasks' /\ ToolOf[c] \in Tools /\ call \in [Calls -> Standings]
  BY CallKeepsTasks, ConstantTypes DEF Tasks
<1>1. CASE Launch(c)
  <2>1. Semaphore'
    BY <1>0, <1>1, TakeKeepsSemaphore DEF Launch, Acquires, IsQueued, IsRunning
  <2>2. Limiter'
    BY <1>0, <1>1, RecordKeepsLimiter DEF Launch
  <2> QED
    BY <1>0, <2>1, <2>2
<1>2. CASE RefuseForRate(c) \/ RefuseParameters(c) \/ RefuseUnknown(c)
  <2>1. permits' = permits /\ call' = [call EXCEPT ![c] = "error"] /\ call[c] = "queued"
    BY <1>2 DEF RefuseForRate, RefuseParameters, RefuseUnknown, Acquires, IsQueued
  <2>2. Semaphore'
    BY <1>0, <2>1, SameHoldersKeepSemaphore DEF IsRunning
  <2>3. Limiter'
    BY <1>0, <1>2, PruneKeepsLimiter, RecordKeepsLimiter, UnchangedLimiter
       DEF RefuseForRate, RefuseParameters, RefuseUnknown
  <2> QED
    BY <1>0, <2>2, <2>3
<1>3. CASE HalfTime(c)
  <2>1. Semaphore'
    BY <1>0, <1>3, SameHoldersKeepSemaphore DEF HalfTime, IsRunning
  <2> QED
    BY <1>0, <1>3, <2>1, UnchangedLimiter DEF HalfTime
<1>4. CASE Collect(c)
  <2>1. Semaphore'
    BY <1>0, <1>4, GiveKeepsSemaphore DEF Collect, StatusFor
  <2> QED
    BY <1>0, <1>4, <2>1, UnchangedLimiter DEF Collect
<1>5. CASE TimeOut(c)
  <2>1. Semaphore'
    BY <1>0, <1>5, GiveKeepsSemaphore DEF TimeOut, IsRunning, Statuses
  <2> QED
    BY <1>0, <1>5, <2>1, UnchangedLimiter DEF TimeOut
<1> QED
  BY <1>1, <1>2, <1>3, <1>4, <1>5 DEF CallStep

LEMMA BodyKeeps ==
    ASSUME NEW c \in Calls, IInv, BodyStep(c)
    PROVE  IInv'
<1>1. UNCHANGED <<now, permits, call, invocations, admitted>>
  BY DEF BodyStep, ToolEnds, HttpAnswers, HttpFails, HttpRetries, Ends
<1>2. Semaphore'
  BY <1>1, SameHoldersKeepSemaphore DEF IInv, IsRunning
<1> QED
  BY <1>1, <1>2, BodyKeepsTasks, UnchangedLimiter DEF IInv

LEMMA StepKeeps == IInv /\ [Next]_vars => IInv'
<1> SUFFICES ASSUME IInv, [Next]_vars PROVE IInv'
  OBVIOUS
<1>1. ASSUME NEW b \in Batches, StartBatch(b) \/ ReturnResults(b)
      PROVE  IInv'
  <2>1. UNCHANGED <<now, permits, call, invocations, admitted>>
    BY <1>1 DEF StartBatch, ReturnResults
  <2>2. Semaphore'
    BY <2>1, SameHoldersKeepSemaphore DEF IInv, IsRunning
  <2> QED
    BY <1>1, <2>1, <2>2, BatchKeepsTasks, UnchangedLimiter DEF IInv
<1>2. ASSUME NEW b \in Batches, CancelBatch(b)
      PROVE  IInv'
  <2>1. UNCHANGED <<now, invocations, admitted>>
    BY <1>2 DEF CancelBatch
  <2> QED
    BY <1>2, <2>1, CancelKeepsSemaphore, CancelKeepsTasks, UnchangedLimiter DEF IInv
<1>3. ASSUME NEW c \in Calls, CallStep(c) \/ BodyStep(c)
      PROVE  IInv'
  BY <1>3, CallKeeps, BodyKeeps
<1>4. CASE Tick
  <2>1. UNCHANGED <<batch, permits, call, body, attempts>>
    BY <1>4 DEF Tick
  <2>2. Semaphore'
    BY <2>1, SameHoldersKeepSemaphore DEF IInv, IsRunning
  <2> QED
    BY <1>4, <2>1, <2>2, UnchangedTasks, TickKeepsLimiter DEF IInv
<1>5. CASE UNCHANGED vars
  <2>1. Semaphore'
    BY <1>5, SameHoldersKeepSemaphore DEF IInv, IsRunning, vars
  <2> QED
    BY <1>5, <2>1, UnchangedTasks, UnchangedLimiter DEF IInv, vars
<1> QED
  BY <1>1, <1>2, <1>3, <1>4, <1>5 DEF Next

-----------------------------------------------------------------------------
(***************************************************************************)
(* The theorems.                                                           *)
(***************************************************************************)
LEMMA AlwaysIInv == Spec => []IInv
  BY InitHolds, StepKeeps, PTL DEF Spec

(* tool_executor.py, execute_batch: no permit is lost, whatever way a call *)
(* takes out of the semaphore, and no more calls run than it has permits.  *)
THEOREM PermitsAlwaysBalance == Spec => []PermitsBalance
  BY AlwaysIInv, IInvImplies, PTL

(* tool_executor.py, _run_with_half_timeout_warning: the shield of the     *)
(* first half does not let the tool survive the whole timeout.             *)
THEOREM TimeoutsStopTasks == Spec => []TimeoutStopsTask
  BY AlwaysIInv, IInvImplies, PTL

(* tool_executor.py, _execute_one: the status of a result is that of the   *)
(* tool it came from, whatever happens to the other calls of the batch.    *)
THEOREM ResultsAlwaysTruthful == Spec => []ResultsTruthful
  BY AlwaysIInv, IInvImplies, PTL

(* tool_executor.py, RateLimiter: in no window are there more admissions   *)
(* than the limit, for every limit and window, although the list is pruned.*)
THEOREM WindowAlwaysRespected == Spec => []WindowRespected
  BY AlwaysIInv, IInvImplies, PTL

=============================================================================
