----------------------------- MODULE MemoryProofs -----------------------------
(***************************************************************************)
(* Proofs about Memory, for every set of owners, conversations, projects   *)
(* and facts, and every interval of the readings.                          *)
(***************************************************************************)
EXTENDS Memory, SequenceTheorems, TLAPS

-----------------------------------------------------------------------------
(***************************************************************************)
(* The store.                                                              *)
(***************************************************************************)

(* A fact belongs to the owner of the conversation it was learned from.    *)
OwnersKnown == \A r \in facts : r.owner = OwnerOf[r.from]

StoreInv == StoreTypeOK /\ OwnersKnown /\ EpisodesHaveHome

(* Two rows that differ in their support and their age only.               *)
Alike(r, s) ==
    /\ r.id = s.id /\ r.layer = s.layer /\ r.owner = s.owner /\ r.project = s.project
    /\ r.conv = s.conv /\ r.fact = s.fact /\ r.from = s.from

(* No fact is added: every row that is left is one of those before, or     *)
(* what became of it.                                                      *)
FactsKept ==
    \E F \in [facts -> Facts] :
        /\ \A r \in facts : Alike(F[r], r)
        /\ facts' \subseteq {F[r] : r \in facts}

(* Rows that are only deleted.                                             *)
LEMMA DeletionKeepsFacts ==
    ASSUME facts \subseteq Facts, facts' \subseteq facts
    PROVE  FactsKept
<1> DEFINE F == [r \in facts |-> r]
<1>1. F \in [facts -> Facts] /\ \A r \in facts : Alike(F[r], r)
  BY DEF Alike
<1>2. facts' \subseteq {F[r] : r \in facts}
  OBVIOUS
<1> QED
  BY <1>1, <1>2 DEF FactsKept

(* The facts that are left are in order if the rows before were.           *)
LEMMA KeptFactsTyped ==
    ASSUME StoreInv, FactsKept, lastId' = lastId
    PROVE  /\ facts' \subseteq Facts
           /\ \A r \in facts' : r.id <= lastId'
           /\ OwnersKnown'
<1>1. PICK F \in [facts -> Facts] :
          /\ \A r \in facts : Alike(F[r], r)
          /\ facts' \subseteq {F[r] : r \in facts}
  BY DEF FactsKept
<1> SUFFICES ASSUME NEW s \in facts'
             PROVE  s \in Facts /\ s.id <= lastId' /\ s.owner = OwnerOf[s.from]
  BY DEF OwnersKnown
<1>2. PICK r \in facts : s = F[r]
  BY <1>1
<1>3. s \in Facts /\ Alike(s, r)
  BY <1>1, <1>2
<1> QED
  BY <1>3 DEF Alike, StoreInv, StoreTypeOK, OwnersKnown

(* A row that loses a point, or that grows old, stays a row.               *)
LEMMA AgedRow ==
    ASSUME NEW r \in Facts, NEW layer
    PROVE  /\ [r EXCEPT !.stale = TRUE] \in Facts
           /\ Alike([r EXCEPT !.stale = TRUE], r)
           /\ Faded(r, layer) \in Facts
           /\ Alike(Faded(r, layer), r)
<1>1. r.support \in Nat \ {0}
  BY DEF Facts
<1>2. /\ [r EXCEPT !.stale = TRUE] \in Facts
      /\ Alike([r EXCEPT !.stale = TRUE], r)
  BY DEF Facts, Alike
<1>3. CASE r.support > 1
  <2> DEFINE n == r.support - 1
  <2>1. n \in Nat \ {0}
    BY <1>1, <1>3
  <2> HIDE DEF n
  <2>2. [r EXCEPT !.support = n] \in Facts /\ Alike([r EXCEPT !.support = n], r) /\ Alike(r, r)
    BY <2>1 DEF Facts, Alike
  <2> QED
    BY <1>2, <2>2 DEF Faded, n
<1>4. CASE ~(r.support > 1)
  BY <1>2, <1>4 DEF Faded, Alike
<1> QED
  BY <1>3, <1>4

(* A request of the owner, or the passing of time: the rows keep their     *)
(* types and their owners, and every episode has its conversation.         *)
LEMMA ClosedType ==
    ASSUME StoreTypeOK, NEW C \in SUBSET Conv
    PROVE  /\ Closed(C) \in [Conv -> [live : BOOLEAN, project : Project \cup {NoProject}]]
           /\ \A c \in Conv \ C : Closed(C)[c] = conv[c]
  BY DEF Closed, StoreTypeOK

LEMMA RequestsTyped ==
    ASSUME StoreTypeOK, NEW o, Request(o)
    PROVE  requests' \in 0 .. MaxRequests
  BY MemoryStoreAssumption DEF StoreTypeOK, Request

(* A request that changes neither conversations nor projects.              *)
LEMMA ErasureKeeps ==
    ASSUME StoreInv, NEW o, Request(o),
           episodes' \subseteq episodes, facts' \subseteq facts,
           UNCHANGED <<account, project, conv, lastId>>
    PROVE  StoreInv' /\ FactsKept
<1>1. FactsKept
  BY DeletionKeepsFacts DEF StoreInv, StoreTypeOK
<1>2. StoreTypeOK' /\ OwnersKnown'
  BY <1>1, KeptFactsTyped, RequestsTyped DEF StoreInv, StoreTypeOK
<1>3. EpisodesHaveHome'
  BY DEF StoreInv, EpisodesHaveHome, Live
<1> QED
  BY <1>1, <1>2, <1>3 DEF StoreInv

(* Conversations are closed, and their episodes go with them.              *)
LEMMA ClosingKeeps ==
    ASSUME StoreInv, NEW o, Request(o), NEW C \in SUBSET Conv,
           account' \subseteq account, project' \subseteq project,
           conv' = Closed(C),
           episodes' \subseteq {e \in episodes : e.conv \notin C},
           facts' \subseteq facts, lastId' = lastId
    PROVE  StoreInv' /\ FactsKept
<1>1. FactsKept
  BY DeletionKeepsFacts DEF StoreInv, StoreTypeOK
<1>2. StoreTypeOK /\ StoreTypeOK' /\ OwnersKnown'
  BY <1>1, KeptFactsTyped, RequestsTyped, ClosedType DEF StoreInv, StoreTypeOK
<1>3. EpisodesHaveHome'
  BY <1>2, ClosedType DEF StoreInv, EpisodesHaveHome, Live
<1> QED
  BY <1>1, <1>2, <1>3 DEF StoreInv

(* Conversations change their project.                                     *)
LEMMA MovingKeeps ==
    ASSUME StoreInv, NEW o, Request(o),
           project' \subseteq project,
           conv' \in [Conv -> [live : BOOLEAN, project : Project \cup {NoProject}]],
           \A c \in Conv : conv'[c].live = conv[c].live,
           facts' \subseteq facts,
           UNCHANGED <<account, episodes, lastId>>
    PROVE  StoreInv' /\ FactsKept
<1>1. FactsKept
  BY DeletionKeepsFacts DEF StoreInv, StoreTypeOK
<1>2. StoreTypeOK' /\ OwnersKnown'
  BY <1>1, KeptFactsTyped, RequestsTyped DEF StoreInv, StoreTypeOK
<1>3. EpisodesHaveHome'
  BY DEF StoreInv, EpisodesHaveHome, Live
<1> QED
  BY <1>1, <1>2, <1>3 DEF StoreInv

LEMMA RequestedKeeps ==
    ASSUME StoreInv, Requested
    PROVE  StoreInv' /\ FactsKept
<1>1. ASSUME NEW o \in Owner, NEW scope, Purge(o, scope)
      PROVE  StoreInv' /\ FactsKept
  BY <1>1, ErasureKeeps DEF Purge
<1>2. ASSUME NEW o \in Owner, NEW r \in facts, ForgetEdge(o, r) \/ ForgetEntry(o, r)
      PROVE  StoreInv' /\ FactsKept
  BY <1>2, ErasureKeeps DEF ForgetEdge, ForgetEntry
<1>3. ASSUME NEW o \in Owner, NEW e \in episodes, DeleteEpisode(o, e)
      PROVE  StoreInv' /\ FactsKept
  BY <1>3, ErasureKeeps DEF DeleteEpisode
<1>4. ASSUME NEW o \in Owner, DeleteAccount(o)
      PROVE  StoreInv' /\ FactsKept
  <2>1. CASE TripsKey(o)
    BY <1>4, <2>1, ErasureKeeps DEF DeleteAccount
  <2>2. CASE ~TripsKey(o)
    <3>1. Owned(o) \in SUBSET Conv
      BY DEF Owned
    <3> QED
      BY <1>4, <2>2, <3>1, ClosingKeeps DEF DeleteAccount
  <2> QED
    BY <2>1, <2>2
<1>5. ASSUME NEW c \in Conv, DeleteConversation(c)
      PROVE  StoreInv' /\ FactsKept
  BY <1>5, ClosingKeeps DEF DeleteConversation
<1>6. ASSUME NEW c \in Conv, NEW p \in project \cup {NoProject}, Assign(c, p)
      PROVE  StoreInv' /\ FactsKept
  <2>1. p \in Project \cup {NoProject}
    BY DEF StoreInv, StoreTypeOK
  <2>2. /\ conv' \in [Conv -> [live : BOOLEAN, project : Project \cup {NoProject}]]
        /\ \A d \in Conv : conv'[d].live = conv[d].live
    BY <1>6, <2>1 DEF Assign, StoreInv, StoreTypeOK
  <2> QED
    BY <1>6, <2>2, MovingKeeps DEF Assign
<1>7. ASSUME NEW p \in Project, DeleteProject(p, TRUE)
      PROVE  StoreInv' /\ FactsKept
  <2> DEFINE within == {c \in Conv : conv[c].project = p}
  <2>1. within \in SUBSET Conv
    OBVIOUS
  <2> QED
    BY <1>7, <2>1, ClosingKeeps DEF DeleteProject
<1>8. ASSUME NEW p \in Project, DeleteProject(p, FALSE)
      PROVE  StoreInv' /\ FactsKept
  <2>1. conv' = [c \in Conv |-> IF c \in {d \in Conv : conv[d].project = p}
                                THEN [conv[c] EXCEPT !.project = NoProject] ELSE conv[c]]
    BY <1>8 DEF DeleteProject
  <2>2. /\ conv' \in [Conv -> [live : BOOLEAN, project : Project \cup {NoProject}]]
        /\ \A d \in Conv : conv'[d].live = conv[d].live
    BY <2>1 DEF StoreInv, StoreTypeOK
  <2> QED
    BY <1>8, <2>2, MovingKeeps DEF DeleteProject
<1> QED
  BY <1>1, <1>2, <1>3, <1>4, <1>5, <1>6, <1>7, <1>8 DEF Requested

(* The sweeps and the passing of time.                                     *)
LEMMA TimeKeeps ==
    ASSUME StoreInv, TimePasses \/ Sweeper
    PROVE  StoreInv' /\ FactsKept
<1>1. CASE TimePasses
  <2> DEFINE F == [r \in facts |-> [r EXCEPT !.stale = TRUE]]
  <2>1. F \in [facts -> Facts] /\ \A r \in facts : Alike(F[r], r)
    BY AgedRow DEF StoreInv, StoreTypeOK
  <2>2. facts' \subseteq {F[r] : r \in facts}
    BY <1>1 DEF TimePasses
  <2>3. FactsKept
    BY <2>1, <2>2 DEF FactsKept
  <2>4. episodes' \subseteq Episodes /\ \A e \in episodes' : \E d \in episodes : e.conv = d.conv
    BY <1>1 DEF TimePasses, StoreInv, StoreTypeOK, Episodes
  <2>5. UNCHANGED <<account, project, conv, lastId, requests>>
    BY <1>1 DEF TimePasses
  <2>6. StoreTypeOK' /\ OwnersKnown'
    BY <2>3, <2>4, <2>5, KeptFactsTyped DEF StoreInv, StoreTypeOK
  <2>7. EpisodesHaveHome'
    BY <2>4, <2>5 DEF StoreInv, EpisodesHaveHome, Live
  <2> QED
    BY <2>3, <2>6, <2>7 DEF StoreInv
<1>2. CASE Retention
  <2>1. FactsKept
    BY <1>2, DeletionKeepsFacts DEF Retention, StoreInv, StoreTypeOK
  <2>2. StoreTypeOK' /\ OwnersKnown'
    BY <1>2, <2>1, KeptFactsTyped DEF Retention, StoreInv, StoreTypeOK
  <2>3. EpisodesHaveHome'
    BY <1>2 DEF Retention, StoreInv, EpisodesHaveHome, Live
  <2> QED
    BY <2>1, <2>2, <2>3 DEF StoreInv
<1>3. ASSUME NEW layer \in Edge, Decay(layer)
      PROVE  StoreInv' /\ FactsKept
  <2> DEFINE F == [r \in facts |-> Faded(r, layer)]
  <2>1. F \in [facts -> Facts] /\ \A r \in facts : Alike(F[r], r)
    BY AgedRow DEF StoreInv, StoreTypeOK
  <2>2. facts' \subseteq {F[r] : r \in facts}
    BY <1>3 DEF Decay, Sweep
  <2>3. FactsKept
    BY <2>1, <2>2 DEF FactsKept
  <2>4. UNCHANGED <<account, project, conv, episodes, lastId, requests>>
    BY <1>3 DEF Decay
  <2>5. StoreTypeOK' /\ OwnersKnown'
    BY <2>3, <2>4, KeptFactsTyped DEF StoreInv, StoreTypeOK
  <2>6. EpisodesHaveHome'
    BY <2>4 DEF StoreInv, EpisodesHaveHome, Live
  <2> QED
    BY <2>3, <2>5, <2>6 DEF StoreInv
<1> QED
  BY <1>1, <1>2, <1>3 DEF Sweeper

(* An episode is written for an owner.                                     *)
LEMMA WritingKeeps ==
    ASSUME StoreInv, NEW o \in Owner, NEW c \in Conv \cup {NoConv},
           WriteEpisode(o, c), requests' \in 0 .. MaxRequests
    PROVE  StoreInv' /\ facts' = facts
<1>1. UNCHANGED <<account, project, conv, facts, lastId>>
  BY DEF WriteEpisode
<1>2. [owner |-> o, conv |-> c, old |-> FALSE] \in Episodes
  BY DEF Episodes
<1>3. episodes' \subseteq Episodes
  BY <1>2 DEF WriteEpisode, StoreInv, StoreTypeOK
<1>4. StoreTypeOK' /\ OwnersKnown'
  BY <1>1, <1>3 DEF StoreInv, StoreTypeOK, OwnersKnown
<1>5. EpisodesHaveHome'
  BY <1>1 DEF WriteEpisode, StoreInv, EpisodesHaveHome, Live
<1> QED
  BY <1>1, <1>4, <1>5 DEF StoreInv

-----------------------------------------------------------------------------
(***************************************************************************)
(* The counts of the layers.  What a layer has counted since it last read  *)
(* a conversation is paid for by turns that no reading has used up.        *)
(***************************************************************************)
Pending(l, c) == IF c \in DOMAIN counts[l] THEN counts[l][c] ELSE 0

CountsTyped ==
    \A l \in Layer : \A c \in DOMAIN counts[l] : c \in Conv /\ counts[l][c] \in 0 .. Every - 1

TurnInv ==
    /\ flags \subseteq Layer
    /\ prefs \in [Owner -> SUBSET Switch]
    /\ left \in [Conv -> Nat]
    /\ storing \in [Conv -> (SUBSET Switch) \cup {NoTurn}]
    /\ CountsTyped
    /\ stored \in [Layer -> [Conv -> Nat]] /\ started \in [Layer -> [Conv -> Nat]]
    /\ \A l \in Layer, c \in Conv : Every * started[l][c] + Pending(l, c) <= stored[l][c]

(* The assumptions on the constants, in the form the proofs use them.      *)
LEMMA ConstantTypes ==
    /\ Every \in Nat \ {0}
    /\ Slots \in Nat \ {0}
    /\ \A l \in Layer : \A a \in Answers[l] : a \in Seq(Fact) /\ a # <<>>
    /\ \A x \in Setups : x.flags \subseteq Layer /\ x.turns \in [Conv -> Nat]
    /\ \A c \in Conv : OwnerOf[c] \in Owner
    /\ ToolConv \subseteq Conv \cup {NoConv}
  BY MemoryAssumption, MemoryStoreAssumption

(* Counting a turn adds one, or takes all that was counted back to zero.   *)
LEMMA CountedEffect ==
    ASSUME CountsTyped, NEW l \in Layer, NEW c \in Conv
    PROVE  /\ \A d \in DOMAIN Counted(l, c) : d \in Conv /\ Counted(l, c)[d] \in 0 .. Every - 1
           /\ \A d \in DOMAIN Counted(l, c) \ {c} :
                 d \in DOMAIN counts[l] /\ Counted(l, c)[d] = counts[l][d]
           /\ Due(l, c) => Pending(l, c) = Every - 1
           /\ Due(l, c) /\ c \in DOMAIN Counted(l, c) => Counted(l, c)[c] = 0
           /\ ~Due(l, c) => c \in DOMAIN Counted(l, c) /\ Counted(l, c)[c] = Pending(l, c) + 1
<1> DEFINE counter == [d \in DOMAIN counts[l] \cup {c} |->
                         IF d # c THEN counts[l][d] ELSE IF Due(l, c) THEN 0 ELSE Count(l, c)]
           forget == Due(l, c) /\ Cardinality(DOMAIN counter) > MaxTrack
<1>1. Count(l, c) = Pending(l, c) + 1 /\ Pending(l, c) \in 0 .. Every - 1
  BY ConstantTypes DEF Count, Pending, CountsTyped
<1>2. /\ Due(l, c) => Pending(l, c) = Every - 1
      /\ ~Due(l, c) => Count(l, c) \in 0 .. Every - 1
  BY <1>1, ConstantTypes DEF Due
<1>3. /\ \A d \in DOMAIN counter : d \in Conv /\ counter[d] \in 0 .. Every - 1
      /\ \A d \in DOMAIN counter \ {c} : d \in DOMAIN counts[l] /\ counter[d] = counts[l][d]
      /\ c \in DOMAIN counter
      /\ counter[c] = IF Due(l, c) THEN 0 ELSE Count(l, c)
  BY <1>2, ConstantTypes DEF CountsTyped
<1>4. Counted(l, c) = IF forget THEN <<>> ELSE counter
  BY DEF Counted
<1>5. forget => Due(l, c)
  OBVIOUS
<1>6. DOMAIN <<>> = {}
  OBVIOUS
<1> HIDE DEF counter, forget
<1> QED
  BY <1>1, <1>2, <1>3, <1>4, <1>5, <1>6

(* The turn ends, and waits to be stored.                                  *)
LEMMA TurnEndsKeeps ==
    ASSUME TurnInv, NEW c \in Conv, TurnEnds(c)
    PROVE  TurnInv'
<1>1. Effective(OwnerOf[c]) \in SUBSET Switch
  BY ConstantTypes DEF Effective, TurnInv
<1>2. storing' \in [Conv -> (SUBSET Switch) \cup {NoTurn}]
  BY <1>1 DEF TurnEnds, TurnInv
<1>3. left' \in [Conv -> Nat]
  BY DEF TurnEnds, TurnInv
<1>4. UNCHANGED <<flags, prefs, counts, stored, started>>
  BY DEF TurnEnds
<1> QED
  BY <1>2, <1>3, <1>4 DEF TurnInv, CountsTyped, Pending

(* The turn is stored and counted.                                         *)
LEMMA TurnStoredCounts ==
    ASSUME TurnInv, NEW c \in Conv, TurnStored(c)
    PROVE  TurnInv'
<1> DEFINE counting == Counting(c, storing[c])
           due == {l \in counting : Due(l, c)}
<1>1. /\ counts' = [l \in Layer |-> IF l \in counting THEN Counted(l, c) ELSE counts[l]]
      /\ stored' = [l \in Layer |-> [stored[l] EXCEPT ![c] = @ + (IF l \in counting THEN 1 ELSE 0)]]
      /\ started' = [l \in Layer |-> [started[l] EXCEPT ![c] = @ + (IF l \in due THEN 1 ELSE 0)]]
      /\ storing' = [storing EXCEPT ![c] = NoTurn]
      /\ UNCHANGED <<flags, prefs, left>>
  BY DEF TurnStored
<1> HIDE DEF counting
<1>2. CountsTyped'
  BY <1>1, CountedEffect DEF TurnInv, CountsTyped
<1>3. /\ stored' \in [Layer -> [Conv -> Nat]] /\ started' \in [Layer -> [Conv -> Nat]]
      /\ \A l \in Layer, d \in Conv :
            /\ stored'[l][d] = stored[l][d] + (IF d = c /\ l \in counting THEN 1 ELSE 0)
            /\ started'[l][d] = started[l][d] + (IF d = c /\ l \in due THEN 1 ELSE 0)
  BY <1>1 DEF TurnInv
<1>4. storing' \in [Conv -> (SUBSET Switch) \cup {NoTurn}]
  BY <1>1 DEF TurnInv
<1>5. ASSUME NEW l \in Layer, NEW d \in Conv
      PROVE  Every * started'[l][d] + Pending(l, d)' <= stored'[l][d]
  <2>1. /\ Every \in Nat /\ started[l][d] \in Nat /\ stored[l][d] \in Nat
        /\ Pending(l, d) \in Nat
        /\ Every * started[l][d] + Pending(l, d) <= stored[l][d]
        /\ Every * (started[l][d] + 1) = Every * started[l][d] + Every
        /\ Every * started[l][d] \in Nat
    BY ConstantTypes DEF TurnInv, CountsTyped, Pending
  <2>2. CASE l \notin counting
    <3>1. counts'[l] = counts[l] /\ l \notin due
      BY <1>1, <2>2
    <3>2. started'[l][d] = started[l][d] /\ stored'[l][d] = stored[l][d]
      BY <1>3, <2>1, <2>2, <3>1
    <3> QED
      BY <2>1, <3>1, <3>2 DEF Pending
  <2>3. CASE l \in counting /\ d # c
    <3>1. counts'[l] = Counted(l, c)
      BY <1>1, <2>3
    <3>2. Pending(l, d)' \in {0, Pending(l, d)}
      BY <2>3, <3>1, CountedEffect DEF Pending, TurnInv
    <3>3. started'[l][d] = started[l][d] /\ stored'[l][d] = stored[l][d]
      BY <1>3, <2>1, <2>3
    <3> QED
      BY <2>1, <3>2, <3>3
  <2>4. CASE l \in counting /\ d = c /\ Due(l, c)
    <3>1. counts'[l] = Counted(l, c) /\ l \in due
      BY <1>1, <2>4
    <3>2. Pending(l, d)' = 0 /\ Pending(l, d) = Every - 1
      BY <2>4, <3>1, CountedEffect DEF Pending, TurnInv
    <3>3. started'[l][d] = started[l][d] + 1 /\ stored'[l][d] = stored[l][d] + 1
      BY <1>3, <2>4, <3>1
    <3> QED
      BY <2>1, <3>2, <3>3
  <2>5. CASE l \in counting /\ d = c /\ ~Due(l, c)
    <3>1. counts'[l] = Counted(l, c) /\ l \notin due
      BY <1>1, <2>5
    <3>2. Pending(l, d)' = Pending(l, d) + 1
      BY <2>5, <3>1, CountedEffect DEF Pending, TurnInv
    <3>3. started'[l][d] = started[l][d] /\ stored'[l][d] = stored[l][d] + 1
      BY <1>3, <2>1, <2>5, <3>1
    <3> QED
      BY <2>1, <3>2, <3>3
  <2> QED
    BY <2>2, <2>3, <2>4, <2>5
<1> QED
  BY <1>1, <1>2, <1>3, <1>4, <1>5 DEF TurnInv

(* A step that has nothing to do with turns.                               *)
LEMMA TurnsAlone ==
    ASSUME TurnInv, UNCHANGED <<flags, left, storing, counts, stored, started>>,
           prefs' \in [Owner -> SUBSET Switch]
    PROVE  TurnInv'
  BY DEF TurnInv, CountsTyped, Pending

-----------------------------------------------------------------------------
(***************************************************************************)
(* The background tasks.  A task in progress has a conversation; while it  *)
(* reads it has a fact to look up; what it will write is a row with        *)
(* support.                                                                *)
(***************************************************************************)
TaskOK(t) ==
    /\ t \in TaskStates
    /\ t.pc # "idle" => t.conv \in Conv
    /\ t.pc \in {"idle", "load"} => t.upd = {} /\ t.add = <<>>
    /\ t.pc = "read" => t.batch # <<>>
    /\ \A u \in t.upd : u.support > 0

TaskInv ==
    /\ task \in [Layer -> [1 .. Slots -> TaskStates]]
    /\ \A l \in Layer, k \in 1 .. Slots : TaskOK(task[l][k])
    /\ overlapped \in BOOLEAN

LEMMA NoTaskOK == TaskOK(NoTask) /\ ~Open(NoTask)
<1>1. <<>> \in Seq(Fact)
  BY EmptySeq
<1>2. NoTask \in TaskStates
  BY <1>1 DEF NoTask, TaskStates
<1> QED
  BY <1>2 DEF TaskOK, NoTask, Open

(* One task is set.                                                        *)
LEMMA BecomesEffect ==
    ASSUME TaskInv, NEW l \in Layer, NEW k \in 1 .. Slots, NEW next, Becomes(l, k, next)
    PROVE  /\ \A m \in Layer, j \in 1 .. Slots :
                 task'[m][j] = IF m = l /\ j = k THEN next ELSE task[m][j]
           /\ TaskOK(next) /\ overlapped' \in BOOLEAN => TaskInv'
<1>1. task' = [task EXCEPT ![l] = [task[l] EXCEPT ![k] = next]]
  BY DEF Becomes
<1>2. /\ task \in [Layer -> [1 .. Slots -> TaskStates]]
      /\ task[l] \in [1 .. Slots -> TaskStates]
  BY DEF TaskInv
<1>3. \A m \in Layer, j \in 1 .. Slots :
         task'[m][j] = IF m = l /\ j = k THEN next ELSE task[m][j]
  BY <1>1, <1>2
<1>4. ASSUME TaskOK(next)
      PROVE  task' \in [Layer -> [1 .. Slots -> TaskStates]]
  <2>1. [task[l] EXCEPT ![k] = next] \in [1 .. Slots -> TaskStates]
    BY <1>2, <1>4 DEF TaskOK
  <2> QED
    BY <1>1, <1>2, <2>1
<1> QED
  BY <1>3, <1>4 DEF TaskInv

(* A turn that is due starts a task that has nothing to write yet.         *)
LEMMA NewTaskOK ==
    ASSUME StoreTypeOK, NEW l \in Layer, NEW c \in Conv
    PROVE  TaskOK(NewTask(l, c)) /\ ~Open(NewTask(l, c))
<1> DEFINE p == IF l = "brain" THEN conv[c].project ELSE NoProject
           t == [NoTask EXCEPT !.pc = "load", !.conv = c, !.project = p]
<1>1. p \in Project \cup {NoProject}
  BY DEF StoreTypeOK
<1>2. NewTask(l, c) = t
  BY DEF NewTask
<1> HIDE DEF p
<1>3. NoTask \in TaskStates
  BY NoTaskOK DEF TaskOK
<1>4. /\ t \in TaskStates /\ t.pc = "load" /\ t.conv = c
      /\ t.upd = {} /\ t.add = <<>>
  BY <1>1, <1>3 DEF TaskStates, NoTask
<1> HIDE DEF t
<1>5. TaskOK(t) /\ ~Open(t)
  BY <1>4 DEF TaskOK, Open
<1> QED
  BY <1>2, <1>5

(* Two states of a task in which it has the same in hand.                  *)
SameWork(t, u) ==
    t.upd = u.upd /\ t.add = u.add /\ t.conv = u.conv /\ t.project = u.project

(* A step of the tasks that takes up no new work.                          *)
NoNewWork ==
    \A l \in Layer, k \in 1 .. Slots :
        ~Open(task'[l][k]) \/ SameWork(task'[l][k], task[l][k])

LEMMA TurnStoredTasks ==
    ASSUME StoreTypeOK, TaskInv, NEW c \in Conv, TurnStored(c)
    PROVE  TaskInv' /\ NoNewWork
<1> DEFINE due == {l \in Counting(c, storing[c]) : Due(l, c)}
<1>1. task' = [l \in Layer |-> [k \in 1 .. Slots |->
                 IF l \in due /\ FreeSlot(l, k) THEN NewTask(l, c) ELSE task[l][k]]]
  BY DEF TurnStored
<1>2. overlapped' = overlapped
  BY DEF TurnStored
<1> HIDE DEF due
<1>3. \A l \in Layer, k \in 1 .. Slots :
         /\ TaskOK(task'[l][k])
         /\ ~Open(task'[l][k]) \/ task'[l][k] = task[l][k]
  BY <1>1, NewTaskOK DEF TaskInv
<1>4. task' \in [Layer -> [1 .. Slots -> TaskStates]]
  BY <1>1, <1>3 DEF TaskOK
<1> QED
  BY <1>2, <1>3, <1>4 DEF TaskInv, NoNewWork, SameWork

(* The conversation is read, or the task gives up.                         *)
LEMMA LoadKeeps ==
    ASSUME TaskInv, NEW l \in Layer, NEW k \in 1 .. Slots,
           NEW p, Live(task[l][k].conv) => p \in Project \cup {NoProject},
           Load(l, k, p)
    PROVE  TaskInv' /\ NoNewWork
<1> DEFINE t == task[l][k]
<1>1. TaskOK(t) /\ t.pc = "load" /\ overlapped' = overlapped
  BY DEF TaskInv, Load
<1>2. CASE Quits(l, k)
  <2>1. Becomes(l, k, NoTask)
    BY <1>2 DEF Quits
  <2> QED
    BY <1>1, <2>1, BecomesEffect, NoTaskOK DEF TaskInv, NoNewWork, SameWork
<1>3. CASE ~Quits(l, k)
  <2>1. PICK answer \in Answers[l] :
          /\ Live(t.conv)
          /\ Becomes(l, k, [t EXCEPT !.pc = "read", !.batch = answer, !.project = p])
    BY <1>3 DEF Load
  <2> DEFINE next == [t EXCEPT !.pc = "read", !.batch = answer, !.project = p]
  <2>2. answer \in Seq(Fact) /\ answer # <<>> /\ p \in Project \cup {NoProject}
    BY <2>1, ConstantTypes
  <2> HIDE DEF t
  <2>3. /\ next \in TaskStates /\ next.pc = "read" /\ next.conv = t.conv
        /\ next.batch = answer /\ next.upd = t.upd /\ next.add = t.add
    BY <1>1, <2>2 DEF TaskOK, TaskStates
  <2>4. Becomes(l, k, next)
    BY <2>1
  <2> HIDE DEF next
  <2>5. TaskOK(next) /\ ~Open(next)
    BY <1>1, <2>2, <2>3 DEF TaskOK, Open
  <2> QED
    BY <1>1, <2>4, <2>5, BecomesEffect DEF TaskInv, NoNewWork, SameWork
<1> QED
  BY <1>2, <1>3

(* After the first of several facts there are others.                      *)
LEMMA BatchTail ==
    ASSUME NEW b \in Seq(Fact), b # <<>>
    PROVE  /\ Head(b) \in Fact
           /\ Tail(b) \in Seq(Fact)
           /\ Len(b) # 1 => Tail(b) # <<>>
<1>1. Len(b) \in Nat \ {0} /\ Len(<<>>) = 0
  BY EmptySeq
<1>2. Head(b) \in Fact /\ Tail(b) \in Seq(Fact) /\ Len(Tail(b)) = Len(b) - 1
  BY HeadTailProperties
<1>3. Len(b) # 1 => Len(Tail(b)) # 0
  BY <1>1, <1>2
<1> QED
  BY <1>1, <1>2, <1>3

(* A fact is passed over.                                                  *)
LEMMA PassOverKeeps ==
    ASSUME TaskInv, NEW l \in Layer, NEW k \in 1 .. Slots, PassOver(l, k)
    PROVE  TaskInv' /\ NoNewWork
<1> DEFINE t == task[l][k]
<1>1. TaskOK(t) /\ t.pc = "read" /\ overlapped' = overlapped
  BY DEF TaskInv, PassOver
<1>2. CASE Len(t.batch) = 1
  <2>1. Becomes(l, k, NoTask)
    BY <1>2 DEF PassOver, Quits
  <2> QED
    BY <1>1, <2>1, BecomesEffect, NoTaskOK DEF TaskInv, NoNewWork, SameWork
<1>3. CASE Len(t.batch) # 1
  <2> DEFINE next == [t EXCEPT !.batch = Tail(t.batch)]
  <2>1. Becomes(l, k, next)
    BY <1>3 DEF PassOver
  <2> HIDE DEF t
  <2>2. t.batch \in Seq(Fact) /\ t.batch # <<>>
    BY <1>1 DEF TaskOK, TaskStates
  <2>3. Tail(t.batch) \in Seq(Fact) /\ Tail(t.batch) # <<>>
    BY <1>3, <2>2, BatchTail
  <2>4. /\ next \in TaskStates /\ next.pc = t.pc /\ next.batch = Tail(t.batch)
        /\ SameWork(next, t)
    BY <1>1, <2>3 DEF TaskOK, TaskStates, SameWork
  <2> HIDE DEF next
  <2>5. TaskOK(next)
    BY <1>1, <2>3, <2>4 DEF TaskOK, SameWork
  <2>6. \A m \in Layer, j \in 1 .. Slots :
           task'[m][j] = IF m = l /\ j = k THEN next ELSE task[m][j]
    BY <2>1, BecomesEffect
  <2>7. NoNewWork
    BY <2>4, <2>6 DEF NoNewWork, SameWork, t
  <2> QED
    BY <1>1, <2>1, <2>5, <2>7, BecomesEffect DEF TaskInv
<1> QED
  BY <1>2, <1>3

(* What the look-up of a fact adds to the work of a task: an update of a   *)
(* row, or a row for a fact that has none yet.                             *)
Taken(l, t, f, next) ==
    /\ TaskOK(next)
    /\ next.conv = t.conv /\ next.project = t.project
    /\ \/ next.add = t.add
       \/ next.add = Append(t.add, f) /\ Matches(l, t, f) = {}

LEMMA LookedEffect ==
    ASSUME StoreTypeOK, NEW l \in Layer, NEW t, TaskOK(t), t.pc = "read",
           NEW pc \in {"read", "commit"}, pc = "read" => Len(t.batch) # 1,
           NEW n \in Looked(l, t, Head(t.batch))
    PROVE  Taken(l, t, Head(t.batch), [n EXCEPT !.pc = pc])
<1> DEFINE f == Head(t.batch)
           rest == [t EXCEPT !.batch = Tail(t.batch)]
           found == Matches(l, t, f)
           again == {u \in t.upd : \E r \in found : r.id = u.id}
<1>1. /\ t \in TaskStates /\ t.conv \in Conv /\ t.batch \in Seq(Fact) /\ t.batch # <<>>
      /\ t.upd \in SUBSET [id : Nat, support : Nat] /\ t.add \in Seq(Fact)
      /\ \A u \in t.upd : u.support > 0
  BY DEF TaskOK, TaskStates
<1>2. /\ f \in Fact /\ Tail(t.batch) \in Seq(Fact)
      /\ Len(t.batch) # 1 => Tail(t.batch) # <<>>
  BY <1>1, BatchTail
<1>3. found \subseteq facts
  BY DEF Matches, SameSkill, SameEntry, SameTriple, SameEdge, Same, Layer
<1>4. /\ found = {} => n = [rest EXCEPT !.add = Append(t.add, f)]
      /\ found # {} =>
            \/ \E r \in found : n = [rest EXCEPT !.upd = t.upd \cup {[id |-> r.id, support |-> r.support + 1]}]
            \/ \E u \in again : n = [rest EXCEPT !.upd = (t.upd \ {u}) \cup
                                                        {[u EXCEPT !.support = u.support + 1]}]
  <2>1. rest.add = t.add /\ rest.upd = t.upd
    BY <1>1 DEF TaskStates
  <2> QED
    BY <2>1 DEF Looked
<1> DEFINE m == [n EXCEPT !.pc = pc]
<1>5. ASSUME NEW U \in SUBSET [id : Nat, support : Nat], \A u \in U : u.support > 0,
             found # {}, n = [rest EXCEPT !.upd = U]
      PROVE  Taken(l, t, f, m)
  <2> HIDE DEF f, found
  <2>1. m = [t EXCEPT !.pc = pc, !.batch = Tail(t.batch), !.upd = U]
    BY <1>1, <1>5 DEF TaskStates
  <2>2. /\ m \in TaskStates /\ m.pc = pc /\ m.batch = Tail(t.batch) /\ m.upd = U
        /\ m.add = t.add /\ m.conv = t.conv /\ m.project = t.project
    BY <1>1, <1>2, <2>1 DEF TaskStates
  <2> HIDE DEF m
  <2> QED
    BY <1>1, <1>2, <1>5, <2>2 DEF Taken, TaskOK
<1>6. ASSUME found = {}
      PROVE  Taken(l, t, f, m)
  <2> DEFINE A == Append(t.add, f)
  <2>1. A \in Seq(Fact)
    BY <1>1, <1>2, AppendProperties
  <2>2. n = [rest EXCEPT !.add = A]
    BY <1>4, <1>6
  <2> HIDE DEF A, f
  <2>3. m = [t EXCEPT !.pc = pc, !.batch = Tail(t.batch), !.add = A]
    BY <1>1, <2>2 DEF TaskStates
  <2>4. /\ m \in TaskStates /\ m.pc = pc /\ m.batch = Tail(t.batch) /\ m.upd = t.upd
        /\ m.add = A /\ m.conv = t.conv /\ m.project = t.project
    BY <1>1, <1>2, <2>1, <2>3 DEF TaskStates
  <2> HIDE DEF m
  <2> QED
    BY <1>1, <1>2, <1>6, <2>4 DEF Taken, TaskOK, A
<1>7. ASSUME NEW r \in found,
             n = [rest EXCEPT !.upd = t.upd \cup {[id |-> r.id, support |-> r.support + 1]}]
      PROVE  Taken(l, t, f, m)
  <2> DEFINE U == t.upd \cup {[id |-> r.id, support |-> r.support + 1]}
  <2>1. r.id \in Nat /\ r.support \in Nat
    BY <1>3, <1>7 DEF StoreTypeOK, Facts
  <2>2. U \in SUBSET [id : Nat, support : Nat] /\ \A u \in U : u.support > 0
    BY <1>1, <2>1
  <2>3. n = [rest EXCEPT !.upd = U]
    BY <1>7
  <2> HIDE DEF U, m, rest, f, found
  <2> QED
    BY <1>5, <1>7, <2>2, <2>3
<1>8. ASSUME NEW u \in again, found # {},
             n = [rest EXCEPT !.upd = (t.upd \ {u}) \cup {[u EXCEPT !.support = u.support + 1]}]
      PROVE  Taken(l, t, f, m)
  <2> DEFINE U == (t.upd \ {u}) \cup {[u EXCEPT !.support = u.support + 1]}
  <2>1. u \in [id : Nat, support : Nat]
    BY <1>1
  <2>2. U \in SUBSET [id : Nat, support : Nat] /\ \A v \in U : v.support > 0
    <3>1. /\ [u EXCEPT !.support = u.support + 1] \in [id : Nat, support : Nat]
          /\ [u EXCEPT !.support = u.support + 1].support > 0
      BY <2>1
    <3> QED
      BY <1>1, <3>1
  <2>3. n = [rest EXCEPT !.upd = U]
    BY <1>8
  <2> HIDE DEF U, m, rest, f, found
  <2> QED
    BY <1>5, <1>8, <2>2, <2>3
<1> HIDE DEF m, found, again, rest, f
<1>9. Taken(l, t, f, m)
  BY <1>4, <1>6, <1>7, <1>8
<1> QED
  BY <1>9 DEF m, f

LEMMA LookUpKeeps ==
    ASSUME StoreTypeOK, TaskInv, NEW l \in Layer, NEW k \in 1 .. Slots,
           NEW pc \in {"read", "commit"}, pc = "read" => Len(task[l][k].batch) # 1,
           LookUp(l, k, pc)
    PROVE  /\ TaskInv'
           /\ Taken(l, task[l][k], Head(task[l][k].batch), task'[l][k])
           /\ \A m \in Layer, j \in 1 .. Slots : <<m, j>> # <<l, k>> => task'[m][j] = task[m][j]
<1>1. PICK n \in Looked(l, task[l][k], Head(task[l][k].batch)) :
         Becomes(l, k, [n EXCEPT !.pc = pc])
  BY DEF LookUp
<1>2. TaskOK(task[l][k]) /\ task[l][k].pc = "read" /\ overlapped \in BOOLEAN
  BY DEF TaskInv, LookUp
<1> DEFINE next == [n EXCEPT !.pc = pc]
<1>3. Taken(l, task[l][k], Head(task[l][k].batch), next)
  BY <1>1, <1>2, LookedEffect
<1>4. overlapped' \in BOOLEAN
  BY <1>2 DEF LookUp
<1>5. Becomes(l, k, next)
  BY <1>1
<1> HIDE DEF next
<1>6. TaskInv'
  BY <1>3, <1>4, <1>5, BecomesEffect DEF Taken
<1>7. \A m \in Layer, j \in 1 .. Slots :
         task'[m][j] = IF m = l /\ j = k THEN next ELSE task[m][j]
  BY <1>5, BecomesEffect
<1> QED
  BY <1>3, <1>6, <1>7

(* A row that a commit updates, and the row that it adds for a fact.       *)
Refreshed(t, r) ==
    IF \E u \in t.upd : u.id = r.id
    THEN [r EXCEPT !.support = (CHOOSE u \in t.upd : u.id = r.id).support, !.stale = FALSE]
    ELSE r

NewRow(l, t, i) ==
    [id |-> lastId + i, layer |-> l, owner |-> OwnerOf[t.conv], project |-> t.project,
     conv |-> IF l = "knowledge" THEN t.conv ELSE NoConv,
     fact |-> t.add[i], support |-> 1, stale |-> FALSE, from |-> t.conv]

LEMMA RowTypes ==
    ASSUME StoreInv, NEW l \in Layer, NEW t, TaskOK(t), t.pc = "commit"
    PROVE  /\ \A r \in facts : Refreshed(t, r) \in Facts /\ Alike(Refreshed(t, r), r)
           /\ \A i \in DOMAIN t.add :
                 /\ i \in 1 .. Len(t.add) /\ t.add[i] \in Fact
                 /\ NewRow(l, t, i) \in Facts
                 /\ NewRow(l, t, i).id \in 1 .. lastId + Len(t.add)
                 /\ NewRow(l, t, i).owner = OwnerOf[NewRow(l, t, i).from]
<1>1. /\ t \in TaskStates /\ t.conv \in Conv
      /\ t.upd \in SUBSET [id : Nat, support : Nat] /\ t.add \in Seq(Fact)
      /\ t.project \in Project \cup {NoProject}
      /\ \A u \in t.upd : u.support > 0
  BY DEF TaskOK, TaskStates
<1>2. ASSUME NEW r \in facts
      PROVE  Refreshed(t, r) \in Facts /\ Alike(Refreshed(t, r), r)
  <2>1. r \in Facts
    BY DEF StoreInv, StoreTypeOK
  <2>2. CASE \E u \in t.upd : u.id = r.id
    <3> DEFINE u == CHOOSE v \in t.upd : v.id = r.id
               n == u.support
    <3>1. u \in t.upd
      BY <2>2
    <3>2. n \in Nat \ {0}
      BY <1>1, <3>1
    <3>3. Refreshed(t, r) = [r EXCEPT !.support = n, !.stale = FALSE]
      BY <2>2 DEF Refreshed
    <3> HIDE DEF n, u
    <3> QED
      BY <2>1, <3>2, <3>3 DEF Facts, Alike
  <2>3. CASE ~ \E u \in t.upd : u.id = r.id
    BY <2>1, <2>3 DEF Refreshed, Alike
  <2> QED
    BY <2>2, <2>3
<1>3. ASSUME NEW i \in DOMAIN t.add
      PROVE  /\ i \in 1 .. Len(t.add) /\ t.add[i] \in Fact
             /\ NewRow(l, t, i) \in Facts
             /\ NewRow(l, t, i).id \in 1 .. lastId + Len(t.add)
             /\ NewRow(l, t, i).owner = OwnerOf[NewRow(l, t, i).from]
  <2>1. Len(t.add) \in Nat /\ i \in 1 .. Len(t.add)
    BY <1>1, LenProperties
  <2>2. t.add[i] \in Fact
    BY <1>1, <2>1, ElementOfSeq
  <2>3. lastId \in Nat
    BY DEF StoreInv, StoreTypeOK
  <2> DEFINE n == lastId + i
             c == IF l = "knowledge" THEN t.conv ELSE NoConv
  <2>4. n \in Nat \ {0} /\ n \in 1 .. lastId + Len(t.add)
    BY <2>1, <2>3
  <2>5. c \in Conv \cup {NoConv} /\ OwnerOf[t.conv] \in Owner
    BY <1>1, ConstantTypes
  <2>6. NewRow(l, t, i) =
           [id |-> n, layer |-> l, owner |-> OwnerOf[t.conv], project |-> t.project,
            conv |-> c, fact |-> t.add[i], support |-> 1, stale |-> FALSE, from |-> t.conv]
    BY DEF NewRow
  <2> HIDE DEF n, c
  <2> QED
    BY <1>1, <2>1, <2>2, <2>4, <2>5, <2>6 DEF Facts
<1> QED
  BY <1>2, <1>3

(* What a commit does: nothing to the rows, or updates and new rows.       *)
LEMMA CommitEffect ==
    ASSUME StoreInv, TaskInv, NEW l \in Layer, NEW k \in 1 .. Slots, Commit(l, k)
    PROVE  /\ StoreInv' /\ TaskInv' /\ NoNewWork
           /\ ~Open(task'[l][k])
           /\ \/ facts' = facts
              \/ \A x \in facts' :
                    \/ \E r \in facts : x = Refreshed(task[l][k], r)
                    \/ \E i \in DOMAIN task[l][k].add : x = NewRow(l, task[l][k], i)
<1> DEFINE t == task[l][k]
           kept == \A u \in t.upd : \E r \in facts : r.id = u.id
<1>1. TaskOK(t) /\ t.pc = "commit" /\ overlapped' = overlapped
  BY DEF TaskInv, Commit
<1>2. TaskInv' /\ NoNewWork /\ ~Open(task'[l][k])
  <2>1. PICK next : Becomes(l, k, next) /\ TaskOK(next) /\ ~Open(next)
    <3>1. CASE t.batch = <<>>
      BY <3>1, NoTaskOK DEF Commit, Quits
    <3>2. CASE t.batch # <<>>
      <4> DEFINE next == [t EXCEPT !.pc = "read", !.upd = {}, !.add = <<>>]
      <4>1. Becomes(l, k, next)
        BY <3>2 DEF Commit
      <4>2. <<>> \in Seq(Fact) /\ t \in TaskStates
        BY <1>1, EmptySeq DEF TaskOK
      <4> HIDE DEF t
      <4>3. /\ next \in TaskStates /\ next.pc = "read" /\ next.batch = t.batch
            /\ next.upd = {} /\ next.add = <<>> /\ next.conv = t.conv
        BY <4>2 DEF TaskStates
      <4> HIDE DEF next
      <4>4. TaskOK(next) /\ ~Open(next)
        BY <1>1, <3>2, <4>3 DEF TaskOK, Open
      <4> QED
        BY <4>1, <4>4
    <3> QED
      BY <3>1, <3>2
  <2>2. \A m \in Layer, j \in 1 .. Slots :
           task'[m][j] = IF m = l /\ j = k THEN next ELSE task[m][j]
    BY <2>1, BecomesEffect
  <2>3. TaskInv'
    BY <1>1, <2>1, BecomesEffect DEF TaskInv
  <2> QED
    BY <2>1, <2>2, <2>3 DEF NoNewWork, SameWork
<1>3. /\ facts' = IF kept THEN Reinforced(t) \cup Added(l, t) ELSE facts
      /\ lastId' = IF kept THEN lastId + Len(t.add) ELSE lastId
      /\ UNCHANGED <<account, project, conv, episodes, requests>>
  BY DEF Commit
<1>4. ASSUME NEW x \in Reinforced(t) \cup Added(l, t)
      PROVE  \/ \E r \in facts : x = Refreshed(t, r)
             \/ \E i \in DOMAIN t.add : x = NewRow(l, t, i)
  <2> HIDE DEF t
  <2>1. CASE x \in Added(l, t)
    BY <2>1 DEF Added, NewRow
  <2>2. CASE x \in Reinforced(t)
    <3>1. CASE x \in facts /\ \A u \in t.upd : u.id # x.id
      BY <3>1 DEF Refreshed
    <3>2. CASE \E r \in {v \in facts : \E u \in t.upd : u.id = v.id} :
                 x = [r EXCEPT !.support = (CHOOSE u \in t.upd : u.id = r.id).support, !.stale = FALSE]
      BY <3>2 DEF Refreshed
    <3> QED
      BY <2>2, <3>1, <3>2, Zenon DEF Reinforced
  <2> QED
    BY <2>1, <2>2
<1>5. StoreInv'
  <2>1. CASE kept
    <3>1. lastId \in Nat /\ lastId' = lastId + Len(t.add) /\ Len(t.add) \in Nat
      BY <1>1, <1>3, <2>1, LenProperties DEF StoreInv, StoreTypeOK, TaskOK, TaskStates
    <3>2. ASSUME NEW x \in facts'
          PROVE  x \in Facts /\ x.id <= lastId' /\ x.owner = OwnerOf[x.from]
      <4>1. x \in Reinforced(t) \cup Added(l, t)
        BY <1>3, <2>1
      <4>2. CASE \E r \in facts : x = Refreshed(t, r)
        <5>1. PICK r \in facts : x = Refreshed(t, r)
          BY <4>2
        <5>2. x \in Facts /\ Alike(x, r)
          BY <1>1, <5>1, RowTypes
        <5>3. r.id \in Nat /\ r.id <= lastId /\ r.owner = OwnerOf[r.from]
          BY DEF StoreInv, StoreTypeOK, Facts, OwnersKnown
        <5> QED
          BY <3>1, <5>2, <5>3 DEF Alike
      <4>3. CASE \E i \in DOMAIN t.add : x = NewRow(l, t, i)
        BY <1>1, <3>1, <4>3, RowTypes
      <4> QED
        BY <1>4, <4>1, <4>2, <4>3
    <3>3. StoreTypeOK' /\ OwnersKnown'
      <4>1. facts' \subseteq Facts /\ lastId' \in Nat /\ OwnersKnown'
        BY <3>1, <3>2 DEF OwnersKnown
      <4>2. UNCHANGED <<account, project, conv, episodes, requests>>
        BY <1>3
      <4> HIDE DEF kept
      <4> QED
        BY <3>2, <4>1, <4>2 DEF StoreInv, StoreTypeOK
    <3>4. EpisodesHaveHome'
      BY <1>3 DEF StoreInv, EpisodesHaveHome, Live
    <3> QED
      BY <3>3, <3>4 DEF StoreInv
  <2>2. CASE ~kept
    BY <1>3, <2>2 DEF StoreInv, StoreTypeOK, OwnersKnown, EpisodesHaveHome, Live
  <2> QED
    BY <2>1, <2>2
<1> QED
  BY <1>2, <1>3, <1>4, <1>5

-----------------------------------------------------------------------------
(***************************************************************************)
(* Twice only if overlapped.  As long as no two stores of a layer were     *)
(* open at a time: the rows differ in their keys, at most one task of a    *)
(* layer has something to write, and what it will add is neither there nor *)
(* named twice.  The rows that a look-up finds are exactly those with the  *)
(* key that the new row would have.                                        *)
(***************************************************************************)
Is(l, t, f, r) ==
    /\ r.layer = l /\ r.owner = OwnerOf[t.conv] /\ r.fact = f
    /\ l = "brain" => r.project = t.project
    /\ l = "knowledge" => IF t.project # NoProject THEN r.project = t.project
                          ELSE r.conv = t.conv

AddsFresh(l, t, rows) ==
    /\ \A i, j \in DOMAIN t.add : t.add[i] = t.add[j] => i = j
    /\ \A i \in DOMAIN t.add : \A r \in rows : ~Is(l, t, t.add[i], r)

OnceInv ==
    ~overlapped =>
        /\ \A r, s \in facts : Key(r) = Key(s) => r = s
        /\ \A l \in Layer : \A j, k \in 1 .. Slots :
              Open(task[l][j]) /\ Open(task[l][k]) => j = k
        /\ \A l \in Layer : \A k \in 1 .. Slots : AddsFresh(l, task[l][k], facts)

LEMMA MatchesAre ==
    ASSUME NEW l \in Layer, NEW t, NEW f
    PROVE  Matches(l, t, f) = {r \in facts : Is(l, t, f, r)}
<1>1. CASE l = "skills"
  BY <1>1 DEF Matches, SameSkill, Same, Is
<1>2. CASE l = "brain"
  BY <1>2 DEF Matches, SameEntry, Same, Is
<1>3. CASE l = "knowledge"
  BY <1>3 DEF Matches, SameTriple, Same, Is
<1>4. CASE l = "graph"
  BY <1>4 DEF Matches, SameEdge, Same, Is
<1> QED
  BY <1>1, <1>2, <1>3, <1>4 DEF Layer

(* What only depends on the columns that never change.                     *)
LEMMA AlikeIs ==
    ASSUME NEW r, NEW s, Alike(r, s)
    PROVE  /\ Key(r) = Key(s)
           /\ \A l, t, f : Is(l, t, f, r) <=> Is(l, t, f, s)
  BY DEF Alike, Key, Is

(* A row with the key of a new row is one that the look-up would find; two *)
(* new rows with one key are of one fact.                                  *)
LEMMA NewKeys ==
    ASSUME NEW l \in Layer, NEW t, NEW i
    PROVE  /\ \A r : Key(r) = Key(NewRow(l, t, i)) => Is(l, t, t.add[i], r)
           /\ \A j : Key(NewRow(l, t, j)) = Key(NewRow(l, t, i)) => t.add[j] = t.add[i]
<1> DEFINE c == IF l = "knowledge" THEN t.conv ELSE NoConv
           n == NewRow(l, t, i)
<1>1. /\ n.layer = l /\ n.owner = OwnerOf[t.conv] /\ n.project = t.project
      /\ n.conv = c /\ n.fact = t.add[i]
  BY DEF NewRow
<1>2. \A j : NewRow(l, t, j).fact = t.add[j]
  BY DEF NewRow
<1>3. ASSUME NEW r, Key(r) = Key(n)
      PROVE  Is(l, t, t.add[i], r)
  <2> HIDE DEF n
  <2>1. /\ r.layer = l /\ r.owner = OwnerOf[t.conv] /\ r.project = t.project /\ r.fact = t.add[i]
        /\ r.project = NoProject => r.conv = n.conv
    BY <1>1, <1>3 DEF Key
  <2> QED
    BY <1>1, <2>1 DEF Is
<1>4. ASSUME NEW j, Key(NewRow(l, t, j)) = Key(n)
      PROVE  t.add[j] = t.add[i]
  <2>1. NewRow(l, t, j).fact = n.fact
    BY <1>4, Zenon DEF Key
  <2> QED
    BY <1>1, <1>2, <2>1
<1> QED
  BY <1>3, <1>4

(* A step that adds no fact and takes up no new work.                      *)
LEMMA QuietKeepsOnce ==
    ASSUME OnceInv, TaskInv', FactsKept, NoNewWork, overlapped' = overlapped
    PROVE  OnceInv'
<1> SUFFICES ASSUME ~overlapped
             PROVE  OnceInv'
  BY DEF OnceInv
<1>1. PICK F \in [facts -> Facts] :
          /\ \A r \in facts : Alike(F[r], r)
          /\ facts' \subseteq {F[r] : r \in facts}
  BY DEF FactsKept
<1>2. ASSUME NEW x \in facts', NEW y \in facts', Key(x) = Key(y)
      PROVE  x = y
  <2>1. PICK r \in facts, q \in facts : x = F[r] /\ y = F[q]
    BY <1>1
  <2>2. Key(r) = Key(x) /\ Key(q) = Key(y)
    BY <1>1, <2>1, AlikeIs
  <2>3. r = q
    BY <1>2, <2>2 DEF OnceInv
  <2> QED
    BY <2>1, <2>3
<1>3. ASSUME NEW l \in Layer, NEW k \in 1 .. Slots, Open(task'[l][k])
      PROVE  SameWork(task'[l][k], task[l][k]) /\ Open(task[l][k])
  BY <1>3 DEF NoNewWork, SameWork, Open
<1>4. ASSUME NEW l \in Layer, NEW j \in 1 .. Slots, NEW k \in 1 .. Slots,
             Open(task'[l][j]), Open(task'[l][k])
      PROVE  j = k
  BY <1>3, <1>4 DEF OnceInv
<1>5. ASSUME NEW l \in Layer, NEW k \in 1 .. Slots
      PROVE  AddsFresh(l, task'[l][k], facts')
  <2>1. CASE task'[l][k].add = <<>>
    BY <2>1 DEF AddsFresh
  <2>2. CASE task'[l][k].add # <<>>
    <3>1. SameWork(task'[l][k], task[l][k])
      BY <1>3, <2>2 DEF Open
    <3>2. AddsFresh(l, task[l][k], facts)
      BY DEF OnceInv
    <3>3. \A x \in facts' : \E r \in facts : \A f : Is(l, task[l][k], f, x) <=> Is(l, task[l][k], f, r)
      BY <1>1, AlikeIs
    <3>4. \A f, x : Is(l, task'[l][k], f, x) <=> Is(l, task[l][k], f, x)
      BY <3>1 DEF SameWork, Is
    <3> QED
      BY <3>1, <3>2, <3>3, <3>4 DEF AddsFresh, SameWork
  <2> QED
    BY <2>1, <2>2
<1> QED
  BY <1>2, <1>4, <1>5 DEF OnceInv, Key, Open, AddsFresh, Is

(* A look-up that does not overlap with another store.                     *)
LEMMA LookUpKeepsOnce ==
    ASSUME OnceInv, StoreTypeOK, TaskInv, NEW l \in Layer, NEW k \in 1 .. Slots,
           NEW pc \in {"read", "commit"}, pc = "read" => Len(task[l][k].batch) # 1,
           LookUp(l, k, pc)
    PROVE  OnceInv'
<1> DEFINE t == task[l][k]
           n == task'[l][k]
           f == Head(t.batch)
<1> SUFFICES ASSUME ~overlapped'
             PROVE  OnceInv'
  BY DEF OnceInv
<1>1. /\ ~overlapped
      /\ f \notin {t.add[i] : i \in DOMAIN t.add}
      /\ \A j \in 1 .. Slots \ {k} : ~Open(task[l][j])
      /\ facts' = facts
  BY DEF LookUp, storeVars, tables
<1>2. /\ Taken(l, t, f, n)
      /\ \A m \in Layer, j \in 1 .. Slots : <<m, j>> # <<l, k>> => task'[m][j] = task[m][j]
  BY LookUpKeeps
<1>3. t.add \in Seq(Fact) /\ f \in Fact
  BY BatchTail DEF TaskInv, TaskOK, TaskStates, LookUp
<1>4. AddsFresh(l, t, facts)
  BY <1>1 DEF OnceInv
<1>5. AddsFresh(l, n, facts)
  <2> HIDE DEF t, n, f
  <2>1. \A g, r : Is(l, n, g, r) <=> Is(l, t, g, r)
    BY <1>2 DEF Taken, Is
  <2>2. CASE n.add = t.add
    BY <1>4, <2>1, <2>2 DEF AddsFresh
  <2>3. CASE n.add = Append(t.add, f) /\ Matches(l, t, f) = {}
    <3>1. /\ Append(t.add, f) \in Seq(Fact) /\ Len(Append(t.add, f)) = Len(t.add) + 1
          /\ Append(t.add, f)[Len(t.add) + 1] = f
          /\ \A i \in 1 .. Len(t.add) : Append(t.add, f)[i] = t.add[i]
      BY <1>3, AppendProperties
    <3>2. /\ DOMAIN t.add = 1 .. Len(t.add) /\ Len(t.add) \in Nat
          /\ DOMAIN n.add = 1 .. Len(t.add) + 1
      BY <1>3, <2>3, <3>1, LenProperties
    <3>3. \A i \in DOMAIN n.add :
             \/ i \in DOMAIN t.add /\ n.add[i] = t.add[i]
             \/ i = Len(t.add) + 1 /\ n.add[i] = f
      BY <2>3, <3>1, <3>2
    <3>4. \A r \in facts : ~Is(l, t, f, r)
      BY <2>3, MatchesAre
    <3>5. \A i, j \in DOMAIN n.add : n.add[i] = n.add[j] => i = j
      BY <1>1, <1>4, <3>3 DEF AddsFresh
    <3>6. \A i \in DOMAIN n.add : \A r \in facts : ~Is(l, n, n.add[i], r)
      BY <1>4, <2>1, <3>3, <3>4 DEF AddsFresh
    <3> QED
      BY <3>5, <3>6 DEF AddsFresh
  <2> QED
    BY <1>2, <2>2, <2>3 DEF Taken
<1>6. \A m \in Layer : \A j, i \in 1 .. Slots :
         Open(task'[m][j]) /\ Open(task'[m][i]) => j = i
  <2> SUFFICES ASSUME NEW m \in Layer, NEW j \in 1 .. Slots, NEW i \in 1 .. Slots,
                      Open(task'[m][j]), Open(task'[m][i])
               PROVE  j = i
    OBVIOUS
  <2>1. CASE m = l
    BY <1>1, <1>2, <2>1
  <2>2. CASE m # l
    BY <1>1, <1>2, <2>2 DEF OnceInv
  <2> QED
    BY <2>1, <2>2
<1>7. \A m \in Layer : \A j \in 1 .. Slots : AddsFresh(m, task'[m][j], facts')
  <2> SUFFICES ASSUME NEW m \in Layer, NEW j \in 1 .. Slots
               PROVE  AddsFresh(m, task'[m][j], facts)
    BY <1>1
  <2>1. CASE <<m, j>> = <<l, k>>
    BY <1>5, <2>1
  <2>2. CASE <<m, j>> # <<l, k>>
    BY <1>1, <1>2, <2>2 DEF OnceInv
  <2> QED
    BY <2>1, <2>2
<1>8. \A r, s \in facts' : Key(r) = Key(s) => r = s
  BY <1>1 DEF OnceInv
<1> HIDE DEF t, n, f
<1> QED
  BY <1>6, <1>7, <1>8 DEF OnceInv, Key, Open, AddsFresh, Is

(* A commit adds only what is not there.                                   *)
LEMMA CommitKeepsOnce ==
    ASSUME OnceInv, StoreInv, TaskInv, NEW l \in Layer, NEW k \in 1 .. Slots, Commit(l, k)
    PROVE  OnceInv'
<1> DEFINE t == task[l][k]
<1>1. /\ TaskInv' /\ NoNewWork /\ ~Open(task'[l][k])
      /\ TaskOK(t) /\ t.pc = "commit" /\ overlapped' = overlapped
  BY CommitEffect DEF TaskInv, Commit
<1>2. CASE facts' = facts
  <2>1. FactsKept
    BY <1>2, DeletionKeepsFacts DEF StoreInv, StoreTypeOK
  <2> QED
    BY <1>1, <2>1, QuietKeepsOnce
<1>3. CASE facts' # facts
  <2> SUFFICES ASSUME ~overlapped
               PROVE  OnceInv'
    BY <1>1 DEF OnceInv
  <2>1. \A x \in facts' :
           \/ \E r \in facts : x = Refreshed(t, r)
           \/ \E i \in DOMAIN t.add : x = NewRow(l, t, i)
    BY <1>3, CommitEffect
  <2>2. AddsFresh(l, t, facts)
    BY DEF OnceInv
  <2>3. \A r \in facts : Alike(Refreshed(t, r), r)
    BY <1>1, RowTypes
  <2> HIDE DEF t
  <2>4. ASSUME NEW x \in facts', NEW y \in facts', Key(x) = Key(y)
        PROVE  x = y
    <3>1. CASE \E r, q \in facts : x = Refreshed(t, r) /\ y = Refreshed(t, q)
      <4>1. PICK r \in facts, q \in facts : x = Refreshed(t, r) /\ y = Refreshed(t, q)
        BY <3>1
      <4>2. Key(x) = Key(r) /\ Key(y) = Key(q)
        BY <2>3, <4>1, AlikeIs
      <4> QED
        BY <2>4, <4>1, <4>2 DEF OnceInv
    <3>2. ASSUME NEW r \in facts, NEW i \in DOMAIN t.add, NEW z, z = Refreshed(t, r),
                 Key(z) = Key(NewRow(l, t, i))
          PROVE  FALSE
      <4>1. Key(z) = Key(r)
        BY <2>3, <3>2, AlikeIs
      <4>2. Is(l, t, t.add[i], r)
        BY <3>2, <4>1, NewKeys
      <4> QED
        BY <2>2, <4>2 DEF AddsFresh
    <3>3. CASE \E i, j \in DOMAIN t.add : x = NewRow(l, t, i) /\ y = NewRow(l, t, j)
      <4>1. PICK i \in DOMAIN t.add, j \in DOMAIN t.add :
               x = NewRow(l, t, i) /\ y = NewRow(l, t, j)
        BY <3>3
      <4>2. t.add[i] = t.add[j]
        BY <2>4, <4>1, NewKeys
      <4> QED
        BY <2>2, <4>1, <4>2 DEF AddsFresh
    <3> QED
      BY <2>1, <2>4, <3>1, <3>2, <3>3
  <2>5. ASSUME NEW m \in Layer, NEW j \in 1 .. Slots, Open(task'[m][j])
        PROVE  /\ SameWork(task'[m][j], task[m][j]) /\ Open(task[m][j])
               /\ m = l => j # k
    BY <1>1, <2>5 DEF NoNewWork, SameWork, Open
  <2>6. \A m \in Layer : \A i, j \in 1 .. Slots :
           Open(task'[m][i]) /\ Open(task'[m][j]) => i = j
    BY <2>5 DEF OnceInv
  <2>7. ASSUME NEW m \in Layer, NEW j \in 1 .. Slots
        PROVE  AddsFresh(m, task'[m][j], facts')
    <3>1. CASE task'[m][j].add = <<>>
      BY <3>1 DEF AddsFresh
    <3>2. CASE task'[m][j].add # <<>>
      <4> DEFINE u == task[m][j]
      <4>1. SameWork(task'[m][j], u) /\ Open(u) /\ (m = l => j # k)
        BY <2>5, <3>2 DEF Open
      <4>2. AddsFresh(m, u, facts)
        BY DEF OnceInv
      <4>3. m = l => t.add = <<>>
        BY <4>1 DEF OnceInv, Open, t
      <4> HIDE DEF u
      <4>4. ASSUME NEW x \in facts', NEW i \in DOMAIN u.add
            PROVE  ~Is(m, u, u.add[i], x)
        <5>1. CASE \E r \in facts : x = Refreshed(t, r)
          BY <2>3, <4>2, <5>1, AlikeIs DEF AddsFresh
        <5>2. CASE \E h \in DOMAIN t.add : x = NewRow(l, t, h)
          <6>1. m # l /\ x.layer = l
            BY <4>3, <5>2 DEF NewRow
          <6> QED
            BY <6>1 DEF Is
        <5> QED
          BY <2>1, <5>1, <5>2
      <4>5. \A f, x : Is(m, task'[m][j], f, x) <=> Is(m, u, f, x)
        BY <4>1 DEF SameWork, Is
      <4> QED
        BY <4>1, <4>2, <4>4, <4>5 DEF AddsFresh, SameWork
    <3> QED
      BY <3>1, <3>2
  <2> QED
    BY <2>4, <2>6, <2>7 DEF OnceInv, Key, Open, AddsFresh, Is
<1> QED
  BY <1>2, <1>3

-----------------------------------------------------------------------------
(***************************************************************************)
(* The steps.                                                              *)
(***************************************************************************)
IInv == StoreInv /\ TurnInv /\ TaskInv /\ OnceInv

LEMMA StoreAlone ==
    ASSUME StoreInv, UNCHANGED storeVars
    PROVE  StoreInv' /\ FactsKept
<1>1. FactsKept
  BY DeletionKeepsFacts DEF StoreInv, StoreTypeOK, storeVars, tables
<1>2. StoreInv'
  BY DEF StoreInv, StoreTypeOK, OwnersKnown, EpisodesHaveHome, Live, storeVars, tables
<1> QED
  BY <1>1, <1>2

(* A step that leaves the tasks alone.                                     *)
LEMMA TasksAlone ==
    ASSUME TaskInv, UNCHANGED <<task, overlapped>>
    PROVE  TaskInv' /\ NoNewWork
  BY DEF TaskInv, TaskOK, TaskStates, NoNewWork, SameWork

LEMMA TaskStepKeeps ==
    ASSUME IInv, NEW k \in 1 .. Slots, TaskStep(k)
    PROVE  IInv'
<1>1. StoreInv /\ StoreTypeOK /\ TurnInv /\ TaskInv /\ OnceInv
  BY DEF IInv, StoreInv
<1>2. "skills" \in Layer /\ "brain" \in Layer /\ "knowledge" \in Layer /\ "graph" \in Layer
  BY DEF Layer
<1>3. ASSUME UNCHANGED <<flags, turnVars>>
      PROVE  TurnInv'
  <2>1. UNCHANGED <<flags, prefs, left, storing, counts, stored, started>>
    BY <1>3 DEF turnVars
  <2> QED
    BY <1>1, <2>1, TurnsAlone DEF TurnInv
<1>4. ASSUME NEW l \in Layer, NEW p, Load(l, k, p),
             Live(task[l][k].conv) => p \in Project \cup {NoProject}
      PROVE  IInv'
  <2>1. TaskInv' /\ NoNewWork
    BY <1>1, <1>4, LoadKeeps
  <2>2. UNCHANGED storeVars /\ UNCHANGED <<flags, turnVars>> /\ overlapped' = overlapped
    BY <1>4 DEF Load
  <2>3. StoreInv' /\ FactsKept
    BY <1>1, <2>2, StoreAlone
  <2> QED
    BY <1>1, <1>3, <2>1, <2>2, <2>3, QuietKeepsOnce DEF IInv
<1>5. ASSUME NEW l \in Layer, PassOver(l, k)
      PROVE  IInv'
  <2>1. TaskInv' /\ NoNewWork
    BY <1>1, <1>5, PassOverKeeps
  <2>2. UNCHANGED storeVars /\ UNCHANGED <<flags, turnVars>> /\ overlapped' = overlapped
    BY <1>5 DEF PassOver
  <2>3. StoreInv' /\ FactsKept
    BY <1>1, <2>2, StoreAlone
  <2> QED
    BY <1>1, <1>3, <2>1, <2>2, <2>3, QuietKeepsOnce DEF IInv
<1>6. ASSUME NEW l \in Layer, NEW pc \in {"read", "commit"},
             pc = "read" => Len(task[l][k].batch) # 1, LookUp(l, k, pc)
      PROVE  IInv'
  <2>1. TaskInv' /\ OnceInv'
    BY <1>1, <1>6, LookUpKeeps, LookUpKeepsOnce
  <2>2. UNCHANGED storeVars /\ UNCHANGED <<flags, turnVars>>
    BY <1>6 DEF LookUp
  <2>3. StoreInv'
    BY <1>1, <2>2, StoreAlone
  <2> QED
    BY <1>3, <2>1, <2>2, <2>3 DEF IInv
<1>7. ASSUME NEW l \in Layer, Commit(l, k)
      PROVE  IInv'
  <2>1. StoreInv' /\ TaskInv' /\ OnceInv'
    BY <1>1, <1>7, CommitEffect, CommitKeepsOnce
  <2>2. UNCHANGED <<flags, turnVars>>
    BY <1>7 DEF Commit
  <2> QED
    BY <1>3, <2>1, <2>2 DEF IInv
<1>8. CASE ReflectSkills(k) \/ ReflectBrain(k) \/ ExtractGraph(k)
  <2>1. task["brain"][k].project \in Project \cup {NoProject}
    BY <1>1, <1>2 DEF TaskInv, TaskStates
  <2> QED
    BY <1>2, <1>4, <1>8, <2>1 DEF ReflectSkills, ReflectBrain, ExtractGraph
<1>9. CASE ExtractKnowledge(k)
  BY <1>2, <1>4, <1>9 DEF ExtractKnowledge
<1>10. CASE UpsertSkill(k) \/ AddEntry(k)
  BY <1>2, <1>5, <1>6, <1>10 DEF UpsertSkill, AddEntry
<1>11. CASE StoreTriples(k) \/ StoreEdges(k)
  <2>1. \A l \in Layer : /\ WhenLast(l, k) \in {"read", "commit"}
                         /\ WhenLast(l, k) = "read" => Len(task[l][k].batch) # 1
    BY DEF WhenLast
  <2> QED
    BY <1>2, <1>6, <1>11, <2>1 DEF StoreTriples, StoreEdges
<1> QED
  BY <1>7, <1>8, <1>9, <1>10, <1>11 DEF TaskStep

LEMMA NextKeeps ==
    ASSUME IInv, [Next]_vars
    PROVE  IInv'
<1>1. StoreInv /\ StoreTypeOK /\ TurnInv /\ TaskInv /\ OnceInv
  BY DEF IInv, StoreInv
<1>2. ASSUME NEW c \in Conv, TurnEnds(c)
      PROVE  IInv'
  <2>1. UNCHANGED storeVars /\ UNCHANGED <<task, overlapped>>
    BY <1>2 DEF TurnEnds
  <2> QED
    BY <1>1, <1>2, <2>1, TurnEndsKeeps, StoreAlone, TasksAlone, QuietKeepsOnce DEF IInv
<1>3. ASSUME NEW c \in Conv, TurnStored(c)
      PROVE  IInv'
  <2>1. TurnInv' /\ TaskInv' /\ NoNewWork
    BY <1>1, <1>3, TurnStoredCounts, TurnStoredTasks
  <2>2. StoreInv' /\ facts' = facts
    <3>1. requests' \in 0 .. MaxRequests /\ requests' = requests
      BY <1>1, <1>3 DEF TurnStored, StoreTypeOK
    <3>2. CASE WriteEpisode(OwnerOf[c], c)
      BY <1>1, <3>1, <3>2, WritingKeeps, ConstantTypes
    <3>3. CASE UNCHANGED tables
      <4>1. UNCHANGED storeVars
        BY <3>1, <3>3 DEF storeVars
      <4> QED
        BY <1>1, <3>3, <4>1, StoreAlone DEF tables
    <3> QED
      BY <1>3, <3>2, <3>3 DEF TurnStored
  <2>3. FactsKept
    BY <1>1, <2>2, DeletionKeepsFacts DEF StoreTypeOK
  <2>4. overlapped' = overlapped
    BY <1>3 DEF TurnStored
  <2> QED
    BY <1>1, <2>1, <2>2, <2>3, <2>4, QuietKeepsOnce DEF IInv
<1>4. ASSUME NEW o \in Owner, NEW s \in Switch, Flip(o, s)
      PROVE  IInv'
  <2>1. StoreInv' /\ FactsKept
    BY <1>1, <1>4, ErasureKeeps DEF Flip
  <2>2. prefs' \in [Owner -> SUBSET Switch]
    BY <1>1, <1>4 DEF Flip, TurnInv
  <2>3. UNCHANGED <<flags, left, storing, counts, stored, started>> /\ UNCHANGED <<task, overlapped>>
    BY <1>4 DEF Flip
  <2> QED
    BY <1>1, <2>1, <2>2, <2>3, TurnsAlone, TasksAlone, QuietKeepsOnce DEF IInv
<1>5. ASSUME UNCHANGED <<flags, turnVars, task, overlapped>>, StoreInv', FactsKept
      PROVE  IInv'
  <2>1. UNCHANGED <<flags, left, storing, counts, stored, started>> /\ UNCHANGED <<task, overlapped>>
        /\ prefs' = prefs
    BY <1>5 DEF turnVars
  <2> QED
    BY <1>1, <1>5, <2>1, TurnsAlone, TasksAlone, QuietKeepsOnce DEF IInv, TurnInv
<1>6. ASSUME NEW o \in Owner, NEW c \in ToolConv, ToolStores(o, c)
      PROVE  IInv'
  <2>1. c \in Conv \cup {NoConv} /\ requests' \in 0 .. MaxRequests
    BY <1>1, <1>6, ConstantTypes, RequestsTyped DEF ToolStores
  <2>2. StoreInv' /\ facts' = facts
    BY <1>1, <1>6, <2>1, WritingKeeps DEF ToolStores
  <2>3. FactsKept
    BY <1>1, <2>2, DeletionKeepsFacts DEF StoreTypeOK
  <2> QED
    BY <1>5, <1>6, <2>2, <2>3 DEF ToolStores, turnVars
<1>7. ASSUME Requested \/ TimePasses \/ Sweeper, Others
      PROVE  IInv'
  <2>1. StoreInv' /\ FactsKept
    BY <1>1, <1>7, RequestedKeeps, TimeKeeps
  <2> QED
    BY <1>5, <1>7, <2>1 DEF Others
<1>8. CASE UNCHANGED vars
  <2>1. UNCHANGED storeVars /\ UNCHANGED <<flags, turnVars, task, overlapped>>
    BY <1>8 DEF vars
  <2> QED
    BY <1>1, <1>5, <2>1, StoreAlone
<1> QED
  BY <1>2, <1>3, <1>4, <1>6, <1>7, <1>8, TaskStepKeeps DEF Next

LEMMA InitKeeps ==
    ASSUME Init
    PROVE  IInv
<1>1. StoreInv
  <2>1. /\ account \subseteq Owner /\ project \subseteq Project
        /\ episodes = {} /\ facts = {} /\ lastId \in Nat
        /\ requests \in 0 .. MaxRequests
    BY MemoryStoreAssumption DEF Init, StoreInit
  <2>2. conv \in [Conv -> [live : BOOLEAN, project : Project \cup {NoProject}]]
    BY MemoryStoreAssumption DEF Init, StoreInit
  <2> QED
    BY <2>1, <2>2 DEF StoreInv, StoreTypeOK, OwnersKnown, EpisodesHaveHome
<1>2. TurnInv
  <2>1. PICK x \in Setups : flags = x.flags /\ left = x.turns
    BY DEF Init
  <2>2. flags \subseteq Layer /\ left \in [Conv -> Nat]
    BY <2>1, ConstantTypes
  <2>3. /\ prefs = [o \in Owner |-> Switch]
        /\ storing = [c \in Conv |-> NoTurn]
        /\ counts = [l \in Layer |-> <<>>]
        /\ stored = [l \in Layer |-> [c \in Conv |-> 0]]
        /\ started = [l \in Layer |-> [c \in Conv |-> 0]]
    BY DEF Init
  <2>4. \A l \in Layer : DOMAIN counts[l] = {}
    BY <2>3
  <2>5. \A l \in Layer, c \in Conv : Every * started[l][c] + Pending(l, c) <= stored[l][c]
    BY <2>3, <2>4, ConstantTypes DEF Pending
  <2> QED
    BY <2>2, <2>3, <2>4, <2>5 DEF TurnInv, CountsTyped
<1>3. /\ task = [l \in Layer |-> [k \in 1 .. Slots |-> NoTask]]
      /\ overlapped = FALSE /\ facts = {}
  BY DEF Init, StoreInit
<1>4. TaskInv
  BY <1>3, NoTaskOK DEF TaskInv, TaskOK
<1>5. OnceInv
  BY <1>3, NoTaskOK DEF OnceInv, AddsFresh, NoTask
<1> QED
  BY <1>1, <1>2, <1>4, <1>5 DEF IInv

LEMMA InvHolds == Spec => []IInv
<1>1. Init => IInv
  BY InitKeeps
<1>2. IInv /\ [Next]_vars => IInv'
  BY NextKeeps
<1> QED
  BY <1>1, <1>2, PTL DEF Spec

-----------------------------------------------------------------------------
(***************************************************************************)
(* The theorems.                                                           *)
(***************************************************************************)

(* Whatever owners, tasks and sweeps do, nobody is told what was learned   *)
(* from somebody else, and no episode outlives its conversation.           *)
THEOREM RowsAlwaysBelong == Spec => []RowsBelong
<1>1. IInv => RowsBelong
  <2> SUFFICES ASSUME IInv
               PROVE  RowsBelong
    OBVIOUS
  <2>1. TypeOK
    BY DEF IInv, StoreInv, TurnInv, TaskInv, CountsTyped, TypeOK
  <2>2. OwnerScoped
    BY DEF IInv, StoreInv, OwnersKnown, OwnerScoped, Recalled, SkillsRecalled, GraphRecalled,
           BrainRecalled, KnowledgeRecalled, EpisodesRecalled
  <2>3. EpisodesHaveHome
    BY DEF IInv, StoreInv
  <2> QED
    BY <2>1, <2>2, <2>3 DEF RowsBelong
<1> QED
  BY <1>1, InvHolds, PTL

(* No layer reads a conversation more often than once in Every of its      *)
(* turns, however conversations take turns and counts are forgotten.       *)
THEOREM ReadingsAreDebounced == Spec => []Debounced
<1>1. IInv => Debounced
  <2> SUFFICES ASSUME IInv, NEW l \in Layer, NEW c \in Conv
               PROVE  Every * started[l][c] <= stored[l][c]
    BY DEF Debounced
  <2> DEFINE paid == Every * started[l][c]
  <2>1. started[l][c] \in Nat /\ stored[l][c] \in Nat /\ Every \in Nat
    BY ConstantTypes DEF IInv, TurnInv
  <2>2. paid \in Nat
    BY <2>1
  <2>3. Pending(l, c) \in Nat /\ paid + Pending(l, c) <= stored[l][c]
    BY ConstantTypes DEF IInv, TurnInv, CountsTyped, Pending
  <2> HIDE DEF paid
  <2>4. paid <= stored[l][c]
    BY <2>1, <2>2, <2>3
  <2> QED
    BY <2>4 DEF paid
<1> QED
  BY <1>1, InvHolds, PTL

(* A fact is stored twice only after two stores of its layer overlapped,   *)
(* or an answer of the model named it twice.                               *)
THEOREM OnceUnlessOverlapped == Spec => []TwiceOnlyIfOverlapped
<1>1. IInv => TwiceOnlyIfOverlapped
  BY DEF IInv, OnceInv, TwiceOnlyIfOverlapped
<1> QED
  BY <1>1, InvHolds, PTL

(* A sweep takes at most one point of support, and only from a fact that   *)
(* was not seen for long.                                                  *)
THEOREM FadesByOnePoint == Spec => FadesSlowly
<1> DEFINE Slow == task' = task /\ requests' = requests /\ ~TimePasses =>
                     \A r \in facts :
                        \/ r \in facts'
                        \/ r.stale /\ r.support = 1
                        \/ r.stale /\ [r EXCEPT !.support = @ - 1] \in facts'
<1>1. ASSUME IInv, [Next]_vars
      PROVE  Slow
  <2> SUFFICES ASSUME task' = task, requests' = requests, ~TimePasses,
                      NEW r \in facts, r \notin facts'
               PROVE  \/ r.stale /\ r.support = 1
                      \/ r.stale /\ [r EXCEPT !.support = @ - 1] \in facts'
    OBVIOUS
  <2>1. requests \in Nat
    BY <1>1, MemoryStoreAssumption DEF IInv, StoreInv, StoreTypeOK
  <2>2. \A o : ~Request(o)
    BY <2>1 DEF Request
  <2>3. ASSUME NEW layer \in Edge, Decay(layer)
        PROVE  \/ r.stale /\ r.support = 1
               \/ r.stale /\ [r EXCEPT !.support = @ - 1] \in facts'
    <3>1. r.support \in Nat \ {0} /\ r \in Facts
      BY <1>1 DEF IInv, StoreInv, StoreTypeOK, Facts
    <3>2. CASE Weak(r, layer)
      BY <3>1, <3>2 DEF Weak
    <3>3. CASE ~Weak(r, layer)
      <4>1. Faded(r, layer) \in facts'
        BY <2>3, <3>3 DEF Decay, Sweep
      <4> QED
        BY <4>1 DEF Faded
    <3> QED
      BY <3>2, <3>3
  <2>4. ASSUME NEW k \in 1 .. Slots, NEW l \in Layer, Commit(l, k)
        PROVE  FALSE
    <3>1. TaskInv /\ StoreInv
      BY <1>1 DEF IInv
    <3>2. \E next : Becomes(l, k, next) /\ next.pc # "commit"
      <4>1. CASE task[l][k].batch = <<>>
        BY <2>4, <4>1 DEF Commit, Quits, NoTask
      <4>2. CASE task[l][k].batch # <<>>
        <5>1. Becomes(l, k, [task[l][k] EXCEPT !.pc = "read", !.upd = {}, !.add = <<>>])
          BY <2>4, <4>2 DEF Commit
        <5>2. task[l][k] \in TaskStates
          BY <3>1 DEF TaskInv
        <5>3. [task[l][k] EXCEPT !.pc = "read", !.upd = {}, !.add = <<>>].pc = "read"
          BY <5>2 DEF TaskStates
        <5> QED
          BY <5>1, <5>3
      <4> QED
        BY <4>1, <4>2
    <3>3. task'[l][k].pc # "commit"
      BY <3>1, <3>2, BecomesEffect
    <3> QED
      BY <2>4, <3>3 DEF Commit
  <2>5. ASSUME NEW k \in 1 .. Slots, TaskStep(k)
        PROVE  FALSE
    BY <2>4, <2>5 DEF TaskStep, ReflectSkills, ReflectBrain, ExtractKnowledge, ExtractGraph,
                      UpsertSkill, AddEntry, StoreTriples, StoreEdges, Load, LookUp, PassOver,
                      storeVars, tables
  <2>6. ~Requested
    BY <2>2 DEF Requested, Purge, ForgetEdge, ForgetEntry, DeleteEpisode, DeleteAccount,
                DeleteConversation, Assign, DeleteProject
  <2>7. CASE Sweeper
    BY <2>3, <2>7 DEF Sweeper, Retention
  <2>8. \A o, s : ~Flip(o, s) /\ ~ToolStores(o, s)
    BY <2>2 DEF Flip, ToolStores
  <2>9. \A c : ~TurnEnds(c) /\ ~TurnStored(c)
    BY DEF TurnEnds, TurnStored, WriteEpisode, storeVars, tables
  <2>10. ~UNCHANGED vars
    BY DEF vars, storeVars, tables
  <2> QED
    BY <1>1, <2>5, <2>6, <2>7, <2>8, <2>9, <2>10 DEF Next
<1>2. IInv /\ [Next]_vars => [Slow]_vars
  BY <1>1
<1> HIDE DEF Slow
<1>3. Spec => [][Slow]_vars
  BY <1>2, InvHolds, PTL DEF Spec
<1> QED
  BY <1>3 DEF FadesSlowly, Slow

=============================================================================
