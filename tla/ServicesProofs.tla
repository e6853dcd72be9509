----------------------------- MODULE ServicesProofs -----------------------------
(***************************************************************************)
(* Proofs about five services.  UserCache: for every set of calls and      *)
(* users and every number of updates.  RetrievalCache: for every set of    *)
(* retrievals, scopes, documents and queries, every capacity and time to   *)
(* live.  AgentConfig with TokenBudget: for all files, loads, tools and    *)
(* rounds.  Ranking: for all lists, replies, sections, weights, budgets.   *)
(* Chunking: for all documents, sizes and overlaps.                        *)
(***************************************************************************)
EXTENDS UserCache, RetrievalCache, Ranking, Chunking, AgentConfig, FiniteSetTheorems, SequenceTheorems,
        WellFoundedInduction, TLAPS

-----------------------------------------------------------------------------
(***************************************************************************)
(* UserCache.  A version that was current when it was kept is not behind   *)
(* any update whose command to drop has been carried out: that is the      *)
(* update that has ended (Trusted) and the one that is about to end        *)
(* (Dropped).  It holds because a call has at most one command on its way, *)
(* and an update that waits without one has seen it arrive (OnlyOwn).      *)
(***************************************************************************)
Keeps(u) == kept[u].version # None /\ ~kept[u].late

Trusted == \A u \in User : Keeps(u) => kept[u].version >= settled[u]

Dropped ==
    \A k \in Call :
        call[k].pc = "delete" /\ Mine(k) = {} /\ Keeps(call[k].user) =>
            kept[call[k].user].version >= call[k].version

OnlyOwn ==
    \A c \in travelling :
        /\ call[c.by].pc \in {"set", "delete", "done"}
        /\ call[c.by].pc = "delete" => c.op = "delete" /\ c.user = call[c.by].user

(* Without a cache nothing is kept and nothing is on its way.              *)
OffIsEmpty ==
    ~hasCache => travelling = {} /\ \A u \in User : kept[u].version = None

Asking == {"get", "query", "set", "update", "abandoned", "delete"}

(* What a call that has begun is about.                                    *)
CallOK(k) ==
    /\ call[k].pc \in Asking => call[k].user \in User
    /\ call[k].pc = "get" => ~call[k].fresh /\ call[k].since <= settled[call[k].user]
    /\ call[k].pc = "query" => call[k].since <= row[call[k].user]
    /\ call[k].pc = "set" => call[k].version >= call[k].since
    /\ call[k].pc = "delete" => call[k].version <= row[call[k].user]
    /\ call[k].pc \in {"update", "abandoned", "delete"} => call[k].since = None /\ ~call[k].fresh

UserInv ==
    /\ UserTypeOK /\ FreshIsCurrent /\ UpdateIsSeen
    /\ Trusted /\ Dropped /\ OnlyOwn /\ OffIsEmpty
    /\ \A k \in Call : CallOK(k)

LEMMA UserInvInit == UserInit => UserInv
<1> SUFFICES ASSUME UserInit PROVE UserInv
  OBVIOUS
<1> USE UserAssumption DEF UserInit, None
<1>1. UserTypeOK
  BY DEF UserTypeOK, Version, Commands, Calls, NoCall
<1>2. Trusted /\ Dropped /\ OnlyOwn /\ OffIsEmpty
  BY DEF Trusted, Dropped, OnlyOwn, OffIsEmpty, Keeps, NoCall
<1>3. FreshIsCurrent /\ UpdateIsSeen /\ \A k \in Call : CallOK(k)
  BY DEF FreshIsCurrent, UpdateIsSeen, CallOK, NoCall, Asking
<1> QED
  BY <1>1, <1>2, <1>3 DEF UserInv

(* What one call does to the calls.                                        *)
LEMMA GoesEffect ==
    ASSUME NEW k \in Call, NEW next \in Calls, UserTypeOK, Goes(k, next)
    PROVE  /\ call' \in [Call -> Calls]
           /\ call'[k] = next
           /\ \A j \in Call \ {k} : call'[j] = call[j]
  BY DEF Goes, UserTypeOK

(* A call that has no command on its way and turns to what needs none.     *)
LEMMA QuietCallKeepsUserInv ==
    ASSUME UserInv, NEW k \in Call, NEW next \in Calls, Goes(k, next),
           call[k].pc \in {"idle", "get", "query", "update", "abandoned"},
           next.pc # "delete", next.pc # "set",
           next.pc \in Asking => next.user \in User,
           next.pc = "get" => ~next.fresh /\ next.since <= settled[next.user],
           next.pc = "query" => next.since <= row[next.user],
           next.pc \in {"update", "abandoned"} => next.since = None /\ ~next.fresh,
           next.pc = "done" => next.version >= next.since \/ (next.late /\ ~next.fresh),
           UNCHANGED <<hasCache, row, kept, travelling, settled>>
    PROVE  UserInv'
<1>1. /\ call' \in [Call -> Calls]
      /\ call'[k] = next
      /\ \A j \in Call \ {k} : call'[j] = call[j]
  BY GoesEffect DEF UserInv
<1>2. UserTypeOK'
  BY <1>1 DEF UserInv, UserTypeOK
<1>3. FreshIsCurrent' /\ UpdateIsSeen'
  BY <1>1 DEF UserInv, FreshIsCurrent, UpdateIsSeen
<1>4. Trusted' /\ OffIsEmpty'
  BY DEF UserInv, Trusted, OffIsEmpty, Keeps
<1>5. Dropped'
  BY <1>1 DEF UserInv, Dropped, Keeps, Mine
<1>6. OnlyOwn'
  BY <1>1 DEF UserInv, OnlyOwn, UserTypeOK, Commands
<1>7. ASSUME NEW j \in Call PROVE CallOK(j)'
  <2>1. CASE j = k
    BY <1>1, <2>1 DEF CallOK
  <2>2. CASE j # k
    BY <1>1, <2>2 DEF UserInv, CallOK
  <2> QED
    BY <2>1, <2>2
<1> QED
  BY <1>2, <1>3, <1>4, <1>5, <1>6, <1>7 DEF UserInv

LEMMA QuietStepsKeepUserInv ==
    ASSUME UserInv, NEW k \in Call,
           \/ \E u \in User : UpdateBegins(k, u)
           \/ \E u \in User, fresh \in BOOLEAN : GetBegins(k, u, fresh)
           \/ CacheRead(k) \/ Degrades(k) \/ UpdateTimesOut(k) \/ NoSuchUser(k)
    PROVE  UserInv'
<1> USE UserAssumption
<1>0. call[k] \in Calls /\ CallOK(k) /\ NoCall \in Calls
  BY DEF UserInv, UserTypeOK, NoCall, Calls, None
<1>1. CASE \E u \in User : UpdateBegins(k, u)
  <2>1. PICK u \in User : UpdateBegins(k, u)
    BY <1>1
  <2> DEFINE next == [NoCall EXCEPT !.pc = "update", !.user = u]
  <2>2. next \in Calls /\ next.pc = "update" /\ next.user = u /\ next.since = None /\ ~next.fresh
    BY DEF NoCall, Calls, None
  <2> HIDE DEF next
  <2> QED
    BY <2>1, <2>2, QuietCallKeepsUserInv DEF UpdateBegins, next
<1>2. CASE \E u \in User, fresh \in BOOLEAN : GetBegins(k, u, fresh)
  <2>1. PICK u \in User, fresh \in BOOLEAN : GetBegins(k, u, fresh)
    BY <1>2
  <2> DEFINE next == [NoCall EXCEPT !.pc = IF hasCache /\ ~fresh THEN "get" ELSE "query", !.user = u,
                              !.fresh = fresh, !.since = IF fresh THEN row[u] ELSE settled[u]]
  <2>2. row[u] \in Version \cup {None} /\ settled[u] \in Version \cup {None} /\ settled[u] <= row[u]
    BY DEF UserInv, UserTypeOK
  <2>3. /\ next \in Calls /\ next.pc \in {"get", "query"} /\ next.user = u
        /\ next.pc = "get" => ~next.fresh
        /\ next.fresh = fresh
        /\ next.since = IF fresh THEN row[u] ELSE settled[u]
    BY <2>2 DEF NoCall, Calls
  <2>4. next.since <= row[u] /\ (next.pc = "get" => next.since <= settled[u])
    BY <2>2, <2>3 DEF Version, None
  <2>5. Goes(k, next) /\ UNCHANGED <<hasCache, row, kept, travelling, settled>> /\ call[k].pc = "idle"
    BY <2>1 DEF GetBegins
  <2> HIDE DEF next
  <2> QED
    BY <2>3, <2>4, <2>5, QuietCallKeepsUserInv
<1>3. CASE CacheRead(k)
  <2> DEFINE told == kept[call[k].user]
             hit == [call[k] EXCEPT !.pc = "done", !.version = told.version, !.late = told.late]
             miss == [call[k] EXCEPT !.pc = "query"]
  <2>1. call[k].pc = "get" /\ call[k].user \in User /\ ~call[k].fresh
        /\ call[k].since <= settled[call[k].user]
    BY <1>0, <1>3 DEF CacheRead, CallOK, Asking
  <2>2. told.version \in Version \cup {None} /\ told.late \in BOOLEAN
    BY <2>1 DEF UserInv, UserTypeOK
  <2>3. settled[call[k].user] \in Nat /\ row[call[k].user] \in Nat /\ call[k].since \in Nat
        /\ settled[call[k].user] <= row[call[k].user]
    BY <1>0, <2>1 DEF UserInv, UserTypeOK, Version, None, Calls
  <2>4. CASE told.version # None /\ Goes(k, hit)
    <3>1. /\ hit \in Calls /\ hit.pc = "done" /\ hit.version = told.version /\ hit.late = told.late
          /\ hit.fresh = call[k].fresh /\ hit.since = call[k].since
      BY <1>0, <2>2 DEF Calls
    <3>2. ~told.late => told.version >= settled[call[k].user]
      BY <2>1, <2>4 DEF UserInv, Trusted, Keeps
    <3>3. hit.late \/ hit.version >= hit.since
      BY <2>1, <2>2, <2>3, <3>1, <3>2 DEF Version, None
    <3> HIDE DEF hit
    <3> QED
      BY <1>3, <2>1, <2>4, <3>1, <3>3, QuietCallKeepsUserInv DEF CacheRead, Asking
  <2>5. CASE Goes(k, miss)
    <3>1. /\ miss \in Calls /\ miss.pc = "query" /\ miss.user = call[k].user
          /\ miss.since = call[k].since
      BY <1>0 DEF Calls
    <3>2. miss.since <= row[miss.user]
      BY <2>1, <2>3, <3>1
    <3> HIDE DEF miss
    <3> QED
      BY <1>3, <2>1, <2>5, <3>1, <3>2, QuietCallKeepsUserInv DEF CacheRead
  <2> QED
    BY <1>3, <2>4, <2>5 DEF CacheRead
<1>4. CASE Degrades(k)
  <2> DEFINE next == [call[k] EXCEPT !.pc = "degraded"]
  <2>1. next \in Calls /\ next.pc = "degraded"
    BY <1>0 DEF Calls
  <2> HIDE DEF next
  <2> QED
    BY <1>4, <2>1, QuietCallKeepsUserInv DEF Degrades, Asking, next
<1>5. CASE UpdateTimesOut(k)
  <2> DEFINE next == [call[k] EXCEPT !.pc = "abandoned"]
  <2>1. next \in Calls /\ next.pc = "abandoned" /\ next.user = call[k].user /\ next.since = call[k].since
        /\ next.fresh = call[k].fresh
    BY <1>0 DEF Calls
  <2>2. next.user \in User /\ next.since = None /\ ~next.fresh
    BY <1>0, <1>5, <2>1 DEF CallOK, Asking, UpdateTimesOut
  <2> HIDE DEF next
  <2> QED
    BY <1>5, <2>1, <2>2, QuietCallKeepsUserInv DEF UpdateTimesOut, next
<1>6. CASE NoSuchUser(k)
  <2> DEFINE next == [call[k] EXCEPT !.pc = "error"]
  <2>1. next \in Calls /\ next.pc = "error"
    BY <1>0 DEF Calls
  <2> HIDE DEF next
  <2> QED
    BY <1>6, <2>1, QuietCallKeepsUserInv DEF NoSuchUser, Asking, next
<1> QED
  BY <1>1, <1>2, <1>3, <1>4, <1>5, <1>6

(* A read that has its row answers at once, or sends it to the cache.      *)
LEMMA ReadRowKeepsUserInv ==
    ASSUME UserInv, NEW k \in Call, ReadRow(k)
    PROVE  UserInv'
<1> USE UserAssumption
<1> DEFINE u == call[k].user
           v == row[u]
<1>1. call[k] \in Calls /\ CallOK(k) /\ call[k].pc = "query" /\ u \in User
  BY DEF UserInv, UserTypeOK, ReadRow, CallOK, Asking
<1>2. v \in Version \cup {None} /\ call[k].since <= v
  BY <1>1 DEF UserInv, UserTypeOK, CallOK
<1>3. CASE v = None
  <2> DEFINE next == [call[k] EXCEPT !.pc = "error"]
  <2>1. next \in Calls /\ next.pc = "error"
    BY <1>1 DEF Calls
  <2>2. Goes(k, next) /\ UNCHANGED <<hasCache, row, kept, travelling, settled>>
    BY <1>3 DEF ReadRow
  <2> HIDE DEF next
  <2> QED
    BY <1>1, <2>1, <2>2, QuietCallKeepsUserInv DEF Asking
<1>4. CASE v # None /\ ~hasCache
  <2> DEFINE next == [call[k] EXCEPT !.pc = "done", !.version = v]
  <2>1. next \in Calls /\ next.pc = "done" /\ next.version = v /\ next.since = call[k].since
    BY <1>1, <1>2 DEF Calls
  <2>2. next.version >= next.since
    BY <1>1, <1>2, <2>1 DEF Version, None, Calls
  <2>3. Goes(k, next) /\ UNCHANGED <<hasCache, row, kept, travelling, settled>>
    BY <1>4 DEF ReadRow
  <2> HIDE DEF next, v
  <2> QED
    BY <1>1, <2>1, <2>2, <2>3, QuietCallKeepsUserInv DEF Asking
<1>5. CASE v # None /\ hasCache
  <2> DEFINE next == [call[k] EXCEPT !.pc = "set", !.version = v]
             sent == Command("set", k, v)
  <2>1. /\ next \in Calls /\ next.pc = "set" /\ next.version = v
        /\ next.since = call[k].since /\ next.user = u
    BY <1>1, <1>2 DEF Calls
  <2>2. next.version >= next.since
    BY <1>1, <1>2, <2>1 DEF Version, None, Calls
  <2>3. /\ Goes(k, next) /\ travelling' = travelling \cup {sent}
        /\ UNCHANGED <<hasCache, row, kept, settled>>
    BY <1>5 DEF ReadRow
  <2>4. sent \in Commands /\ sent.by = k /\ sent.user = u /\ sent.version = v
    BY <1>1, <1>2, <1>5 DEF Command, Commands
  <2> HIDE DEF next, sent
  <2>5. /\ call' \in [Call -> Calls]
        /\ call'[k] = next
        /\ \A j \in Call \ {k} : call'[j] = call[j]
    BY <2>1, <2>3, GoesEffect DEF UserInv
  <2>6. UserTypeOK'
    BY <1>1, <1>2, <2>3, <2>4, <2>5 DEF UserInv, UserTypeOK, Version, None
  <2>7. FreshIsCurrent' /\ UpdateIsSeen'
    BY <2>1, <2>5 DEF UserInv, FreshIsCurrent, UpdateIsSeen
  <2>8. Trusted' /\ OffIsEmpty'
    BY <1>5, <2>3 DEF UserInv, Trusted, OffIsEmpty, Keeps
  <2>9. Dropped'
    <3>1. \A j \in Call \ {k} : Mine(j)' = Mine(j)
      BY <2>3, <2>4 DEF Mine
    <3> QED
      BY <2>1, <2>3, <2>5, <3>1 DEF UserInv, Dropped, Keeps
  <2>10. OnlyOwn'
    <3>1. \A c \in travelling : c.by # k
      BY <1>1 DEF UserInv, OnlyOwn
    <3>2. \A c \in travelling : c.by \in Call
      BY DEF UserInv, UserTypeOK, Commands
    <3> QED
      BY <2>1, <2>3, <2>4, <2>5, <3>1, <3>2 DEF UserInv, OnlyOwn
  <2>11. ASSUME NEW j \in Call PROVE CallOK(j)'
    <3>1. CASE j = k
      BY <1>1, <2>1, <2>2, <2>5, <3>1 DEF CallOK
    <3>2. CASE j # k
      BY <2>3, <2>5, <3>2 DEF UserInv, CallOK
    <3> QED
      BY <3>1, <3>2
  <2> QED
    BY <2>6, <2>7, <2>8, <2>9, <2>10, <2>11 DEF UserInv
<1> QED
  BY <1>3, <1>4, <1>5

(* A row is only ever written to a later version.                          *)
LEMMA WriteKeepsUserInv ==
    ASSUME UserInv, NEW k \in Call, NEW u \in User, NEW v \in Version, NEW next \in Calls,
           row' = [row EXCEPT ![u] = v], v > row[u], Goes(k, next),
           next.pc \in {"done", "error"}, ~next.fresh, next.since = None,
           call[k].pc \in {"idle", "abandoned"},
           UNCHANGED <<hasCache, kept, travelling, settled>>
    PROVE  UserInv'
<1>1. /\ call' \in [Call -> Calls]
      /\ call'[k] = next
      /\ \A j \in Call \ {k} : call'[j] = call[j]
  BY GoesEffect DEF UserInv
<1>2. row \in [User -> Version \cup {None}] /\ row' \in [User -> Version \cup {None}]
  BY DEF UserInv, UserTypeOK
<1>3. \A x \in User : row'[x] \in Int /\ row[x] \in Int /\ row[x] <= row'[x]
  BY <1>2, UserAssumption DEF Version, None
<1>4. /\ \A x \in User : settled[x] \in Int /\ kept[x].version \in Int
      /\ \A c \in travelling : c.version \in Int /\ c.user \in User /\ c.by \in Call
  BY UserAssumption DEF UserInv, UserTypeOK, Version, None, Commands
<1>5. UserTypeOK'
  <2>1. \A x \in User : settled[x] <= row'[x] /\ kept[x].version <= row'[x]
    BY <1>3, <1>4 DEF UserInv, UserTypeOK
  <2>2. \A c \in travelling : c.version <= row'[c.user]
    BY <1>3, <1>4 DEF UserInv, UserTypeOK
  <2> QED
    BY <1>1, <1>2, <2>1, <2>2 DEF UserInv, UserTypeOK
<1>6. FreshIsCurrent' /\ UpdateIsSeen'
  <2>1. next.version >= next.since
    BY UserAssumption DEF Calls, Version, None
  <2> QED
    BY <1>1, <2>1 DEF UserInv, FreshIsCurrent, UpdateIsSeen
<1>7. Trusted' /\ OffIsEmpty'
  BY DEF UserInv, Trusted, OffIsEmpty, Keeps
<1>8. Dropped'
  BY <1>1 DEF UserInv, Dropped, Keeps, Mine
<1>9. OnlyOwn'
  <2>1. \A c \in travelling : c.by # k
    BY DEF UserInv, OnlyOwn
  <2> QED
    BY <1>1, <1>4, <2>1 DEF UserInv, OnlyOwn
<1>10. ASSUME NEW j \in Call PROVE CallOK(j)'
  <2>1. CASE j = k
    BY <1>1, <2>1 DEF CallOK, Asking
  <2>2. CASE j # k
    <3>1. CallOK(j) /\ call'[j] = call[j] /\ call[j] \in Calls
      BY <1>1, <2>2 DEF UserInv, UserTypeOK
    <3>2. call[j].since \in Int /\ call[j].version \in Int
      BY <3>1, UserAssumption DEF Calls, Version, None
    <3>3. call[j].pc \in Asking => row[call[j].user] <= row'[call[j].user]
                                   /\ row[call[j].user] \in Int /\ row'[call[j].user] \in Int
      BY <1>3, <3>1 DEF CallOK
    <3> QED
      BY <3>1, <3>2, <3>3 DEF CallOK, Asking
  <2> QED
    BY <2>1, <2>2
<1> QED
  BY <1>5, <1>6, <1>7, <1>8, <1>9, <1>10 DEF UserInv

LEMMA CreateKeepsUserInv ==
    ASSUME UserInv, NEW k \in Call, NEW u \in User, Create(k, u)
    PROVE  UserInv'
<1>1. call[k].pc = "idle"
  BY DEF Create
<1>2. CASE row[u] = None
  <2> DEFINE next == [NoCall EXCEPT !.pc = "done", !.user = u, !.version = 1]
  <2>1. 1 \in Version /\ 1 > row[u]
    BY <1>2, UserAssumption DEF Version, None
  <2>2. next \in Calls /\ next.pc = "done" /\ ~next.fresh /\ next.since = None
    BY <2>1 DEF Calls, NoCall
  <2>3. Goes(k, next) /\ row' = [row EXCEPT ![u] = 1] /\ UNCHANGED <<hasCache, kept, travelling, settled>>
    BY <1>2 DEF Create
  <2> HIDE DEF next
  <2> QED
    BY <1>1, <2>1, <2>2, <2>3, WriteKeepsUserInv
<1>3. CASE row[u] # None
  <2> DEFINE next == [NoCall EXCEPT !.pc = "error", !.user = u]
  <2>1. next \in Calls /\ next.pc = "error"
    BY DEF Calls, NoCall
  <2>2. Goes(k, next) /\ UNCHANGED <<hasCache, row, kept, travelling, settled>>
    BY <1>3 DEF Create
  <2> HIDE DEF next
  <2> QED
    BY <1>1, <2>1, <2>2, QuietCallKeepsUserInv DEF Asking
<1> QED
  BY <1>2, <1>3

LEMMA CommitAbandonedKeepsUserInv ==
    ASSUME UserInv, NEW k \in Call, CommitAbandoned(k)
    PROVE  UserInv'
<1> DEFINE u == call[k].user
           next == [call[k] EXCEPT !.pc = "error"]
<1>1. call[k] \in Calls /\ call[k].pc = "abandoned" /\ u \in User /\ call[k].since = None
  BY DEF UserInv, UserTypeOK, CallOK, Asking, CommitAbandoned
<1>2. row[u] + 1 \in Version /\ row[u] + 1 > row[u]
  BY UserAssumption DEF CommitAbandoned, Version
<1>3. next \in Calls /\ next.pc = "error" /\ next.since = None
  BY <1>1 DEF Calls

<1>4. ~next.fresh
  BY <1>1 DEF UserInv, CallOK, Calls
<1>5. Goes(k, next) /\ row' = [row EXCEPT ![u] = row[u] + 1]
  BY DEF CommitAbandoned
<1>6. UNCHANGED <<hasCache, kept, travelling, settled>>
  BY DEF CommitAbandoned
<1> HIDE DEF next, u
<1> QED
  BY <1>1, <1>2, <1>3, <1>4, <1>5, <1>6, WriteKeepsUserInv

LEMMA CommitKeepsUserInv ==
    ASSUME UserInv, NEW k \in Call, Commit(k)
    PROVE  UserInv'
<1> DEFINE u == call[k].user
           v == row[u] + 1
           next == [call[k] EXCEPT !.pc = "delete", !.version = v]
           sent == Command("delete", k, v)
<1>1. /\ call[k] \in Calls /\ call[k].pc = "update" /\ u \in User
      /\ call[k].since = None /\ ~call[k].fresh
  BY DEF UserInv, UserTypeOK, CallOK, Asking, Commit
<1>2. v \in Version
  BY UserAssumption DEF Commit, Version
<1>3. /\ next \in Calls /\ next.pc = "delete" /\ next.since = None /\ ~next.fresh
      /\ next.version = v /\ next.user = u
  BY <1>1, <1>2 DEF Calls
<1>4. sent \in Commands /\ sent.by = k /\ sent.user = u /\ sent.version = v /\ sent.op = "delete"
  BY <1>1, <1>2 DEF Command, Commands
<1>5. /\ Goes(k, next) /\ row' = [row EXCEPT ![u] = v]
      /\ travelling' = IF hasCache THEN travelling \cup {sent} ELSE travelling
      /\ UNCHANGED <<hasCache, kept, settled>>
  BY DEF Commit
<1>6. row \in [User -> Version \cup {None}] /\ v > row[u]
  BY UserAssumption DEF UserInv, UserTypeOK, Commit, Version
<1> HIDE DEF next, sent, u, v
<1>7. /\ call' \in [Call -> Calls]
      /\ call'[k] = next
      /\ \A j \in Call \ {k} : call'[j] = call[j]
  BY <1>3, <1>5, GoesEffect DEF UserInv
<1>8. row' \in [User -> Version \cup {None}] /\ row'[u] = v
  BY <1>1, <1>2, <1>5, <1>6
<1>9. \A x \in User : row'[x] \in Int /\ row[x] \in Int /\ row[x] <= row'[x]
  BY <1>1, <1>5, <1>6, <1>8, UserAssumption DEF Version, None
<1>10. /\ \A x \in User : settled[x] \in Int /\ kept[x].version \in Int
       /\ \A c \in travelling : c.version \in Int /\ c.user \in User /\ c.by \in Call
  BY UserAssumption DEF UserInv, UserTypeOK, Version, None, Commands
<1>11. UserTypeOK'
  <2>1. \A x \in User : settled'[x] <= row'[x] /\ kept'[x].version <= row'[x]
    BY <1>5, <1>9, <1>10 DEF UserInv, UserTypeOK
  <2>2. \A c \in travelling : c.version <= row'[c.user]
    BY <1>9, <1>10 DEF UserInv, UserTypeOK
  <2>3. sent.version <= row'[sent.user]
    BY <1>1, <1>4, <1>8, <1>9
  <2> QED
    BY <1>4, <1>5, <1>7, <1>8, <2>1, <2>2, <2>3 DEF UserInv, UserTypeOK
<1>12. FreshIsCurrent' /\ UpdateIsSeen'
  BY <1>3, <1>7 DEF UserInv, FreshIsCurrent, UpdateIsSeen
<1>13. Trusted' /\ OffIsEmpty'
  BY <1>5 DEF UserInv, Trusted, OffIsEmpty, Keeps
<1>14. Dropped'
  <2>1. \A j \in Call \ {k} : Mine(j)' = Mine(j)
    BY <1>4, <1>5 DEF Mine
  <2>2. hasCache => Mine(k)' # {}
    BY <1>4, <1>5 DEF Mine
  <2>3. ~hasCache => kept'[u].version = None
    BY <1>1, <1>5 DEF UserInv, OffIsEmpty
  <2> QED
    BY <1>3, <1>5, <1>7, <2>1, <2>2, <2>3 DEF UserInv, Dropped, Keeps
<1>15. OnlyOwn'
  <2>1. \A c \in travelling : c.by # k
    BY <1>1 DEF UserInv, OnlyOwn
  <2> QED
    BY <1>3, <1>4, <1>5, <1>7, <1>10, <2>1 DEF UserInv, OnlyOwn
<1>16. ASSUME NEW j \in Call PROVE CallOK(j)'
  <2>1. CASE j = k
    BY <1>1, <1>3, <1>7, <1>8, <1>9, <2>1 DEF CallOK, Asking
  <2>2. CASE j # k
    <3>1. CallOK(j) /\ call'[j] = call[j] /\ call[j] \in Calls
      BY <1>7, <2>2 DEF UserInv, UserTypeOK
    <3>2. call[j].since \in Int /\ call[j].version \in Int
      BY <3>1, UserAssumption DEF Calls, Version, None
    <3>3. call[j].pc \in Asking => row[call[j].user] <= row'[call[j].user]
                                   /\ row[call[j].user] \in Int /\ row'[call[j].user] \in Int
      BY <1>9, <3>1 DEF CallOK
    <3> QED
      BY <1>5, <3>1, <3>2, <3>3 DEF CallOK, Asking
  <2> QED
    BY <2>1, <2>2
<1> QED
  BY <1>11, <1>12, <1>13, <1>14, <1>15, <1>16 DEF UserInv

(* A record that arrives is not late exactly if it is the one in the       *)
(* table; whatever arrives of an update leaves nothing that it outdates.   *)
LEMMA ArrivesKeepsUserInv ==
    ASSUME UserInv, NEW c \in travelling, Arrives(c)
    PROVE  UserInv'
<1> USE UserAssumption
<1> DEFINE u == c.user
           now == IF c.op = "set" THEN [version |-> c.version, late |-> c.version # row[u]]
                                  ELSE [version |-> None, late |-> FALSE]
<1>1. c \in Commands /\ u \in User /\ c.by \in Call /\ c.version \in Version
  BY DEF UserInv, UserTypeOK, Commands
<1>2. /\ now \in [version : Version \cup {None}, late : BOOLEAN]
      /\ now.version <= row[u]
      /\ now.version # None /\ ~now.late => now.version = row[u]
      /\ c.op = "delete" => now.version = None
  <2>1. c.version <= row[u] /\ row[u] \in Version \cup {None}
    BY <1>1 DEF UserInv, UserTypeOK
  <2>2. CASE c.op = "set"
    <3>1. now = [version |-> c.version, late |-> c.version # row[u]]
      BY <2>2
    <3> QED
      BY <1>1, <2>1, <2>2, <3>1
  <2>3. CASE c.op # "set"
    <3>1. now = [version |-> None, late |-> FALSE]
      BY <2>3
    <3>2. None <= row[u]
      BY <2>1 DEF Version, None
    <3> QED
      BY <3>1, <3>2
  <2> QED
    BY <2>2, <2>3
<1>3. kept' = [kept EXCEPT ![u] = now] /\ travelling' = travelling \ {c}
      /\ UNCHANGED <<hasCache, row, call, settled>>
  BY DEF Arrives
<1>4. kept \in [User -> [version : Version \cup {None}, late : BOOLEAN]]
  BY DEF UserInv, UserTypeOK
<1> HIDE DEF now, u
<1>5. UserTypeOK'
  BY <1>1, <1>2, <1>3, <1>4 DEF UserInv, UserTypeOK
<1>6. FreshIsCurrent' /\ UpdateIsSeen' /\ \A j \in Call : CallOK(j)'
  BY <1>3 DEF UserInv, FreshIsCurrent, UpdateIsSeen, CallOK
<1>7. Trusted'
  <2>1. settled[u] <= row[u]
    BY <1>1 DEF UserInv, UserTypeOK
  <2> QED
    BY <1>1, <1>2, <1>3, <1>4, <2>1 DEF UserInv, Trusted, Keeps
<1>8. Dropped'
  <2> SUFFICES ASSUME NEW k \in Call, call[k].pc = "delete", Mine(k)' = {}, Keeps(call[k].user)'
               PROVE  kept'[call[k].user].version >= call[k].version
    BY <1>3 DEF Dropped
  <2>1. CallOK(k) /\ call[k].user \in User /\ call[k] \in Calls
    BY DEF UserInv, UserTypeOK, CallOK, Asking
  <2>2. CASE c.by = k
    <3>1. c.op = "delete" /\ u = call[k].user
      BY <2>2 DEF UserInv, OnlyOwn, u
    <3> QED
      BY <1>1, <1>2, <1>3, <1>4, <3>1 DEF Keeps
  <2>3. CASE c.by # k
    <3>1. Mine(k) = {}
      BY <1>3, <2>3 DEF Mine
    <3>2. CASE u = call[k].user
      BY <1>1, <1>2, <1>3, <1>4, <2>1, <3>2 DEF CallOK, Keeps
    <3>3. CASE u # call[k].user
      BY <1>3, <1>4, <2>1, <3>1, <3>3 DEF UserInv, Dropped, Keeps
    <3> QED
      BY <3>2, <3>3
  <2> QED
    BY <2>2, <2>3
<1>9. OnlyOwn' /\ OffIsEmpty'
  BY <1>3 DEF UserInv, OnlyOwn, OffIsEmpty
<1> QED
  BY <1>5, <1>6, <1>7, <1>8, <1>9 DEF UserInv

(* A call that waited for the cache ends, with its command or without.     *)
LEMMA EndsKeepsUserInv ==
    ASSUME UserInv, NEW k \in Call, Acknowledged(k) \/ GivesUp(k)
    PROVE  UserInv'
<1> USE UserAssumption
<1> DEFINE u == call[k].user
           next == [call[k] EXCEPT !.pc = "done"]
<1>1. /\ call[k] \in Calls /\ CallOK(k) /\ call[k].pc \in {"set", "delete"} /\ u \in User
  BY DEF UserInv, UserTypeOK, CallOK, Asking, Acknowledged, GivesUp
<1>2. /\ next \in Calls /\ next.pc = "done" /\ next.fresh = call[k].fresh
      /\ next.since = call[k].since /\ next.version = call[k].version
  BY <1>1 DEF Calls
<1>3. Goes(k, next) /\ travelling' \subseteq travelling /\ UNCHANGED <<hasCache, row, kept>>
  BY DEF Acknowledged, GivesUp
<1>4. \A j \in Call \ {k} : Mine(j)' = Mine(j)
  BY DEF Acknowledged, GivesUp, Mine
<1> HIDE DEF next
<1>5. /\ call' \in [Call -> Calls]
      /\ call'[k] = next
      /\ \A j \in Call \ {k} : call'[j] = call[j]
  BY <1>2, <1>3, GoesEffect DEF UserInv
<1>6. /\ \A x \in User : settled[x] \in Int /\ settled'[x] \in Int /\ settled[x] <= settled'[x]
      /\ settled' \in [User -> Version \cup {None}]
      /\ \A x \in User : settled'[x] <= row[x]
      /\ \A x \in User : Keeps(x) => kept[x].version >= settled'[x]
  <2>1. /\ settled \in [User -> Version \cup {None}] /\ call[k].version \in Version \cup {None}
        /\ \A x \in User : settled[x] <= row[x]
        /\ \A x \in User : Keeps(x) => kept[x].version >= settled[x]
    BY <1>1 DEF UserInv, UserTypeOK, Calls, Trusted
  <2>2. \A n \in Version \cup {None} : n \in Int
    BY DEF Version, None
  <2>3. CASE UNCHANGED settled
    BY <2>1, <2>2, <2>3
  <2>4. CASE Acknowledged(k) /\ settled' # settled
    <3>1. /\ call[k].pc = "delete" /\ call[k].version > settled[u] /\ Mine(k) = {}
          /\ settled' = [settled EXCEPT ![u] = call[k].version]
      BY <2>4 DEF Acknowledged
    <3>2. call[k].version <= row[u] /\ (Keeps(u) => kept[u].version >= call[k].version)
      BY <1>1, <3>1 DEF UserInv, Dropped, CallOK
    <3> QED
      BY <1>1, <2>1, <2>2, <3>1, <3>2
  <2> QED
    BY <2>3, <2>4 DEF GivesUp
<1>7. UserTypeOK'
  BY <1>3, <1>5, <1>6 DEF UserInv, UserTypeOK
<1>8. FreshIsCurrent' /\ UpdateIsSeen'
  <2>1. next.version >= next.since
    BY <1>1, <1>2 DEF CallOK, Calls, Version, None
  <2> QED
    BY <1>2, <1>5, <2>1 DEF UserInv, FreshIsCurrent, UpdateIsSeen
<1>9. Trusted'
  BY <1>3, <1>6 DEF Trusted, Keeps
<1>10. Dropped'
  BY <1>2, <1>3, <1>4, <1>5 DEF UserInv, Dropped, Keeps
<1>11. OnlyOwn' /\ OffIsEmpty'
  BY <1>2, <1>3, <1>5 DEF UserInv, OnlyOwn, OffIsEmpty, UserTypeOK, Commands
<1>12. ASSUME NEW j \in Call PROVE CallOK(j)'
  <2>1. CASE j = k
    BY <1>2, <1>5, <2>1 DEF CallOK, Asking
  <2>2. CASE j # k
    <3>1. CallOK(j) /\ call'[j] = call[j] /\ call[j].since \in Int
      BY <1>5, <2>2 DEF UserInv, UserTypeOK, Calls, Version, None
    <3>2. call[j].pc = "get" =>
            settled[call[j].user] <= settled'[call[j].user]
            /\ settled[call[j].user] \in Int /\ settled'[call[j].user] \in Int
      BY <1>6, <3>1 DEF CallOK, Asking
    <3> QED
      BY <1>3, <3>1, <3>2 DEF CallOK
  <2> QED
    BY <2>1, <2>2
<1> QED
  BY <1>7, <1>8, <1>9, <1>10, <1>11, <1>12 DEF UserInv

LEMMA ExpiresKeepsUserInv ==
    ASSUME UserInv, NEW u \in User, Expires(u)
    PROVE  UserInv'
<1> USE UserAssumption
<1>1. /\ kept' = [kept EXCEPT ![u] = [version |-> None, late |-> FALSE]]
      /\ UNCHANGED <<hasCache, row, travelling, call, settled>>
  BY DEF Expires
<1>2. kept \in [User -> [version : Version \cup {None}, late : BOOLEAN]]
      /\ row \in [User -> Version \cup {None}]
  BY DEF UserInv, UserTypeOK
<1>3. \A x \in User : kept'[x] = kept[x] \/ (kept'[x].version = None /\ ~Keeps(x)')
  BY <1>1, <1>2 DEF Keeps
<1>4. UserTypeOK'
  BY <1>1, <1>2 DEF UserInv, UserTypeOK, Version, None
<1>5. FreshIsCurrent' /\ UpdateIsSeen' /\ \A j \in Call : CallOK(j)'
  BY <1>1 DEF UserInv, FreshIsCurrent, UpdateIsSeen, CallOK
<1>6. Trusted' /\ OnlyOwn' /\ OffIsEmpty'
  BY <1>1, <1>3 DEF UserInv, Trusted, OnlyOwn, OffIsEmpty, Keeps
<1>7. Dropped'
  <2>1. \A j \in Call : Mine(j)' = Mine(j) /\ (call[j].pc = "delete" => call[j].user \in User)
    BY <1>1 DEF UserInv, Mine, CallOK, Asking
  <2> QED
    BY <1>1, <1>3, <2>1 DEF UserInv, Dropped, Keeps
<1> QED
  BY <1>4, <1>5, <1>6, <1>7 DEF UserInv

LEMMA UserNextKeepsInv == UserInv /\ [UserNext]_userVars => UserInv'
<1> SUFFICES ASSUME UserInv, [UserNext]_userVars
             PROVE  UserInv'
  OBVIOUS
<1>1. CASE UNCHANGED userVars
  BY <1>1 DEF userVars, UserInv, UserTypeOK, FreshIsCurrent, UpdateIsSeen, Trusted, Dropped, OnlyOwn,
              OffIsEmpty, CallOK, Keeps, Mine
<1>2. ASSUME NEW k \in Call, NEW u \in User, Create(k, u)
      PROVE  UserInv'
  BY <1>2, CreateKeepsUserInv
<1>3. ASSUME NEW k \in Call,
             \/ \E u \in User : UpdateBegins(k, u)
             \/ \E u \in User, fresh \in BOOLEAN : GetBegins(k, u, fresh)
             \/ CacheRead(k) \/ Degrades(k) \/ UpdateTimesOut(k) \/ NoSuchUser(k)
      PROVE  UserInv'
  BY <1>3, QuietStepsKeepUserInv
<1>4. ASSUME NEW k \in Call, ReadRow(k) \/ Commit(k) \/ CommitAbandoned(k)
      PROVE  UserInv'
  BY <1>4, ReadRowKeepsUserInv, CommitKeepsUserInv, CommitAbandonedKeepsUserInv
<1>5. ASSUME NEW k \in Call, Acknowledged(k) \/ GivesUp(k)
      PROVE  UserInv'
  BY <1>5, EndsKeepsUserInv
<1>6. ASSUME NEW c \in travelling, Arrives(c)
      PROVE  UserInv'
  BY <1>6, ArrivesKeepsUserInv
<1>7. ASSUME NEW u \in User, Expires(u)
      PROVE  UserInv'
  BY <1>7, ExpiresKeepsUserInv
<1> QED
  BY <1>1, <1>2, <1>3, <1>4, <1>5, <1>6, <1>7 DEF UserNext

(* Every read that needs fresh data gets it, and an update that has ended  *)
(* well is seen by every read that begins later, unless the cache was told *)
(* of an older record by a read that the update overtook.                  *)
THEOREM UsersAlwaysCurrent == UserSpec => []UsersCurrent
<1>1. UserInv => UsersCurrent
  BY DEF UserInv, UsersCurrent
<1> QED
  BY <1>1, UserInvInit, UserNextKeepsInv, PTL DEF UserSpec

-----------------------------------------------------------------------------
(***************************************************************************)
(* LeftAt: what is left of a store.                                        *)
(***************************************************************************)
UpTo(places, i) == {j \in places : j <= i}

(* A finite set of places has an n-th one, for every n up to its size: the *)
(* least up to which there are n.                                          *)
LEMMA NthPlace ==
    ASSUME NEW N \in Nat, NEW places \in SUBSET (1 .. N), NEW n \in 1 .. Cardinality(places)
    PROVE  \E i \in places : Cardinality(UpTo(places, i)) = n
<1> DEFINE Enough == {i \in 0 .. N : Cardinality(UpTo(places, i)) >= n}
<1>0. /\ IsFiniteSet(places) /\ Cardinality(places) \in Nat
      /\ \A j \in places : j \in 1 .. N
  <2>1. IsFiniteSet(1 .. N)
    BY FS_Interval
  <2> QED
    BY <2>1, FS_Subset, FS_CardinalityType
<1>1. \A i \in 0 .. N : IsFiniteSet(UpTo(places, i)) /\ Cardinality(UpTo(places, i)) \in Nat
  BY <1>0, FS_Subset, FS_CardinalityType DEF UpTo
<1>2. N \in Enough
  <2>0. \A j \in places : j <= N
    BY <1>0
  <2>1. UpTo(places, N) = places
    BY <2>0, Zenon DEF UpTo
  <2> QED
    BY <1>0, <2>1
<1>3. Enough \subseteq Nat
  OBVIOUS
<1>4. PICK i \in Enough : \A j \in Enough : ~(<<j, i>> \in OpToRel(<, Nat))
  BY <1>2, <1>3, NatLessThanWellFounded, WFMin, Zenon
<1>5. \A j \in Enough : ~(j < i)
  BY <1>3, <1>4 DEF OpToRel
<1>6. i # 0
  <2>0. \A j \in places : ~(j <= 0)
    BY <1>0
  <2>1. UpTo(places, 0) = {}
    BY <2>0, Zenon DEF UpTo
  <2>2. Cardinality(UpTo(places, 0)) = 0
    BY <2>1, FS_EmptySet
  <2> QED
    BY <2>2
<1>7. i - 1 \in 0 .. N /\ i - 1 \notin Enough
  BY <1>5, <1>6
<1>8. Cardinality(UpTo(places, i - 1)) < n
  BY <1>1, <1>7
<1>9. i \in places
  <2>1. CASE i \notin places
    <3>0. \A j \in places : j <= i <=> j <= i - 1
      BY <1>0, <2>1
    <3>1. UpTo(places, i) = UpTo(places, i - 1)
      BY <3>0, Zenon DEF UpTo
    <3> QED
      BY <1>1, <1>7, <1>8, <3>1
  <2> QED
    BY <2>1
<1>10. UpTo(places, i) = UpTo(places, i - 1) \cup {i} /\ i \notin UpTo(places, i - 1)
  <2>1. /\ \A j \in places : j <= i <=> j <= i - 1 \/ j = i
        /\ ~(i <= i - 1) /\ i <= i
    BY <1>0, <1>9
  <2> QED
    BY <1>9, <2>1, Zenon DEF UpTo
<1>11. Cardinality(UpTo(places, i)) = Cardinality(UpTo(places, i - 1)) + 1
  BY <1>1, <1>7, <1>10, FS_AddElement
<1>12. Cardinality(UpTo(places, i)) = n
  BY <1>1, <1>7, <1>8, <1>11
<1> QED
  BY <1>9, <1>12

(* Every entry of what is left comes from a place of its own, and there    *)
(* are no more of them than there were.                                    *)
LEMMA LeftAtProperties ==
    ASSUME NEW S, NEW store \in Seq(S), NEW places \in SUBSET DOMAIN store
    PROVE  LET left == LeftAt(store, places)
           IN  /\ left \in Seq(S)
               /\ Len(left) = Cardinality(places)
               /\ Len(left) <= Len(store)
               /\ \A n \in DOMAIN left : \E i \in places : left[n] = store[i]
               /\ \A n, m \in DOMAIN left : n # m =>
                     \E i, j \in places : i # j /\ left[n] = store[i] /\ left[m] = store[j]
<1> DEFINE left == LeftAt(store, places)
           at == [n \in 1 .. Cardinality(places) |->
                    CHOOSE i \in places : Cardinality({j \in places : j <= i}) = n]
<1>1. DOMAIN store = 1 .. Len(store) /\ Len(store) \in Nat
  OBVIOUS
<1>2. IsFiniteSet(places) /\ Cardinality(places) \in Nat /\ Cardinality(places) <= Len(store)
  <2> DEFINE N == Len(store)
  <2> HIDE DEF N
  <2>1. IsFiniteSet(1 .. N) /\ Cardinality(1 .. N) = N
    <3>1. N \in Nat
      BY <1>1 DEF N
    <3> QED
      BY <3>1, FS_Interval
  <2> USE DEF N
  <2> QED
    BY <1>1, <2>1, FS_Subset, FS_CardinalityType
<1>3. ASSUME NEW n \in 1 .. Cardinality(places)
      PROVE  at[n] \in places /\ Cardinality(UpTo(places, at[n])) = n
  <2>1. \E i \in places : Cardinality({j \in places : j <= i}) = n
    BY <1>1, NthPlace DEF UpTo
  <2>2. at[n] = CHOOSE i \in places : Cardinality({j \in places : j <= i}) = n
    OBVIOUS
  <2> HIDE DEF at
  <2> QED
    BY <2>1, <2>2, Zenon DEF UpTo
<1>4. DOMAIN left = 1 .. Cardinality(places)
      /\ \A n \in 1 .. Cardinality(places) : left[n] = store[at[n]]
  BY DEF LeftAt
<1> HIDE DEF at
<1>5. \A n \in 1 .. Cardinality(places) : left[n] \in S
  BY <1>1, <1>3, <1>4
<1>6. left \in Seq(S) /\ Len(left) = Cardinality(places)
  <2>1. left = [n \in 1 .. Cardinality(places) |-> left[n]]
    BY <1>4 DEF LeftAt
  <2>2. left \in [1 .. Cardinality(places) -> S]
    BY <1>5, <2>1
  <2> HIDE DEF left
  <2> QED
    BY <1>2, <2>2
<1>7. \A n, m \in 1 .. Cardinality(places) : n # m => at[n] # at[m]
  BY <1>3
<1> HIDE DEF left
<1> QED
  BY <1>2, <1>3, <1>4, <1>6, <1>7 DEF left

(* The places in their order: one map from 1 to their number for every     *)
(* sequence, which misses none.                                            *)
LEMMA PlacesInOrder ==
    ASSUME NEW N \in Nat, NEW places \in SUBSET (1 .. N)
    PROVE  \E at \in [1 .. Cardinality(places) -> places] :
              /\ \A s : LeftAt(s, places) = [n \in 1 .. Cardinality(places) |-> s[at[n]]]
              /\ \A n, m \in 1 .. Cardinality(places) : n < m => at[n] < at[m]
              /\ \A p \in places : \E n \in 1 .. Cardinality(places) : at[n] = p
<1> DEFINE M == Cardinality(places)
           nth(n) == CHOOSE i \in places : Cardinality({j \in places : j <= i}) = n
           at == [n \in 1 .. M |-> nth(n)]
<1>1. IsFiniteSet(places) /\ M \in Nat /\ \A j \in places : j \in 1 .. N
  <2>1. IsFiniteSet(1 .. N)
    BY FS_Interval
  <2> QED
    BY <2>1, FS_Subset, FS_CardinalityType
<1>2. ASSUME NEW n \in 1 .. M
      PROVE  at[n] \in places /\ Cardinality(UpTo(places, at[n])) = n
  <2>1. \E i \in places : Cardinality({j \in places : j <= i}) = n
    BY NthPlace DEF UpTo
  <2>2. nth(n) \in places /\ Cardinality(UpTo(places, nth(n))) = n
    BY <2>1, Zenon DEF UpTo
  <2> HIDE DEF nth, M
  <2> QED
    BY <2>2
<1>3. \A s : LeftAt(s, places) = [n \in 1 .. M |-> s[at[n]]]
  <2>1. \A s : LeftAt(s, places) = [n \in 1 .. M |-> s[nth(n)]]
    BY Zenon DEF LeftAt
  <2>2. \A n \in 1 .. M : at[n] = nth(n)
    OBVIOUS
  <2> HIDE DEF at, nth
  <2> QED
    BY <2>1, <2>2
<1>4. at \in [1 .. M -> places]
  <2>1. \A n \in 1 .. M : nth(n) \in places
    BY <1>2
  <2> HIDE DEF nth
  <2> QED
    BY <2>1
<1>0. places \subseteq Nat /\ \A i, j \in places : i < j \/ j < i \/ i = j
  BY <1>1
<1> HIDE DEF at, M
<1>5. \A i \in places : IsFiniteSet(UpTo(places, i)) /\ Cardinality(UpTo(places, i)) \in 1 .. M
  <2> SUFFICES ASSUME NEW i \in places
               PROVE  IsFiniteSet(UpTo(places, i)) /\ Cardinality(UpTo(places, i)) \in 1 .. M
    OBVIOUS
  <2>1. UpTo(places, i) \in SUBSET places /\ i \in UpTo(places, i)
    BY <1>1 DEF UpTo
  <2>2. /\ IsFiniteSet(UpTo(places, i)) /\ Cardinality(UpTo(places, i)) <= M
        /\ Cardinality(UpTo(places, i)) \in Nat /\ Cardinality(UpTo(places, i)) # 0
    BY <1>1, <2>1, FS_Subset, FS_CardinalityType, FS_EmptySet DEF M
  <2> QED
    BY <1>1, <2>2
<1>6. ASSUME NEW i \in places, NEW j \in places, i < j
      PROVE  Cardinality(UpTo(places, i)) < Cardinality(UpTo(places, j))
  <2>0. j <= j /\ ~(j <= i) /\ \A p \in places : p <= i => p <= j
    <3>1. i \in Nat /\ j \in Nat /\ \A p \in places : p \in Nat
      BY <1>0
    <3> QED
      BY <1>6, <3>1
  <2>1. UpTo(places, i) \in SUBSET UpTo(places, j) /\ j \in UpTo(places, j) /\ j \notin UpTo(places, i)
    BY <2>0, Zenon DEF UpTo
  <2>2. /\ Cardinality(UpTo(places, i)) <= Cardinality(UpTo(places, j))
        /\ Cardinality(UpTo(places, i)) # Cardinality(UpTo(places, j))
    BY <1>5, <2>1, FS_Subset
  <2> QED
    BY <1>5, <2>2
<1>7. ASSUME NEW n \in 1 .. M, NEW m \in 1 .. M, n < m
      PROVE  at[n] < at[m]
  <2>1. /\ at[n] \in places /\ Cardinality(UpTo(places, at[n])) = n
        /\ at[m] \in places /\ Cardinality(UpTo(places, at[m])) = m
    BY <1>2
  <2>2. at[n] # at[m]
    BY <1>7, <2>1
  <2>3. ~(at[m] < at[n])
    <3>1. CASE at[m] < at[n]
      <4>1. m < n
        BY <1>6, <2>1, <3>1
      <4> QED
        BY <1>7, <4>1
    <3> QED
      BY <3>1
  <2> QED
    BY <1>0, <2>1, <2>2, <2>3
<1>8. ASSUME NEW p \in places
      PROVE  \E n \in 1 .. M : at[n] = p
  <2> DEFINE n == Cardinality(UpTo(places, p))
  <2>1. n \in 1 .. M /\ at[n] \in places /\ Cardinality(UpTo(places, at[n])) = n
    BY <1>2, <1>5
  <2> DEFINE a == at[n]
  <2>2. a \in places /\ Cardinality(UpTo(places, a)) = Cardinality(UpTo(places, p))
        /\ Cardinality(UpTo(places, p)) \in Nat
    BY <2>1
  <2> HIDE DEF a
  <2>3. ~(a < p) /\ ~(p < a)
    BY <1>6, <2>2
  <2>4. a = p
    BY <1>0, <2>2, <2>3
  <2> QED
    BY <2>1, <2>4 DEF a
<1> QED
  BY <1>3, <1>4, <1>7, <1>8 DEF M

(* A selection is a sequence of elements that were at its places.          *)
LEMMA LeftAtElements ==
    ASSUME NEW S, NEW s \in Seq(S), NEW places \in SUBSET DOMAIN s
    PROVE  /\ LeftAt(s, places) \in Seq(S)
           /\ Range(LeftAt(s, places)) = {s[i] : i \in places}
<1>1. Len(s) \in Nat /\ DOMAIN s = 1 .. Len(s) /\ \A i \in 1 .. Len(s) : s[i] \in S
  OBVIOUS
<1>2. LeftAt(s, places) \in Seq(S)
  BY LeftAtProperties
<1> DEFINE N == Len(s)
<1>3. PICK at \in [1 .. Cardinality(places) -> places] :
         /\ \A t : LeftAt(t, places) = [n \in 1 .. Cardinality(places) |-> t[at[n]]]
         /\ \A n, m \in 1 .. Cardinality(places) : n < m => at[n] < at[m]
         /\ \A p \in places : \E n \in 1 .. Cardinality(places) : at[n] = p
  <2> HIDE DEF N
  <2>1. N \in Nat /\ places \in SUBSET (1 .. N)
    BY <1>1 DEF N
  <2> QED
    BY <2>1, PlacesInOrder, Zenon
<1>4. LeftAt(s, places) = [n \in 1 .. Cardinality(places) |-> s[at[n]]]
  BY <1>3
<1>5. Range(LeftAt(s, places)) = {s[at[n]] : n \in 1 .. Cardinality(places)}
  BY <1>4 DEF Range
<1>6. Range(LeftAt(s, places)) \subseteq {s[i] : i \in places}
  BY <1>3, <1>5
<1>7. {s[i] : i \in places} \subseteq Range(LeftAt(s, places))
  BY <1>3, <1>5
<1> QED
  BY <1>2, <1>6, <1>7

-----------------------------------------------------------------------------
(***************************************************************************)
(* RetrievalCache.  What is kept or held and is lost by now was lost by a  *)
(* deletion or by the other process, and not before it was kept; or it     *)
(* went while a retrieval held it.  Versions are never used again (Gone),  *)
(* so what a search finds is not among what was lost before.               *)
(***************************************************************************)
Most == IF Cap > 1 THEN Cap ELSE 1

Same(x, l) == x.doc = l.doc /\ x.version = l.version

Excused(l, age) == Straddled(l) \/ (l.how # "ingested" /\ l.age <= age)

GoodEntry(s, e) ==
    \A x \in e.answer :
        /\ ScopeOf[x.doc] = s
        /\ \A l \in lost : Same(x, l) => Excused(l, e.age)

OneEach(store) == \A i, j \in DOMAIN store : store[i].query = store[j].query => i = j

StoreOK(s, store) ==
    /\ store \in Seq(Entries)
    /\ Len(store) <= Most
    /\ OneEach(store)
    /\ \A i \in DOMAIN store : GoodEntry(s, store[i])

CacheOK ==
    /\ DOMAIN cache = Scope
    /\ \A s \in Scope : StoreOK(s, cache[s])

Gone == \A l \in lost : shelf[l.doc] = 0 \/ l.version < shelf[l.doc]

(* What a retrieval has found is of its scope, was there after the cache   *)
(* was asked, and is straddled if it is gone.                              *)
FoundOK(x) ==
    \A c \in x.found :
        /\ ScopeOf[c.doc] = x.scope
        /\ \A l \in x.before : ~Same(c, l)
        /\ \A l \in lost : Same(c, l) => Straddled(l)

AnswerOK(x) ==
    \A a \in x.answer, l \in x.before : Same(a, l) => Excused(l, Ttl)

RunOK(x) ==
    /\ x.pc \in {"asked", "search", "rank", "expand", "name"} => x.scope \in Scope
    /\ x.pc \in {"search", "rank", "expand", "name"} => x.query \in Query
    /\ x.pc = "search" => \A b \in x.before : \E l \in lost : Same(b, l)
    /\ x.pc \in {"rank", "expand", "name"} => FoundOK(x)
    /\ x.pc = "name" => \A a \in x.answer : \E c \in x.found : Same(c, a)
    /\ x.pc = "done" => AnswerOK(x)

Typed ==
    /\ shelf \in [Doc -> 0 .. MaxVersion]
    /\ run \in [Retrieval -> Runs]
    /\ busy \in Busy
    /\ lost \subseteq Lost
    /\ straddled \subseteq Chunks

RetrievalInv == Typed /\ CacheOK /\ Gone /\ \A r \in Retrieval : RunOK(run[r])

LEMMA RetrievalInvInit == RetrievalInit => RetrievalInv
<1> SUFFICES ASSUME RetrievalInit PROVE RetrievalInv
  OBVIOUS
<1> USE RetrievalAssumption DEF RetrievalInit
<1>1. NoRun \in Runs /\ NoRun.pc = "idle"
  BY DEF NoRun, Runs
<1>2. Typed
  BY <1>1 DEF Typed, Lost, Chunks
<1>3. CacheOK
  <2>1. \A s \in Scope : cache[s] = <<>>
    OBVIOUS
  <2>2. \A s \in Scope : StoreOK(s, <<>>)
    BY DEF StoreOK, OneEach, Most
  <2> QED
    BY <2>1, <2>2 DEF CacheOK
<1>4. Gone /\ \A r \in Retrieval : RunOK(run[r])
  BY <1>1 DEF Gone, RunOK
<1> QED
  BY <1>2, <1>3, <1>4 DEF RetrievalInv

LEMMA RetrievalInvImplies == RetrievalInv => CacheCurrent
<1> SUFFICES ASSUME RetrievalInv PROVE CacheCurrent
  OBVIOUS
<1>1. RetrievalTypeOK
  <2>1. \A s \in Scope :
          /\ Len(cache[s]) <= IF Cap > 1 THEN Cap ELSE 1
          /\ \A i \in DOMAIN cache[s] : cache[s][i] \in Entries
          /\ \A i, j \in DOMAIN cache[s] : cache[s][i].query = cache[s][j].query => i = j
    BY DEF RetrievalInv, CacheOK, StoreOK, OneEach, Most
  <2> QED
    BY <2>1 DEF RetrievalInv, Typed, CacheOK, RetrievalTypeOK
<1>2. InvalidationReaches /\ StaleWithinTtl
  BY DEF RetrievalInv, RunOK, AnswerOK, Same, Excused, InvalidationReaches, StaleWithinTtl, ShowsLost
<1> QED
  BY <1>1, <1>2 DEF CacheCurrent

(* A store stays in order if some of its entries go.                       *)
LEMMA LeftAtKeepsStore ==
    ASSUME NEW s, NEW store, StoreOK(s, store), NEW places \in SUBSET DOMAIN store
    PROVE  StoreOK(s, LeftAt(store, places))
<1> DEFINE left == LeftAt(store, places)
<1>1. /\ left \in Seq(Entries)
      /\ Len(left) <= Len(store)
      /\ \A n \in DOMAIN left : \E i \in places : left[n] = store[i]
      /\ \A n, m \in DOMAIN left : n # m =>
            \E i, j \in places : i # j /\ left[n] = store[i] /\ left[m] = store[j]
  BY LeftAtProperties DEF StoreOK
<1> HIDE DEF left
<1>2. Len(left) <= Most
  BY <1>1, RetrievalAssumption DEF StoreOK, Most
<1>3. OneEach(left)
  BY <1>1 DEF StoreOK, OneEach
<1>4. \A i \in DOMAIN left : GoodEntry(s, left[i])
  BY <1>1 DEF StoreOK
<1> QED
  BY <1>1, <1>2, <1>3, <1>4 DEF StoreOK, left

(* So it does with an entry at its end, whose query no other has.          *)
LEMMA AppendKeepsStore ==
    ASSUME NEW s, NEW store \in Seq(Entries), NEW e \in Entries,
           OneEach(store), \A i \in DOMAIN store : GoodEntry(s, store[i]),
           GoodEntry(s, e), \A i \in DOMAIN store : store[i].query # e.query
    PROVE  /\ Append(store, e) \in Seq(Entries)
           /\ OneEach(Append(store, e))
           /\ \A i \in DOMAIN Append(store, e) : GoodEntry(s, Append(store, e)[i])
           /\ Len(Append(store, e)) = Len(store) + 1
<1> DEFINE longer == Append(store, e)
<1>1. /\ longer \in Seq(Entries) /\ Len(longer) = Len(store) + 1
      /\ DOMAIN longer = 1 .. Len(store) + 1 /\ DOMAIN store = 1 .. Len(store)
      /\ \A i \in DOMAIN store : longer[i] = store[i]
      /\ longer[Len(store) + 1] = e
      /\ Len(store) \in Nat
  OBVIOUS
<1> HIDE DEF longer
<1>2. \A i \in DOMAIN longer : i \in DOMAIN store \/ i = Len(store) + 1
  BY <1>1
<1>3. OneEach(longer)
  BY <1>1, <1>2 DEF OneEach
<1>4. \A i \in DOMAIN longer : GoodEntry(s, longer[i])
  BY <1>1, <1>2
<1> QED
  BY <1>1, <1>3, <1>4 DEF longer

LEMMA MovedToEndKeepsStore ==
    ASSUME NEW s, NEW store, StoreOK(s, store), NEW i \in DOMAIN store
    PROVE  StoreOK(s, MovedToEnd(store, i))
<1> DEFINE left == LeftAt(store, DOMAIN store \ {i})
<1>1. StoreOK(s, left)
  BY LeftAtKeepsStore
<1>2. /\ Len(left) = Cardinality(DOMAIN store \ {i})
      /\ \A n \in DOMAIN left : \E j \in DOMAIN store \ {i} : left[n] = store[j]
  <2> DEFINE places == DOMAIN store \ {i}
  <2>1. store \in Seq(Entries) /\ places \in SUBSET DOMAIN store
    BY DEF StoreOK
  <2> HIDE DEF places
  <2>2. /\ Len(LeftAt(store, places)) = Cardinality(places)
        /\ \A n \in DOMAIN LeftAt(store, places) : \E j \in places : LeftAt(store, places)[n] = store[j]
    BY <2>1, LeftAtProperties
  <2> QED
    BY <2>2 DEF places
<1>3. Cardinality(DOMAIN store \ {i}) = Len(store) - 1
  <2>1. DOMAIN store = 1 .. Len(store) /\ Len(store) \in Nat
    BY DEF StoreOK
  <2>2. IsFiniteSet(DOMAIN store) /\ Cardinality(DOMAIN store) = Len(store)
    <3> DEFINE N == Len(store)
    <3> HIDE DEF N
    <3>1. N \in Nat => IsFiniteSet(1 .. N) /\ Cardinality(1 .. N) = N
      BY FS_Interval
    <3> QED
      BY <2>1, <3>1 DEF N
  <2> QED
    BY <2>2, FS_RemoveElement
<1> HIDE DEF left
<1>4. \A n \in DOMAIN left : left[n].query # store[i].query
  BY <1>2 DEF StoreOK, OneEach
<1>5. store[i] \in Entries /\ GoodEntry(s, store[i]) /\ left \in Seq(Entries) /\ OneEach(left)
      /\ \A n \in DOMAIN left : GoodEntry(s, left[n])
  BY <1>1 DEF StoreOK
<1>6. /\ Append(left, store[i]) \in Seq(Entries)
      /\ OneEach(Append(left, store[i]))
      /\ \A n \in DOMAIN Append(left, store[i]) : GoodEntry(s, Append(left, store[i])[n])
      /\ Len(Append(left, store[i])) = Len(left) + 1
  BY <1>4, <1>5, AppendKeepsStore
<1>7. Len(Append(left, store[i])) <= Most
  BY <1>2, <1>3, <1>6 DEF StoreOK
<1> QED
  BY <1>6, <1>7 DEF StoreOK, MovedToEnd, left

LEMMA LastOnesKeepsStore ==
    ASSUME NEW s, NEW store \in Seq(Entries), OneEach(store),
           \A i \in DOMAIN store : GoodEntry(s, store[i])
    PROVE  StoreOK(s, LastOnes(store))
<1>1. Most \in Nat /\ Most >= 1
  BY RetrievalAssumption DEF Most
<1>2. CASE Len(store) <= Most
  <2>1. LastOnes(store) = store
    BY <1>1, <1>2 DEF LastOnes, Most
  <2> QED
    BY <1>2, <2>1 DEF StoreOK
<1>3. CASE Len(store) > Most
  <2> DEFINE gone == Len(store) - Most
             last == SubSeq(store, gone + 1, Len(store))
  <2>1. LastOnes(store) = last
    BY <1>1, <1>3 DEF LastOnes, Most
  <2>2. gone \in Nat /\ gone + Most = Len(store) /\ Len(store) \in Nat
    BY <1>1, <1>3
  <2>3. /\ last \in Seq(Entries)
        /\ Len(last) = Most
        /\ \A i \in 1 .. Most : last[i] = store[i + gone]
    BY <1>1, <2>2
  <2> HIDE DEF last, gone
  <2>4. DOMAIN last = 1 .. Most /\ DOMAIN store = 1 .. gone + Most
    BY <1>1, <2>2, <2>3
  <2>5. \A i \in DOMAIN last : i + gone \in DOMAIN store /\ last[i] = store[i + gone]
    BY <1>1, <2>2, <2>3, <2>4
  <2>6. OneEach(last)
    BY <1>1, <2>2, <2>4, <2>5 DEF OneEach
  <2>7. \A i \in DOMAIN last : GoodEntry(s, last[i])
    BY <2>5
  <2> QED
    BY <1>1, <2>1, <2>3, <2>6, <2>7 DEF StoreOK
<1> QED
  BY <1>1, <1>2, <1>3

(* An entry that is put in displaces the one of its query, and what is too *)
(* much.                                                                   *)
LEMMA PutKeepsStore ==
    ASSUME CacheOK, NEW s \in Scope, NEW q \in Query, NEW answer \in SUBSET Shown,
           GoodEntry(s, [query |-> q, age |-> 0, answer |-> answer])
    PROVE  StoreOK(s, Put(s, q, answer))
<1> DEFINE places == DOMAIN cache[s] \ Exact(s, q)
           others == LeftAt(cache[s], places)
           e == [query |-> q, age |-> 0, answer |-> answer]
<1>1. e \in Entries
  BY RetrievalAssumption DEF Entries, Age
<1>2. StoreOK(s, cache[s])
  BY DEF CacheOK
<1>3. StoreOK(s, others)
  BY <1>2, LeftAtKeepsStore
<1>4. \A n \in DOMAIN others : \E i \in places : others[n] = cache[s][i]
  BY <1>2, LeftAtProperties DEF StoreOK
<1>5. \A i \in places : cache[s][i].query # q
  BY DEF Exact
<1> HIDE DEF others, places
<1>6. \A n \in DOMAIN others : others[n].query # e.query
  BY <1>4, <1>5
<1>7. /\ Append(others, e) \in Seq(Entries)
      /\ OneEach(Append(others, e))
      /\ \A n \in DOMAIN Append(others, e) : GoodEntry(s, Append(others, e)[n])
  <2> HIDE DEF e
  <2>1. GoodEntry(s, e)
    BY DEF e
  <2> QED
    BY <1>1, <1>3, <1>6, <2>1, AppendKeepsStore DEF StoreOK
<1>8. StoreOK(s, LastOnes(Append(others, e)))
  BY <1>7, LastOnesKeepsStore
<1> QED
  BY <1>8 DEF Put, others, places

(* A look-up leaves a store in order; a hit is an entry that is not        *)
(* expired.                                                                *)
LEMMA GetEffect ==
    ASSUME CacheOK, NEW s \in Scope, NEW q, NEW g \in Get(s, q)
    PROVE  /\ StoreOK(s, g[2])
           /\ g[1].hit => \E i \in DOMAIN cache[s] :
                              Fresh(cache[s][i]) /\ g[1].answer = cache[s][i].answer
<1> DEFINE same == {i \in Exact(s, q) : Fresh(cache[s][i])}
<1>1. StoreOK(s, cache[s])
  BY DEF CacheOK
<1>2. CASE same # {}
  <2>1. PICK i \in same : g = <<Hit(cache[s][i]), MovedToEnd(cache[s], i)>>
    BY <1>2 DEF Get
  <2>2. i \in DOMAIN cache[s] /\ Fresh(cache[s][i])
    BY DEF Exact
  <2>3. StoreOK(s, MovedToEnd(cache[s], i))
    BY <1>1, <2>2, MovedToEndKeepsStore
  <2>4. g[1].answer = cache[s][i].answer /\ g[2] = MovedToEnd(cache[s], i)
    BY <2>1 DEF Hit
  <2> QED
    BY <2>2, <2>3, <2>4
<1>3. CASE same = {}
  <2> DEFINE outcomes == IF Alike(s, q) = {} THEN {Miss}
                         ELSE {Hit(cache[s][i]) : i \in Alike(s, q)}
  <2>1. g \in outcomes \X {Unexpired(s)}
    BY <1>3 DEF Get
  <2>2. g[1] \in outcomes /\ g[2] = Unexpired(s)
    BY <2>1
  <2>3. StoreOK(s, Unexpired(s))
    BY <1>1, LeftAtKeepsStore DEF Unexpired
  <2>4. g[1].hit => \E i \in Alike(s, q) : g[1] = Hit(cache[s][i])
    BY <2>2 DEF Miss
  <2>5. ASSUME g[1].hit
        PROVE  \E i \in DOMAIN cache[s] : Fresh(cache[s][i]) /\ g[1].answer = cache[s][i].answer
    <3>1. PICK i \in Alike(s, q) : g[1] = Hit(cache[s][i])
      BY <2>4, <2>5
    <3>2. i \in DOMAIN cache[s] /\ Fresh(cache[s][i])
      BY DEF Alike
    <3>3. g[1].answer = cache[s][i].answer
      BY <3>1 DEF Hit
    <3> QED
      BY <3>2, <3>3
  <2> QED
    BY <2>2, <2>3, <2>5
<1> QED
  BY <1>2, <1>3

-----------------------------------------------------------------------------
(* A step of one retrieval, which may leave the cache otherwise.           *)
LEMMA RunStepKeepsInv ==
    ASSUME RetrievalInv, NEW r \in Retrieval, NEW next \in Runs,
           RunOK(next), Becomes(r, next), CacheOK',
           UNCHANGED <<shelf, busy, lost, straddled>>
    PROVE  RetrievalInv'
<1>1. /\ run' \in [Retrieval -> Runs]
      /\ \A x \in Retrieval : run'[x] = run[x] \/ run'[x] = next
  BY DEF RetrievalInv, Typed, Becomes
<1>2. Typed' /\ Gone'
  BY <1>1 DEF RetrievalInv, Typed, Gone
<1>3. \A x : RunOK(x) => RunOK(x)'
  BY DEF RunOK, FoundOK, AnswerOK, Same, Excused, Straddled
<1>4. \A x \in Retrieval : RunOK(run[x])'
  <2> SUFFICES ASSUME NEW x \in Retrieval PROVE RunOK(run[x])'
    OBVIOUS
  <2>1. RunOK(run[x])
    BY DEF RetrievalInv
  <2>2. CASE run'[x] = run[x]
    BY <2>1, <2>2 DEF RunOK, FoundOK, AnswerOK, Same, Excused, Straddled
  <2>3. CASE run'[x] = next
    BY <2>3 DEF RunOK, FoundOK, AnswerOK, Same, Excused, Straddled
  <2> QED
    BY <1>1, <2>2, <2>3
<1> QED
  BY <1>2, <1>4 DEF RetrievalInv

LEMMA SameCacheKept ==
    ASSUME CacheOK, UNCHANGED <<cache, lost, straddled>>
    PROVE  CacheOK'
  BY DEF CacheOK, StoreOK, OneEach, GoodEntry, Excused, Straddled, Same

LEMMA StoreReplaced ==
    ASSUME CacheOK, NEW s \in Scope, NEW store, StoreOK(s, store),
           cache' = [cache EXCEPT ![s] = store], UNCHANGED <<lost, straddled>>
    PROVE  CacheOK'
<1>1. DOMAIN cache' = Scope /\ \A x \in Scope : StoreOK(x, cache'[x])
  BY DEF CacheOK
<1> QED
  BY <1>1 DEF CacheOK, StoreOK, OneEach, GoodEntry, Excused, Straddled, Same

LEMMA DoneIsRun ==
    ASSUME NEW before \in SUBSET Lost, NEW answer \in SUBSET Shown
    PROVE  /\ Done(before, answer) \in Runs
           /\ Done(before, answer).pc = "done"
           /\ Done(before, answer).before = before
           /\ Done(before, answer).answer = answer
  BY DEF Done, NoRun, Runs

LEMMA AskKeepsInv ==
    ASSUME RetrievalInv, NEW r \in Retrieval, NEW s \in busy, Ask(r, s)
    PROVE  RetrievalInv'
<1>1. s \in Scope
  BY RetrievalAssumption DEF RetrievalInv, Typed
<1>2. CacheOK' /\ UNCHANGED <<shelf, busy, lost, straddled>>
  BY SameCacheKept DEF RetrievalInv, Ask
<1>3. CASE Becomes(r, Done({}, {}))
  <2>1. Done({}, {}) \in Runs /\ RunOK(Done({}, {}))
    BY DoneIsRun DEF RunOK, AnswerOK
  <2> QED
    BY <1>2, <1>3, <2>1, RunStepKeepsInv
<1>4. CASE Becomes(r, [NoRun EXCEPT !.pc = "asked", !.scope = s])
  <2> DEFINE next == [NoRun EXCEPT !.pc = "asked", !.scope = s]
  <2>1. next \in Runs /\ next.pc = "asked" /\ next.scope = s
    BY <1>1 DEF NoRun, Runs
  <2> HIDE DEF next
  <2>2. RunOK(next)
    BY <1>1, <2>1 DEF RunOK
  <2> QED
    BY <1>2, <1>4, <2>1, <2>2, RunStepKeepsInv DEF next
<1> QED
  BY <1>3, <1>4 DEF Ask

LEMMA EmbedFailsKeepsInv ==
    ASSUME RetrievalInv, NEW r \in Retrieval, EmbedFails(r)
    PROVE  RetrievalInv'
<1> DEFINE next == [NoRun EXCEPT !.pc = "failed"]
<1>1. next \in Runs /\ next.pc = "failed"
  BY DEF NoRun, Runs
<1>2. CacheOK' /\ Becomes(r, next) /\ UNCHANGED <<shelf, busy, lost, straddled>>
  BY SameCacheKept DEF RetrievalInv, EmbedFails
<1> HIDE DEF next
<1>3. RunOK(next)
  BY <1>1 DEF RunOK
<1> QED
  BY <1>1, <1>2, <1>3, RunStepKeepsInv

(* What a hit shows and is gone by now is excused by the age of its entry. *)
LEMMA LookUpKeepsInv ==
    ASSUME RetrievalInv, NEW r \in Retrieval, NEW q \in Query, NEW embedded \in BOOLEAN,
           LookUp(r, q, embedded)
    PROVE  RetrievalInv'
<1> DEFINE s == run[r].scope
           next == [run[r] EXCEPT !.pc = "search", !.query = q, !.embedded = embedded, !.before = lost]
<1>1. /\ run[r] \in Runs /\ s \in Scope /\ lost \in SUBSET Lost /\ CacheOK
      /\ UNCHANGED <<shelf, busy, lost, straddled>>
  BY DEF RetrievalInv, Typed, RunOK, LookUp
<1>2. /\ next \in Runs /\ next.pc = "search" /\ next.scope = s /\ next.query = q
      /\ next.before = lost
  BY <1>1 DEF Runs
<1> HIDE DEF next
<1>3. RunOK(next)
  BY <1>1, <1>2 DEF RunOK, Same
<1>4. CASE Becomes(r, next) /\ UNCHANGED cache
  BY <1>1, <1>2, <1>3, <1>4, SameCacheKept, RunStepKeepsInv
<1>5. ASSUME NEW g \in Get(s, q),
             Becomes(r, IF g[1].hit THEN Done(lost, g[1].answer) ELSE next),
             cache' = [cache EXCEPT ![s] = g[2]]
      PROVE  RetrievalInv'
  <2>1. /\ StoreOK(s, g[2])
        /\ g[1].hit => \E i \in DOMAIN cache[s] :
                           Fresh(cache[s][i]) /\ g[1].answer = cache[s][i].answer
    BY <1>1, <1>5, GetEffect
  <2> HIDE DEF s
  <2>2. CacheOK'
    BY <1>1, <1>5, <2>1, StoreReplaced
  <2>3. CASE ~g[1].hit
    BY <1>1, <1>2, <1>3, <1>5, <2>2, <2>3, RunStepKeepsInv
  <2>4. CASE g[1].hit
    <3>1. PICK i \in DOMAIN cache[s] : Fresh(cache[s][i]) /\ g[1].answer = cache[s][i].answer
      BY <2>1, <2>4
    <3>2. cache[s][i] \in Entries /\ GoodEntry(s, cache[s][i])
      BY <1>1 DEF CacheOK, StoreOK
    <3> DEFINE e == cache[s][i]
               hit == Done(lost, g[1].answer)
    <3>3. e.age \in Int /\ e.age <= Ttl /\ e.answer \in SUBSET Shown
      BY <3>1, <3>2, RetrievalAssumption DEF Entries, Age, Fresh
    <3>4. hit \in Runs /\ hit.pc = "done" /\ hit.before = lost /\ hit.answer = e.answer
      BY <1>1, <3>1, <3>3, DoneIsRun
    <3>5. \A l \in lost : l.age \in Int
      BY <1>1, RetrievalAssumption DEF Lost, Age
    <3>6. \A l \in lost : Excused(l, e.age) => Excused(l, Ttl)
      BY <3>3, <3>5, RetrievalAssumption DEF Excused
    <3>7. \A x \in e.answer, l \in lost : Same(x, l) => Excused(l, Ttl)
      BY <3>2, <3>6 DEF GoodEntry
    <3> HIDE DEF e, hit
    <3>8. RunOK(hit)
      BY <3>4, <3>7 DEF RunOK, AnswerOK
    <3>9. Becomes(r, hit)
      BY <1>5, <2>4 DEF hit
    <3> QED
      BY <1>1, <2>2, <3>4, <3>8, <3>9, RunStepKeepsInv
  <2> QED
    BY <2>3, <2>4
<1> QED
  BY <1>4, <1>5 DEF LookUp, next

(* What is there when it is searched for was not lost before.              *)
LEMMA SearchKeepsInv ==
    ASSUME RetrievalInv, NEW r \in Retrieval, Search(r)
    PROVE  RetrievalInv'
<1> DEFINE s == run[r].scope
<1>1. /\ run[r] \in Runs /\ run[r].pc = "search" /\ s \in Scope /\ RunOK(run[r])
      /\ run[r].before \in SUBSET Lost
  BY DEF RetrievalInv, Typed, RunOK, Search, Runs
<1>2. CacheOK' /\ UNCHANGED <<shelf, busy, lost, straddled>>
  BY SameCacheKept DEF RetrievalInv, Search
<1>3. PICK found \in SUBSET Present(s) :
        IF found = {} THEN Ends(r, {})
        ELSE Becomes(r, [run[r] EXCEPT !.pc = "rank", !.found = found])
  BY DEF Search
<1>4. CASE Ends(r, {})
  <2> DEFINE next == Done(run[r].before, {})
  <2>1. next \in Runs /\ next.pc = "done" /\ next.answer = {}
    BY <1>1, DoneIsRun
  <2>2. Becomes(r, next)
    BY <1>4 DEF Ends
  <2> HIDE DEF next
  <2>3. RunOK(next)
    BY <2>1 DEF RunOK, AnswerOK
  <2> QED
    BY <1>2, <2>1, <2>2, <2>3, RunStepKeepsInv
<1>5. CASE Becomes(r, [run[r] EXCEPT !.pc = "rank", !.found = found])
  <2> DEFINE next == [run[r] EXCEPT !.pc = "rank", !.found = found]
  <2>1. ASSUME NEW c \in found
        PROVE  /\ c \in Chunks /\ ScopeOf[c.doc] = s
               /\ \A l \in lost : ~Same(c, l)
    <3>1. PICK d \in Doc : c = [doc |-> d, version |-> shelf[d]] /\ ScopeOf[d] = s /\ shelf[d] > 0
      BY DEF Present
    <3>2. shelf[d] \in 1 .. MaxVersion
      BY <3>1, RetrievalAssumption DEF RetrievalInv, Typed
    <3>3. c \in Chunks /\ c.doc = d /\ c.version = shelf[d]
      BY <3>1, <3>2 DEF Chunks
    <3>4. \A l \in lost : l.doc = d => l.version < shelf[d]
      BY <3>2 DEF RetrievalInv, Gone
    <3>5. \A l \in lost : ~Same(c, l)
      BY <3>2, <3>3, <3>4 DEF Same
    <3> QED
      BY <3>1, <3>3, <3>5
  <2>2. /\ next \in Runs /\ next.pc = "rank" /\ next.scope = s /\ next.query = run[r].query
        /\ next.before = run[r].before /\ next.found = found
    BY <1>1, <2>1 DEF Runs
  <2> HIDE DEF next
  <2>3. \A c \in found, b \in run[r].before : ~Same(c, b)
    BY <1>1, <2>1 DEF RunOK, Same
  <2>4. FoundOK(next)
    BY <2>1, <2>2, <2>3 DEF FoundOK
  <2>5. RunOK(next)
    BY <1>1, <2>2, <2>4 DEF RunOK
  <2> QED
    BY <1>2, <1>5, <2>2, <2>5, RunStepKeepsInv DEF next
<1> QED
  BY <1>3, <1>4, <1>5

LEMMA RerankKeepsInv ==
    ASSUME RetrievalInv, NEW r \in Retrieval, Rerank(r)
    PROVE  RetrievalInv'
<1>1. run[r] \in Runs /\ run[r].pc = "rank" /\ RunOK(run[r])
  BY DEF RetrievalInv, Typed, Rerank
<1>2. CacheOK' /\ UNCHANGED <<shelf, busy, lost, straddled>>
  BY SameCacheKept DEF RetrievalInv, Rerank
<1>3. PICK best \in SUBSET run[r].found :
        Becomes(r, [run[r] EXCEPT !.pc = "expand", !.found = best])
  BY DEF Rerank
<1> DEFINE next == [run[r] EXCEPT !.pc = "expand", !.found = best]
<1>4. /\ next \in Runs /\ next.pc = "expand" /\ next.scope = run[r].scope
      /\ next.query = run[r].query /\ next.before = run[r].before /\ next.found = best
  BY <1>1 DEF Runs
<1>5. Becomes(r, next)
  BY <1>3
<1> HIDE DEF next
<1>6. RunOK(next)
  BY <1>1, <1>4 DEF RunOK, FoundOK
<1> QED
  BY <1>2, <1>4, <1>5, <1>6, RunStepKeepsInv

LEMMA ExpandKeepsInv ==
    ASSUME RetrievalInv, NEW r \in Retrieval, Expand(r)
    PROVE  RetrievalInv'
<1> DEFINE answer == {[doc |-> c.doc, version |-> c.version, whole |-> c.version = shelf[c.doc]] :
                         c \in run[r].found}
           next == [run[r] EXCEPT !.pc = "name", !.answer = answer]
<1>1. run[r] \in Runs /\ run[r].pc = "expand" /\ RunOK(run[r])
  BY DEF RetrievalInv, Typed, Expand
<1>2. CacheOK' /\ Becomes(r, next) /\ UNCHANGED <<shelf, busy, lost, straddled>>
  BY SameCacheKept DEF RetrievalInv, Expand
<1>3. answer \in SUBSET Shown /\ \A a \in answer : \E c \in run[r].found : Same(c, a)
  <2>1. \A c \in run[r].found : c \in Chunks
    BY <1>1 DEF Runs
  <2>2. ASSUME NEW a \in answer
        PROVE  a \in Shown /\ \E c \in run[r].found : Same(c, a)
    <3>1. PICK c \in run[r].found :
            a = [doc |-> c.doc, version |-> c.version, whole |-> c.version = shelf[c.doc]]
      OBVIOUS
    <3>2. c.doc \in Doc /\ c.version \in 1 .. MaxVersion /\ (c.version = shelf[c.doc]) \in BOOLEAN
      BY <2>1 DEF Chunks
    <3>3. a \in Shown
      BY <3>1, <3>2 DEF Shown
    <3> QED
      BY <3>1, <3>3 DEF Same
  <2> QED
    BY <2>2
<1> HIDE DEF answer
<1>4. /\ next \in Runs /\ next.pc = "name" /\ next.scope = run[r].scope
      /\ next.query = run[r].query /\ next.before = run[r].before /\ next.found = run[r].found
      /\ next.answer = answer
  BY <1>1, <1>3 DEF Runs
<1> HIDE DEF next
<1>5. RunOK(next)
  BY <1>1, <1>3, <1>4 DEF RunOK, FoundOK
<1> QED
  BY <1>2, <1>4, <1>5, RunStepKeepsInv

LEMMA AnswerKeepsInv ==
    ASSUME RetrievalInv, NEW r \in Retrieval, Answer(r)
    PROVE  RetrievalInv'
<1> DEFINE s == run[r].scope
           answer == run[r].answer
           next == Done(run[r].before, answer)
<1>1. /\ run[r] \in Runs /\ run[r].pc = "name" /\ RunOK(run[r]) /\ FoundOK(run[r])
      /\ s \in Scope /\ run[r].query \in Query
      /\ \A a \in answer : \E c \in run[r].found : Same(c, a)
      /\ CacheOK
  BY DEF RetrievalInv, Typed, RunOK, Answer
<1>2. answer \in SUBSET Shown /\ run[r].before \in SUBSET Lost
  BY <1>1 DEF Runs
<1>3. Becomes(r, next) /\ UNCHANGED <<shelf, busy, lost, straddled>>
  BY DEF Answer, Ends
<1>4. next \in Runs /\ next.pc = "done" /\ next.before = run[r].before /\ next.answer = answer
  BY <1>2, DoneIsRun
<1>5. \A a \in answer :
        /\ ScopeOf[a.doc] = s
        /\ \A l \in run[r].before : ~Same(a, l)
        /\ \A l \in lost : Same(a, l) => Straddled(l)
  BY <1>1 DEF FoundOK, Same
<1> HIDE DEF next
<1>6. RunOK(next)
  BY <1>4, <1>5 DEF RunOK, AnswerOK
<1>7. GoodEntry(s, [query |-> run[r].query, age |-> 0, answer |-> answer])
  BY <1>5 DEF GoodEntry, Excused
<1>8. StoreOK(s, Put(s, run[r].query, answer))
  BY <1>1, <1>2, <1>7, PutKeepsStore
<1>9. CASE UNCHANGED cache
  BY <1>1, <1>3, <1>4, <1>6, <1>9, SameCacheKept, RunStepKeepsInv
<1>10. CASE cache' = [cache EXCEPT ![s] = Put(s, run[r].query, answer)]
  <2>1. CacheOK'
    <3> DEFINE store == Put(s, run[r].query, answer)
    <3>1. StoreOK(s, store) /\ cache' = [cache EXCEPT ![s] = store] /\ s \in Scope
      BY <1>1, <1>8, <1>10
    <3> HIDE DEF store, s
    <3> QED
      BY <1>1, <1>3, <3>1, StoreReplaced
  <2> QED
    BY <1>3, <1>4, <1>6, <2>1, RunStepKeepsInv
<1> QED
  BY <1>9, <1>10 DEF Answer

-----------------------------------------------------------------------------
(* A version goes: for good, and straddled if a retrieval holds it.        *)
LEMMA LossKeepsInv ==
    ASSUME RetrievalInv, NEW d \in Doc, NEW how \in {"ingested", "elsewhere", "deleted"},
           shelf[d] > 0, Loses(d, how), UNCHANGED <<run, busy>>,
           NEW v \in 0 .. MaxVersion, shelf' = [shelf EXCEPT ![d] = v], v = 0 \/ v > shelf[d],
           \/ how # "ingested" /\ UNCHANGED cache
           \/ cache' = [cache EXCEPT ![ScopeOf[d]] = <<>>]
    PROVE  RetrievalInv'
<1> DEFINE it == [doc |-> d, version |-> shelf[d], how |-> how, age |-> 0]
           c == [doc |-> d, version |-> shelf[d]]
<1> USE RetrievalAssumption
<1>1. /\ shelf \in [Doc -> 0 .. MaxVersion] /\ shelf[d] \in 1 .. MaxVersion
      /\ lost \subseteq Lost
  BY DEF RetrievalInv, Typed
<1>2. /\ lost' = lost \cup {it}
      /\ straddled' = IF Held(c) THEN straddled \cup {c} ELSE straddled
  BY DEF Loses
<1>3. it \in Lost /\ it.doc = d /\ it.version = shelf[d] /\ it.how = how /\ it.age = 0
  BY <1>1 DEF Lost, Age
<1>4. c \in Chunks
  BY <1>1 DEF Chunks
<1>5. c = [doc |-> it.doc, version |-> it.version]
  BY <1>3
<1> HIDE DEF it
<1>6. Typed'
  BY <1>1, <1>2, <1>3, <1>4 DEF RetrievalInv, Typed
<1>7. Gone'
  <2> SUFFICES ASSUME NEW l \in lost' PROVE shelf'[l.doc] = 0 \/ l.version < shelf'[l.doc]
    BY DEF Gone
  <2>1. CASE l = it
    BY <1>1, <1>3, <2>1
  <2>2. CASE l \in lost
    <3>1. l.doc \in Doc /\ l.version \in Int /\ (shelf[l.doc] = 0 \/ l.version < shelf[l.doc])
      BY <1>1, <2>2 DEF RetrievalInv, Gone, Lost
    <3> QED
      BY <1>1, <3>1
  <2> QED
    BY <1>2, <2>1, <2>2
<1>8. \A l : Straddled(l) => Straddled(l)'
  BY <1>2 DEF Straddled
<1>9. CacheOK'
  <2>1. ASSUME NEW s \in Scope, UNCHANGED cache, how # "ingested"
        PROVE  \A i \in DOMAIN cache[s] : GoodEntry(s, cache[s][i])'
    <3> SUFFICES ASSUME NEW i \in DOMAIN cache[s], NEW x \in cache[s][i].answer
                 PROVE  /\ ScopeOf[x.doc] = s
                        /\ \A l \in lost' : Same(x, l) =>
                              Straddled(l)' \/ (l.how # "ingested" /\ l.age <= cache[s][i].age)
      BY <2>1 DEF GoodEntry, Excused, Same
    <3>1. GoodEntry(s, cache[s][i]) /\ cache[s][i] \in Entries
      BY DEF RetrievalInv, CacheOK, StoreOK
    <3>2. 0 <= cache[s][i].age
      BY <3>1 DEF Entries, Age
    <3> QED
      BY <1>2, <1>3, <1>8, <2>1, <3>1, <3>2 DEF GoodEntry, Excused
  <2>2. ASSUME NEW s \in Scope \ {ScopeOf[d]}
        PROVE  \A i \in DOMAIN cache[s] : GoodEntry(s, cache[s][i])'
    <3>0. cache'[s] = cache[s]
      BY DEF RetrievalInv, CacheOK
    <3> SUFFICES ASSUME NEW i \in DOMAIN cache[s], NEW x \in cache[s][i].answer
                 PROVE  /\ ScopeOf[x.doc] = s
                        /\ \A l \in lost' : Same(x, l) =>
                              Straddled(l)' \/ (l.how # "ingested" /\ l.age <= cache[s][i].age)
      BY <3>0 DEF GoodEntry, Excused, Same
    <3>1. GoodEntry(s, cache[s][i])
      BY DEF RetrievalInv, CacheOK, StoreOK
    <3>2. ~Same(x, it)
      BY <1>3, <3>1 DEF GoodEntry, Same
    <3> QED
      BY <1>2, <1>8, <3>1, <3>2 DEF GoodEntry, Excused
  <2>3. CASE how # "ingested" /\ UNCHANGED cache
    BY <2>1, <2>3 DEF RetrievalInv, CacheOK, StoreOK, OneEach
  <2>4. CASE cache' = [cache EXCEPT ![ScopeOf[d]] = <<>>]
    <3>1. DOMAIN cache' = Scope
      BY <2>4 DEF RetrievalInv, CacheOK
    <3>2. ASSUME NEW s \in Scope PROVE StoreOK(s, cache[s])'
      <4>1. CASE s = ScopeOf[d]
        <5>1. cache'[s] = <<>>
          BY <2>4, <4>1 DEF RetrievalInv, CacheOK
        <5> QED
          BY <5>1 DEF StoreOK, OneEach, Most
      <4>2. CASE s # ScopeOf[d]
        <5>1. cache'[s] = cache[s]
          BY <2>4, <4>2 DEF RetrievalInv, CacheOK
        <5> QED
          BY <2>2, <4>2, <5>1 DEF RetrievalInv, CacheOK, StoreOK, OneEach
      <4> QED
        BY <4>1, <4>2
    <3> QED
      BY <3>1, <3>2 DEF CacheOK
  <2> QED
    BY <2>3, <2>4
<1>10. ASSUME NEW r \in Retrieval PROVE RunOK(run[r])'
  <2> DEFINE x == run[r]
  <2>1. RunOK(x) /\ x \in Runs /\ x' = x
    BY DEF RetrievalInv, Typed
  <2>2. ASSUME x.pc \in {"rank", "expand", "name"}
        PROVE  FoundOK(x)'
    <3> SUFFICES ASSUME NEW a \in x.found, NEW l \in lost', Same(a, l)
                 PROVE  Straddled(l)'
      BY <2>1, <2>2 DEF RunOK, FoundOK, Same
    <3>1. CASE l \in lost
      BY <1>8, <2>1, <2>2, <3>1 DEF RunOK, FoundOK
    <3>2. CASE l = it
      <4>1. a \in Chunks /\ a.doc = d /\ a.version = shelf[d]
        BY <1>3, <2>1, <3>2 DEF Runs, Same
      <4>2. a = c
        BY <1>4, <4>1 DEF Chunks
      <4>3. Held(c)
        BY <2>2, <4>2 DEF Held
      <4> QED
        BY <1>2, <1>5, <3>2, <4>3 DEF Straddled
    <3> QED
      BY <1>2, <3>1, <3>2
  <2>3. x.pc = "done" => AnswerOK(x)'
    BY <1>8, <2>1 DEF RunOK, AnswerOK, Excused, Same
  <2> QED
    BY <1>2, <2>1, <2>2, <2>3 DEF RunOK, Same
<1> QED
  BY <1>6, <1>7, <1>9, <1>10 DEF RetrievalInv

LEMMA ShelfStepsKeepInv ==
    ASSUME RetrievalInv, NEW d \in Doc, Ingest(d) \/ IngestElsewhere(d) \/ DeleteDocument(d)
    PROVE  RetrievalInv'
<1> USE RetrievalAssumption
<1>1. CASE Ingest(d)
  <2>1. shelf[d] + 1 \in 0 .. MaxVersion /\ shelf[d] > 0 /\ shelf[d] + 1 > shelf[d]
    BY <1>1 DEF Ingest
  <2>2. shelf' = [shelf EXCEPT ![d] = shelf[d] + 1] /\ Loses(d, "ingested") /\ UNCHANGED <<run, busy>>
    BY <1>1 DEF Ingest
  <2>3. cache' = [cache EXCEPT ![ScopeOf[d]] = <<>>]
    BY <1>1 DEF Ingest
  <2> QED
    BY <2>1, <2>2, <2>3, LossKeepsInv
<1>2. CASE IngestElsewhere(d)
  <2>1. shelf[d] + 1 \in 0 .. MaxVersion /\ shelf[d] > 0 /\ shelf[d] + 1 > shelf[d]
    BY <1>2 DEF IngestElsewhere
  <2>2. shelf' = [shelf EXCEPT ![d] = shelf[d] + 1] /\ Loses(d, "elsewhere")
        /\ UNCHANGED <<cache, run, busy>>
    BY <1>2 DEF IngestElsewhere
  <2> QED
    BY <2>1, <2>2, LossKeepsInv
<1>3. CASE DeleteDocument(d)
  <2>1. /\ shelf' = [shelf EXCEPT ![d] = 0] /\ shelf[d] > 0 /\ Loses(d, "deleted")
        /\ UNCHANGED <<cache, run, busy>>
    BY <1>3 DEF DeleteDocument
  <2>2. 0 \in 0 .. MaxVersion
    OBVIOUS
  <2> QED
    BY <2>1, <2>2, LossKeepsInv
<1> QED
  BY <1>1, <1>2, <1>3

(* What is lost ages with the entries.                                     *)
LEMMA TickKeepsInv ==
    ASSUME RetrievalInv, RetrievalTick
    PROVE  RetrievalInv'
<1> USE RetrievalAssumption
<1>1. /\ cache' = [s \in Scope |-> [i \in DOMAIN cache[s] |-> Older(cache[s][i])]]
      /\ lost' = {Older(l) : l \in lost}
      /\ UNCHANGED <<shelf, run, busy, straddled>>
  BY DEF RetrievalTick
<1>2. ASSUME NEW l \in Lost
      PROVE  /\ Older(l) \in Lost
             /\ Older(l).doc = l.doc /\ Older(l).version = l.version /\ Older(l).how = l.how
             /\ Older(l).age = IF l.age > Ttl THEN l.age ELSE l.age + 1
  BY DEF Lost, Age, Older
<1>3. ASSUME NEW e \in Entries
      PROVE  /\ Older(e) \in Entries
             /\ Older(e).query = e.query /\ Older(e).answer = e.answer
             /\ Older(e).age = IF e.age > Ttl THEN e.age ELSE e.age + 1
  BY DEF Entries, Age, Older
<1>4. lost \subseteq Lost
  BY DEF RetrievalInv, Typed
<1>5. \A l2 \in lost' : \E l \in lost : l2 = Older(l)
  BY <1>1
<1>6. Typed'
  BY <1>1, <1>2, <1>4, <1>5 DEF RetrievalInv, Typed
<1>7. Gone'
  BY <1>1, <1>2, <1>4, <1>5 DEF RetrievalInv, Gone
<1>8. ASSUME NEW s, NEW e \in Entries, GoodEntry(s, e), NEW o, o = Older(e)
      PROVE  GoodEntry(s, o)'
  <2>1. ASSUME NEW x \in e.answer, NEW l \in lost, Same(x, Older(l))
        PROVE  Straddled(Older(l))' \/ (Older(l).how # "ingested" /\ Older(l).age <= Older(e).age)
    <3>1. Same(x, l) /\ Excused(l, e.age) /\ l \in Lost
      BY <1>2, <1>4, <1>8, <2>1 DEF GoodEntry, Same
    <3>2. Straddled(l) => Straddled(Older(l))'
      BY <1>1, <1>2, <3>1 DEF Straddled
    <3>3. l.age <= e.age => Older(l).age <= Older(e).age
      BY <1>2, <1>3, <3>1 DEF Lost, Entries, Age
    <3> QED
      BY <1>2, <3>1, <3>2, <3>3 DEF Excused
  <2> QED
    BY <1>3, <1>5, <1>8, <2>1 DEF GoodEntry, Excused, Same
<1>9. CacheOK'
  <2>1. DOMAIN cache' = Scope
    BY <1>1
  <2>2. ASSUME NEW s \in Scope PROVE StoreOK(s, cache[s])'
    <3> DEFINE store == cache[s]
               later == [i \in DOMAIN store |-> Older(store[i])]
    <3>1. StoreOK(s, store)
      BY DEF RetrievalInv, CacheOK
    <3>2. cache'[s] = later
      BY <1>1
    <3> HIDE DEF store
    <3>3. \A i \in DOMAIN store : store[i] \in Entries
      BY <3>1 DEF StoreOK
    <3>4. later \in Seq(Entries) /\ Len(later) = Len(store) /\ DOMAIN later = DOMAIN store
      BY <1>3, <3>1, <3>3 DEF StoreOK
    <3>5. \A i \in DOMAIN store : later[i] = Older(store[i]) /\ later[i].query = store[i].query
      BY <1>3, <3>3
    <3>6. OneEach(later)
      BY <3>1, <3>4, <3>5 DEF StoreOK, OneEach
    <3>7. ASSUME NEW i \in DOMAIN store, NEW o, o = later[i]
          PROVE  GoodEntry(s, o)'
      <4>1. store[i] \in Entries /\ GoodEntry(s, store[i]) /\ o = Older(store[i])
        BY <3>1, <3>3, <3>5, <3>7 DEF StoreOK
      <4> QED
        BY <1>8, <4>1
    <3> HIDE DEF later
    <3>8. \A i \in DOMAIN cache'[s] : GoodEntry(s, cache[s][i])'
      BY <3>2, <3>4, <3>7 DEF GoodEntry, Excused, Same, Straddled
    <3> QED
      BY <3>1, <3>2, <3>4, <3>6, <3>8 DEF StoreOK, OneEach
  <2> QED
    BY <2>1, <2>2 DEF CacheOK
<1>10. ASSUME NEW r \in Retrieval PROVE RunOK(run[r])'
  <2>1. RunOK(run[r]) /\ run'[r] = run[r]
    BY <1>1 DEF RetrievalInv
  <2>2. \A a : (\E l \in lost : Same(a, l)) => \E l \in lost' : Same(a, l)
    BY <1>1, <1>2, <1>4 DEF Same
  <2>3. \A a, l : l \in Lost /\ Same(a, Older(l)) => Same(a, l)
    BY <1>2 DEF Same
  <2>4. \A l \in Lost : Straddled(l) => Straddled(Older(l))'
    BY <1>1, <1>2 DEF Straddled
  <2>5. FoundOK(run[r]) => FoundOK(run[r])'
    BY <1>4, <1>5, <2>1, <2>3, <2>4 DEF FoundOK, Same
  <2>6. AnswerOK(run[r]) => AnswerOK(run[r])'
    BY <1>1, <2>1 DEF AnswerOK, Excused, Same, Straddled
  <2> QED
    BY <2>1, <2>2, <2>5, <2>6 DEF RunOK, Same
<1> QED
  BY <1>6, <1>7, <1>9, <1>10 DEF RetrievalInv

LEMMA RetrievalNextKeepsInv == RetrievalInv /\ [RetrievalNext]_retrievalVars => RetrievalInv'
<1> SUFFICES ASSUME RetrievalInv, [RetrievalNext]_retrievalVars
             PROVE  RetrievalInv'
  OBVIOUS
<1>1. CASE UNCHANGED retrievalVars
  <2>1. CacheOK' /\ Typed' /\ Gone'
    BY <1>1, SameCacheKept DEF retrievalVars, RetrievalInv, Typed, Gone
  <2>2. \A r \in Retrieval : RunOK(run[r])'
    BY <1>1 DEF retrievalVars, RetrievalInv, RunOK, FoundOK, AnswerOK, Same, Excused, Straddled
  <2> QED
    BY <2>1, <2>2 DEF RetrievalInv
<1>2. ASSUME NEW r \in Retrieval, NEW s \in busy, Ask(r, s)
      PROVE  RetrievalInv'
  BY <1>2, AskKeepsInv
<1>3. ASSUME NEW r \in Retrieval, NEW q \in Query, NEW embedded \in BOOLEAN, LookUp(r, q, embedded)
      PROVE  RetrievalInv'
  BY <1>3, LookUpKeepsInv
<1>4. ASSUME NEW r \in Retrieval, EmbedFails(r) \/ Search(r) \/ Rerank(r) \/ Expand(r) \/ Answer(r)
      PROVE  RetrievalInv'
  BY <1>4, EmbedFailsKeepsInv, SearchKeepsInv, RerankKeepsInv, ExpandKeepsInv, AnswerKeepsInv
<1>5. ASSUME NEW d \in Doc, Ingest(d) \/ IngestElsewhere(d) \/ DeleteDocument(d)
      PROVE  RetrievalInv'
  BY <1>5, ShelfStepsKeepInv
<1>6. CASE RetrievalTick
  BY <1>6, TickKeepsInv
<1> QED
  BY <1>1, <1>2, <1>3, <1>4, <1>5, <1>6 DEF RetrievalNext

(* Nobody is shown what this process replaced before the question, and     *)
(* nobody is shown for longer than the time to live what was deleted or    *)
(* replaced by another process, unless a retrieval held it when it went.   *)
THEOREM CacheAlwaysCurrent == RetrievalSpec => []CacheCurrent
<1> QED
  BY RetrievalInvInit, RetrievalNextKeepsInv, RetrievalInvImplies, PTL DEF RetrievalSpec

-----------------------------------------------------------------------------
(***************************************************************************)
(* Loops.  What a recursive function over 0 .. N computes, from what one   *)
(* step does: by a least counterexample in sets of numbers.                *)
(***************************************************************************)
LEMMA UpToN ==
    ASSUME NEW N \in Nat, NEW Good, 0 \in Good,
           \A n \in 1 .. N : n - 1 \in Good => n \in Good
    PROVE  \A n \in 0 .. N : n \in Good
<1> DEFINE Bad == {n \in 0 .. N : n \notin Good}
<1>1. SUFFICES ASSUME Bad # {} PROVE FALSE
  OBVIOUS
<1>2. Bad \subseteq Nat
  OBVIOUS
<1>3. PICK i \in Bad : \A j \in Bad : ~(<<j, i>> \in OpToRel(<, Nat))
  BY <1>1, <1>2, NatLessThanWellFounded, WFMin, Zenon
<1>4. \A j \in Bad : ~(j < i)
  BY <1>2, <1>3 DEF OpToRel
<1>5. i \in 1 .. N
  OBVIOUS
<1>6. i - 1 \notin Bad
  BY <1>4, <1>5
<1>7. i - 1 \in Good
  BY <1>5, <1>6
<1> QED
  BY <1>5, <1>7

ClosedUnder(S, N, step) == \A a \in S, n \in 1 .. N : step[<<a, n>>] \in S

IsLoop(g, N, base, step) ==
    g[0] = base /\ \A n \in 1 .. N : g[n] = step[<<g[n - 1], n>>]

(* A loop with the body step has a value after each of its rounds.         *)
LEMMA LoopExists ==
    ASSUME NEW N \in Nat, NEW S, NEW base \in S, NEW step, ClosedUnder(S, N, step)
    PROVE  \E g \in [0 .. N -> S] : IsLoop(g, N, base, step)
<1> USE DEF IsLoop, ClosedUnder
<1> DEFINE Good == {n \in 0 .. N : \E g \in [0 .. N -> S] : IsLoop(g, n, base, step)}
<1>1. 0 \in Good
  <2> DEFINE g == [i \in 0 .. N |-> base]
  <2>1. g \in [0 .. N -> S] /\ g[0] = base /\ \A i \in 1 .. 0 : g[i] = step[<<g[i - 1], i>>]
    OBVIOUS
  <2> HIDE DEF g
  <2> QED
    BY <2>1
<1>2. ASSUME NEW n \in 1 .. N, n - 1 \in Good
      PROVE  n \in Good
  <2>1. PICK g \in [0 .. N -> S] : IsLoop(g, n - 1, base, step)
    BY <1>2
  <2> DEFINE next == step[<<g[n - 1], n>>]
             h == [g EXCEPT ![n] = next]
  <2>2. next \in S
    <3>1. g[n - 1] \in S
      OBVIOUS
    <3> QED
      BY <3>1
  <2> HIDE DEF next
  <2>3. h \in [0 .. N -> S] /\ h[n] = next /\ \A i \in 0 .. n - 1 : h[i] = g[i]
    BY <2>2
  <2> HIDE DEF h
  <2>4. h[0] = base /\ h[n] = step[<<h[n - 1], n>>]
    <3>1. 0 \in 0 .. n - 1 /\ n - 1 \in 0 .. n - 1
      OBVIOUS
    <3>2. h[0] = g[0] /\ h[n - 1] = g[n - 1]
      BY <2>3, <3>1
    <3> QED
      BY <2>1, <2>3, <3>2 DEF next
  <2>5. \A i \in 1 .. n - 1 : h[i] = step[<<h[i - 1], i>>]
    BY <2>1, <2>3
  <2>6. IsLoop(h, n, base, step)
    BY <2>4, <2>5
  <2> QED
    BY <2>3, <2>6
<1> HIDE DEF Good
<1>3. N \in Good
  BY <1>1, <1>2, UpToN
<1> QED
  BY <1>3 DEF Good

-----------------------------------------------------------------------------
(***************************************************************************)
(* TokenBudget.                                                            *)
(***************************************************************************)
Result == [cost : Nat, dict : BOOLEAN]

Newest(results, n) == SubSeq(results, Len(results) - n + 1, Len(results))

LEMMA CostsProperties ==
    ASSUME NEW results \in Results
    PROVE  /\ Costs(results) \in [0 .. Len(results) -> Nat]
           /\ Costs(results)[0] = 0
           /\ \A n \in 1 .. Len(results) :
                 Costs(results)[n] = Costs(results)[n - 1] + results[Len(results) - n + 1].cost
<1> DEFINE N == Len(results)
           Sum(g) == g = [n \in 0 .. N |->
                            IF n = 0 THEN 0 ELSE g[n - 1] + results[N - n + 1].cost]
           step == [x \in Nat \X (1 .. N) |-> x[1] + results[N - x[2] + 1].cost]
<1>1. N \in Nat /\ \A i \in 1 .. N : results[i].cost \in Nat
  <2>1. results \in Seq(Result)
    BY DEF Results, Result
  <2>2. N \in Nat /\ \A i \in 1 .. N : results[i] \in Result
    BY <2>1
  <2> QED
    BY <2>2 DEF Result
<1>2. Costs(results) = CHOOSE g : Sum(g)
  BY DEF Costs
<1> HIDE DEF N
<1>3. ClosedUnder(Nat, N, step)
  <2>1. \A n \in 1 .. N : N - n + 1 \in 1 .. N
    BY <1>1
  <2> QED
    BY <1>1, <2>1 DEF ClosedUnder
<1>4. \A a \in Nat, n \in 1 .. N : step[<<a, n>>] = a + results[N - n + 1].cost
  OBVIOUS
<1> HIDE DEF step
<1>5. PICK g \in [0 .. N -> Nat] : IsLoop(g, N, 0, step)
  <2>1. 0 \in Nat /\ N \in Nat
    BY <1>1
  <2> QED
    BY <1>3, <2>1, LoopExists, Zenon
<1>6. \A n \in 1 .. N : g[n] = g[n - 1] + results[N - n + 1].cost
  <2> SUFFICES ASSUME NEW n \in 1 .. N PROVE g[n] = g[n - 1] + results[N - n + 1].cost
    OBVIOUS
  <2>1. n - 1 \in 0 .. N
    BY <1>1
  <2>2. g[n - 1] \in Nat
    BY <2>1
  <2> QED
    BY <1>4, <1>5, <2>2 DEF IsLoop
<1>7. Sum(g)
  <2>1. \A n \in 0 .. N : g[n] = IF n = 0 THEN 0 ELSE g[n - 1] + results[N - n + 1].cost
    BY <1>1, <1>5, <1>6 DEF IsLoop
  <2>2. g = [n \in 0 .. N |-> g[n]]
    OBVIOUS
  <2> QED
    BY <2>1, <2>2
<1> HIDE DEF Sum
<1>8. Sum(Costs(results))
  BY <1>2, <1>7, Zenon
<1> USE DEF Sum
<1> DEFINE c == Costs(results)
<1>9. /\ c[0] = 0
      /\ \A n \in 1 .. N : c[n] = c[n - 1] + results[N - n + 1].cost
      /\ DOMAIN c = 0 .. N /\ c = [n \in 0 .. N |-> c[n]]
  <2>1. c = [n \in 0 .. N |-> IF n = 0 THEN 0 ELSE c[n - 1] + results[N - n + 1].cost]
    BY <1>8
  <2> HIDE DEF c
  <2>2. DOMAIN c = 0 .. N
    BY <2>1
  <2>3. \A n \in 0 .. N : c[n] = IF n = 0 THEN 0 ELSE c[n - 1] + results[N - n + 1].cost
    BY <2>1
  <2>4. c = [n \in 0 .. N |-> c[n]]
    BY <2>1, <2>3
  <2>5. 0 \in 0 .. N /\ \A n \in 1 .. N : n \in 0 .. N /\ n # 0
    BY <1>1
  <2>6. c[0] = 0
    BY <2>3, <2>5
  <2>7. \A n \in 1 .. N : c[n] = c[n - 1] + results[N - n + 1].cost
    BY <2>3, <2>5
  <2> QED
    BY <2>2, <2>4, <2>6, <2>7
<1> HIDE DEF c
<1> DEFINE Good == {n \in 0 .. N : c[n] \in Nat}
<1>10. \A n \in 0 .. N : n \in Good
  <2>1. 0 \in Good
    BY <1>1, <1>9
  <2>2. ASSUME NEW n \in 1 .. N, n - 1 \in Good PROVE n \in Good
    <3>1. N - n + 1 \in 1 .. N
      BY <1>1
    <3>2. c[n - 1] \in Nat /\ results[N - n + 1].cost \in Nat
      BY <1>1, <2>2, <3>1
    <3>3. c[n] = c[n - 1] + results[N - n + 1].cost
      BY <1>9
    <3> QED
      BY <3>2, <3>3
  <2> HIDE DEF Good
  <2> QED
    BY <1>1, <2>1, <2>2, UpToN
<1>11. c \in [0 .. N -> Nat]
  BY <1>9, <1>10
<1> QED
  BY <1>9, <1>11 DEF c, N

(* More results do not cost less.                                          *)
LEMMA CostsGrow ==
    ASSUME NEW results \in Results
    PROVE  \A n \in 1 .. Len(results) : Costs(results)[1] <= Costs(results)[n]
<1> DEFINE N == Len(results)
           c == Costs(results)
           Good == {n \in 0 .. N : n > 0 => c[1] <= c[n]}
<1>1. /\ N \in Nat /\ \A i \in 1 .. N : results[i].cost \in Nat
      /\ c \in [0 .. N -> Nat]
      /\ \A n \in 1 .. N : c[n] = c[n - 1] + results[N - n + 1].cost
  <2>1. results \in Seq(Result)
    BY DEF Results, Result
  <2>2. N \in Nat /\ \A i \in 1 .. N : results[i] \in Result
    BY <2>1
  <2> QED
    BY <2>2, CostsProperties DEF Result
<1> HIDE DEF c, N
<1>2. 0 \in Good
  BY <1>1
<1>3. ASSUME NEW n \in 1 .. N, n - 1 \in Good PROVE n \in Good
  <2>1. N - n + 1 \in 1 .. N /\ n - 1 \in 0 .. N /\ n \in 0 .. N /\ 1 \in 0 .. N
    BY <1>1
  <2>2. c[n] = c[n - 1] + results[N - n + 1].cost /\ results[N - n + 1].cost \in Nat
        /\ c[n - 1] \in Nat /\ c[n] \in Nat /\ c[1] \in Nat
    BY <1>1, <2>1
  <2>3. CASE n = 1
    BY <2>1, <2>2, <2>3
  <2>4. CASE n # 1
    BY <1>3, <2>1, <2>2, <2>4
  <2> QED
    BY <2>3, <2>4
<1> HIDE DEF Good
<1>4. \A n \in 0 .. N : n \in Good
  BY <1>1, <1>2, <1>3, UpToN
<1> USE DEF Good
<1>5. \A n \in 1 .. N : c[1] <= c[n]
  BY <1>1, <1>4
<1> QED
  BY <1>5 DEF c, N

LEMMA NewestProperties ==
    ASSUME NEW results \in Results, NEW n \in 0 .. Len(results)
    PROVE  /\ Newest(results, n) \in Results
           /\ Len(Newest(results, n)) = n
           /\ n = 0 => Newest(results, n) = <<>>
           /\ n > 0 => Newest(results, n) = <<results[Len(results) - n + 1]>> \o Newest(results, n - 1)
<1> DEFINE N == Len(results)
<1>1. N \in Nat /\ results \in Seq(Result)
  BY DEF Results, Result
<1>2. Newest(results, n) \in Seq(Result) /\ Len(Newest(results, n)) = n
  <2>1. \A i \in N - n + 1 .. N : results[i] \in Result
    BY <1>1
  <2>2. N - n + 1 \in Int /\ N \in Int
    BY <1>1
  <2>3. /\ SubSeq(results, N - n + 1, N) \in Seq(Result)
        /\ Len(SubSeq(results, N - n + 1, N)) = IF N - n + 1 <= N THEN N - (N - n + 1) + 1 ELSE 0
    BY <2>1, <2>2, SubSeqProperties
  <2> QED
    BY <1>1, <2>3 DEF Newest
<1>3. n = 0 => Newest(results, n) = <<>>
  BY <1>2
<1>4. ASSUME n > 0
      PROVE  Newest(results, n) = <<results[N - n + 1]>> \o Newest(results, n - 1)
  <2>1. N - n + 1 \in 1 .. N /\ N \in N - n + 1 .. N
    BY <1>1, <1>4
  <2>2. SubSeq(results, N - n + 1, N) = <<results[N - n + 1]>> \o SubSeq(results, (N - n + 1) + 1, N)
    BY <1>1, <2>1, SubSeqRecursiveFirst
  <2>3. (N - n + 1) + 1 = N - (n - 1) + 1
    BY <1>1
  <2> QED
    BY <2>2, <2>3 DEF Newest
<1> QED
  BY <1>2, <1>3, <1>4 DEF Results, Result

(* Where the loop over the results stops: what it has kept fits, and with  *)
(* the next one it would not.                                              *)
StopsAt(results, c, available) ==
    /\ c > 0 => NoticeCost + Costs(results)[c] <= available
    /\ c < Len(results) => NoticeCost + Costs(results)[c + 1] > available

Accs == [kept : Results, total : Nat, full : BOOLEAN]

LEMMA KeepType ==
    ASSUME NEW acc \in Accs, NEW r \in Result, NEW available \in Int
    PROVE  /\ Keep(acc, r, available) \in Accs
           /\ acc.full => Keep(acc, r, available) = acc
           /\ ~acc.full /\ acc.total + r.cost > available =>
                 /\ Keep(acc, r, available).full
                 /\ Keep(acc, r, available).kept = acc.kept
           /\ ~acc.full /\ ~(acc.total + r.cost > available) =>
                 /\ ~Keep(acc, r, available).full
                 /\ Keep(acc, r, available).kept = <<r>> \o acc.kept
                 /\ Keep(acc, r, available).total = acc.total + r.cost
<1>1. r.cost \in Nat /\ acc.total \in Nat /\ acc.kept \in Seq(Result)
  BY DEF Result, Accs, Results
<1>2. <<r>> \o acc.kept \in Seq(Result) /\ acc.total + r.cost \in Nat
  BY <1>1
<1>3. <<r>> \o acc.kept \in Results
  BY <1>2 DEF Results, Result
<1>4. CASE acc.full
  BY <1>4 DEF Keep, Accs
<1>5. CASE ~acc.full /\ acc.total + r.cost > available
  BY <1>5 DEF Keep, Accs
<1>6. CASE ~acc.full /\ ~(acc.total + r.cost > available)
  BY <1>2, <1>3, <1>6 DEF Keep, Accs
<1> QED
  BY <1>4, <1>5, <1>6

LEMMA KeptProperties ==
    ASSUME NEW m, NEW results \in Results, Limit(m) - m.reserve \in Int
    PROVE  \E c \in 0 .. Len(results) :
              /\ Kept(m, results) = Newest(results, c)
              /\ StopsAt(results, c, Limit(m) - m.reserve)
<1> DEFINE N == Len(results)
           available == Limit(m) - m.reserve
           base == [kept |-> <<>>, total |-> NoticeCost, full |-> FALSE]
           Loop(g) == g = [n \in 0 .. N |->
                             IF n = 0 THEN base
                             ELSE Keep(g[n - 1], results[N - n + 1], available)]
           step == [x \in Accs \X (1 .. N) |-> Keep(x[1], results[N - x[2] + 1], available)]
           f == CHOOSE g : Loop(g)
           cost == Costs(results)
<1>1. /\ N \in Nat /\ available \in Int /\ NoticeCost \in Nat
      /\ \A n \in 1 .. N : results[N - n + 1] \in Result
      /\ cost \in [0 .. N -> Nat] /\ cost[0] = 0
      /\ \A n \in 1 .. N : cost[n] = cost[n - 1] + results[N - n + 1].cost
  <2>1. results \in Seq(Result)
    BY DEF Results, Result
  <2>2. N \in Nat /\ \A n \in 1 .. N : results[n] \in Result
    BY <2>1
  <2>3. \A n \in 1 .. N : N - n + 1 \in 1 .. N
    BY <2>2
  <2> QED
    BY <2>2, <2>3, CostsProperties, BudgetAssumption
<1>2. Kept(m, results) = f[N].kept
  BY DEF Kept
<1>3. base \in Accs /\ base.kept = <<>> /\ base.total = NoticeCost /\ ~base.full
  BY <1>1 DEF Accs, Results
<1> HIDE DEF available, N, base
<1>4. ClosedUnder(Accs, N, step)
  <2>1. \A a \in Accs, n \in 1 .. N : Keep(a, results[N - n + 1], available) \in Accs
    BY <1>1, KeepType
  <2> QED
    BY <2>1 DEF ClosedUnder
<1>5. \A a \in Accs, n \in 1 .. N : step[<<a, n>>] = Keep(a, results[N - n + 1], available)
  OBVIOUS
<1> HIDE DEF step
<1>6. PICK g \in [0 .. N -> Accs] : IsLoop(g, N, base, step)
  BY <1>1, <1>3, <1>4, LoopExists, Zenon
<1>7. Loop(g)
  <2>1. ASSUME NEW n \in 1 .. N
        PROVE  g[n] = Keep(g[n - 1], results[N - n + 1], available)
    <3>1. g[n - 1] \in Accs
      BY <1>1
    <3> QED
      BY <1>5, <1>6, <3>1 DEF IsLoop
  <2>2. \A n \in 0 .. N : g[n] = IF n = 0 THEN base ELSE Keep(g[n - 1], results[N - n + 1], available)
    BY <1>1, <1>6, <2>1 DEF IsLoop
  <2>3. g = [n \in 0 .. N |-> g[n]]
    OBVIOUS
  <2> QED
    BY <2>2, <2>3
<1> HIDE DEF Loop
<1>8. Loop(f)
  BY <1>7, Zenon
<1> HIDE DEF f
<1>9. f[0] = base /\ \A n \in 1 .. N : f[n] = Keep(f[n - 1], results[N - n + 1], available)
  <2>1. \A n \in 0 .. N : f[n] = IF n = 0 THEN base ELSE Keep(f[n - 1], results[N - n + 1], available)
    BY <1>8 DEF Loop
  <2>2. 0 \in 0 .. N /\ \A n \in 1 .. N : n \in 0 .. N /\ n # 0
    BY <1>1
  <2> QED
    BY <2>1, <2>2
<1> HIDE DEF cost
<1> DEFINE Going(n) == /\ f[n].kept = Newest(results, n)
                       /\ f[n].total = NoticeCost + cost[n]
                       /\ n > 0 => NoticeCost + cost[n] <= available
           Stopped(n) == \E c \in 0 .. n - 1 :
                            /\ f[n].kept = Newest(results, c)
                            /\ c > 0 => NoticeCost + cost[c] <= available
                            /\ NoticeCost + cost[c + 1] > available
           Good == {n \in 0 .. N : f[n] \in Accs /\ IF f[n].full THEN Stopped(n) ELSE Going(n)}
<1>10. 0 \in Good
  <2>1. 0 \in 0 .. Len(results)
    BY <1>1 DEF N
  <2>2. Newest(results, 0) = <<>>
    BY <2>1, NewestProperties
  <2> QED
    BY <1>1, <1>3, <1>9, <2>2
<1>11. \A n \in 1 .. N : n - 1 \in Good => n \in Good
  <2> SUFFICES ASSUME NEW n \in 1 .. N, n - 1 \in Good
               PROVE  n \in Good
    OBVIOUS
  <2>1. /\ n - 1 \in 0 .. N /\ n \in 0 .. N /\ n > 0
        /\ (n - 1) + 1 = n /\ n - 1 \in 0 .. n - 1
        /\ \A c \in 0 .. (n - 1) - 1 : c \in 0 .. n - 1
        /\ n \in 0 .. Len(results)
    BY <1>1 DEF N
  <2> DEFINE r == results[N - n + 1]
             acc == f[n - 1]
             next == f[n]
             before == cost[n - 1]
             now == cost[n]
  <2>2. acc \in Accs /\ r \in Result /\ next = Keep(acc, r, available)
    BY <1>1, <1>9
  <2>3. now = before + r.cost /\ now \in Nat /\ before \in Nat
    BY <1>1, <2>1
  <2>4. Newest(results, n) = <<r>> \o Newest(results, n - 1)
    BY <2>1, NewestProperties DEF N
  <2>5. IF acc.full THEN Stopped(n - 1) ELSE Going(n - 1)
    OBVIOUS
  <2> HIDE DEF r, acc, next
  <2>6. next \in Accs
    BY <1>1, <2>2, KeepType
  <2>7. CASE acc.full
    <3>1. next = acc
      BY <1>1, <2>2, <2>7, KeepType
    <3>2. Stopped(n - 1)
      BY <2>5, <2>7
    <3>3. Stopped(n)
      BY <2>1, <3>1, <3>2 DEF acc, next
    <3> HIDE DEF Going, Stopped
    <3> QED
      BY <2>1, <2>6, <2>7, <3>1, <3>3 DEF next
  <2>8. CASE ~acc.full /\ acc.total + r.cost > available
    <3>1. next.full /\ next.kept = acc.kept
      BY <1>1, <2>2, <2>8, KeepType
    <3>2. Going(n - 1)
      BY <2>5, <2>8
    <3>3. /\ acc.kept = Newest(results, n - 1)
          /\ acc.total = NoticeCost + before
          /\ n - 1 > 0 => NoticeCost + before <= available
      BY <3>2 DEF acc
    <3>4. NoticeCost + now > available
      <4>1. acc.total + r.cost > available /\ r.cost \in Nat
        BY <2>2, <2>8 DEF Result
      <4>2. available \in Int /\ NoticeCost \in Nat
        BY <1>1
      <4>3. acc.total = NoticeCost + before
        BY <3>3
      <4> HIDE DEF before, now
      <4> QED
        BY <2>3, <4>1, <4>2, <4>3
    <3>5. Stopped(n)
      BY <2>1, <3>1, <3>3, <3>4 DEF next
    <3> HIDE DEF Going, Stopped
    <3> QED
      BY <2>1, <2>6, <3>1, <3>5 DEF next
  <2>9. CASE ~acc.full /\ ~(acc.total + r.cost > available)
    <3>1. ~next.full /\ next.kept = <<r>> \o acc.kept /\ next.total = acc.total + r.cost
      BY <1>1, <2>2, <2>9, KeepType
    <3>2. Going(n - 1)
      BY <2>5, <2>9
    <3>3. acc.kept = Newest(results, n - 1) /\ acc.total = NoticeCost + before
      BY <3>2 DEF acc
    <3>4. next.total = NoticeCost + now /\ NoticeCost + now <= available
      <4>1. r.cost \in Nat /\ ~(acc.total + r.cost > available)
        BY <2>2, <2>9 DEF Result
      <4>2. available \in Int /\ NoticeCost \in Nat
        BY <1>1
      <4>3. acc.total = NoticeCost + before
        BY <3>3
      <4>4. next.total = acc.total + r.cost
        BY <3>1
      <4> HIDE DEF before, now
      <4> QED
        BY <2>3, <4>1, <4>2, <4>3, <4>4
    <3>5. Going(n)
      BY <2>4, <3>1, <3>3, <3>4 DEF next
    <3> HIDE DEF Going, Stopped
    <3> QED
      BY <2>1, <2>6, <3>1, <3>5 DEF next
  <2> QED
    BY <2>7, <2>8, <2>9
<1> HIDE DEF Good
<1>12. N \in Good
  <2>1. \A n \in 0 .. N : n \in Good
    BY <1>1, <1>10, <1>11, UpToN, Zenon
  <2> QED
    BY <1>1, <2>1
<1> USE DEF Good
<1>13. PICK c \in 0 .. N :
          /\ f[N].kept = Newest(results, c)
          /\ c > 0 => NoticeCost + cost[c] <= available
          /\ c < N => NoticeCost + cost[c + 1] > available
  <2>1. CASE f[N].full
    <3>1. Stopped(N)
      BY <1>12, <2>1
    <3> QED
      BY <1>1, <3>1
  <2>2. CASE ~f[N].full
    <3>1. Going(N)
      BY <1>12, <2>2
    <3> QED
      BY <1>1, <3>1
  <2> QED
    BY <2>1, <2>2
<1> QED
  BY <1>2, <1>13 DEF StopsAt, N, available, cost

(* Of the results of a round the newest are left, as many as fit, or all   *)
(* of them if none does.                                                   *)
LEMMA TruncateProperties ==
    ASSUME NEW m \in Managers, NEW results \in Results
    PROVE  /\ Truncate(m, results) \in Results
           /\ Truncate(m, results) # results => LongestSuffix(m, results, Truncate(m, results))
<1> DEFINE N == Len(results)
           available == Limit(m) - m.reserve
           taken == Kept(m, results)
           cost == Costs(results)
<1>1. available \in Int /\ Limit(m) \in Int /\ m.reserve \in Nat /\ NoticeCost \in Nat
  <2>1. m.maxTokens \in Nat /\ m.percent \in Nat /\ m.reserve \in Nat
    BY DEF Managers
  <2>2. m.maxTokens * m.percent \in Nat
    BY <2>1
  <2>3. Limit(m) \in Int
    BY <2>2 DEF Limit
  <2> QED
    BY <2>1, <2>3, BudgetAssumption
<1>2. PICK c \in 0 .. N : taken = Newest(results, c) /\ StopsAt(results, c, available)
  BY <1>1, KeptProperties
<1>3. N \in Nat /\ cost \in [0 .. N -> Nat]
  BY CostsProperties DEF Results
<1>4. taken \in Results /\ Len(taken) = c
  BY <1>2, NewestProperties
<1> HIDE DEF taken
<1>5. CASE taken # <<>> /\ m.enabled
  <2>1. Truncate(m, results) = taken
    BY <1>5 DEF Truncate, taken
  <2>2. c > 0
    BY <1>4, <1>5 DEF Results
  <2>3. cost[c] <= available - NoticeCost
    BY <1>1, <1>2, <1>3, <2>2 DEF StopsAt
  <2>4. c < N => cost[c + 1] > available - NoticeCost
    BY <1>1, <1>2, <1>3 DEF StopsAt
  <2>5. LongestSuffix(m, results, taken)
    <3>1. c \in {n \in 1 .. N : cost[n] <= available - NoticeCost}
      BY <1>3, <2>2, <2>3
    <3>2. c + 1 \notin {n \in 1 .. N : cost[n] <= available - NoticeCost}
      BY <1>1, <1>3, <2>4
    <3>3. taken = SubSeq(results, N - Len(taken) + 1, N)
      BY <1>2, <1>4 DEF Newest
    <3> QED
      BY <1>4, <3>1, <3>2, <3>3 DEF LongestSuffix
  <2> QED
    BY <1>4, <2>1, <2>5
<1>6. CASE ~(taken # <<>> /\ m.enabled)
  BY <1>6 DEF Truncate, taken
<1> QED
  BY <1>5, <1>6


-----------------------------------------------------------------------------
(***************************************************************************)
(* AgentConfig.  What a load that runs alone, or reloads that agree on a   *)
(* sound file, leave behind is a matter of the steps in between: as long   *)
(* as none of them has set the configuration, there is one that will; from *)
(* then on it is from that file, with whoever made it raw still to         *)
(* complete it (IsFrom); and an entry of the tools that the registry is    *)
(* not like yet is before some load (IsOrWillBe), which is why it matters  *)
(* that a load which gives up does so because another one is behind it.    *)
(***************************************************************************)
Registries == [Tool -> [enabled : BOOLEAN, timeout : Nat \ {0}]]

Rounds ==
    [calls : BOOLEAN, n : 0 .. MaxRounds, over : BOOLEAN,
     returned : Results, appended : Results, by : Managers]

(* What a load holds has the shape that its next step relies on.           *)
HoldsShape(l) ==
    /\ loader[l].phase = "read" => loader[l].of.kind \in {"list", "object"}
    /\ loader[l].phase \in {"agent", "tools"} => loader[l].of.kind = "object"
    /\ loader[l].phase \in {"raw", "agent", "put", "tools"} => config # NoConfig
    /\ loader[l].phase \in {"read", "raw", "agent", "put"} => loader[l].at = 1

(* A raw configuration is all from one file; one that is not raw has the   *)
(* sections of objects.                                                    *)
ConfigShaped ==
    config # NoConfig =>
        /\ config.from.kind \in {"list", "object"}
        /\ config.kind = "raw" => config.agent = config.from
        /\ config.kind = "normal" => config.from.kind = "object" /\ config.agent.kind = "object"

(* The loads that are under way have all read and nothing more.            *)
AllReading ==
    /\ \E l \in Loader : Loading(l)
    /\ \A l \in Loader : Loading(l) => loader[l].phase = "read"

(* Load l has not yet come behind entry i of the tools.                    *)
StillSets(l, i) ==
    \/ loader[l].phase \in {"read", "raw", "agent", "put"}
    \/ loader[l].phase = "tools" /\ loader[l].at <= i

OnlyHolds(l, f) == loader[l].phase \in {"read", "agent", "tools"} => loader[l].of = f

GivesUpQuietly(l) == loader[l].phase = "failed" => loader[l].for = "reload"

AreReloads(k, l) ==
    k # l /\ Loading(k) /\ Loading(l) => loader[k].for = "reload" /\ loader[l].for = "reload"

(* Once one of the loads has set it, the configuration is from file f, and *)
(* who made it raw still has to complete it.                               *)
IsFrom(f) ==
    ~AllReading =>
        /\ config # NoConfig /\ config.from = f /\ config.agent = f
        /\ config.kind = "raw" => \E l \in Loader : loader[l].phase \in {"raw", "agent"}

(* A tool that is not as file f says is yet to be set by some load.        *)
IsOrWillBe(f, i) == Matches(f.tools[i]) \/ \E l \in Loader : StillSets(l, i)

(* Loads that agree on a file f in which nothing is odd.                   *)
Together(f) ==
    /\ \A l \in Loader : OnlyHolds(l, f) /\ GivesUpQuietly(l)
    /\ \A k, l \in Loader : AreReloads(k, l)
    /\ IsFrom(f)
    /\ \A i \in DOMAIN f.tools : IsOrWillBe(f, i)

ConfigWellFormed == ConfigTypeOK /\ ConfigShaped /\ \A l \in Loader : HoldsShape(l)

ConfigIInv ==
    /\ ConfigWellFormed /\ NewestAppended
    /\ latest.agreed /\ Sound(latest.of) => Together(latest.of)

LEMMA SourceProperties ==
    ASSUME NEW f \in Sources
    PROVE  /\ f.kind \in {"missing", "broken", "list", "object"}
           /\ f.kind = "object" =>
                 /\ Len(f.tools) \in Nat /\ DOMAIN f.tools = 1 .. Len(f.tools)
                 /\ \A i \in DOMAIN f.tools : f.tools[i].set \in Settings
                 /\ \A i, j \in DOMAIN f.tools : f.tools[i].name = f.tools[j].name => i = j
                 /\ \A x \in DOMAIN f.budget :
                       /\ x = "enabled" => f.budget[x] \in BOOLEAN
                       /\ x \in {"n", "maxTokens", "reserve", "percent"} => f.budget[x] \in Nat
<1>1. CASE f \in Files
  BY <1>1, ConfigAssumption
<1>2. CASE f = DefaultFile
  <2>1. f.kind = "object" /\ f.tools = <<>> /\ f.budget = [n |-> Defaults.maxTokens]
    BY <1>2 DEF DefaultFile, Object
  <2>2. Defaults.maxTokens \in Nat
    BY ConfigAssumption DEF Managers
  <2>3. \A x \in DOMAIN f.budget : x = "n" /\ f.budget[x] \in Nat
    BY <2>1, <2>2
  <2> QED
    BY <2>1, <2>3
<1> QED
  BY <1>1, <1>2 DEF Sources

LEMMA BudgetType ==
    ASSUME NEW f \in Sources, f.kind = "object"
    PROVE  Budget(f) \in Managers
<1> DEFINE cfg == IF "n" \in DOMAIN f.budget \/ "dict" \in DOMAIN f.budget THEN f.budget
                  ELSE [n |-> Defaults.maxTokens]
<1>1. /\ Defaults \in Managers
      /\ Defaults.enabled \in BOOLEAN /\ Defaults.maxTokens \in Nat
      /\ Defaults.reserve \in Nat /\ Defaults.percent \in Nat
  BY ConfigAssumption DEF Managers
<1>2. /\ "enabled" \in DOMAIN cfg => cfg["enabled"] \in BOOLEAN
      /\ \A x \in {"n", "maxTokens", "reserve", "percent"} : x \in DOMAIN cfg => cfg[x] \in Nat
  BY <1>1, SourceProperties
<1>3. Budget(f) = Build(cfg, Defaults)
  BY DEF Budget
<1> HIDE DEF cfg
<1>4. CASE "n" \in DOMAIN cfg
  <2>1. cfg.n \in Nat
    BY <1>2, <1>4
  <2> QED
    BY <1>1, <1>3, <1>4, <2>1 DEF Build, Managers
<1>5. CASE "n" \notin DOMAIN cfg
  BY <1>1, <1>2, <1>3, <1>5 DEF Build, Managers
<1> QED
  BY <1>4, <1>5

(* Setting a tool leaves the others as they are.                           *)
LEMMA ToolSetProperties ==
    ASSUME NEW registry \in Registries, NEW name \in Tool, NEW set \in Settings
    PROVE  /\ ToolSet(registry, name, set) \in Registries
           /\ \A t \in Tool : t # name => ToolSet(registry, name, set)[t] = registry[t]
           /\ set.odd = "no" =>
                 /\ ToolSet(registry, name, set)[name].enabled = set.enabled
                 /\ set.timeout > 0 => ToolSet(registry, name, set)[name].timeout = set.timeout
<1> DEFINE old == registry[name]
           new == [enabled |-> set.enabled,
                   timeout |-> IF set.odd = "no" /\ set.timeout > 0 THEN set.timeout ELSE old.timeout]
<1>1. set.enabled \in BOOLEAN /\ set.timeout \in Nat
  BY DEF Settings
<1>2. old.timeout \in Nat \ {0}
  BY DEF Registries
<1>3. new \in [enabled : BOOLEAN, timeout : Nat \ {0}]
  BY <1>1, <1>2
<1>4. ToolSet(registry, name, set) = [registry EXCEPT ![name] = new]
  BY DEF ToolSet
<1>5. new.enabled = set.enabled /\ (set.odd = "no" /\ set.timeout > 0 => new.timeout = set.timeout)
  OBVIOUS
<1> HIDE DEF new
<1> QED
  BY <1>3, <1>4, <1>5 DEF Registries

Phases == {"idle", "read", "raw", "agent", "put", "tools", "failed"}

(* A load that moves on keeps its errand and its place, and the others do  *)
(* not move.                                                               *)
LEMMA MovesProperties ==
    ASSUME loader \in [Loader -> Loads], NEW l \in Loader, NEW phase \in Phases, NEW f \in Sources,
           Moves(l, phase, f)
    PROVE  /\ loader' \in [Loader -> Loads]
           /\ loader'[l].phase = phase /\ loader'[l].of = f
           /\ loader'[l].for = loader[l].for /\ loader'[l].at = loader[l].at
           /\ \A k \in Loader : k # l => loader'[k] = loader[k]
<1>1. loader[l] \in Loads
  OBVIOUS
<1>2. loader' = [loader EXCEPT ![l] = [loader[l] EXCEPT !.phase = phase, !.of = f]]
  BY DEF Moves
<1>3. [loader[l] EXCEPT !.phase = phase, !.of = f] \in Loads
  BY <1>1 DEF Loads, Phases
<1> QED
  BY <1>1, <1>2, <1>3 DEF Loads

LEMMA ConfigIInvInit == ConfigInit => ConfigIInv
<1> SUFFICES ASSUME ConfigInit PROVE ConfigIInv
  OBVIOUS
<1>1. NoManager \in Managers /\ NoRound \in Rounds /\ NoRound.n = 0 /\ Registered \in Registries
  BY ConfigAssumption DEF NoManager, Managers, NoRound, Rounds, Results, Registered, Registries
<1>2. Idle \in Loads /\ Idle.phase = "idle" /\ Disagreed \in [agreed : BOOLEAN, of : Sources]
  BY DEF Idle, Loads, Disagreed, Sources
<1>3. ~latest.agreed
  BY DEF ConfigInit, Disagreed
<1>4. ConfigTypeOK
  BY <1>1, <1>2 DEF ConfigInit, ConfigTypeOK, Rounds, Registries
<1>5. ConfigShaped /\ NewestAppended /\ \A l \in Loader : HoldsShape(l)
  BY <1>1, <1>2 DEF ConfigInit, ConfigShaped, NewestAppended, HoldsShape
<1> QED
  BY <1>3, <1>4, <1>5 DEF ConfigIInv, ConfigWellFormed

(* A load begins with what it read, and at the first tool.                 *)
LEMMA BeginProperties ==
    ASSUME ConfigWellFormed, NEW l \in Loader, NEW for \in {"start", "get", "reload"}, Begin(l, for)
    PROVE  /\ ConfigWellFormed'
           /\ loader'[l].phase \in {"read", "failed"} /\ loader'[l].for = for /\ loader'[l].at = 1
           /\ loader'[l].of \in Sources
           /\ loader'[l].phase = "read" => loader'[l].of = file
           /\ file.kind = "object" => loader'[l].phase = "read"
           /\ \A k \in Loader : k # l => loader'[k] = loader[k]
<1> DEFINE readable == file.kind \in {"list", "object"}
           new == [phase |-> IF readable THEN "read" ELSE "failed", for |-> for,
                   of |-> IF readable THEN file ELSE DefaultFile, at |-> 1]
<1>1. /\ loader' = [loader EXCEPT ![l] = new] /\ UNCHANGED <<file, config, manager, tools, context, round>>
      /\ latest' \in {[agreed |-> TRUE, of |-> file], Disagreed}
  BY DEF Begin
<1>2. loader \in [Loader -> Loads] /\ file \in Files /\ DefaultFile \in Sources /\ file \in Sources
  BY DEF ConfigWellFormed, ConfigTypeOK, Sources
<1>3. /\ new.phase \in {"read", "failed"} /\ new.for = for /\ new.at = 1 /\ new.of \in Sources
      /\ new.phase = "read" => readable /\ new.of = file
      /\ file.kind = "object" => new.phase = "read"
  BY <1>2
<1>4. new \in Loads
  BY <1>2 DEF Loads
<1> HIDE DEF new
<1>5. loader' \in [Loader -> Loads] /\ loader'[l] = new /\ \A k \in Loader : k # l => loader'[k] = loader[k]
  BY <1>1, <1>2, <1>4
<1>6. latest' \in [agreed : BOOLEAN, of : Sources]
  <2>1. [agreed |-> TRUE, of |-> file] \in [agreed : BOOLEAN, of : Sources]
    BY <1>2
  <2>2. Disagreed \in [agreed : BOOLEAN, of : Sources]
    BY <1>2 DEF Disagreed
  <2> QED
    BY <1>1, <2>1, <2>2
<1>7. ConfigTypeOK'
  BY <1>1, <1>5, <1>6 DEF ConfigWellFormed, ConfigTypeOK
<1>8. ConfigShaped'
  BY <1>1 DEF ConfigWellFormed, ConfigShaped
<1>9. ASSUME NEW k \in Loader PROVE HoldsShape(k)'
  BY <1>1, <1>3, <1>5 DEF ConfigWellFormed, HoldsShape
<1> QED
  BY <1>3, <1>5, <1>7, <1>8, <1>9 DEF ConfigWellFormed

(* An entry that is not odd is taken over, and leaves the other tools.     *)
LEMMA ApplyEntryProperties ==
    ASSUME ConfigWellFormed, NEW l \in Loader, ApplyEntry(l), NEW entry, entry = Listed(l)[loader[l].at]
    PROVE  /\ tools' \in Registries
           /\ \A t \in Tool : t # entry.name => tools'[t] = tools[t]
           /\ (entry.name \in Tool => entry.set.odd = "no") =>
                 /\ Matches(entry)'
                 /\ loader' = [loader EXCEPT ![l].at = @ + 1]
<1>1. tools \in Registries /\ loader[l].of \in Sources /\ loader[l].of.kind = "object"
  BY DEF ConfigWellFormed, ConfigTypeOK, Registries, Loads, HoldsShape, ApplyEntry
<1>2. entry.set \in Settings
  BY <1>1, SourceProperties DEF ApplyEntry, Listed
<1>3. /\ entry.name \in Tool /\ entry.set.odd # "settings" => tools' = ToolSet(tools, entry.name, entry.set)
      /\ ~(entry.name \in Tool /\ entry.set.odd # "settings") => tools' = tools
      /\ ~(entry.name \in Tool /\ entry.set.odd # "no") => loader' = [loader EXCEPT ![l].at = @ + 1]
  BY DEF ApplyEntry
<1>4. CASE entry.name \in Tool
  <2>1. /\ ToolSet(tools, entry.name, entry.set) \in Registries
        /\ \A t \in Tool : t # entry.name => ToolSet(tools, entry.name, entry.set)[t] = tools[t]
        /\ entry.set.odd = "no" =>
              /\ ToolSet(tools, entry.name, entry.set)[entry.name].enabled = entry.set.enabled
              /\ entry.set.timeout > 0 =>
                    ToolSet(tools, entry.name, entry.set)[entry.name].timeout = entry.set.timeout
    BY <1>1, <1>2, <1>4, ToolSetProperties
  <2>2. tools' \in Registries /\ \A t \in Tool : t # entry.name => tools'[t] = tools[t]
    BY <1>1, <1>3, <1>4, <2>1
  <2>3. ASSUME entry.set.odd = "no"
        PROVE  Matches(entry)' /\ loader' = [loader EXCEPT ![l].at = @ + 1]
    <3>1. tools' = ToolSet(tools, entry.name, entry.set) /\ loader' = [loader EXCEPT ![l].at = @ + 1]
      BY <1>3, <1>4, <2>3
    <3> QED
      BY <2>1, <2>3, <3>1 DEF Matches
  <2> QED
    BY <1>4, <2>2, <2>3
<1>5. CASE entry.name \notin Tool
  BY <1>1, <1>3, <1>5 DEF Matches
<1> QED
  BY <1>4, <1>5

(* What becomes of the loads that agree on a sound file.                   *)
KeepsTogether == \A f \in Sources : Sound(f) /\ Together(f) => Together(f)'

(* Who is a reload stays one, until it is over.                            *)
LEMMA ReloadsStay ==
    ASSUME NEW l \in Loader, Loading(l),
           ~Loading(l)' \/ loader'[l].for = loader[l].for,
           \A k \in Loader : k # l => loader'[k] = loader[k],
           \A j, k \in Loader : AreReloads(j, k)
    PROVE  \A j, k \in Loader : AreReloads(j, k)'
<1> SUFFICES ASSUME NEW j \in Loader, NEW k \in Loader, j # k, Loading(j)', Loading(k)'
             PROVE  loader'[j].for = "reload" /\ loader'[k].for = "reload"
  BY DEF AreReloads
<1>1. Loading(j) /\ Loading(k)
  BY DEF Loading
<1>2. loader[j].for = "reload" /\ loader[k].for = "reload"
  BY <1>1 DEF AreReloads
<1>3. loader'[j].for = loader[j].for /\ loader'[k].for = loader[k].for
  OBVIOUS
<1> QED
  BY <1>2, <1>3

(* An entry stays as the file says, or before some load, if the tools stay *)
(* and the load that moves is still to set it.                             *)
LEMMA EntriesStay ==
    ASSUME NEW l \in Loader, NEW f, UNCHANGED tools,
           \A i \in DOMAIN f.tools : StillSets(l, i) => \E k \in Loader : StillSets(k, i)',
           \A k \in Loader : k # l => loader'[k] = loader[k],
           \A i \in DOMAIN f.tools : IsOrWillBe(f, i)
    PROVE  \A i \in DOMAIN f.tools : IsOrWillBe(f, i)'
<1> SUFFICES ASSUME NEW i \in DOMAIN f.tools, ~Matches(f.tools[i])
             PROVE  \E k \in Loader : StillSets(k, i)'
  BY DEF IsOrWillBe, Matches
<1>1. PICK k \in Loader : StillSets(k, i)
  BY DEF IsOrWillBe
<1>2. CASE k = l
  BY <1>1, <1>2
<1>3. CASE k # l
  BY <1>1, <1>3 DEF StillSets
<1> QED
  BY <1>2, <1>3

LEMMA SetConfigKeeps ==
    ASSUME ConfigWellFormed, NEW l \in Loader, SetConfig(l)
    PROVE  ConfigWellFormed' /\ KeepsTogether
<1>1. /\ loader \in [Loader -> Loads] /\ loader[l] \in Loads /\ DefaultFile \in Sources
      /\ loader[l].phase = "read" /\ loader[l].at = 1 /\ loader[l].of \in Sources
      /\ loader[l].of.kind \in {"list", "object"}
  BY DEF ConfigWellFormed, ConfigTypeOK, Loads, Sources, HoldsShape, SetConfig
<1>2. /\ config' = [kind |-> "raw", from |-> loader[l].of, agent |-> loader[l].of]
      /\ Moves(l, "raw", DefaultFile) /\ UNCHANGED <<file, manager, tools, latest, context, round>>
  BY DEF SetConfig
<1>3. /\ loader' \in [Loader -> Loads] /\ loader'[l].phase = "raw"
      /\ loader'[l].for = loader[l].for /\ loader'[l].at = 1
      /\ \A k \in Loader : k # l => loader'[k] = loader[k]
  BY <1>1, <1>2, MovesProperties DEF Phases
<1>4. config' \in Configs /\ config' # NoConfig
  BY <1>1, <1>2 DEF Configs, NoConfig
<1>5. ConfigTypeOK'
  BY <1>2, <1>3, <1>4 DEF ConfigWellFormed, ConfigTypeOK
<1>6. ConfigShaped'
  BY <1>1, <1>2 DEF ConfigShaped
<1>7. ASSUME NEW k \in Loader PROVE HoldsShape(k)'
  BY <1>3, <1>4 DEF ConfigWellFormed, HoldsShape
<1>8. ASSUME NEW f \in Sources, Sound(f), Together(f) PROVE Together(f)'
  <2>1. loader[l].of = f
    BY <1>1, <1>8 DEF Together, OnlyHolds
  <2>2. ASSUME NEW k \in Loader PROVE OnlyHolds(k, f)' /\ GivesUpQuietly(k)'
    BY <1>3, <1>8 DEF Together, OnlyHolds, GivesUpQuietly
  <2>3. \A j, k \in Loader : AreReloads(j, k)'
    BY <1>1, <1>3, <1>8, ReloadsStay DEF Together, Loading
  <2>4. IsFrom(f)'
    BY <1>2, <1>3, <1>4, <2>1 DEF IsFrom
  <2>5. \A i \in DOMAIN f.tools : StillSets(l, i)'
    BY <1>3 DEF StillSets
  <2>6. \A i \in DOMAIN f.tools : IsOrWillBe(f, i)'
    BY <2>5 DEF IsOrWillBe
  <2> QED
    BY <2>2, <2>3, <2>4, <2>6 DEF Together
<1> QED
  BY <1>5, <1>6, <1>7, <1>8 DEF ConfigWellFormed, KeepsTogether

(* Once a load is behind its reading, they are not all reading.            *)
LEMMA SetAlready ==
    ASSUME NEW l \in Loader, loader[l].phase \in {"raw", "agent", "put", "tools", "failed"},
           NEW f, Together(f)
    PROVE  /\ config # NoConfig /\ config.from = f /\ config.agent = f
           /\ config.kind = "raw" => \E k \in Loader : loader[k].phase \in {"raw", "agent"}
  BY DEF Together, IsFrom, AllReading, Loading

LEMMA ReadAgentKeeps ==
    ASSUME ConfigWellFormed, NEW l \in Loader, ReadAgent(l)
    PROVE  ConfigWellFormed' /\ KeepsTogether
<1> DEFINE odd == config.kind = "raw" /\ ~Shapely(config.from)
<1>1. /\ loader \in [Loader -> Loads] /\ DefaultFile \in Sources
      /\ loader[l].phase = "raw" /\ loader[l].at = 1
      /\ config # NoConfig /\ config \in Configs /\ config.agent \in Sources
  BY DEF ConfigWellFormed, ConfigTypeOK, Configs, Sources, HoldsShape, ReadAgent
<1>2. ~odd => config.agent.kind = "object"
  BY <1>1 DEF ConfigWellFormed, ConfigShaped, Configs, Shapely
<1>3. /\ UNCHANGED <<file, config, manager, tools, latest, context, round>>
      /\ odd => Moves(l, "failed", DefaultFile)
      /\ ~odd => Moves(l, "agent", config.agent)
  BY DEF ReadAgent
<1> HIDE DEF odd
<1>4. /\ loader' \in [Loader -> Loads]
      /\ odd => loader'[l].phase = "failed"
      /\ ~odd => loader'[l].phase = "agent" /\ loader'[l].of = config.agent
      /\ loader'[l].for = loader[l].for /\ loader'[l].at = 1
      /\ \A k \in Loader : k # l => loader'[k] = loader[k]
  BY <1>1, <1>3, MovesProperties DEF Phases
<1>5. ConfigTypeOK' /\ ConfigShaped'
  BY <1>3, <1>4 DEF ConfigWellFormed, ConfigTypeOK, ConfigShaped
<1>6. ASSUME NEW k \in Loader PROVE HoldsShape(k)'
  BY <1>1, <1>2, <1>3, <1>4 DEF ConfigWellFormed, HoldsShape
<1>7. ASSUME NEW f \in Sources, Sound(f), Together(f) PROVE Together(f)'
  <2>1. config.from = f /\ config.agent = f
    BY <1>1, <1>7, SetAlready
  <2>2. ~odd
    BY <1>7, <2>1 DEF odd, Sound
  <2>3. ASSUME NEW k \in Loader PROVE OnlyHolds(k, f)' /\ GivesUpQuietly(k)'
    BY <1>4, <1>7, <2>1, <2>2 DEF Together, OnlyHolds, GivesUpQuietly
  <2>4. \A j, k \in Loader : AreReloads(j, k)'
    BY <1>1, <1>4, <1>7, ReloadsStay DEF Together, Loading
  <2>5. IsFrom(f)'
    BY <1>1, <1>3, <1>4, <2>1, <2>2 DEF IsFrom
  <2>6. \A i \in DOMAIN f.tools : StillSets(l, i)'
    BY <1>4, <2>2 DEF StillSets
  <2>7. \A i \in DOMAIN f.tools : IsOrWillBe(f, i)'
    BY <2>6 DEF IsOrWillBe
  <2> QED
    BY <2>3, <2>4, <2>5, <2>7 DEF Together
<1> QED
  BY <1>5, <1>6, <1>7 DEF ConfigWellFormed, KeepsTogether

LEMMA PutAgentKeeps ==
    ASSUME ConfigWellFormed, NEW l \in Loader, PutAgent(l)
    PROVE  ConfigWellFormed' /\ KeepsTogether
<1> DEFINE odd == config.from.kind = "list"
<1>1. /\ loader \in [Loader -> Loads] /\ loader[l] \in Loads /\ DefaultFile \in Sources
      /\ loader[l].phase = "agent" /\ loader[l].at = 1
      /\ loader[l].of \in Sources /\ loader[l].of.kind = "object"
      /\ config # NoConfig /\ config \in Configs
  BY DEF ConfigWellFormed, ConfigTypeOK, Loads, Sources, HoldsShape, PutAgent
<1>2. ~odd => config.from.kind = "object"
  BY <1>1 DEF ConfigWellFormed, ConfigShaped
<1>3. /\ UNCHANGED <<file, manager, tools, latest, context, round>>
      /\ odd => UNCHANGED config /\ Moves(l, "failed", DefaultFile)
      /\ ~odd => /\ config' = [config EXCEPT !.kind = "normal", !.agent = loader[l].of]
                 /\ Moves(l, "put", DefaultFile)
  BY DEF PutAgent
<1> HIDE DEF odd
<1>4. /\ loader' \in [Loader -> Loads]
      /\ odd => loader'[l].phase = "failed"
      /\ ~odd => loader'[l].phase = "put"
      /\ loader'[l].for = loader[l].for /\ loader'[l].at = 1
      /\ \A k \in Loader : k # l => loader'[k] = loader[k]
  BY <1>1, <1>3, MovesProperties DEF Phases
<1>5. ~odd => /\ config' \in Configs /\ config'.kind = "normal" /\ config'.from = config.from
              /\ config'.agent = loader[l].of
  BY <1>1, <1>3 DEF Configs
<1>6. config' # NoConfig /\ config' \in Configs
  BY <1>1, <1>3, <1>5 DEF NoConfig
<1>7. ConfigTypeOK'
  BY <1>3, <1>4, <1>6 DEF ConfigWellFormed, ConfigTypeOK
<1>8. ConfigShaped'
  BY <1>1, <1>2, <1>3, <1>5 DEF ConfigWellFormed, ConfigShaped
<1>9. ASSUME NEW k \in Loader PROVE HoldsShape(k)'
  BY <1>1, <1>4, <1>6 DEF ConfigWellFormed, HoldsShape
<1>10. ASSUME NEW f \in Sources, Sound(f), Together(f) PROVE Together(f)'
  <2>1. config.from = f /\ loader[l].of = f
    BY <1>1, <1>10, SetAlready DEF Together, OnlyHolds
  <2>2. ~odd
    BY <1>1, <2>1 DEF odd
  <2>3. ASSUME NEW k \in Loader PROVE OnlyHolds(k, f)' /\ GivesUpQuietly(k)'
    BY <1>4, <1>10, <2>2 DEF Together, OnlyHolds, GivesUpQuietly
  <2>4. \A j, k \in Loader : AreReloads(j, k)'
    BY <1>1, <1>4, <1>10, ReloadsStay DEF Together, Loading
  <2>5. IsFrom(f)'
    BY <1>5, <1>6, <2>1, <2>2 DEF IsFrom
  <2>6. \A i \in DOMAIN f.tools : StillSets(l, i)'
    BY <1>4, <2>2 DEF StillSets
  <2>7. \A i \in DOMAIN f.tools : IsOrWillBe(f, i)'
    BY <2>6 DEF IsOrWillBe
  <2> QED
    BY <2>3, <2>4, <2>5, <2>7 DEF Together
<1> QED
  BY <1>7, <1>8, <1>9, <1>10 DEF ConfigWellFormed, KeepsTogether

LEMMA ReadToolsKeeps ==
    ASSUME ConfigWellFormed, NEW l \in Loader, ReadTools(l)
    PROVE  ConfigWellFormed' /\ KeepsTogether
<1>1. /\ loader \in [Loader -> Loads] /\ loader[l] \in Loads /\ DefaultFile \in Sources
      /\ loader[l].phase = "put" /\ loader[l].at = 1
      /\ config # NoConfig /\ config \in Configs /\ config.from \in Sources
  BY DEF ConfigWellFormed, ConfigTypeOK, Loads, Configs, Sources, HoldsShape, ReadTools
<1>2. /\ UNCHANGED <<file, config, manager, tools, latest, context, round>>
      /\ \/ config.kind = "raw" /\ Moves(l, "failed", DefaultFile)
         \/ config.from.kind = "object" /\ Moves(l, "tools", config.from)
  BY <1>1 DEF ReadTools, ConfigWellFormed, ConfigShaped, Configs, Shapely
<1>3. /\ loader' \in [Loader -> Loads]
      /\ \/ config.kind = "raw" /\ loader'[l].phase = "failed"
         \/ /\ config.from.kind = "object"
            /\ loader'[l].phase = "tools" /\ loader'[l].of = config.from
      /\ loader'[l].for = loader[l].for /\ loader'[l].at = 1
      /\ \A k \in Loader : k # l => loader'[k] = loader[k]
  BY <1>1, <1>2, MovesProperties DEF Phases
<1>4. ConfigTypeOK' /\ ConfigShaped'
  BY <1>2, <1>3 DEF ConfigWellFormed, ConfigTypeOK, ConfigShaped
<1>5. ASSUME NEW k \in Loader PROVE HoldsShape(k)'
  BY <1>1, <1>2, <1>3 DEF ConfigWellFormed, HoldsShape
<1>6. ASSUME NEW f \in Sources, Sound(f), Together(f) PROVE Together(f)'
  <2>1. /\ config.from = f /\ config.agent = f
        /\ config.kind = "raw" => \E k \in Loader : loader[k].phase \in {"raw", "agent"}
    BY <1>1, <1>6, SetAlready
  (* Who finds it raw gives up, and who made it raw is another reload.     *)
  <2>2. ASSUME config.kind = "raw"
        PROVE  /\ loader[l].for = "reload"
               /\ \E k \in Loader : loader'[k].phase \in {"raw", "agent"}
    <3>1. PICK k \in Loader : loader[k].phase \in {"raw", "agent"}
      BY <2>1, <2>2
    <3>2. k # l /\ Loading(k) /\ Loading(l)
      BY <1>1, <3>1 DEF Loading
    <3> QED
      BY <1>3, <1>6, <3>1, <3>2 DEF Together, AreReloads
  <2>3. ASSUME NEW k \in Loader PROVE OnlyHolds(k, f)' /\ GivesUpQuietly(k)'
    BY <1>3, <1>6, <2>1, <2>2 DEF Together, OnlyHolds, GivesUpQuietly
  <2>4. \A j, k \in Loader : AreReloads(j, k)'
    BY <1>1, <1>3, <1>6, ReloadsStay DEF Together, Loading
  <2>5. IsFrom(f)'
    BY <1>1, <1>2, <2>1, <2>2 DEF IsFrom
  <2>6. f.kind = "object" /\ \A i \in DOMAIN f.tools : 1 <= i
    BY <1>6, SourceProperties DEF Sound, Shapely
  <2>7. ASSUME NEW i \in DOMAIN f.tools PROVE \E k \in Loader : StillSets(k, i)'
    <3>1. CASE loader'[l].phase = "tools"
      BY <1>3, <2>6, <3>1 DEF StillSets
    <3>2. CASE config.kind = "raw"
      BY <2>2, <3>2 DEF StillSets
    <3> QED
      BY <1>3, <3>1, <3>2
  <2>8. \A i \in DOMAIN f.tools : IsOrWillBe(f, i)'
    BY <2>7 DEF IsOrWillBe
  <2> QED
    BY <2>3, <2>4, <2>5, <2>8 DEF Together
<1> QED
  BY <1>4, <1>5, <1>6 DEF ConfigWellFormed, KeepsTogether

LEMMA ApplyEntryKeeps ==
    ASSUME ConfigWellFormed, NEW l \in Loader, ApplyEntry(l)
    PROVE  ConfigWellFormed' /\ KeepsTogether
<1>1. /\ loader \in [Loader -> Loads] /\ loader[l] \in Loads /\ DefaultFile \in Sources
      /\ loader[l].phase = "tools" /\ loader[l].at \in Nat \ {0} /\ loader[l].at \in DOMAIN Listed(l)
      /\ loader[l].of \in Sources /\ loader[l].of.kind = "object" /\ config # NoConfig
  BY DEF ConfigWellFormed, ConfigTypeOK, Loads, Sources, HoldsShape, ApplyEntry
<1>2. PICK entry : entry = Listed(l)[loader[l].at]
  OBVIOUS
<1>3. UNCHANGED <<file, config, manager, latest, context, round>>
  BY DEF ApplyEntry
<1>4. /\ tools' \in Registries
      /\ \A t \in Tool : t # entry.name => tools'[t] = tools[t]
      /\ (entry.name \in Tool => entry.set.odd = "no") =>
            Matches(entry)' /\ loader' = [loader EXCEPT ![l].at = @ + 1]
  BY <1>2, ApplyEntryProperties
<1>5. \/ Moves(l, "failed", DefaultFile)
      \/ loader' = [loader EXCEPT ![l].at = @ + 1]
  BY DEF ApplyEntry
<1>6. /\ loader' \in [Loader -> Loads] /\ loader'[l].for = loader[l].for
      /\ loader'[l].phase = "failed" \/ (loader'[l].phase = "tools" /\ loader'[l].of = loader[l].of)
      /\ \A k \in Loader : k # l => loader'[k] = loader[k]
  <2>1. CASE Moves(l, "failed", DefaultFile)
    BY <1>1, <2>1, MovesProperties DEF Phases
  <2>2. CASE loader' = [loader EXCEPT ![l].at = @ + 1]
    <3>1. [loader[l] EXCEPT !.at = @ + 1] \in Loads
      BY <1>1 DEF Loads
    <3>2. loader' = [loader EXCEPT ![l] = [loader[l] EXCEPT !.at = @ + 1]]
      BY <2>2
    <3> QED
      BY <1>1, <3>1, <3>2 DEF Loads
  <2> QED
    BY <1>5, <2>1, <2>2
<1>7. ConfigTypeOK'
  BY <1>3, <1>4, <1>6 DEF ConfigWellFormed, ConfigTypeOK, Registries
<1>8. ConfigShaped'
  BY <1>3 DEF ConfigWellFormed, ConfigShaped
<1>9. ASSUME NEW k \in Loader PROVE HoldsShape(k)'
  BY <1>1, <1>3, <1>6 DEF ConfigWellFormed, HoldsShape
<1>10. ASSUME NEW f \in Sources, Sound(f), Together(f) PROVE Together(f)'
  <2>1. loader[l].of = f /\ f.kind = "object" /\ entry = f.tools[loader[l].at] /\ loader[l].at \in DOMAIN f.tools
    BY <1>1, <1>2, <1>10 DEF Together, OnlyHolds, Listed
  <2>2. entry.name \in Tool => entry.set.odd = "no"
    BY <1>10, <2>1 DEF Sound
  <2>3. /\ Matches(entry)' /\ loader'[l].at = loader[l].at + 1
        /\ loader'[l].phase = "tools" /\ loader'[l].of = f
    <3>1. Matches(entry)' /\ loader' = [loader EXCEPT ![l].at = @ + 1]
      BY <1>4, <2>2
    <3>2. loader'[l] = [loader[l] EXCEPT !.at = @ + 1]
      BY <1>1, <3>1
    <3> QED
      BY <1>1, <2>1, <3>1, <3>2 DEF Loads
  <2>4. ASSUME NEW k \in Loader PROVE OnlyHolds(k, f)' /\ GivesUpQuietly(k)'
    BY <1>6, <1>10, <2>3 DEF Together, OnlyHolds, GivesUpQuietly
  <2>5. \A j, k \in Loader : AreReloads(j, k)'
    BY <1>1, <1>6, <1>10, ReloadsStay DEF Together, Loading
  <2>6. IsFrom(f)'
    <3>1. /\ config # NoConfig /\ config.from = f /\ config.agent = f
          /\ config.kind = "raw" => \E k \in Loader : loader[k].phase \in {"raw", "agent"}
      BY <1>1, <1>10, SetAlready
    <3>2. \A k \in Loader : loader[k].phase \in {"raw", "agent"} => loader'[k] = loader[k]
      BY <1>1, <1>6
    <3> QED
      BY <1>3, <3>1, <3>2 DEF IsFrom
  <2>7. ASSUME NEW i \in DOMAIN f.tools PROVE IsOrWillBe(f, i)'
    <3>1. /\ DOMAIN f.tools = 1 .. Len(f.tools) /\ Len(f.tools) \in Nat
          /\ \A j \in DOMAIN f.tools : f.tools[j].name = entry.name => j = loader[l].at
      BY <2>1, SourceProperties
    <3>2. CASE i = loader[l].at
      BY <2>1, <2>3, <3>2 DEF IsOrWillBe
    <3>3. CASE i # loader[l].at /\ Matches(f.tools[i])
      BY <1>4, <3>1, <3>3 DEF IsOrWillBe, Matches
    <3>4. CASE i # loader[l].at /\ \E k \in Loader : StillSets(k, i)
      <4>1. PICK k \in Loader : StillSets(k, i)
        BY <3>4
      <4>2. StillSets(k, i)'
        BY <1>1, <1>6, <2>3, <3>1, <3>4, <4>1 DEF StillSets
      <4> QED
        BY <4>2 DEF IsOrWillBe
    <3> QED
      BY <1>10, <3>2, <3>3, <3>4 DEF Together, IsOrWillBe
  <2> QED
    BY <2>4, <2>5, <2>6, <2>7 DEF Together
<1> QED
  BY <1>7, <1>8, <1>9, <1>10 DEF ConfigWellFormed, KeepsTogether

LEMMA EndLoadKeeps ==
    ASSUME ConfigWellFormed, NEW l \in Loader, EndLoad(l)
    PROVE  ConfigWellFormed' /\ KeepsTogether
<1> DEFINE odd == config.kind = "raw" /\ ~(Shapely(config.from)
                                          /\ DOMAIN config.agent.budget \cap {"n", "dict"} # {})
           gives == loader[l].for # "reload" /\ odd
<1>1. /\ loader \in [Loader -> Loads] /\ loader[l] \in Loads /\ DefaultFile \in Sources /\ Idle \in Loads
      /\ loader[l].phase = "tools" /\ loader[l].at \in Nat \ {0}
      /\ loader[l].of \in Sources /\ loader[l].of.kind = "object"
      /\ config # NoConfig /\ config \in Configs /\ config.agent \in Sources /\ manager \in Managers
  BY DEF ConfigWellFormed, ConfigTypeOK, Loads, Configs, Sources, Idle, HoldsShape, EndLoad
<1>2. ~odd => config.agent.kind = "object"
  BY <1>1 DEF ConfigWellFormed, ConfigShaped, Configs, Shapely
<1>3. /\ UNCHANGED <<file, config, tools, latest, context, round>>
      /\ gives => Moves(l, "failed", DefaultFile) /\ UNCHANGED manager
      /\ ~gives => /\ loader' = [loader EXCEPT ![l] = Idle]
                   /\ manager' = IF loader[l].for = "reload" THEN manager ELSE Budget(config.agent)
      /\ loader[l].at \notin DOMAIN loader[l].of.tools
  BY DEF EndLoad, Listed
<1>4. manager' \in Managers
  BY <1>1, <1>2, <1>3, BudgetType
<1>5. gives => loader[l].for # "reload" /\ config.kind = "raw"
  OBVIOUS
<1> HIDE DEF odd, gives
<1>6. /\ loader' \in [Loader -> Loads]
      /\ gives => loader'[l].phase = "failed" /\ loader'[l].for = loader[l].for
      /\ ~gives => loader'[l] = Idle
      /\ \A k \in Loader : k # l => loader'[k] = loader[k]
  <2>1. CASE gives
    BY <1>1, <1>3, <2>1, MovesProperties DEF Phases
  <2>2. CASE ~gives
    BY <1>1, <1>3, <2>2
  <2> QED
    BY <2>1, <2>2
<1>7. loader'[l].phase \in {"idle", "failed"} /\ (~Loading(l)' \/ loader'[l].for = loader[l].for)
  BY <1>6 DEF Idle, Loading
<1>8. ConfigTypeOK' /\ ConfigShaped'
  BY <1>3, <1>4, <1>6 DEF ConfigWellFormed, ConfigTypeOK, ConfigShaped
<1>9. ASSUME NEW k \in Loader PROVE HoldsShape(k)'
  BY <1>3, <1>6, <1>7 DEF ConfigWellFormed, HoldsShape
<1>10. ASSUME NEW f \in Sources, Sound(f), Together(f) PROVE Together(f)'
  <2>1. /\ config.from = f /\ config.agent = f
        /\ config.kind = "raw" => \E k \in Loader : loader[k].phase \in {"raw", "agent"}
    BY <1>1, <1>10, SetAlready
  (* Only who runs alone builds the manager, and so it finds nothing raw.  *)
  <2>2. ~gives
    <3>1. SUFFICES ASSUME gives PROVE FALSE
      OBVIOUS
    <3>2. PICK k \in Loader : loader[k].phase \in {"raw", "agent"}
      BY <1>5, <2>1, <3>1
    <3>3. k # l /\ Loading(k) /\ Loading(l)
      BY <1>1, <3>2 DEF Loading
    <3> QED
      BY <1>5, <1>10, <3>1, <3>3 DEF Together, AreReloads
  <2>3. ASSUME NEW k \in Loader PROVE OnlyHolds(k, f)' /\ GivesUpQuietly(k)'
    BY <1>6, <1>10, <2>2 DEF Together, OnlyHolds, GivesUpQuietly, Idle
  <2>4. \A j, k \in Loader : AreReloads(j, k)'
    BY <1>1, <1>6, <1>7, <1>10, ReloadsStay DEF Together, Loading
  <2>5. IsFrom(f)'
    <3>1. \A k \in Loader : loader[k].phase \in {"raw", "agent"} => loader'[k] = loader[k]
      BY <1>1, <1>6
    <3> QED
      BY <1>1, <1>3, <2>1, <3>1 DEF IsFrom
  <2>6. ASSUME NEW i \in DOMAIN f.tools PROVE ~StillSets(l, i)
    <3>1. loader[l].of = f /\ f.kind = "object"
      BY <1>1, <1>10 DEF Together, OnlyHolds
    <3>2. DOMAIN f.tools = 1 .. Len(f.tools) /\ Len(f.tools) \in Nat
      BY <3>1, SourceProperties
    <3> QED
      BY <1>1, <1>3, <3>1, <3>2 DEF StillSets
  <2>7. \A i \in DOMAIN f.tools : IsOrWillBe(f, i)'
    BY <1>3, <1>6, <1>10, <2>6, EntriesStay DEF Together
  <2> QED
    BY <2>3, <2>4, <2>5, <2>7 DEF Together
<1> QED
  BY <1>8, <1>9, <1>10 DEF ConfigWellFormed, KeepsTogether

LEMMA FailLoadKeeps ==
    ASSUME ConfigWellFormed, NEW l \in Loader, FailLoad(l)
    PROVE  ConfigWellFormed' /\ KeepsTogether
<1>1. /\ loader \in [Loader -> Loads] /\ DefaultFile \in Sources /\ Idle \in Loads
      /\ loader[l].phase = "failed" /\ manager \in Managers /\ OrDefaults \in Managers
  BY ConfigAssumption
     DEF ConfigWellFormed, ConfigTypeOK, Loads, Sources, Idle, FailLoad, OrDefaults
<1>2. /\ loader' = [loader EXCEPT ![l] = Idle] /\ UNCHANGED <<file, tools, latest, context, round>>
      /\ loader[l].for = "reload" => UNCHANGED <<config, manager>>
      /\ loader[l].for # "reload" => config' = Normal(DefaultFile) /\ manager' = OrDefaults
  BY DEF FailLoad
<1>3. /\ loader' \in [Loader -> Loads] /\ loader'[l].phase = "idle"
      /\ \A k \in Loader : k # l => loader'[k] = loader[k]
  BY <1>1, <1>2 DEF Idle
<1>4. /\ Normal(DefaultFile) \in Configs /\ Normal(DefaultFile).kind = "normal"
      /\ Normal(DefaultFile).from = DefaultFile /\ Normal(DefaultFile).agent = DefaultFile
      /\ DefaultFile.kind = "object"
  BY <1>1 DEF Normal, Configs, DefaultFile, Object
<1>5. ConfigTypeOK'
  BY <1>1, <1>2, <1>3, <1>4 DEF ConfigWellFormed, ConfigTypeOK
<1>6. ConfigShaped'
  BY <1>2, <1>4 DEF ConfigWellFormed, ConfigShaped
<1>7. config # NoConfig => config' # NoConfig
  BY <1>2, <1>4 DEF NoConfig
<1>8. ASSUME NEW k \in Loader PROVE HoldsShape(k)'
  BY <1>3, <1>7 DEF ConfigWellFormed, HoldsShape
<1>9. ASSUME NEW f \in Sources, Sound(f), Together(f) PROVE Together(f)'
  <2>1. UNCHANGED config
    BY <1>1, <1>2, <1>9 DEF Together, GivesUpQuietly
  <2>2. /\ config # NoConfig /\ config.from = f /\ config.agent = f
        /\ config.kind = "raw" => \E k \in Loader : loader[k].phase \in {"raw", "agent"}
    BY <1>1, <1>9, SetAlready
  <2>3. ASSUME NEW k \in Loader PROVE OnlyHolds(k, f)' /\ GivesUpQuietly(k)'
    BY <1>3, <1>9 DEF Together, OnlyHolds, GivesUpQuietly
  <2>4. \A j, k \in Loader : AreReloads(j, k)'
    BY <1>1, <1>3, <1>9, ReloadsStay DEF Together, Loading
  <2>5. IsFrom(f)'
    <3>1. \A k \in Loader : loader[k].phase \in {"raw", "agent"} => loader'[k] = loader[k]
      BY <1>1, <1>3
    <3> QED
      BY <2>1, <2>2, <3>1 DEF IsFrom
  <2>6. \A i \in DOMAIN f.tools : ~StillSets(l, i)
    BY <1>1 DEF StillSets
  <2>7. \A i \in DOMAIN f.tools : IsOrWillBe(f, i)'
    BY <1>2, <1>3, <1>9, <2>6, EntriesStay DEF Together
  <2> QED
    BY <2>3, <2>4, <2>5, <2>7 DEF Together
<1> QED
  BY <1>5, <1>6, <1>8, <1>9 DEF ConfigWellFormed, KeepsTogether

LEMMA LoadStepKeeps ==
    ASSUME ConfigWellFormed, NEW l \in Loader, LoadStep(l)
    PROVE  ConfigWellFormed' /\ KeepsTogether
  BY SetConfigKeeps, ReadAgentKeeps, PutAgentKeeps, ReadToolsKeeps, ApplyEntryKeeps, EndLoadKeeps,
     FailLoadKeeps DEF LoadStep

(* A load begins alone, or is a reload of what the others reload too.      *)
LEMMA BeginKeeps ==
    ASSUME ConfigIInv, NEW l \in Loader, NEW for \in {"start", "get", "reload"}, Begin(l, for)
    PROVE  ConfigIInv'
<1>1. /\ ConfigWellFormed'
      /\ loader'[l].phase \in {"read", "failed"} /\ loader'[l].for = for /\ loader'[l].at = 1
      /\ loader'[l].phase = "read" => loader'[l].of = file
      /\ file.kind = "object" => loader'[l].phase = "read"
      /\ \A k \in Loader : k # l => loader'[k] = loader[k]
  BY BeginProperties DEF ConfigIInv
<1>2. /\ UNCHANGED <<file, config, manager, tools, context, round>> /\ ~Loading(l)
      /\ latest' = IF Agreeing(for) THEN [agreed |-> TRUE, of |-> file] ELSE Disagreed
  BY DEF Begin
<1>3. NewestAppended'
  BY <1>2 DEF ConfigIInv, NewestAppended
<1>4. PICK f : f = file
  OBVIOUS
<1>5. ASSUME latest'.agreed, Sound(latest.of)' PROVE Together(f)'
  <2>1. Agreeing(for) /\ latest'.of = f
    BY <1>2, <1>4, <1>5 DEF Disagreed
  <2>2. Sound(f)
    BY <1>5, <2>1 DEF Sound, Shapely
  <2>3. loader'[l].phase = "read" /\ loader'[l].of = f
    BY <1>1, <1>4, <2>2 DEF Sound, Shapely
  <2>4. \A i : StillSets(l, i)'
    BY <2>3 DEF StillSets
  <2>5. \A i \in DOMAIN f.tools : IsOrWillBe(f, i)'
    BY <2>4 DEF IsOrWillBe
  <2>6. CASE \A k \in Loader : ~Loading(k)
    <3>1. \A k \in Loader : k # l => loader'[k].phase = "idle"
      BY <1>1, <2>6 DEF Loading
    <3>2. ASSUME NEW k \in Loader PROVE OnlyHolds(k, f)' /\ GivesUpQuietly(k)'
      BY <2>3, <3>1 DEF OnlyHolds, GivesUpQuietly
    <3>3. ASSUME NEW j \in Loader, NEW k \in Loader PROVE AreReloads(j, k)'
      BY <3>1 DEF AreReloads, Loading
    <3>4. AllReading'
      BY <2>3, <3>1 DEF AllReading, Loading
    <3> QED
      BY <2>5, <3>2, <3>3, <3>4 DEF Together, IsFrom
  <2>7. CASE \E k \in Loader : Loading(k)
    <3>1. latest.agreed /\ latest.of = f /\ for = "reload"
          /\ \A k \in Loader : Loading(k) => loader[k].for = "reload"
      BY <1>4, <2>1, <2>7 DEF Agreeing
    <3>2. Together(f)
      BY <2>2, <3>1 DEF ConfigIInv
    <3>3. ASSUME NEW k \in Loader PROVE OnlyHolds(k, f)' /\ GivesUpQuietly(k)'
      BY <1>1, <2>3, <3>2 DEF Together, OnlyHolds, GivesUpQuietly
    <3>4. ASSUME NEW j \in Loader, NEW k \in Loader PROVE AreReloads(j, k)'
      BY <1>1, <3>1 DEF AreReloads, Loading
    <3>5. IsFrom(f)'
      <4>1. ASSUME AllReading PROVE AllReading'
        BY <1>1, <2>3, <4>1 DEF AllReading, Loading
      <4>2. \A k \in Loader : loader[k].phase \in {"raw", "agent"} => loader'[k] = loader[k]
        BY <1>1, <1>2 DEF Loading
      <4> QED
        BY <1>2, <3>2, <4>1, <4>2 DEF Together, IsFrom
    <3> QED
      BY <2>5, <3>3, <3>4, <3>5 DEF Together
  <2> QED
    BY <2>6, <2>7
<1>6. ASSUME latest'.agreed, Sound(latest.of)' PROVE Together(latest.of)'
  <2>1. latest'.of = f
    BY <1>2, <1>4, <1>6 DEF Disagreed
  <2> QED
    BY <1>5, <1>6, <2>1 DEF Together, OnlyHolds, IsFrom, IsOrWillBe, Matches
<1> QED
  BY <1>1, <1>3, <1>6 DEF ConfigIInv

(* What does not touch the configuration or the loads.                     *)
LEMMA ApartFromLoads ==
    ASSUME ConfigIInv, UNCHANGED <<config, tools, loader, latest>>, ConfigTypeOK', NewestAppended'
    PROVE  ConfigIInv'
<1>1. ConfigShaped' /\ \A l \in Loader : HoldsShape(l)'
  BY DEF ConfigIInv, ConfigWellFormed, ConfigShaped, HoldsShape
<1>2. (latest.agreed /\ Sound(latest.of) => Together(latest.of))'
  BY DEF ConfigIInv, Sound, Shapely, Together, OnlyHolds, GivesUpQuietly, AreReloads, IsFrom, IsOrWillBe,
     Matches, StillSets, AllReading, Loading
<1> QED
  BY <1>1, <1>2 DEF ConfigIInv, ConfigWellFormed

(* A round of tools appends what the manager leaves of its results.        *)
LEMMA RoundKeepsConfig ==
    ASSUME ConfigIInv, NEW results \in Batches, ToolRound(results)
    PROVE  ConfigIInv'
<1> DEFINE fits == manager = NoManager \/ Fits(manager, results, context)
           taken == IF fits THEN results ELSE Truncate(manager, results)
<1>1. /\ results \in Results /\ manager \in Managers /\ context \in Nat /\ round \in Rounds
      /\ round.n + 1 \in 0 .. MaxRounds /\ Header \in Nat /\ ConfigTypeOK
  <2>1. results \in Results /\ Header \in Nat /\ MaxRounds \in Nat
    BY ConfigAssumption
  <2>2. manager \in Managers /\ context \in Nat /\ round \in Rounds /\ round.n < MaxRounds
    BY DEF ConfigIInv, ConfigWellFormed, ConfigTypeOK, Rounds, ToolRound
  <2> QED
    BY <2>1, <2>2 DEF Rounds, ConfigIInv, ConfigWellFormed
<1>2. taken \in Results /\ (taken # results => LongestSuffix(manager, results, taken))
  BY <1>1, TruncateProperties
<1>3. UNCHANGED <<file, config, manager, tools, loader, latest>>
  BY DEF ToolRound
<1>4. ASSUME round' \in Rounds, context' \in Nat PROVE ConfigTypeOK'
  BY <1>1, <1>3, <1>4 DEF ConfigTypeOK, Rounds
<1>5. CASE round' = [round EXCEPT !.n = @ + 1, !.over = TRUE] /\ UNCHANGED context
  <2>1. round' \in Rounds /\ round'.over
    BY <1>1, <1>5 DEF Rounds
  <2>2. NewestAppended'
    BY <2>1 DEF NewestAppended
  <2> QED
    BY <1>1, <1>3, <1>4, <1>5, <2>1, <2>2, ApartFromLoads
<1>6. CASE /\ round' = [calls |-> TRUE, n |-> round.n + 1, over |-> FALSE,
                        returned |-> results, appended |-> taken, by |-> manager]
           /\ context' = context + Cost(taken) + Header * Len(taken) + Noticed(taken, results)
  <2> HIDE DEF fits, taken
  <2>1. round' \in Rounds
    BY <1>1, <1>2, <1>6 DEF Rounds
  <2>2. context' \in Nat
    <3>1. Len(taken) \in Nat
      BY <1>2 DEF Results
    <3>2. Cost(taken) \in Nat
      BY <1>2, <3>1, CostsProperties DEF Cost
    <3>3. Header * Len(taken) \in Nat
      BY <1>1, <3>1
    <3>4. Noticed(taken, results) \in Nat
      BY BudgetAssumption DEF Noticed
    <3> QED
      BY <1>1, <1>6, <3>2, <3>3, <3>4
  <2>3. NewestAppended'
    <3>1. round'.appended = taken /\ round'.returned = results /\ round'.by = manager
      BY <1>6
    <3> QED
      BY <1>2, <3>1 DEF NewestAppended, LongestSuffix
  <2> QED
    BY <1>3, <1>4, <2>1, <2>2, <2>3, ApartFromLoads
<1> QED
  BY <1>5, <1>6 DEF ToolRound

LEMMA ConfigNextKeeps == ConfigIInv /\ [ConfigNext]_configVars => ConfigIInv'
<1> SUFFICES ASSUME ConfigIInv, [ConfigNext]_configVars
             PROVE  ConfigIInv'
  OBVIOUS
<1>1. NoManager \in Managers /\ NoRound \in Rounds /\ NoRound.n = 0 /\ Registered \in Registries
  BY ConfigAssumption DEF NoManager, Managers, NoRound, Rounds, Results, Registered, Registries
<1>2. ConfigTypeOK /\ ConfigWellFormed /\ NewestAppended
  BY DEF ConfigIInv, ConfigWellFormed
<1>3. ASSUME NEW l \in Loader, LoadStep(l) PROVE ConfigIInv'
  <2>1. ConfigWellFormed' /\ KeepsTogether
    BY <1>2, <1>3, LoadStepKeeps
  <2>2. UNCHANGED <<latest, round>>
    BY <1>3 DEF LoadStep, SetConfig, ReadAgent, PutAgent, ReadTools, ApplyEntry, EndLoad, FailLoad
  <2>3. NewestAppended'
    BY <1>2, <2>2 DEF NewestAppended
  <2>4. ASSUME latest'.agreed, Sound(latest.of)' PROVE Together(latest.of)'
    <3>1. PICK f \in Sources : f = latest.of
      BY <1>2 DEF ConfigTypeOK
    <3>2. latest.agreed /\ Sound(f)
      BY <2>2, <2>4, <3>1 DEF Sound, Shapely
    <3>3. Together(f)
      BY <3>1, <3>2 DEF ConfigIInv
    <3>4. Together(f)' /\ latest'.of = f
      BY <2>1, <2>2, <3>1, <3>2, <3>3 DEF KeepsTogether
    <3> QED
      BY <3>4 DEF Together, OnlyHolds, IsFrom, IsOrWillBe, Matches
  <2> QED
    BY <2>1, <2>3, <2>4 DEF ConfigIInv
<1>4. ASSUME NEW l \in Loader, NEW for \in {"start", "get", "reload"}, Begin(l, for) PROVE ConfigIInv'
  BY <1>4, BeginKeeps
<1>5. CASE Restart
  <2>1. Idle \in Loads /\ Idle.phase = "idle" /\ Disagreed \in [agreed : BOOLEAN, of : Sources]
        /\ ~Disagreed.agreed
    BY DEF Idle, Loads, Disagreed, Sources
  <2>2. ConfigTypeOK'
    BY <1>1, <1>2, <1>5, <2>1 DEF Restart, ConfigTypeOK, Rounds, Registries
  <2>3. ConfigShaped' /\ NewestAppended' /\ (\A l \in Loader : HoldsShape(l)') /\ ~latest'.agreed
    BY <1>1, <1>5, <2>1 DEF Restart, ConfigShaped, NewestAppended, HoldsShape
  <2> QED
    BY <2>2, <2>3 DEF ConfigIInv, ConfigWellFormed
<1>6. CASE TurnStarts
  <2>1. [NoRound EXCEPT !.calls = Calling] \in Rounds
    BY <1>1 DEF Rounds, Calling
  <2>2. ConfigTypeOK' /\ NewestAppended'
    BY <1>1, <1>2, <1>6, <2>1 DEF TurnStarts, ConfigTypeOK, NewestAppended, Rounds
  <2> QED
    BY <1>6, <2>2, ApartFromLoads DEF TurnStarts
<1>7. ASSUME NEW f \in Files, Edit(f) PROVE ConfigIInv'
  <2>1. ConfigTypeOK' /\ NewestAppended'
    BY <1>2, <1>7 DEF Edit, ConfigTypeOK, NewestAppended
  <2> QED
    BY <1>7, <2>1, ApartFromLoads DEF Edit
<1>8. ASSUME NEW results \in Batches, ToolRound(results) PROVE ConfigIInv'
  BY <1>8, RoundKeepsConfig
<1>9. CASE UNCHANGED configVars
  <2>1. ConfigTypeOK' /\ NewestAppended'
    BY <1>2, <1>9 DEF configVars, ConfigTypeOK, NewestAppended
  <2> QED
    BY <1>9, <2>1, ApartFromLoads DEF configVars
<1> QED
  BY <1>3, <1>4, <1>5, <1>6, <1>7, <1>8, <1>9 DEF ConfigNext

(* When no load is under way, nobody is left who could still set anything. *)
LEMMA ConfigIInvImplies == ConfigIInv => ConfigEffective
<1> SUFFICES ASSUME ConfigIInv PROVE ConfigEffective
  OBVIOUS
<1>1. ConfigTypeOK /\ NewestAppended
  BY DEF ConfigIInv, ConfigWellFormed
<1>2. ASSUME latest.agreed, Sound(latest.of), \A l \in Loader : ~Loading(l)
      PROVE  /\ config = Normal(latest.of)
             /\ \A i \in DOMAIN latest.of.tools : Matches(latest.of.tools[i])
  <2>1. Together(latest.of)
    BY <1>2 DEF ConfigIInv
  <2>2. \A l \in Loader : loader[l].phase = "idle"
    BY <1>2 DEF Loading
  <2>3. config # NoConfig /\ config.from = latest.of /\ config.agent = latest.of /\ config.kind # "raw"
    BY <1>2, <2>1, <2>2 DEF Together, IsFrom, AllReading
  <2>4. config = Normal(latest.of)
    BY <1>1, <2>3 DEF ConfigTypeOK, Configs, Normal
  <2>5. \A i \in DOMAIN latest.of.tools : Matches(latest.of.tools[i])
    BY <2>1, <2>2 DEF Together, IsOrWillBe, StillSets
  <2> QED
    BY <2>4, <2>5
<1> QED
  BY <1>1, <1>2 DEF ConfigEffective, ToolsAsLoaded

(* For all files, edited and read again by any number of overlapping loads *)
(* and turns: a load that runs alone, and reloads that overlap but agree   *)
(* on a file in which nothing is odd, leave the configuration and all the  *)
(* tools as that file says; and of the results of a round the newest go    *)
(* into the context, as many as the budget in force allows.                *)
THEOREM ConfigAlwaysEffective == ConfigSpec => []ConfigEffective
  BY ConfigIInvInit, ConfigNextKeeps, ConfigIInvImplies, PTL DEF ConfigSpec

-----------------------------------------------------------------------------
(***************************************************************************)
(* Ranking.  Orders are sets of pairs: how many are ahead of an element is *)
(* its place (SortedProperties).  A score is a sum over the lists, and     *)
(* what one list adds keeps whoever it ranks higher ahead (AddedOrder).    *)
(* Whoever is left once stands where he was first (OnceProperties), and so *)
(* a block stands where the best of its chunks was.                        *)
(***************************************************************************)
LEMMA LeastOf ==
    ASSUME NEW S \in SUBSET Nat, S # {}
    PROVE  Min(S) \in S /\ \A y \in S : Min(S) <= y
<1>1. PICK i \in S : \A j \in S : ~(<<j, i>> \in OpToRel(<, Nat))
  BY NatLessThanWellFounded, WFMin, Zenon
<1>2. \A j \in S : i <= j
  <2>1. \A j \in S : j \in Nat /\ i \in Nat
    OBVIOUS
  <2>2. \A j \in S : ~(j < i)
    BY <1>1, <2>1 DEF OpToRel
  <2> QED
    BY <2>1, <2>2
<1>3. \E x \in S : \A y \in S : x <= y
  BY <1>2
<1> QED
  BY <1>3, Zenon DEF Min

LEMMA LeastOfTwo ==
    ASSUME NEW a \in Nat, NEW b \in Nat
    PROVE  Min({a, b}) = IF a <= b THEN a ELSE b
<1>1. Min({a, b}) \in {a, b} /\ \A y \in {a, b} : Min({a, b}) <= y
  BY LeastOf
<1> QED
  BY <1>1

LEMMA AtMostProperties ==
    ASSUME NEW S, NEW s \in Seq(S), NEW n \in Nat
    PROVE  /\ AtMost(s, n) \in Seq(S)
           /\ Len(AtMost(s, n)) = Min({n, Len(s)})
           /\ Len(AtMost(s, n)) <= Len(s) /\ Len(AtMost(s, n)) <= n
           /\ \A i \in DOMAIN AtMost(s, n) : i \in DOMAIN s /\ AtMost(s, n)[i] = s[i]
           /\ \A i \in DOMAIN s : i <= n => i \in DOMAIN AtMost(s, n)
<1> DEFINE m == Min({n, Len(s)})
<1>1. m \in Nat /\ m <= n /\ m <= Len(s) /\ (m = n \/ m = Len(s))
  BY LeastOfTwo
<1>2. AtMost(s, n) = SubSeq(s, 1, m)
  BY DEF AtMost
<1> HIDE DEF m
<1>3. SubSeq(s, 1, m) = [i \in 1 .. m |-> s[i]]
  BY <1>1
<1>4. \A i \in 1 .. m : s[i] \in S
  BY <1>1
<1>5. SubSeq(s, 1, m) \in Seq(S) /\ Len(SubSeq(s, 1, m)) = m
  BY <1>1, <1>3, <1>4
<1>6. /\ DOMAIN AtMost(s, n) = 1 .. m /\ DOMAIN s = 1 .. Len(s) /\ Len(s) \in Nat
      /\ \A i \in 1 .. m : AtMost(s, n)[i] = s[i]
  <2>1. AtMost(s, n) = [i \in 1 .. m |-> s[i]]
    BY <1>2, <1>3, Zenon
  <2> QED
    BY <2>1
<1>7. /\ \A i \in 1 .. m : i \in 1 .. Len(s)
      /\ \A i \in 1 .. Len(s) : i <= n => i \in 1 .. m
  <2> DEFINE L == Len(s)
  <2>1. m \in Nat /\ L \in Nat /\ m <= n /\ m <= L /\ (m = n \/ m = L)
    BY <1>1, <1>6
  <2> HIDE DEF L
  <2>2. (\A i \in 1 .. m : i \in 1 .. L) /\ (\A i \in 1 .. L : i <= n => i \in 1 .. m)
    BY <2>1
  <2> QED
    BY <2>2 DEF L
<1> QED
  BY <1>1, <1>2, <1>5, <1>6, <1>7 DEF m

(* Each element is left where it was first.                                *)
LEMMA OnceProperties ==
    ASSUME NEW S, NEW s \in Seq(S)
    PROVE  /\ Once(s) \in Seq(S)
           /\ \E at \in [DOMAIN Once(s) -> DOMAIN s] :
                /\ \A n \in DOMAIN Once(s) :
                      /\ Once(s)[n] = s[at[n]]
                      /\ \A j \in DOMAIN s : j < at[n] => s[j] # s[at[n]]
                /\ \A n, m \in DOMAIN Once(s) : n < m => at[n] < at[m]
                /\ \A j \in DOMAIN s : \E n \in DOMAIN Once(s) : Once(s)[n] = s[j]
<1> DEFINE N == Len(s)
           places == {i \in DOMAIN s : \A j \in DOMAIN s : j < i => s[j] # s[i]}
           M == Cardinality(places)
<1>1. N \in Nat /\ DOMAIN s = 1 .. N /\ places \in SUBSET (1 .. N) /\ places \in SUBSET DOMAIN s
  OBVIOUS
<1>2. Once(s) = LeftAt(s, places)
  BY DEF Once
<1>3. \A i \in places, j \in DOMAIN s : i \in DOMAIN s /\ (j < i => s[j] # s[i])
  OBVIOUS
<1>4. ASSUME NEW j \in DOMAIN s
      PROVE  \E i \in places : s[i] = s[j]
  <2> DEFINE same == {i \in DOMAIN s : s[i] = s[j]}
  <2>1. same \in SUBSET Nat /\ same # {}
    BY <1>1
  <2>2. Min(same) \in same /\ \A y \in same : Min(same) <= y
    BY <2>1, LeastOf, Zenon
  <2>3. \A i \in DOMAIN s : i < Min(same) => i \notin same
    <3>1. \A i \in same : i \in Nat /\ Min(same) \in Nat /\ ~(i < Min(same))
      <4>1. \A i \in same : i \in Nat /\ Min(same) \in Nat /\ Min(same) <= i
        BY <2>1, <2>2
      <4> HIDE DEF same
      <4> QED
        BY <4>1
    <3> QED
      BY <3>1
  <2>4. Min(same) \in places
    BY <2>2, <2>3, Zenon
  <2> QED
    BY <2>2, <2>4
<1> HIDE DEF places, N
<1>5. PICK at \in [1 .. M -> places] :
         /\ \A t : LeftAt(t, places) = [n \in 1 .. M |-> t[at[n]]]
         /\ \A n, m \in 1 .. M : n < m => at[n] < at[m]
         /\ \A p \in places : \E n \in 1 .. M : at[n] = p
  BY <1>1, PlacesInOrder, Zenon
<1>6. Once(s) = [n \in 1 .. M |-> s[at[n]]]
  BY <1>2, <1>5
<1>7. Once(s) \in Seq(S)
  <2>1. LeftAt(s, places) \in Seq(S)
    BY <1>1, LeftAtProperties
  <2> QED
    BY <1>2, <2>1, Zenon
<1>8. DOMAIN Once(s) = 1 .. M /\ \A n \in 1 .. M : Once(s)[n] = s[at[n]]
  BY <1>6
<1> HIDE DEF M
<1>9. at \in [DOMAIN Once(s) -> DOMAIN s]
  BY <1>1, <1>8
<1>10. \A n \in 1 .. M : at[n] \in places
  OBVIOUS
<1>11. \A j \in DOMAIN s : \E n \in 1 .. M : Once(s)[n] = s[j]
  BY <1>4, <1>5, <1>8
<1>12. \A n \in 1 .. M, j \in DOMAIN s : j < at[n] => s[j] # s[at[n]]
  BY <1>3, <1>10
<1> QED
  BY <1>5, <1>7, <1>8, <1>9, <1>11, <1>12, Zenon

LEMMA OnceElements ==
    ASSUME NEW S, NEW s \in Seq(S)
    PROVE  IsInjective(Once(s)) /\ Range(Once(s)) = Range(s)
<1>1. PICK at \in [DOMAIN Once(s) -> DOMAIN s] :
        /\ \A n \in DOMAIN Once(s) :
              /\ Once(s)[n] = s[at[n]]
              /\ \A j \in DOMAIN s : j < at[n] => s[j] # s[at[n]]
        /\ \A n, m \in DOMAIN Once(s) : n < m => at[n] < at[m]
        /\ \A j \in DOMAIN s : \E n \in DOMAIN Once(s) : Once(s)[n] = s[j]
  BY OnceProperties
<1>2. Once(s) \in Seq(S)
  BY OnceProperties
<1>3. \A n, m \in DOMAIN Once(s) : n < m \/ m < n \/ n = m
  <2>1. Len(Once(s)) \in Nat /\ DOMAIN Once(s) = 1 .. Len(Once(s))
    BY <1>2
  <2> QED
    BY <2>1
<1>4. IsInjective(Once(s))
  <2>1. \A n, m \in DOMAIN Once(s) : n < m => Once(s)[n] # Once(s)[m]
    BY <1>1
  <2> QED
    BY <1>3, <2>1 DEF IsInjective
<1>5. Range(Once(s)) = Range(s)
  <2>1. Range(Once(s)) \subseteq Range(s)
    BY <1>1 DEF Range
  <2>2. Range(s) \subseteq Range(Once(s))
    BY <1>1 DEF Range
  <2> QED
    BY <2>1, <2>2
<1> QED
  BY <1>4, <1>5

(* An injective sequence is as long as it has elements.                    *)
LEMMA LengthOfInjective ==
    ASSUME NEW S, NEW s \in Seq(S), IsInjective(s)
    PROVE  Len(s) = Cardinality(Range(s))
<1>1. Len(s) \in Nat /\ DOMAIN s = 1 .. Len(s) /\ s \in [1 .. Len(s) -> Range(s)]
  BY DEF Range
<1> DEFINE N == Len(s)
<1> HIDE DEF N
<1>2. N \in Nat /\ DOMAIN s = 1 .. N /\ s \in [1 .. N -> Range(s)]
  BY <1>1 DEF N
<1>3. s \in Bijection(1 .. N, Range(s))
  BY <1>2 DEF Bijection, Injection, Surjection, IsInjective, Range
<1>4. IsFiniteSet(1 .. N) /\ Cardinality(1 .. N) = N
  BY <1>2, FS_Interval
<1>5. ExistsBijection(1 .. N, Range(s))
  BY <1>3 DEF ExistsBijection
<1>6. Cardinality(Range(s)) = Cardinality(1 .. N)
  BY <1>4, <1>5, FS_Bijection
<1> QED
  BY <1>4, <1>6 DEF N

(* No element is ahead of itself, of two one is, and what is ahead of the  *)
(* one ahead is ahead.                                                     *)
IsOrder(S, ahead) ==
    /\ \A c \in S : <<c, c>> \notin ahead
    /\ \A c, e \in S : c = e \/ <<c, e>> \in ahead \/ <<e, c>> \in ahead
    /\ \A c, e, x \in S : <<c, e>> \in ahead /\ <<e, x>> \in ahead => <<c, x>> \in ahead

(* How many are ahead of an element tells its place: different elements    *)
(* have different numbers, so every number is that of one.                 *)
LEMMA SortedProperties ==
    ASSUME NEW S, IsFiniteSet(S), NEW ahead, IsOrder(S, ahead)
    PROVE  /\ Sorted(S, ahead) \in Seq(S)
           /\ Len(Sorted(S, ahead)) = Cardinality(S)
           /\ IsInjective(Sorted(S, ahead)) /\ Range(Sorted(S, ahead)) = S
           /\ \A c, e \in S : <<c, e>> \in ahead => Before(Sorted(S, ahead), c, e)
<1> DEFINE N == Cardinality(S)
           front(c) == {e \in S : <<e, c>> \in ahead}
           rank == [c \in S |-> Cardinality(front(c))]
           sorted == Sorted(S, ahead)
<1>1. N \in Nat
  BY FS_CardinalityType
<1>2. \A c \in S : rank[c] = Cardinality(front(c))
  OBVIOUS
<1>3. \A c \in S : IsFiniteSet(front(c)) /\ rank[c] \in 0 .. N - 1
  <2> SUFFICES ASSUME NEW c \in S
               PROVE  IsFiniteSet(front(c)) /\ rank[c] \in 0 .. N - 1
    OBVIOUS
  <2>1. front(c) \in SUBSET S /\ c \notin front(c)
    BY DEF IsOrder
  <2>2. /\ IsFiniteSet(front(c)) /\ Cardinality(front(c)) <= N
        /\ Cardinality(front(c)) \in Nat /\ Cardinality(front(c)) # N
    BY <2>1, FS_Subset, FS_CardinalityType
  <2> HIDE DEF rank, front, N
  <2> QED
    BY <1>1, <1>2, <2>2
<1>4. ASSUME NEW c \in S, NEW e \in S, <<c, e>> \in ahead
      PROVE  rank[c] < rank[e]
  <2>1. front(c) \in SUBSET front(e) /\ c \in front(e) /\ c \notin front(c)
    BY <1>4, Zenon DEF IsOrder
  <2>2. /\ Cardinality(front(c)) <= Cardinality(front(e))
        /\ Cardinality(front(c)) # Cardinality(front(e))
    BY <1>3, <2>1, FS_Subset
  <2> HIDE DEF rank, front, N
  <2>3. rank[c] \in Int /\ rank[e] \in Int
    BY <1>1, <1>3
  <2> QED
    BY <1>2, <2>2, <2>3
<1> HIDE DEF front
<1>5. \A c, e \in S : rank[c] = rank[e] => c = e
  <2>1. \A c, e \in S : rank[c] < rank[e] => rank[c] # rank[e]
    <3>1. \A c \in S : rank[c] \in Int
      BY <1>1, <1>3
    <3> HIDE DEF rank
    <3> QED
      BY <3>1
  <2> HIDE DEF rank
  <2> QED
    BY <1>4, <2>1 DEF IsOrder
<1>6. rank \in [S -> 0 .. N - 1]
  BY <1>3
<1> HIDE DEF rank
<1>7. rank \in Injection(S, 0 .. N - 1)
  <2>1. DOMAIN rank = S
    BY <1>6
  <2> QED
    BY <1>5, <1>6, <2>1 DEF Injection, IsInjective
<1>8. IsFiniteSet(0 .. N - 1) /\ Cardinality(0 .. N - 1) = N
  <2> HIDE DEF N
  <2> QED
    BY <1>1, FS_Interval
<1>9. rank \in Surjection(S, 0 .. N - 1)
  BY <1>7, <1>8, FS_Injection
<1>10. \A i \in 1 .. N : \E c \in S : rank[c] = i - 1
  <2>1. \A i \in 1 .. N : i - 1 \in 0 .. N - 1
    BY <1>1
  <2> QED
    BY <1>9, <2>1 DEF Surjection
<1>11. /\ DOMAIN sorted = 1 .. N
       /\ \A i \in 1 .. N : sorted[i] = CHOOSE c \in S : Cardinality({e \in S : <<e, c>> \in ahead}) = i - 1
       /\ sorted = [i \in 1 .. N |-> sorted[i]]
  <2> DEFINE nth(i) == CHOOSE c \in S : Cardinality({e \in S : <<e, c>> \in ahead}) = i - 1
  <2>1. sorted = [i \in 1 .. N |-> nth(i)]
    BY Zenon DEF Sorted
  <2> HIDE DEF sorted, nth, N
  <2>2. /\ DOMAIN sorted = 1 .. N
        /\ \A i \in 1 .. N : sorted[i] = nth(i)
        /\ sorted = [i \in 1 .. N |-> sorted[i]]
    BY <2>1
  <2> QED
    BY <2>2, Zenon DEF nth
<1> HIDE DEF sorted
<1>12. \A i \in 1 .. N : sorted[i] \in S /\ rank[sorted[i]] = i - 1
  <2> SUFFICES ASSUME NEW i \in 1 .. N
               PROVE  sorted[i] \in S /\ rank[sorted[i]] = i - 1
    OBVIOUS
  <2>1. \E c \in S : Cardinality(front(c)) = i - 1
    BY <1>2, <1>10
  <2>2. sorted[i] = CHOOSE c \in S : Cardinality(front(c)) = i - 1
    BY <1>11, Zenon DEF front
  <2>3. sorted[i] \in S /\ Cardinality(front(sorted[i])) = i - 1
    BY <2>1, <2>2, Zenon
  <2> QED
    BY <1>2, <2>3
<1> HIDE DEF N
<1>13. sorted \in Seq(S) /\ Len(sorted) = N
  <2>1. sorted \in [1 .. N -> S]
    BY <1>11, <1>12
  <2> QED
    BY <1>1, <2>1
<1>14. \A c \in S : rank[c] + 1 \in 1 .. N /\ sorted[rank[c] + 1] = c
  <2> SUFFICES ASSUME NEW c \in S
               PROVE  rank[c] + 1 \in 1 .. N /\ sorted[rank[c] + 1] = c
    OBVIOUS
  <2>1. rank[c] + 1 \in 1 .. N /\ (rank[c] + 1) - 1 = rank[c]
    <3>1. rank[c] \in 0 .. N - 1
      BY <1>3
    <3> QED
      BY <1>1, <3>1
  <2>2. sorted[rank[c] + 1] \in S /\ rank[sorted[rank[c] + 1]] = rank[c]
    BY <1>12, <2>1
  <2> QED
    BY <1>5, <2>1, <2>2
<1>15. IsInjective(sorted)
  <2> SUFFICES ASSUME NEW i \in 1 .. N, NEW j \in 1 .. N, sorted[i] = sorted[j]
               PROVE  i = j
    BY <1>11 DEF IsInjective
  <2>1. i - 1 = j - 1
    BY <1>12
  <2> QED
    BY <1>1, <2>1
<1>16. Range(sorted) = S
  <2>1. Range(sorted) \subseteq S
    BY <1>11, <1>12 DEF Range
  <2>2. S \subseteq Range(sorted)
    BY <1>11, <1>14 DEF Range
  <2> QED
    BY <2>1, <2>2
<1>17. ASSUME NEW c \in S, NEW e \in S, <<c, e>> \in ahead
       PROVE  Before(sorted, c, e)
  <2>1. rank[c] < rank[e] /\ rank[c] \in 0 .. N - 1 /\ rank[e] \in 0 .. N - 1
    BY <1>3, <1>4, <1>17
  <2>2. rank[c] + 1 < rank[e] + 1
    BY <1>1, <2>1
  <2> QED
    BY <1>11, <1>14, <2>2 DEF Before
<1> QED
  BY <1>13, <1>15, <1>16, <1>17 DEF sorted, N

LEMMA SequenceOver ==
    ASSUME NEW S, NEW s \in Seq(S), NEW T, Range(s) \subseteq T
    PROVE  s \in Seq(T)
<1>1. Len(s) \in Nat /\ s \in [1 .. Len(s) -> S] /\ DOMAIN s = 1 .. Len(s)
  OBVIOUS
<1>2. \A i \in 1 .. Len(s) : s[i] \in T
  BY <1>1 DEF Range
<1>3. s \in [1 .. Len(s) -> T]
  BY <1>1, <1>2
<1> QED
  BY <1>1, <1>3

LEMMA InRangeType ==
    ASSUME NEW s \in Seq(Int), NEW n \in Nat
    PROVE  InRange(s, n) \in Seq(0 .. n - 1)
<1> DEFINE places == {i \in DOMAIN s : s[i] \in 0 .. n - 1}
<1>1. places \in SUBSET DOMAIN s /\ \A i \in places : s[i] \in 0 .. n - 1
  OBVIOUS
<1>2. InRange(s, n) = LeftAt(s, places)
  BY DEF InRange
<1> HIDE DEF places
<1>3. LeftAt(s, places) \in Seq(Int) /\ Range(LeftAt(s, places)) = {s[i] : i \in places}
  BY <1>1, LeftAtElements, Zenon
<1>4. Range(LeftAt(s, places)) \subseteq 0 .. n - 1
  BY <1>1, <1>3
<1> QED
  BY <1>2, <1>3, <1>4, SequenceOver, Zenon

(* Every candidate, each once.                                             *)
Complete(order, n) ==
    order \in Seq(0 .. n - 1) /\ IsInjective(order) /\ Range(order) = 0 .. n - 1

LEMMA BestOfComplete ==
    ASSUME NEW n \in Nat, NEW results \in Nat, NEW s, Complete(s, n)
    PROVE  /\ AtMost(s, results) \in Seq(0 .. n - 1)
           /\ IsInjective(AtMost(s, results))
           /\ Len(AtMost(s, results)) = Min({n, results})
<1> DEFINE S == 0 .. n - 1
<1>1. s \in Seq(S) /\ IsInjective(s) /\ Range(s) = S
  BY DEF Complete
<1>2. Len(s) = n
  <2>1. Cardinality(S) = n
    BY FS_Interval
  <2> HIDE DEF S
  <2> QED
    BY <1>1, <2>1, LengthOfInjective, Zenon
<1> HIDE DEF S
<1>3. /\ AtMost(s, results) \in Seq(S)
      /\ Len(AtMost(s, results)) = Min({results, Len(s)})
      /\ \A i \in DOMAIN AtMost(s, results) : i \in DOMAIN s /\ AtMost(s, results)[i] = s[i]
  BY <1>1, AtMostProperties, Zenon
<1>4. IsInjective(AtMost(s, results))
  BY <1>1, <1>3 DEF IsInjective
<1>5. {results, Len(s)} = {n, results}
  BY <1>2
<1> QED
  BY <1>3, <1>4, <1>5 DEF S

LEMMA IdentityComplete ==
    ASSUME NEW n \in Nat
    PROVE  Complete(Identity(n), n)
<1> DEFINE s == Identity(n)
<1>1. s = [i \in 1 .. n |-> i - 1]
  BY DEF Identity
<1>2. \A i \in 1 .. n : i - 1 \in 0 .. n - 1
  OBVIOUS
<1>3. s \in Seq(0 .. n - 1)
  BY <1>1, <1>2
<1>4. IsInjective(s)
  BY <1>1 DEF IsInjective
<1>5. \A x \in 0 .. n - 1 : x + 1 \in 1 .. n /\ (x + 1) - 1 = x
  OBVIOUS
<1>6. Range(s) = 0 .. n - 1
  <2>1. Range(s) = {i - 1 : i \in 1 .. n}
    BY <1>1 DEF Range
  <2>2. {i - 1 : i \in 1 .. n} = 0 .. n - 1
    BY <1>2, <1>5
  <2> QED
    BY <2>1, <2>2
<1> QED
  BY <1>3, <1>4, <1>6 DEF Complete

LEMMA RangeOfConcatenation ==
    ASSUME NEW S, NEW s \in Seq(S), NEW t \in Seq(S)
    PROVE  s \o t \in Seq(S) /\ Range(s \o t) = Range(s) \cup Range(t)
<1> DEFINE M == Len(s)
           N == Len(t)
<1>1. /\ M \in Nat /\ N \in Nat /\ s \o t \in Seq(S)
      /\ DOMAIN s = 1 .. M /\ DOMAIN t = 1 .. N /\ DOMAIN (s \o t) = 1 .. M + N
      /\ \A i \in 1 .. M + N : (s \o t)[i] = IF i <= M THEN s[i] ELSE t[i - M]
  OBVIOUS
<1> HIDE DEF M, N
<1>2. /\ \A i \in 1 .. M : i \in 1 .. M + N /\ i <= M
      /\ \A i \in 1 .. N : i + M \in 1 .. M + N /\ ~(i + M <= M) /\ (i + M) - M = i
      /\ \A i \in 1 .. M + N : i \in 1 .. M \/ (~(i <= M) /\ i - M \in 1 .. N)
  BY <1>1
<1>3. \A i \in 1 .. M : s[i] = (s \o t)[i]
  BY <1>1, <1>2
<1>4. \A i \in 1 .. N : t[i] = (s \o t)[i + M]
  BY <1>1, <1>2
<1>5. Range(s \o t) \subseteq Range(s) \cup Range(t)
  BY <1>1, <1>2 DEF Range
<1>6. Range(s) \cup Range(t) \subseteq Range(s \o t)
  <2>1. Range(s) \subseteq Range(s \o t)
    BY <1>1, <1>2, <1>3 DEF Range
  <2>2. Range(t) \subseteq Range(s \o t)
    <3>1. \A i \in DOMAIN t : i + M \in DOMAIN (s \o t) /\ t[i] = (s \o t)[i + M]
      BY <1>1, <1>2, <1>4
    <3> QED
      BY <3>1, Zenon DEF Range
  <2> QED
    BY <2>1, <2>2
<1> QED
  BY <1>1, <1>5, <1>6

LEMMA ParsedComplete ==
    ASSUME NEW named \in Seq(Nat), NEW n \in Nat
    PROVE  Complete(Once(InRange(named, n) \o Identity(n)), n)
<1> DEFINE S == 0 .. n - 1
           s == InRange(named, n)
           t == Identity(n)
<1>1. named \in Seq(Int)
  <2>1. \A i \in 1 .. Len(named) : named[i] \in Int
    OBVIOUS
  <2> QED
    BY <2>1
<1>2. s \in Seq(S)
  BY <1>1, InRangeType
<1>3. t \in Seq(S) /\ Range(t) = S
  BY IdentityComplete DEF Complete
<1> HIDE DEF S, s, t
<1>4. s \o t \in Seq(S) /\ Range(s \o t) = Range(s) \cup Range(t)
  BY <1>2, <1>3, RangeOfConcatenation, Zenon
<1>5. Range(s) \subseteq S
  BY <1>2 DEF Range
<1>6. Once(s \o t) \in Seq(S) /\ IsInjective(Once(s \o t)) /\ Range(Once(s \o t)) = Range(s \o t)
  BY <1>4, OnceProperties, OnceElements, Zenon
<1>7. Range(Once(s \o t)) = S
  BY <1>3, <1>4, <1>5, <1>6
<1> QED
  BY <1>6, <1>7 DEF Complete, S, s, t

LEMMA WordsComplete ==
    ASSUME NEW hits \in Seq(Nat), NEW n \in Nat, n <= Len(hits)
    PROVE  Complete(Sorted(0 .. n - 1, WordsAhead(hits, n)), n)
<1> DEFINE S == 0 .. n - 1
           ahead == WordsAhead(hits, n)
           h == [i \in S |-> hits[i + 1]]
<1>1. \A i \in S : h[i] \in Nat /\ h[i] = hits[i + 1]
  <2>1. \A i \in S : i + 1 \in 1 .. Len(hits)
    OBVIOUS
  <2> QED
    BY <2>1
<1> HIDE DEF h
<1>2. \A i, j \in S : <<i, j>> \in ahead <=> h[i] > h[j] \/ (h[i] = h[j] /\ i < j)
  BY <1>1 DEF WordsAhead
<1>3. \A i \in S : i \in Int /\ h[i] \in Int
  BY <1>1
<1> HIDE DEF S, ahead
<1>4. IsOrder(S, ahead)
  <2>1. \A i \in S : <<i, i>> \notin ahead
    BY <1>2, <1>3
  <2>2. \A i, j \in S : i = j \/ <<i, j>> \in ahead \/ <<j, i>> \in ahead
    <3>1. \A i, j \in S : \/ i = j
                         \/ h[i] > h[j] \/ (h[i] = h[j] /\ i < j)
                         \/ h[j] > h[i] \/ (h[j] = h[i] /\ j < i)
      BY <1>3
    <3> QED
      BY <1>2, <3>1
  <2>3. \A i, j, k \in S : <<i, j>> \in ahead /\ <<j, k>> \in ahead => <<i, k>> \in ahead
    BY <1>2, <1>3
  <2> QED
    BY <2>1, <2>2, <2>3 DEF IsOrder
<1>5. IsFiniteSet(S)
  BY FS_Interval DEF S
<1>6. Sorted(S, ahead) \in Seq(S) /\ IsInjective(Sorted(S, ahead)) /\ Range(Sorted(S, ahead)) = S
  BY <1>4, <1>5, SortedProperties, Zenon
<1> QED
  BY <1>6 DEF Complete, S, ahead

(* What each reranker says of n candidates: any integers, but for a hosted *)
(* service the best of a complete order.                                   *)
LEMMA OrderProperties ==
    ASSUME NEW q \in Questions, NEW n \in 1 .. q.candidates
    PROVE  /\ Order(q, n) \in Seq(Int)
           /\ q.reply.by \in {"llm", "words", "nobody"} =>
                 /\ Order(q, n) \in Seq(0 .. n - 1)
                 /\ IsInjective(Order(q, n))
                 /\ Len(Order(q, n)) = Min({n, q.results})
<1> DEFINE Best(o) == /\ o \in Seq(0 .. n - 1) /\ IsInjective(o)
                      /\ Len(o) = Min({n, q.results})
<1>0. q.candidates \in Nat /\ n \in Nat /\ n >= 1 /\ q.results \in Nat /\ q.results >= 1
  BY RankingAssumption
<1>1. ASSUME NEW o, Complete(o, n) PROVE Best(AtMost(o, q.results))
  BY <1>0, <1>1, BestOfComplete
<1>2. ASSUME NEW o \in Seq(0 .. n - 1) PROVE o \in Seq(Int)
  BY <1>2
<1>3. Best(AtMost(Identity(n), q.results))
  BY <1>0, <1>1, IdentityComplete
<1>4. CASE q.reply.by = "nobody"
  <2>1. Order(q, n) = AtMost(Identity(n), q.results)
    BY <1>4 DEF Order
  <2> QED
    BY <1>2, <1>3, <2>1
<1>5. CASE q.reply.by = "llm" /\ q.reply.named \in Seq(Nat)
  <2>1. CASE n = 1
    <3>1. Order(q, n) = <<0>>
      BY <1>5, <2>1 DEF Order
    <3>2. Min({1, q.results}) = 1
      BY <1>0, LeastOfTwo
    <3>3. <<0>> \in Seq(0 .. n - 1) /\ Len(<<0>>) = 1 /\ IsInjective(<<0>>)
      BY <2>1 DEF IsInjective
    <3> QED
      BY <1>2, <2>1, <3>1, <3>2, <3>3
  <2>2. CASE n > 1
    <3>1. Order(q, n) = AtMost(Once(InRange(q.reply.named, n) \o Identity(n)), q.results)
      BY <1>5, <2>2 DEF Order, ParseIndices
    <3>2. Complete(Once(InRange(q.reply.named, n) \o Identity(n)), n)
      BY <1>0, <1>5, ParsedComplete
    <3> QED
      BY <1>1, <1>2, <3>1, <3>2
  <2> QED
    BY <1>0, <2>1, <2>2
<1>6. CASE q.reply.by = "words" /\ q.reply.hits \in Seq(Nat) /\ Len(q.reply.hits) >= q.candidates
  <2>1. Order(q, n) = AtMost(Sorted(0 .. n - 1, WordsAhead(q.reply.hits, n)), q.results)
    BY <1>6 DEF Order, ByWords
  <2>2. n <= Len(q.reply.hits)
    BY <1>0, <1>6
  <2>3. Complete(Sorted(0 .. n - 1, WordsAhead(q.reply.hits, n)), n)
    BY <1>0, <1>6, <2>2, WordsComplete
  <2> QED
    BY <1>1, <1>2, <2>1, <2>3
<1>7. CASE q.reply.by = "service" /\ q.reply.named \in Seq(Int)
  <2>1. CASE q.reply.named = <<>>
    <3>1. Order(q, n) = AtMost(Identity(n), q.results)
      BY <1>7, <2>1 DEF Order
    <3> QED
      BY <1>2, <1>3, <1>7, <3>1
  <2>2. CASE q.reply.named # <<>>
    <3>1. Order(q, n) = AtMost(q.reply.named, q.results)
      BY <1>7, <2>2 DEF Order
    <3> QED
      BY <1>0, <1>7, <3>1, AtMostProperties
  <2> QED
    BY <2>1, <2>2
<1>8. \/ q.reply.by = "nobody"
      \/ q.reply.by = "llm" /\ q.reply.named \in Seq(Nat)
      \/ q.reply.by = "words" /\ q.reply.hits \in Seq(Nat) /\ Len(q.reply.hits) >= q.candidates
      \/ q.reply.by = "service" /\ q.reply.named \in Seq(Int)
  BY RankingAssumption
<1> QED
  BY <1>4, <1>5, <1>6, <1>7, <1>8

Fractions == [n : Nat, d : Nat \ {0}]

AtLeast(a, b) == a.n * b.d >= b.n * a.d

LEMMA Products ==
    ASSUME NEW a \in Nat, NEW b \in Nat
    PROVE  /\ a * b \in Nat
           /\ a > 0 /\ b > 0 => a * b > 0
           /\ \A c \in Nat : a <= b => a * c <= b * c
           /\ \A c \in Nat \ {0} : (a < b => a * c < b * c) /\ (a * c < b * c => a < b)
<1>1. a * b \in Nat
  OBVIOUS
<1>2. a > 0 /\ b > 0 => a * b > 0
  OBVIOUS
<1>3. \A c \in Nat : a <= b => a * c <= b * c
  OBVIOUS
<1>4. \A c \in Nat \ {0} : a < b => a * c < b * c
  OBVIOUS
<1>5. \A c \in Nat \ {0} : a * c < b * c => a < b
  <2>1. \A c \in Nat : b <= a => b * c <= a * c
    OBVIOUS
  <2>2. \A c \in Nat : a * c \in Nat /\ b * c \in Nat
    OBVIOUS
  <2> QED
    BY <2>1, <2>2
<1> QED
  BY <1>1, <1>2, <1>3, <1>4, <1>5

(* a and b, one more 1 / m for a: (an m + ad) / (ad m).                    *)
LEMMA OneMore ==
    ASSUME NEW an \in Nat, NEW ad \in Nat \ {0}, NEW bn \in Nat, NEW bd \in Nat \ {0},
           NEW m \in Nat \ {0}, an * bd >= bn * ad
    PROVE  (an * m + ad) * bd > bn * (ad * m)
<1> DEFINE x == an * bd
           y == bn * ad
           z == ad * bd
<1>1. x \in Nat /\ y \in Nat /\ z \in Nat /\ z > 0 /\ x >= y
  BY Products
<1>2. (an * m + ad) * bd = x * m + z
  OBVIOUS
<1>3. bn * (ad * m) = y * m
  OBVIOUS
<1> HIDE DEF x, y, z
<1>4. y * m <= x * m /\ x * m \in Nat /\ y * m \in Nat
  BY <1>1, Products
<1>5. x * m + z > y * m
  <2> DEFINE u == x * m
             v == y * m
  <2>1. u \in Nat /\ v \in Nat /\ v <= u
    BY <1>4
  <2> HIDE DEF u, v
  <2>2. u + z > v
    BY <1>1, <2>1
  <2> QED
    BY <2>2 DEF u, v
<1> QED
  BY <1>2, <1>3, <1>5, Zenon

(* One more 1 / m for a and one more 1 / p for b, and m is the smaller.    *)
LEMMA OneMoreEach ==
    ASSUME NEW an \in Nat, NEW ad \in Nat \ {0}, NEW bn \in Nat, NEW bd \in Nat \ {0},
           NEW m \in Nat \ {0}, NEW p \in Nat \ {0}, m < p, an * bd >= bn * ad
    PROVE  (an * m + ad) * (bd * p) > (bn * p + bd) * (ad * m)
<1> DEFINE x == an * bd
           y == bn * ad
           z == ad * bd
           r == m * p
<1>1. x \in Nat /\ y \in Nat /\ z \in Nat /\ z > 0 /\ x >= y /\ r \in Nat
  BY Products
<1>2. (an * m + ad) * (bd * p) = x * r + z * p
  OBVIOUS
<1>3. (bn * p + bd) * (ad * m) = y * r + z * m
  OBVIOUS
<1> HIDE DEF x, y, z, r
<1>4. y * r <= x * r /\ x * r \in Nat /\ y * r \in Nat
  BY <1>1, Products
<1>5. m * z < p * z /\ m * z = z * m /\ p * z = z * p /\ z * m \in Nat /\ z * p \in Nat
  <2>1. z \in Nat \ {0}
    BY <1>1
  <2> QED
    BY <2>1, Products
<1>6. x * r + z * p > y * r + z * m
  <2> DEFINE u == x * r
             v == y * r
             s == z * m
             t == z * p
  <2>1. u \in Nat /\ v \in Nat /\ v <= u /\ s \in Nat /\ t \in Nat /\ s < t
    BY <1>4, <1>5
  <2> HIDE DEF u, v, s, t
  <2>2. u + t > v + s
    BY <2>1
  <2> QED
    BY <2>2 DEF u, v, s, t
<1> QED
  BY <1>2, <1>3, <1>6, Zenon

(* Fractions are ordered.                                                  *)
LEMMA HigherProperties ==
    ASSUME NEW a \in Fractions, NEW b \in Fractions, NEW c \in Fractions
    PROVE  /\ ~Higher(a, a)
           /\ Higher(a, b) => ~Higher(b, a)
           /\ Higher(a, b) /\ ~Higher(c, b) => Higher(a, c)
           /\ ~Higher(b, a) /\ Higher(b, c) => Higher(a, c)
           /\ ~Higher(b, a) /\ ~Higher(c, b) => ~Higher(c, a)
<1> DEFINE an == a.n
           ad == a.d
           bn == b.n
           bd == b.d
           cn == c.n
           cd == c.d
<1>1. an \in Nat /\ ad \in Nat \ {0} /\ bn \in Nat /\ bd \in Nat \ {0} /\ cn \in Nat /\ cd \in Nat \ {0}
  BY DEF Fractions
<1>2. /\ (Higher(a, b) <=> an * bd > bn * ad) /\ (Higher(b, a) <=> bn * ad > an * bd)
      /\ (Higher(c, b) <=> cn * bd > bn * cd) /\ (Higher(b, c) <=> bn * cd > cn * bd)
      /\ (Higher(a, c) <=> an * cd > cn * ad) /\ (Higher(c, a) <=> cn * ad > an * cd)
      /\ (Higher(a, a) <=> an * ad > an * ad)
  BY DEF Higher
<1> HIDE DEF an, ad, bn, bd, cn, cd
(* The three comparisons over the common denominator ad bd cd.             *)
<1> DEFINE ab == an * bd
           ba == bn * ad
           bc == bn * cd
           cb == cn * bd
           ac == an * cd
           ca == cn * ad
           A == ab * cd
           B == ba * cd
           C == cb * ad
<1>3. A = ac * bd /\ B = bc * ad /\ C = ca * bd
  BY <1>1
<1>4. ab \in Nat /\ ba \in Nat /\ bc \in Nat /\ cb \in Nat /\ ac \in Nat /\ ca \in Nat /\ an * ad \in Nat
  BY <1>1, Products
<1>5. A \in Nat /\ B \in Nat /\ C \in Nat
  BY <1>1, <1>4, Products
<1> HIDE DEF ab, ba, bc, cb, ac, ca
<1>6. ab > ba <=> A > B
  <2>1. (ba < ab => ba * cd < ab * cd) /\ (ba * cd < ab * cd => ba < ab)
    BY <1>1, <1>4, Products
  <2> HIDE DEF A, B
  <2> QED
    BY <1>4, <1>5, <2>1 DEF A, B
<1>7. ba > ab <=> B > A
  <2>1. (ab < ba => ab * cd < ba * cd) /\ (ab * cd < ba * cd => ab < ba)
    BY <1>1, <1>4, Products
  <2> QED
    BY <1>4, <1>5, <2>1
<1>8. (bc > cb <=> B > C) /\ (cb > bc <=> C > B)
  <2>1. /\ (cb < bc => cb * ad < bc * ad) /\ (cb * ad < bc * ad => cb < bc)
        /\ (bc < cb => bc * ad < cb * ad) /\ (bc * ad < cb * ad => bc < cb)
    BY <1>1, <1>4, Products
  <2>2. B = bc * ad
    BY <1>3
  <2> HIDE DEF B
  <2> QED
    BY <1>4, <1>5, <2>1, <2>2
<1>9. (ac > ca <=> A > C) /\ (ca > ac <=> C > A)
  <2>1. /\ (ca < ac => ca * bd < ac * bd) /\ (ca * bd < ac * bd => ca < ac)
        /\ (ac < ca => ac * bd < ca * bd) /\ (ac * bd < ca * bd => ac < ca)
    BY <1>1, <1>4, Products
  <2>2. A = ac * bd /\ C = ca * bd
    BY <1>3
  <2> HIDE DEF A, C
  <2> QED
    BY <1>4, <1>5, <2>1, <2>2
<1>10. /\ (Higher(a, b) <=> A > B) /\ (Higher(b, a) <=> B > A)
       /\ (Higher(c, b) <=> C > B) /\ (Higher(b, c) <=> B > C)
       /\ (Higher(a, c) <=> A > C) /\ (Higher(c, a) <=> C > A)
       /\ ~Higher(a, a)
  <2>1. ~(an * ad > an * ad)
    BY <1>4
  <2> HIDE DEF A, B, C
  <2> QED
    BY <1>2, <1>6, <1>7, <1>8, <1>9, <2>1, Zenon DEF ab, ba, bc, cb, ac, ca
<1> HIDE DEF A, B, C
<1> QED
  BY <1>5, <1>10

LEMMA RankInProperties ==
    ASSUME NEW list \in Seq(Found), IsInjective(list), NEW c \in Range(list)
    PROVE  /\ RankIn(list, c) \in DOMAIN list /\ RankIn(list, c) \in Nat \ {0}
           /\ list[RankIn(list, c)] = c
           /\ \A i \in DOMAIN list : list[i] = c => RankIn(list, c) = i
<1>1. \E i \in DOMAIN list : list[i] = c
  BY DEF Range
<1>2. RankIn(list, c) \in DOMAIN list /\ list[RankIn(list, c)] = c
  BY <1>1, Zenon DEF RankIn
<1>3. \A i \in DOMAIN list : i \in Nat \ {0}
  OBVIOUS
<1> QED
  BY <1>2, <1>3 DEF IsInjective

(* The lists of a question: none has a chunk twice.                        *)
IsLists(lists) ==
    lists \in Seq(Seq(Found)) /\ \A i \in DOMAIN lists : IsInjective(lists[i])

LEMMA AddedProperties ==
    ASSUME NEW sum \in Fractions, NEW list \in Seq(Found), IsInjective(list), NEW k \in Nat, NEW c \in Found
    PROVE  /\ Added(sum, list, k, c) \in Fractions
           /\ c \notin Range(list) => Added(sum, list, k, c) = sum
           /\ c \in Range(list) =>
                 /\ k + RankIn(list, c) \in Nat \ {0}
                 /\ Added(sum, list, k, c).n = sum.n * (k + RankIn(list, c)) + sum.d
                 /\ Added(sum, list, k, c).d = sum.d * (k + RankIn(list, c))
<1>1. CASE c \notin Range(list)
  BY <1>1 DEF Added
<1>2. CASE c \in Range(list)
  <2> DEFINE m == k + RankIn(list, c)
  <2>1. m \in Nat \ {0}
    BY <1>2, RankInProperties
  <2>2. Added(sum, list, k, c) = [n |-> sum.n * m + sum.d, d |-> sum.d * m]
    BY <1>2, Zenon DEF Added
  <2> HIDE DEF m
  <2>3. sum.n \in Nat /\ sum.d \in Nat /\ sum.d > 0
    BY DEF Fractions
  <2>4. sum.n * m \in Nat /\ sum.d * m \in Nat /\ sum.d * m > 0
    BY <2>1, <2>3, Products
  <2>5. sum.n * m + sum.d \in Nat /\ sum.d * m \in Nat \ {0}
    BY <2>3, <2>4
  <2>6. Added(sum, list, k, c) \in Fractions
    BY <2>2, <2>5 DEF Fractions
  <2>7. Added(sum, list, k, c).n = sum.n * m + sum.d /\ Added(sum, list, k, c).d = sum.d * m
    BY <2>2
  <2> QED
    BY <1>2, <2>1, <2>6, <2>7 DEF m
<1> QED
  BY <1>1, <1>2

(* A list that has c before e, if it has e, leaves c not behind e, and     *)
(* ahead if it has e or c was ahead.                                       *)
LEMMA AddedOrder ==
    ASSUME NEW a \in Fractions, NEW b \in Fractions, AtLeast(a, b),
           NEW list \in Seq(Found), IsInjective(list), NEW k \in Nat, NEW c \in Found, NEW e \in Found,
           e \in Range(list) => Before(list, c, e)
    PROVE  /\ AtLeast(Added(a, list, k, c), Added(b, list, k, e))
           /\ Higher(a, b) \/ e \in Range(list) => Higher(Added(a, list, k, c), Added(b, list, k, e))
<1> DEFINE x == Added(a, list, k, c)
           y == Added(b, list, k, e)
<1>1. /\ a.n \in Nat /\ a.d \in Nat \ {0} /\ b.n \in Nat /\ b.d \in Nat \ {0}
      /\ x.n \in Nat /\ x.d \in Nat /\ y.n \in Nat /\ y.d \in Nat
      /\ a.n * b.d >= b.n * a.d
  <2>1. x \in Fractions /\ y \in Fractions
    BY AddedProperties
  <2> HIDE DEF x, y
  <2> QED
    BY <2>1 DEF Fractions, AtLeast
<1>2. x.n * y.d \in Nat /\ y.n * x.d \in Nat
  <2> HIDE DEF x, y
  <2> QED
    BY <1>1, Products
<1>3. SUFFICES \/ /\ e \notin Range(list) /\ x = a /\ y = b
               \/ x.n * y.d > y.n * x.d
  <2>1. CASE e \notin Range(list) /\ x = a /\ y = b
    <3> HIDE DEF x, y
    <3>1. AtLeast(x, y) /\ (Higher(a, b) => Higher(x, y))
      BY <2>1
    <3> QED
      BY <2>1, <3>1 DEF x, y
  <2>2. CASE x.n * y.d > y.n * x.d
    <3> HIDE DEF x, y
    <3>1. AtLeast(x, y) /\ Higher(x, y)
      BY <1>2, <2>2 DEF AtLeast, Higher
    <3> QED
      BY <3>1 DEF x, y
  <2> QED
    BY <1>3, <2>1, <2>2
<1>4. CASE c \notin Range(list)
  <2>1. e \notin Range(list)
    BY <1>4 DEF Before, Range
  <2> QED
    BY <1>4, <2>1, AddedProperties
<1>5. CASE c \in Range(list) /\ e \notin Range(list)
  <2> DEFINE m == k + RankIn(list, c)
  <2>1. m \in Nat \ {0} /\ x.n = a.n * m + a.d /\ x.d = a.d * m /\ y = b
    BY <1>5, AddedProperties
  <2> HIDE DEF x, y, m
  <2>2. (a.n * m + a.d) * b.d > b.n * (a.d * m)
    BY <1>1, <2>1, OneMore
  <2>3. x.n * y.d > y.n * x.d
    BY <2>1, <2>2, Zenon
  <2> QED
    BY <2>3
<1>6. CASE c \in Range(list) /\ e \in Range(list)
  <2> DEFINE m == k + RankIn(list, c)
             p == k + RankIn(list, e)
  <2>1. /\ m \in Nat \ {0} /\ x.n = a.n * m + a.d /\ x.d = a.d * m
        /\ p \in Nat \ {0} /\ y.n = b.n * p + b.d /\ y.d = b.d * p
    BY <1>6, AddedProperties
  <2>2. m < p
    <3>1. PICK i \in DOMAIN list, j \in DOMAIN list : i < j /\ list[i] = c /\ list[j] = e
      BY <1>6 DEF Before
    <3>2. RankIn(list, c) = i /\ RankIn(list, e) = j /\ i \in Nat /\ j \in Nat
      BY <1>6, <3>1, RankInProperties
    <3> QED
      BY <3>1, <3>2
  <2> HIDE DEF x, y, m, p
  <2>3. (a.n * m + a.d) * (b.d * p) > (b.n * p + b.d) * (a.d * m)
    BY <1>1, <2>1, <2>2, OneMoreEach
  <2>4. x.n * y.d > y.n * x.d
    BY <2>1, <2>3, Zenon
  <2> QED
    BY <2>4
<1> QED
  BY <1>4, <1>5, <1>6

Zero == [n |-> 0, d |-> 1]

(* The sums of a score over the first lists, for every number of these.    *)
LEMMA ScoreSums ==
    ASSUME NEW lists, IsLists(lists), NEW k \in Nat, NEW c \in Found
    PROVE  \E f \in [0 .. Len(lists) -> Fractions] :
              /\ f[0] = Zero
              /\ \A i \in 1 .. Len(lists) : f[i] = Added(f[i - 1], lists[i], k, c)
              /\ Score(lists, k, c) = f[Len(lists)]
<1> DEFINE N == Len(lists)
           Loop(g) == g = [i \in 0 .. N |-> IF i = 0 THEN Zero ELSE Added(g[i - 1], lists[i], k, c)]
           step == [x \in Fractions \X (1 .. N) |-> Added(x[1], lists[x[2]], k, c)]
           f == CHOOSE g : Loop(g)
<1>1. N \in Nat /\ \A i \in 1 .. N : lists[i] \in Seq(Found) /\ IsInjective(lists[i])
  BY DEF IsLists
<1>2. Score(lists, k, c) = f[N]
  BY Zenon DEF Score, Zero
<1>3. Zero \in Fractions
  BY DEF Zero, Fractions
<1> HIDE DEF N
<1>4. \A a \in Fractions, i \in 1 .. N : Added(a, lists[i], k, c) \in Fractions
  BY <1>1, AddedProperties
<1>5. \A a \in Fractions, i \in 1 .. N : step[<<a, i>>] = Added(a, lists[i], k, c)
  OBVIOUS
<1> HIDE DEF step
<1>6. ClosedUnder(Fractions, N, step)
  BY <1>4, <1>5 DEF ClosedUnder
<1>7. PICK g \in [0 .. N -> Fractions] : IsLoop(g, N, Zero, step)
  BY <1>1, <1>3, <1>6, LoopExists, Zenon
<1>8. g[0] = Zero /\ \A i \in 1 .. N : g[i] = Added(g[i - 1], lists[i], k, c)
  <2>1. \A i \in 1 .. N : g[i - 1] \in Fractions
    <3>1. \A i \in 1 .. N : i - 1 \in 0 .. N
      BY <1>1
    <3> QED
      BY <3>1
  <2> QED
    BY <1>5, <1>7, <2>1 DEF IsLoop
<1>9. Loop(g)
  <2>1. \A i \in 0 .. N : g[i] = IF i = 0 THEN Zero ELSE Added(g[i - 1], lists[i], k, c)
    BY <1>1, <1>8
  <2>2. g = [i \in 0 .. N |-> g[i]]
    OBVIOUS
  <2> QED
    BY <2>1, <2>2
<1> HIDE DEF Loop
<1>10. Loop(f)
  BY <1>9, Zenon
<1> HIDE DEF f
<1>11. /\ DOMAIN f = 0 .. N /\ f = [i \in 0 .. N |-> f[i]]
       /\ f[0] = Zero /\ \A i \in 1 .. N : f[i] = Added(f[i - 1], lists[i], k, c)
  <2>1. DOMAIN f = 0 .. N /\ \A i \in 0 .. N : f[i] = IF i = 0 THEN Zero ELSE Added(f[i - 1], lists[i], k, c)
    BY <1>10 DEF Loop
  <2>2. f = [i \in 0 .. N |-> f[i]]
    BY <1>10, <2>1 DEF Loop
  <2>3. 0 \in 0 .. N /\ \A i \in 1 .. N : i \in 0 .. N /\ i # 0
    BY <1>1
  <2> QED
    BY <2>1, <2>2, <2>3
<1> DEFINE Good == {i \in 0 .. N : f[i] \in Fractions}
<1>12. 0 \in Good
  BY <1>1, <1>3, <1>11
<1>13. \A i \in 1 .. N : i - 1 \in Good => i \in Good
  <2>1. \A i \in 1 .. N : i \in 0 .. N
    BY <1>1
  <2> QED
    BY <1>4, <1>11, <2>1
<1> HIDE DEF Good
<1>14. \A i \in 0 .. N : i \in Good
  BY <1>1, <1>12, <1>13, UpToN, Zenon
<1>15. f \in [0 .. N -> Fractions]
  BY <1>11, <1>14 DEF Good
<1> QED
  BY <1>2, <1>11, <1>15 DEF N

(* Whoever is ahead wherever the other was found has the higher score.     *)
LEMMA UnanimousScore ==
    ASSUME NEW lists, IsLists(lists), NEW k \in Nat, NEW c \in Found, NEW e \in Found, e \in Met(lists),
           \A i \in DOMAIN lists : e \in Range(lists[i]) => Before(lists[i], c, e)
    PROVE  Higher(Score(lists, k, c), Score(lists, k, e))
<1> DEFINE N == Len(lists)
<1>1. /\ N \in Nat /\ DOMAIN lists = 1 .. N
      /\ \A i \in 1 .. N : lists[i] \in Seq(Found) /\ IsInjective(lists[i])
  BY DEF IsLists
<1>2. PICK f \in [0 .. N -> Fractions] :
         /\ f[0] = Zero
         /\ \A i \in 1 .. N : f[i] = Added(f[i - 1], lists[i], k, c)
         /\ Score(lists, k, c) = f[N]
  BY ScoreSums, Zenon
<1>3. PICK g \in [0 .. N -> Fractions] :
         /\ g[0] = Zero
         /\ \A i \in 1 .. N : g[i] = Added(g[i - 1], lists[i], k, e)
         /\ Score(lists, k, e) = g[N]
  BY ScoreSums, Zenon
<1> HIDE DEF N
<1> DEFINE Good == {n \in 0 .. N :
                      /\ AtLeast(f[n], g[n])
                      /\ (\E i \in 1 .. n : e \in Range(lists[i])) => Higher(f[n], g[n])}
<1>4. 0 \in Good
  <2>1. AtLeast(Zero, Zero)
    BY DEF AtLeast, Zero
  <2>2. ~\E i \in 1 .. 0 : e \in Range(lists[i])
    OBVIOUS
  <2>3. 0 \in 0 .. N
    BY <1>1
  <2> QED
    BY <1>2, <1>3, <2>1, <2>2, <2>3
<1>5. ASSUME NEW n \in 1 .. N, n - 1 \in Good
      PROVE  n \in Good
  <2>1. /\ n - 1 \in 0 .. N /\ n \in 0 .. N
        /\ \A i \in 1 .. n : i \in 1 .. n - 1 \/ i = n
    BY <1>1
  <2>2. f[n - 1] \in Fractions /\ g[n - 1] \in Fractions
    BY <2>1
  <2>3. f[n] = Added(f[n - 1], lists[n], k, c) /\ g[n] = Added(g[n - 1], lists[n], k, e)
    BY <1>2, <1>3
  <2>4. AtLeast(f[n - 1], g[n - 1])
    BY <1>5
  <2>5. lists[n] \in Seq(Found) /\ IsInjective(lists[n]) /\ (e \in Range(lists[n]) => Before(lists[n], c, e))
    BY <1>1
  <2>6. /\ AtLeast(f[n], g[n])
        /\ Higher(f[n - 1], g[n - 1]) \/ e \in Range(lists[n]) => Higher(f[n], g[n])
    BY <2>2, <2>3, <2>4, <2>5, AddedOrder
  <2>7. (\E i \in 1 .. n : e \in Range(lists[i])) => Higher(f[n], g[n])
    BY <1>5, <2>1, <2>6
  <2> QED
    BY <2>1, <2>6, <2>7
<1> HIDE DEF Good
<1>6. \A n \in 1 .. N : n - 1 \in Good => n \in Good
  BY <1>5
<1>7. \A n \in 0 .. N : n \in Good
  BY <1>1, <1>4, <1>6, UpToN, Zenon
<1>8. \E i \in 1 .. N : e \in Range(lists[i])
  BY <1>1 DEF Met
<1>9. N \in 0 .. N
  BY <1>1
<1>10. Higher(f[N], g[N])
  BY <1>7, <1>8, <1>9 DEF Good
<1> QED
  BY <1>2, <1>3, <1>10

LEMMA MetIsOrder ==
    ASSUME NEW lists, IsLists(lists), NEW c \in Met(lists), NEW e \in Met(lists), NEW x \in Met(lists)
    PROVE  /\ ~MetBefore(lists, c, c)
           /\ c = e \/ MetBefore(lists, c, e) \/ MetBefore(lists, e, c)
           /\ MetBefore(lists, c, e) /\ MetBefore(lists, e, x) => MetBefore(lists, c, x)
<1> DEFINE in(y) == Min({i \in DOMAIN lists : y \in Range(lists[i])})
           at(y) == RankIn(lists[in(y)], y)
<1>1. ASSUME NEW y \in Met(lists)
      PROVE  in(y) \in Nat /\ at(y) \in Nat /\ lists[in(y)][at(y)] = y
  <2> DEFINE S == {i \in DOMAIN lists : y \in Range(lists[i])}
  <2>1. S \in SUBSET Nat /\ S # {}
    <3>1. DOMAIN lists \subseteq Nat
      BY DEF IsLists
    <3> QED
      BY <3>1 DEF Met
  <2>2. Min(S) \in S
    BY <2>1, LeastOf, Zenon
  <2>3. in(y) \in DOMAIN lists /\ y \in Range(lists[in(y)]) /\ in(y) \in Nat
    BY <2>1, <2>2
  <2> HIDE DEF in
  <2>4. lists[in(y)] \in Seq(Found) /\ IsInjective(lists[in(y)])
    BY <2>3 DEF IsLists
  <2> QED
    BY <2>3, <2>4, RankInProperties
<1>2. \A y, z : MetBefore(lists, y, z) <=> in(y) < in(z) \/ (in(y) = in(z) /\ at(y) < at(z))
  BY Zenon DEF MetBefore
<1> HIDE DEF in, at
<1>3. in(c) = in(e) /\ at(c) = at(e) => c = e
  BY <1>1
<1>4. /\ in(c) \in Nat /\ at(c) \in Nat /\ in(e) \in Nat /\ at(e) \in Nat
      /\ in(x) \in Nat /\ at(x) \in Nat
  BY <1>1
<1> QED
  BY <1>2, <1>3, <1>4

LEMMA QuestionLists ==
    ASSUME NEW q \in Questions
    PROVE  /\ IsLists(q.lists) /\ q.k \in Nat /\ q.candidates \in Nat
           /\ Met(q.lists) \subseteq Found /\ IsFiniteSet(Met(q.lists))
<1>1. IsLists(q.lists) /\ q.k \in Nat /\ q.candidates \in Nat
  BY RankingAssumption DEF IsLists
<1>2. Met(q.lists) \subseteq Found
  <2>1. \A i \in DOMAIN q.lists : q.lists[i] \in Seq(Found)
    BY <1>1 DEF IsLists
  <2>2. \A i \in DOMAIN q.lists : Range(q.lists[i]) \subseteq Found
    BY <2>1 DEF Range
  <2> QED
    BY <2>2 DEF Met
<1>3. IsFiniteSet(Met(q.lists))
  BY <1>2, RankingAssumption, FS_Subset
<1> QED
  BY <1>1, <1>2, <1>3

LEMMA AheadIsOrder ==
    ASSUME NEW q \in Questions
    PROVE  /\ IsOrder(Met(q.lists), Ahead(q))
           /\ \A c, e \in Met(q.lists) :
                 Higher(Score(q.lists, q.k, c), Score(q.lists, q.k, e)) => <<c, e>> \in Ahead(q)
<1> DEFINE L == q.lists
           S == Met(L)
           ahead == Ahead(q)
           score == [c \in S |-> Score(L, q.k, c)]
<1>1. IsLists(L) /\ q.k \in Nat /\ S \subseteq Found
  BY QuestionLists
<1>2. \A c \in S : score[c] \in Fractions /\ score[c] = Score(L, q.k, c)
  <2> SUFFICES ASSUME NEW c \in S PROVE score[c] \in Fractions /\ score[c] = Score(L, q.k, c)
    OBVIOUS
  <2>1. PICK f \in [0 .. Len(L) -> Fractions] : Score(L, q.k, c) = f[Len(L)]
    BY <1>1, ScoreSums
  <2>2. Len(L) \in 0 .. Len(L)
    <3>1. Len(L) \in Nat
      BY <1>1 DEF IsLists
    <3> QED
      BY <3>1
  <2> QED
    BY <2>1, <2>2
<1>3. \A c, e \in S :
        <<c, e>> \in ahead <=> \/ Higher(score[c], score[e])
                               \/ ~Higher(score[e], score[c]) /\ MetBefore(L, c, e)
  BY DEF Ahead
<1> HIDE DEF score, S, ahead
<1>4. ASSUME NEW c \in S, NEW e \in S, NEW x \in S
      PROVE  /\ <<c, c>> \notin ahead
             /\ c = e \/ <<c, e>> \in ahead \/ <<e, c>> \in ahead
             /\ <<c, e>> \in ahead /\ <<e, x>> \in ahead => <<c, x>> \in ahead
  <2>1. /\ ~Higher(score[c], score[c])
        /\ Higher(score[c], score[e]) => ~Higher(score[e], score[c])
        /\ Higher(score[c], score[e]) /\ ~Higher(score[x], score[e]) => Higher(score[c], score[x])
        /\ ~Higher(score[e], score[c]) /\ Higher(score[e], score[x]) => Higher(score[c], score[x])
        /\ ~Higher(score[e], score[c]) /\ ~Higher(score[x], score[e]) => ~Higher(score[x], score[c])
        /\ Higher(score[e], score[x]) => ~Higher(score[x], score[e])
    BY <1>2, HigherProperties
  <2>2. /\ ~MetBefore(L, c, c)
        /\ c = e \/ MetBefore(L, c, e) \/ MetBefore(L, e, c)
        /\ MetBefore(L, c, e) /\ MetBefore(L, e, x) => MetBefore(L, c, x)
    BY <1>1, MetIsOrder DEF S
  <2> QED
    BY <1>3, <2>1, <2>2
<1>5. IsOrder(S, ahead)
  BY <1>4 DEF IsOrder
<1>6. \A c, e \in S : Higher(Score(L, q.k, c), Score(L, q.k, e)) => <<c, e>> \in ahead
  BY <1>2, <1>3
<1> QED
  BY <1>5, <1>6 DEF S, ahead

LEMMA FusedProperties ==
    ASSUME NEW q \in Questions
    PROVE  /\ Fused(q) \in Seq(Found) /\ Len(Fused(q)) <= q.candidates
           /\ \A c, e \in Found :
                 /\ e \in Range(Fused(q))
                 /\ \A i \in DOMAIN q.lists : e \in Range(q.lists[i]) => Before(q.lists[i], c, e)
                 => Before(Fused(q), c, e)
<1> DEFINE S == Met(q.lists)
           sorted == Sorted(S, Ahead(q))
           fused == Fused(q)
<1>1. IsLists(q.lists) /\ q.k \in Nat /\ q.candidates \in Nat /\ S \subseteq Found /\ IsFiniteSet(S)
  BY QuestionLists
<1>2. /\ sorted \in Seq(S) /\ IsInjective(sorted) /\ Range(sorted) = S
      /\ \A c, e \in S : <<c, e>> \in Ahead(q) => Before(sorted, c, e)
  BY <1>1, AheadIsOrder, SortedProperties
<1> HIDE DEF S
<1>3. sorted \in Seq(Found)
  <2> HIDE DEF sorted
  <2> QED
    BY <1>1, <1>2, SequenceOver, Zenon
<1>4. fused = AtMost(sorted, q.candidates)
  BY DEF Fused, S
<1> HIDE DEF sorted, fused
<1>5. /\ fused \in Seq(Found) /\ Len(fused) <= q.candidates
      /\ \A i \in DOMAIN fused : i \in DOMAIN sorted /\ fused[i] = sorted[i]
      /\ \A i \in DOMAIN sorted : i <= q.candidates => i \in DOMAIN fused
  BY <1>1, <1>3, <1>4, AtMostProperties
<1>6. ASSUME NEW c \in Found, NEW e \in Found, e \in Range(fused),
             \A i \in DOMAIN q.lists : e \in Range(q.lists[i]) => Before(q.lists[i], c, e)
      PROVE  Before(fused, c, e)
  <2>1. PICK j \in DOMAIN fused : fused[j] = e
    BY <1>6 DEF Range
  <2>2. e \in S
    BY <1>2, <1>5, <2>1
  <2>3. c \in S
    <3>1. PICK i \in DOMAIN q.lists : e \in Range(q.lists[i])
      BY <2>2 DEF S, Met
    <3>2. c \in Range(q.lists[i])
      BY <1>6, <3>1 DEF Before, Range
    <3> QED
      BY <3>2 DEF S, Met
  <2>4. Higher(Score(q.lists, q.k, c), Score(q.lists, q.k, e))
    BY <1>1, <1>6, <2>2, UnanimousScore DEF S
  <2>5. <<c, e>> \in Ahead(q)
    BY <2>2, <2>3, <2>4, AheadIsOrder DEF S
  <2>6. PICK m \in DOMAIN sorted, n \in DOMAIN sorted : m < n /\ sorted[m] = c /\ sorted[n] = e
    BY <1>2, <2>2, <2>3, <2>5 DEF Before
  <2>7. n = j
    BY <1>2, <1>5, <2>1, <2>6 DEF IsInjective
  <2>8. m \in Nat /\ n \in Nat /\ n <= Len(fused) /\ Len(fused) \in Nat
    BY <1>3, <1>5, <2>1, <2>6, <2>7
  <2>9. m <= q.candidates
    BY <1>1, <1>5, <2>6, <2>8
  <2>10. m \in DOMAIN fused /\ fused[m] = c
    BY <1>5, <2>6, <2>9
  <2> QED
    BY <2>1, <2>6, <2>7, <2>10 DEF Before
<1> QED
  BY <1>5, <1>6 DEF fused

LEMMA WeightsProperties ==
    ASSUME NEW S, NEW blocks \in Seq(S), \A b \in S : Weight[b] \in Nat
    PROVE  /\ Weights(blocks) \in [0 .. Len(blocks) -> Nat]
           /\ Weights(blocks)[0] = 0
           /\ \A n \in 1 .. Len(blocks) : Weights(blocks)[n] = Weights(blocks)[n - 1] + Weight[blocks[n]]
<1> DEFINE N == Len(blocks)
           Loop(g) == g = [n \in 0 .. N |-> IF n = 0 THEN 0 ELSE g[n - 1] + Weight[blocks[n]]]
           step == [x \in Nat \X (1 .. N) |-> x[1] + Weight[blocks[x[2]]]]
           f == CHOOSE g : Loop(g)
<1>1. N \in Nat /\ \A n \in 1 .. N : Weight[blocks[n]] \in Nat
  <2>1. N \in Nat /\ \A n \in 1 .. N : blocks[n] \in S
    OBVIOUS
  <2> QED
    BY <2>1
<1>2. Weights(blocks) = f
  BY DEF Weights
<1> HIDE DEF N
<1>3. \A a \in Nat, n \in 1 .. N : step[<<a, n>>] = a + Weight[blocks[n]]
  OBVIOUS
<1> HIDE DEF step
<1>4. ClosedUnder(Nat, N, step)
  <2> SUFFICES ASSUME NEW a \in Nat, NEW n \in 1 .. N
               PROVE  step[<<a, n>>] \in Nat
    BY DEF ClosedUnder
  <2>1. Weight[blocks[n]] \in Nat /\ step[<<a, n>>] = a + Weight[blocks[n]]
    BY <1>1, <1>3
  <2> QED
    BY <2>1
<1>5. PICK g \in [0 .. N -> Nat] : IsLoop(g, N, 0, step)
  <2>1. 0 \in Nat
    OBVIOUS
  <2> QED
    BY <1>1, <1>4, <2>1, LoopExists, Zenon
<1>6. g[0] = 0 /\ \A n \in 1 .. N : g[n] = g[n - 1] + Weight[blocks[n]]
  <2>1. \A n \in 1 .. N : n - 1 \in 0 .. N
    BY <1>1
  <2>2. \A n \in 1 .. N : g[n - 1] \in Nat
    BY <2>1
  <2> QED
    BY <1>3, <1>5, <2>2 DEF IsLoop
<1>7. Loop(g)
  <2>1. \A n \in 0 .. N : g[n] = IF n = 0 THEN 0 ELSE g[n - 1] + Weight[blocks[n]]
    BY <1>1, <1>6
  <2>2. g = [n \in 0 .. N |-> g[n]]
    OBVIOUS
  <2> QED
    BY <2>1, <2>2
<1> HIDE DEF Loop
<1>8. Loop(f)
  BY <1>7, Zenon
<1> HIDE DEF f
<1>9. /\ DOMAIN f = 0 .. N /\ f = [n \in 0 .. N |-> f[n]]
      /\ f[0] = 0 /\ \A n \in 1 .. N : f[n] = f[n - 1] + Weight[blocks[n]]
  <2>1. DOMAIN f = 0 .. N /\ \A n \in 0 .. N : f[n] = IF n = 0 THEN 0 ELSE f[n - 1] + Weight[blocks[n]]
    BY <1>8 DEF Loop
  <2>2. f = [n \in 0 .. N |-> f[n]]
    BY <1>8, <2>1 DEF Loop
  <2>3. 0 \in 0 .. N /\ \A n \in 1 .. N : n \in 0 .. N /\ n # 0
    BY <1>1
  <2> QED
    BY <2>1, <2>2, <2>3
<1> DEFINE Good == {n \in 0 .. N : f[n] \in Nat}
<1>10. 0 \in Good
  BY <1>1, <1>9
<1>11. \A n \in 1 .. N : n - 1 \in Good => n \in Good
  <2> SUFFICES ASSUME NEW n \in 1 .. N, f[n - 1] \in Nat
               PROVE  n \in 0 .. N /\ f[n] \in Nat
    OBVIOUS
  <2>1. n \in 0 .. N /\ Weight[blocks[n]] \in Nat
    BY <1>1
  <2>2. f[n] = f[n - 1] + Weight[blocks[n]]
    BY <1>9
  <2> QED
    BY <2>1, <2>2
<1> HIDE DEF Good
<1>12. \A n \in 0 .. N : n \in Good
  BY <1>1, <1>10, <1>11, UpToN, Zenon
<1>13. f \in [0 .. N -> Nat]
  BY <1>9, <1>12 DEF Good
<1> QED
  BY <1>2, <1>9, <1>13 DEF N

First(blocks, n) == SubSeq(blocks, 1, n)

LEMMA FirstProperties ==
    ASSUME NEW S, NEW blocks \in Seq(S), NEW n \in 0 .. Len(blocks)
    PROVE  /\ First(blocks, n) \in Seq(S) /\ Len(First(blocks, n)) = n
           /\ n = 0 => First(blocks, n) = <<>>
           /\ n > 0 => First(blocks, n) = Append(First(blocks, n - 1), blocks[n])
<1> DEFINE N == Len(blocks)
<1>1. N \in Nat /\ n \in Nat /\ n <= N /\ \A i \in 1 .. N : blocks[i] \in S
  OBVIOUS
<1>2. ASSUME NEW m \in 0 .. N
      PROVE  First(blocks, m) = [i \in 1 .. m |-> blocks[i]]
  BY <1>1 DEF First
<1> HIDE DEF N
<1>3. First(blocks, n) = [i \in 1 .. n |-> blocks[i]]
  BY <1>2 DEF N
<1>4. \A i \in 1 .. n : blocks[i] \in S
  BY <1>1
<1>5. First(blocks, n) \in Seq(S) /\ Len(First(blocks, n)) = n
  BY <1>1, <1>3, <1>4
<1>6. n = 0 => First(blocks, n) = <<>>
  BY <1>5
<1>7. ASSUME n > 0
      PROVE  First(blocks, n) = Append(First(blocks, n - 1), blocks[n])
  <2>1. n - 1 \in 0 .. N /\ n - 1 \in Nat /\ (n - 1) + 1 = n
    BY <1>1, <1>7
  <2>2. First(blocks, n - 1) = [i \in 1 .. n - 1 |-> blocks[i]]
    BY <1>2, <2>1
  <2> DEFINE short == First(blocks, n - 1)
             long == Append(short, blocks[n])
  <2>3. short \in Seq(S) /\ Len(short) = n - 1 /\ \A i \in 1 .. n - 1 : short[i] = blocks[i]
    <3>1. \A i \in 1 .. n - 1 : blocks[i] \in S
      BY <1>1, <2>1
    <3> QED
      BY <2>1, <2>2, <3>1
  <2> HIDE DEF short
  <2>4. DOMAIN long = 1 .. n /\ \A i \in 1 .. n : long[i] = IF i <= n - 1 THEN short[i] ELSE blocks[n]
    BY <2>1, <2>3
  <2>5. long = [i \in 1 .. n |-> long[i]]
    BY <2>1, <2>3
  <2> HIDE DEF long
  <2>6. \A i \in 1 .. n : long[i] = blocks[i]
    BY <1>1, <2>3, <2>4
  <2>7. long = [i \in 1 .. n |-> blocks[i]]
    BY <2>5, <2>6
  <2> QED
    BY <1>3, <2>7 DEF long, short
<1> QED
  BY <1>5, <1>6, <1>7

TakenAccs(S) == [taken : Seq(S), used : Nat, full : BOOLEAN]

LEMMA TakenType ==
    ASSUME NEW S, NEW b \in S, Weight[b] \in Nat, NEW budget \in Nat, NEW acc \in TakenAccs(S)
    PROVE  LET next == Taken(acc, b, budget)
               over == acc.taken # <<>> /\ acc.used + Weight[b] > budget
           IN  /\ next \in TakenAccs(S)
               /\ acc.full => next = acc
               /\ ~acc.full /\ over => next.full /\ next.taken = acc.taken
               /\ ~acc.full /\ ~over =>
                     ~next.full /\ next.taken = Append(acc.taken, b) /\ next.used = acc.used + Weight[b]
<1> DEFINE over == acc.taken # <<>> /\ acc.used + Weight[b] > budget
<1>1. acc.taken \in Seq(S) /\ acc.used \in Nat /\ acc.full \in BOOLEAN
  BY DEF TakenAccs
<1>2. Append(acc.taken, b) \in Seq(S) /\ acc.used + Weight[b] \in Nat
  BY <1>1
<1>3. CASE acc.full
  BY <1>3 DEF Taken, TakenAccs
<1>4. CASE ~acc.full /\ over
  BY <1>4 DEF Taken, TakenAccs
<1>5. CASE ~acc.full /\ ~over
  BY <1>2, <1>5 DEF Taken, TakenAccs
<1> QED
  BY <1>3, <1>4, <1>5

(* The loop over the blocks stops where the budget does.                   *)
LEMMA AffordableProperties ==
    ASSUME NEW q, q.budget \in Nat, NEW S, NEW blocks \in Seq(S), \A b \in S : Weight[b] \in Nat
    PROVE  \E c \in 0 .. Len(blocks) :
              /\ Affordable(q, blocks) = First(blocks, c)
              /\ Len(blocks) > 0 => c >= 1
              /\ c > 1 => Weights(blocks)[c] <= q.budget
              /\ c < Len(blocks) => Weights(blocks)[c + 1] > q.budget
<1> DEFINE N == Len(blocks)
           budget == q.budget
           A == TakenAccs(S)
           base == [taken |-> <<>>, used |-> 0, full |-> FALSE]
           Loop(g) == g = [n \in 0 .. N |-> IF n = 0 THEN base ELSE Taken(g[n - 1], blocks[n], budget)]
           step == [x \in A \X (1 .. N) |-> Taken(x[1], blocks[x[2]], budget)]
           f == CHOOSE g : Loop(g)
           w == Weights(blocks)
<1>1. /\ N \in Nat /\ budget \in Nat
      /\ \A n \in 1 .. N : blocks[n] \in S /\ Weight[blocks[n]] \in Nat
      /\ w \in [0 .. N -> Nat] /\ w[0] = 0
      /\ \A n \in 1 .. N : w[n] = w[n - 1] + Weight[blocks[n]]
  <2>1. N \in Nat /\ \A n \in 1 .. N : blocks[n] \in S
    OBVIOUS
  <2> QED
    BY <2>1, WeightsProperties
<1>2. Affordable(q, blocks) = f[N].taken
  BY DEF Affordable
<1>3. base \in A /\ base.taken = <<>> /\ base.used = 0 /\ ~base.full
  BY DEF TakenAccs
<1> HIDE DEF budget, N, base, w
<1>4. \A a \in A, n \in 1 .. N : Taken(a, blocks[n], budget) \in A
  BY <1>1, TakenType
<1> HIDE DEF A
<1>5. \A a \in A, n \in 1 .. N : step[<<a, n>>] = Taken(a, blocks[n], budget)
  OBVIOUS
<1> HIDE DEF step
<1>6. ClosedUnder(A, N, step)
  BY <1>4, <1>5 DEF ClosedUnder
<1>7. PICK g \in [0 .. N -> A] : IsLoop(g, N, base, step)
  BY <1>1, <1>3, <1>6, LoopExists, Zenon
<1>8. Loop(g)
  <2>1. \A n \in 1 .. N : n - 1 \in 0 .. N
    BY <1>1
  <2>2. \A n \in 1 .. N : g[n - 1] \in A
    BY <2>1
  <2>3. \A n \in 1 .. N : g[n] = Taken(g[n - 1], blocks[n], budget)
    BY <1>5, <1>7, <2>2 DEF IsLoop
  <2>4. \A n \in 0 .. N : g[n] = IF n = 0 THEN base ELSE Taken(g[n - 1], blocks[n], budget)
    BY <1>1, <1>7, <2>3 DEF IsLoop
  <2>5. g = [n \in 0 .. N |-> g[n]]
    OBVIOUS
  <2> QED
    BY <2>4, <2>5
<1> HIDE DEF Loop
<1>9. Loop(f)
  BY <1>8, Zenon
<1> HIDE DEF f
<1>10. f[0] = base /\ \A n \in 1 .. N : f[n] = Taken(f[n - 1], blocks[n], budget)
  <2>1. \A n \in 0 .. N : f[n] = IF n = 0 THEN base ELSE Taken(f[n - 1], blocks[n], budget)
    BY <1>9 DEF Loop
  <2>2. 0 \in 0 .. N /\ \A n \in 1 .. N : n \in 0 .. N /\ n # 0
    BY <1>1
  <2> QED
    BY <2>1, <2>2
<1> DEFINE Going(n) == /\ f[n].taken = First(blocks, n)
                       /\ f[n].used = w[n]
                       /\ n > 1 => w[n] <= budget
           Stopped(n) == \E c \in 1 .. n - 1 :
                            /\ f[n].taken = First(blocks, c)
                            /\ c > 1 => w[c] <= budget
                            /\ w[c + 1] > budget
           Good == {n \in 0 .. N : f[n] \in A /\ IF f[n].full THEN Stopped(n) ELSE Going(n)}
<1>11. 0 \in Good
  <2>1. First(blocks, 0) = <<>>
    <3>1. 0 \in 0 .. Len(blocks)
      BY <1>1 DEF N
    <3> QED
      BY <3>1, FirstProperties
  <2> QED
    BY <1>1, <1>3, <1>10, <2>1
<1>12. \A n \in 1 .. N : n - 1 \in Good => n \in Good
  <2> SUFFICES ASSUME NEW n \in 1 .. N, n - 1 \in Good
               PROVE  n \in Good
    OBVIOUS
  <2>1. /\ n - 1 \in 0 .. N /\ n \in 0 .. N /\ n > 0
        /\ (n - 1) + 1 = n /\ (n > 1 => n - 1 \in 1 .. n - 1)
        /\ \A c \in 1 .. (n - 1) - 1 : c \in 1 .. n - 1
    BY <1>1
  <2> DEFINE b == blocks[n]
             acc == f[n - 1]
             next == f[n]
             before == w[n - 1]
             now == w[n]
  <2>2. acc \in A /\ b \in S /\ Weight[b] \in Nat /\ next = Taken(acc, b, budget)
    BY <1>1, <1>10
  <2>3. now = before + Weight[b] /\ now \in Nat /\ before \in Nat
    BY <1>1, <2>1
  <2>4. /\ First(blocks, n) = Append(First(blocks, n - 1), b)
        /\ First(blocks, n - 1) = <<>> <=> n = 1
    <3>1. n \in 0 .. Len(blocks) /\ n - 1 \in 0 .. Len(blocks)
      BY <2>1 DEF N
    <3>2. First(blocks, n) = Append(First(blocks, n - 1), b)
      BY <2>1, <3>1, FirstProperties
    <3>3. First(blocks, n - 1) \in Seq(S) /\ Len(First(blocks, n - 1)) = n - 1
      BY <3>1, FirstProperties
    <3>4. First(blocks, n - 1) = <<>> <=> n - 1 = 0
      BY <3>3
    <3> QED
      BY <2>1, <3>2, <3>4
  <2>5. IF acc.full THEN Stopped(n - 1) ELSE Going(n - 1)
    OBVIOUS
  <2> DEFINE over == acc.taken # <<>> /\ acc.used + Weight[b] > budget
  <2>6. /\ next \in A
        /\ acc.full => next = acc
        /\ ~acc.full /\ over => next.full /\ next.taken = acc.taken
        /\ ~acc.full /\ ~over =>
              ~next.full /\ next.taken = Append(acc.taken, b) /\ next.used = acc.used + Weight[b]
    <3> HIDE DEF acc, b, next
    <3> DEFINE new == Taken(acc, b, budget)
    <3>1. acc \in TakenAccs(S) /\ budget \in Nat
      BY <1>1, <2>2 DEF A
    <3>2. /\ new \in TakenAccs(S)
          /\ acc.full => new = acc
          /\ ~acc.full /\ over => new.full /\ new.taken = acc.taken
          /\ ~acc.full /\ ~over =>
                ~new.full /\ new.taken = Append(acc.taken, b) /\ new.used = acc.used + Weight[b]
      BY <2>2, <3>1, TakenType
    <3> QED
      BY <2>2, <3>2, Zenon DEF A
  <2> HIDE DEF acc, b, next
  <2>7. CASE acc.full
    <3>1. next = acc /\ Stopped(n - 1)
      BY <2>5, <2>6, <2>7
    <3>2. Stopped(n)
      BY <2>1, <3>1 DEF acc, next
    <3> HIDE DEF Going, Stopped
    <3> QED
      BY <2>1, <2>6, <2>7, <3>1, <3>2 DEF next
  <2>8. CASE ~acc.full
    <3>1. /\ acc.taken = First(blocks, n - 1) /\ acc.used = before
          /\ n - 1 > 1 => before <= budget
      BY <2>5, <2>8 DEF acc
    <3>2. over <=> n # 1 /\ now > budget
      <4>1. acc.used + Weight[b] = now
        BY <2>3, <3>1
      <4> HIDE DEF now, before
      <4> QED
        BY <2>4, <3>1, <4>1
    <3>3. CASE over
      <4>1. next.full /\ next.taken = First(blocks, n - 1) /\ n # 1 /\ now > budget
        BY <2>6, <2>8, <3>1, <3>2, <3>3
      <4>2. n - 1 \in 1 .. n - 1
        BY <2>1, <4>1
      <4>3. Stopped(n)
        BY <2>1, <3>1, <4>1, <4>2 DEF next
      <4> HIDE DEF Going, Stopped
      <4> QED
        BY <2>1, <2>6, <4>1, <4>3 DEF next
    <3>4. CASE ~over
      <4>1. /\ ~next.full /\ next.taken = First(blocks, n)
            /\ next.used = acc.used + Weight[b]
        BY <2>4, <2>6, <2>8, <3>1, <3>4
      <4>2. next.used = now /\ (n > 1 => now <= budget)
        <5>1. now = before + Weight[b] /\ now \in Nat
          BY <2>3
        <5>2. n = 1 \/ ~(now > budget)
          BY <3>2, <3>4
        <5> HIDE DEF now, before
        <5> QED
          BY <1>1, <3>1, <4>1, <5>1, <5>2
      <4>3. Going(n)
        BY <4>1, <4>2 DEF next
      <4> HIDE DEF Going, Stopped
      <4> QED
        BY <2>1, <2>6, <4>1, <4>3 DEF next
    <3> QED
      BY <3>3, <3>4
  <2> QED
    BY <2>7, <2>8
<1> HIDE DEF Good
<1>13. N \in Good
  <2>1. \A n \in 0 .. N : n \in Good
    BY <1>1, <1>11, <1>12, UpToN, Zenon
  <2> QED
    BY <1>1, <2>1
<1> USE DEF Good
<1>14. PICK c \in 0 .. N :
          /\ f[N].taken = First(blocks, c)
          /\ N > 0 => c >= 1
          /\ c > 1 => w[c] <= budget
          /\ c < N => w[c + 1] > budget
  <2>1. CASE f[N].full
    <3>1. Stopped(N)
      BY <1>13, <2>1
    <3> QED
      BY <1>1, <3>1
  <2>2. CASE ~f[N].full
    <3>1. Going(N)
      BY <1>13, <2>2
    <3> QED
      BY <1>1, <3>1
  <2> QED
    BY <2>1, <2>2
<1> QED
  BY <1>2, <1>14 DEF N, budget, w

(* A chunk belongs to a block that is shown if the block is what it gives  *)
(* way to: no chunk is shown beside its own section.                       *)
LEMMA BlockOf ==
    ASSUME NEW q, NEW c \in Found, NEW e \in Found
    PROVE  /\ Block(q, e) \in {c, SectionOf[c]} <=> Block(q, c) = Block(q, e)
           /\ Block(q, e) = c => SectionOf[c] = c \/ SectionOf[c] \in q.gone
           /\ Block(q, e) \in q.gone => Block(q, e) \in Found
<1>1. \A x \in Found : SectionOf[x] \in Found => SectionOf[x] = x
  BY RankingAssumption
<1> QED
  BY <1>1 DEF Block

LEMMA BlocksType ==
    ASSUME NEW q, NEW final \in Seq(Found)
    PROVE  /\ [i \in DOMAIN final |-> Block(q, final[i])] \in Seq({Block(q, c) : c \in Found})
           /\ Expanded(q, final) \in Seq({Block(q, c) : c \in Found})
<1> DEFINE S == {Block(q, c) : c \in Found}
           t == [i \in DOMAIN final |-> Block(q, final[i])]
<1>1. DOMAIN final = 1 .. Len(final) /\ Len(final) \in Nat /\ \A i \in DOMAIN final : final[i] \in Found
  OBVIOUS
<1>2. \A i \in DOMAIN final : Block(q, final[i]) \in S
  BY <1>1
<1> HIDE DEF S
<1>3. t \in [1 .. Len(final) -> S]
  BY <1>1, <1>2
<1>4. t \in Seq(S)
  BY <1>1, <1>3
<1>5. Expanded(q, final) = Once(t)
  BY DEF Expanded
<1> HIDE DEF t
<1>6. Expanded(q, final) \in Seq(S)
  BY <1>4, <1>5, OnceProperties
<1> QED
  BY <1>4, <1>6 DEF S, t

LEMMA ShownProperties ==
    ASSUME NEW q, NEW final \in Seq(Found), NEW blocks, blocks = Expanded(q, final)
    PROVE  LET chunksOf(b) == {i \in DOMAIN final : b \in {final[i], SectionOf[final[i]]}}
           IN  /\ \A i, j \in DOMAIN blocks : i < j =>
                     blocks[i] # blocks[j] /\ Min(chunksOf(blocks[i])) < Min(chunksOf(blocks[j]))
               /\ \A c \in Found \cap Range(blocks) : SectionOf[c] = c \/ SectionOf[c] \notin Range(blocks)
               /\ UNION {chunksOf(blocks[i]) : i \in DOMAIN blocks} = DOMAIN final
<1> DEFINE S == {Block(q, c) : c \in Found}
           t == [i \in DOMAIN final |-> Block(q, final[i])]
           chunksOf(b) == {i \in DOMAIN final : b \in {final[i], SectionOf[final[i]]}}
<1>1. DOMAIN final \subseteq Nat /\ \A i \in DOMAIN final : final[i] \in Found
  OBVIOUS
<1>2. /\ t \in Seq(S) /\ DOMAIN t = DOMAIN final
      /\ \A i \in DOMAIN final : t[i] = Block(q, final[i])
  BY BlocksType
<1>3. blocks = Once(t)
  BY DEF Expanded
<1> HIDE DEF t, S
<1>4. /\ blocks \in Seq(S) /\ IsInjective(blocks) /\ Range(blocks) = Range(t)
  BY <1>2, <1>3, OnceProperties, OnceElements
<1>5. PICK at \in [DOMAIN blocks -> DOMAIN t] :
        /\ \A n \in DOMAIN blocks :
              /\ blocks[n] = t[at[n]]
              /\ \A j \in DOMAIN t : j < at[n] => t[j] # t[at[n]]
        /\ \A n, m \in DOMAIN blocks : n < m => at[n] < at[m]
        /\ \A j \in DOMAIN t : \E n \in DOMAIN blocks : blocks[n] = t[j]
  <2>1. \E at \in [DOMAIN Once(t) -> DOMAIN t] :
           /\ \A n \in DOMAIN Once(t) :
                 /\ Once(t)[n] = t[at[n]]
                 /\ \A j \in DOMAIN t : j < at[n] => t[j] # t[at[n]]
           /\ \A n, m \in DOMAIN Once(t) : n < m => at[n] < at[m]
           /\ \A j \in DOMAIN t : \E n \in DOMAIN Once(t) : Once(t)[n] = t[j]
    <3>1. t \in Seq(S)
      BY <1>2
    <3> QED
      BY <3>1, OnceProperties
  <2> QED
    BY <1>3, <2>1
<1>6. ASSUME NEW n \in DOMAIN blocks
      PROVE  /\ at[n] \in DOMAIN final
             /\ \A i \in DOMAIN final : i \in chunksOf(blocks[n]) <=> t[i] = blocks[n]
  <2>1. at[n] \in DOMAIN final /\ blocks[n] = Block(q, final[at[n]]) /\ final[at[n]] \in Found
    BY <1>1, <1>2, <1>5
  <2>2. ASSUME NEW i \in DOMAIN final
        PROVE  i \in chunksOf(blocks[n]) <=> t[i] = blocks[n]
    <3>1. final[i] \in Found /\ t[i] = Block(q, final[i])
      BY <1>1, <1>2
    <3>2. blocks[n] \in {final[i], SectionOf[final[i]]} <=> Block(q, final[i]) = blocks[n]
      BY <2>1, <3>1, BlockOf
    <3> QED
      BY <3>1, <3>2
  <2> QED
    BY <2>1, <2>2
<1>7. ASSUME NEW n \in DOMAIN blocks
      PROVE  Min(chunksOf(blocks[n])) = at[n]
  <2> DEFINE C == chunksOf(blocks[n])
  <2>1. C \in SUBSET Nat /\ at[n] \in C
    <3>1. C \subseteq DOMAIN final
      OBVIOUS
    <3> HIDE DEF C
    <3>2. at[n] \in C
      BY <1>5, <1>6 DEF C
    <3> QED
      BY <1>1, <3>1, <3>2
  <2>2. \A i \in C : ~(i < at[n])
    <3>1. \A i \in C : i \in DOMAIN final /\ t[i] = blocks[n]
      BY <1>6
    <3> HIDE DEF C, chunksOf
    <3> QED
      BY <1>2, <1>5, <3>1
  <2> HIDE DEF C
  <2>3. Min(C) \in C /\ \A i \in C : Min(C) <= i
    BY <2>1, LeastOf
  <2>4. Min(C) \in Nat /\ at[n] \in Nat /\ Min(C) <= at[n] /\ ~(Min(C) < at[n])
    BY <2>1, <2>2, <2>3
  <2> DEFINE m == Min(C)
             a == at[n]
  <2> HIDE DEF m, a
  <2>5. m = a
    <3>1. m \in Nat /\ a \in Nat /\ m <= a /\ ~(m < a)
      BY <2>4 DEF m, a
    <3> QED
      BY <3>1
  <2> QED
    BY <2>5 DEF m, a, C
<1>8. \A i, j \in DOMAIN blocks : i < j =>
         blocks[i] # blocks[j] /\ Min(chunksOf(blocks[i])) < Min(chunksOf(blocks[j]))
  <2> SUFFICES ASSUME NEW i \in DOMAIN blocks, NEW j \in DOMAIN blocks, i < j
               PROVE  blocks[i] # blocks[j] /\ Min(chunksOf(blocks[i])) < Min(chunksOf(blocks[j]))
    OBVIOUS
  <2>1. i # j
    <3>1. DOMAIN blocks \subseteq Nat
      BY <1>4
    <3> QED
      BY <3>1
  <2>2. blocks[i] # blocks[j]
    BY <1>4, <2>1 DEF IsInjective
  <2>3. at[i] < at[j]
    BY <1>5
  <2> HIDE DEF chunksOf
  <2> QED
    BY <1>7, <2>2, <2>3
<1>9. \A c \in Found \cap Range(blocks) : SectionOf[c] = c \/ SectionOf[c] \notin Range(blocks)
  <2> SUFFICES ASSUME NEW c \in Found, c \in Range(blocks), SectionOf[c] \in Range(blocks)
               PROVE  SectionOf[c] = c
    OBVIOUS
  <2>1. \A b \in Range(blocks) : \E e \in Found : b = Block(q, e)
    <3> SUFFICES ASSUME NEW b \in Range(t) PROVE \E e \in Found : b = Block(q, e)
      BY <1>4
    <3>1. PICK i \in DOMAIN t : b = t[i]
      BY DEF Range
    <3> QED
      BY <1>1, <1>2, <3>1
  <2>2. PICK e \in Found : c = Block(q, e)
    BY <2>1
  <2>3. PICK x \in Found : SectionOf[c] = Block(q, x)
    BY <2>1
  <2>4. CASE SectionOf[c] \in q.gone
    <3>1. SectionOf[c] \in Found
      BY <2>3, <2>4, BlockOf
    <3> QED
      BY <3>1, RankingAssumption
  <2> QED
    BY <2>2, <2>4, BlockOf
<1>10. UNION {chunksOf(blocks[i]) : i \in DOMAIN blocks} = DOMAIN final
  <2>1. UNION {chunksOf(blocks[i]) : i \in DOMAIN blocks} \subseteq DOMAIN final
    OBVIOUS
  <2>2. ASSUME NEW j \in DOMAIN final
        PROVE  \E n \in DOMAIN blocks : j \in chunksOf(blocks[n])
    <3>1. PICK n \in DOMAIN blocks : blocks[n] = t[j]
      BY <1>2, <1>5
    <3> QED
      BY <1>6, <3>1
  <2> HIDE DEF chunksOf
  <2> QED
    BY <2>1, <2>2
<1> QED
  BY <1>8, <1>9, <1>10

LEMMA FinalType ==
    ASSUME NEW fused \in Seq(Found), NEW order \in Seq(Int)
    PROVE  Final(fused, order) \in Seq(Found)
<1> DEFINE N == Len(fused)
           valid == InRange(order, N)
<1>1. N \in Nat /\ \A i \in 1 .. N : fused[i] \in Found
  OBVIOUS
<1> HIDE DEF N
<1>2. valid \in Seq(0 .. N - 1)
  BY <1>1, InRangeType
<1>3. Final(fused, order) = [i \in DOMAIN valid |-> fused[valid[i] + 1]]
  BY DEF Final, N
<1> HIDE DEF valid
<1>4. Len(valid) \in Nat /\ DOMAIN valid = 1 .. Len(valid) /\ \A i \in DOMAIN valid : valid[i] \in 0 .. N - 1
  <2> DEFINE I == 0 .. N - 1
  <2> HIDE DEF I
  <2>1. valid \in Seq(I)
    BY <1>2 DEF I
  <2>2. Len(valid) \in Nat /\ DOMAIN valid = 1 .. Len(valid) /\ \A i \in DOMAIN valid : valid[i] \in I
    BY <2>1
  <2> QED
    BY <2>2 DEF I
<1>5. \A i \in DOMAIN valid : fused[valid[i] + 1] \in Found
  <2>1. \A x \in 0 .. N - 1 : x + 1 \in 1 .. N
    BY <1>1
  <2> QED
    BY <1>1, <1>4, <2>1
<1> QED
  BY <1>3, <1>4, <1>5

RankingInv ==
    \/ question = NoQuestion /\ outcome = NoOutcome
    \/ question \in Questions /\ outcome = Ranked(question)

LEMMA NothingRanked == question = NoQuestion /\ outcome = NoOutcome => RankingSound
<1> SUFFICES ASSUME question = NoQuestion, outcome = NoOutcome
             PROVE  RankingSound
  OBVIOUS
<1>1. /\ outcome.fused = <<>> /\ outcome.order = <<>> /\ outcome.blocks = <<>> /\ outcome.taken = <<>>
      /\ question.reply.by = "unasked"
  BY DEF NoOutcome, NoQuestion
<1>2. Range(<<>>) = {}
  BY DEF Range
<1>3. UnanimousFirst
  BY <1>1, <1>2 DEF UnanimousFirst
<1>4. NoneDropped
  BY <1>1 DEF NoneDropped
<1>5. DOMAIN Final(<<>>, <<>>) = {}
  <2>1. <<>> \in Seq(Int) /\ 0 \in Nat /\ Len(<<>>) = 0
    OBVIOUS
  <2>2. InRange(<<>>, 0) \in Seq(0 .. 0 - 1)
    BY <2>1, InRangeType, Zenon
  <2>3. \A i \in DOMAIN InRange(<<>>, 0) : InRange(<<>>, 0)[i] \in 0 .. 0 - 1
    BY <2>2
  <2>4. 0 .. 0 - 1 = {}
    OBVIOUS
  <2>5. DOMAIN InRange(<<>>, 0) = {}
    BY <2>3, <2>4
  <2> QED
    BY <2>1, <2>5 DEF Final
<1>6. ShownOnce
  BY <1>1, <1>2, <1>5 DEF ShownOnce
<1>7. WithinBudget
  BY <1>1 DEF WithinBudget
<1> QED
  BY <1>3, <1>4, <1>6, <1>7 DEF RankingSound

LEMMA RankedSound ==
    ASSUME question \in Questions, outcome = Ranked(question)
    PROVE  RankingSound
<1> DEFINE q == question
           fused == Fused(q)
           order == IF fused = <<>> THEN <<>> ELSE Order(q, Len(fused))
           final == Final(fused, order)
           blocks == Expanded(q, final)
           taken == Affordable(q, blocks)
<1>1. /\ outcome.fused = fused /\ outcome.order = order
      /\ outcome.blocks = blocks /\ outcome.taken = taken
  BY DEF Ranked
<1>2. /\ fused \in Seq(Found) /\ Len(fused) <= q.candidates
      /\ \A c, e \in Found :
            /\ e \in Range(fused)
            /\ \A i \in DOMAIN q.lists : e \in Range(q.lists[i]) => Before(q.lists[i], c, e)
            => Before(fused, c, e)
  BY FusedProperties
<1> HIDE DEF fused
<1>3. UnanimousFirst
  BY <1>1, <1>2, Zenon DEF UnanimousFirst
<1>4. Len(fused) \in Nat /\ (fused = <<>> <=> Len(fused) = 0)
  BY <1>2
<1>5. q.budget \in Nat /\ q.results \in Nat \ {0} /\ q.candidates \in Nat
  BY RankingAssumption
<1>6. /\ order \in Seq(Int)
      /\ q.reply.by \in {"llm", "words", "nobody"} =>
            /\ IsInjective(order) /\ Range(order) \subseteq 0 .. Len(fused) - 1
            /\ Len(order) = Min({Len(fused), q.results})
  <2>1. CASE fused = <<>>
    <3>1. order = <<>> /\ Len(fused) = 0
      BY <1>4, <2>1
    <3>2. Min({0, q.results}) = 0
      BY <1>5, LeastOfTwo
    <3>3. <<>> \in Seq(Int) /\ IsInjective(<<>>) /\ Range(<<>>) = {} /\ Len(<<>>) = 0
      BY DEF IsInjective, Range
    <3> HIDE DEF order
    <3> QED
      BY <3>1, <3>2, <3>3
  <2>2. CASE fused # <<>>
    <3>1. order = Order(q, Len(fused)) /\ Len(fused) \in 1 .. q.candidates
      BY <1>2, <1>4, <1>5, <2>2
    <3> HIDE DEF order
    <3>2. /\ order \in Seq(Int)
          /\ q.reply.by \in {"llm", "words", "nobody"} =>
                /\ order \in Seq(0 .. Len(fused) - 1)
                /\ IsInjective(order)
                /\ Len(order) = Min({Len(fused), q.results})
      BY <3>1, OrderProperties
    <3>3. order \in Seq(0 .. Len(fused) - 1) => Range(order) \subseteq 0 .. Len(fused) - 1
      BY DEF Range
    <3> QED
      BY <3>2, <3>3
  <2> QED
    BY <2>1, <2>2
<1> HIDE DEF order
<1>7. NoneDropped
  BY <1>1, <1>6, Zenon DEF NoneDropped
<1>8. final \in Seq(Found)
  BY <1>2, <1>6, FinalType
<1> DEFINE S == {Block(q, c) : c \in Found}
<1>9. blocks \in Seq(S)
  <2> HIDE DEF final
  <2> QED
    BY <1>8, BlocksType, Zenon
<1>10. ShownOnce
  <2> DEFINE F == Final(outcome.fused, outcome.order)
             B == outcome.blocks
             chunksOf(b) == {i \in DOMAIN F : b \in {F[i], SectionOf[F[i]]}}
  <2>1. B = Expanded(q, F) /\ F \in Seq(Found)
    BY <1>1, <1>8, Zenon
  <2> HIDE DEF F, B
  <2>2. /\ \A i, j \in DOMAIN B : i < j =>
              B[i] # B[j] /\ Min(chunksOf(B[i])) < Min(chunksOf(B[j]))
        /\ \A c \in Found \cap Range(B) : SectionOf[c] = c \/ SectionOf[c] \notin Range(B)
        /\ UNION {chunksOf(B[i]) : i \in DOMAIN B} = DOMAIN F
    BY <2>1, ShownProperties
  <2> QED
    BY <2>2, Zenon DEF ShownOnce, F, B
<1> HIDE DEF blocks
<1>11. \A b \in S : Weight[b] \in Nat
  BY RankingAssumption DEF Block
<1> HIDE DEF S
<1>12. PICK c \in 0 .. Len(blocks) :
          /\ taken = First(blocks, c)
          /\ Len(blocks) > 0 => c >= 1
          /\ c > 1 => Weights(blocks)[c] <= q.budget
          /\ c < Len(blocks) => Weights(blocks)[c + 1] > q.budget
  BY <1>5, <1>9, <1>11, AffordableProperties, Zenon
<1>13. Len(taken) = c
  BY <1>9, <1>12, FirstProperties
<1>14. Len(blocks) \in Nat /\ (blocks # <<>> => Len(blocks) > 0) /\ c <= Len(blocks)
  BY <1>9
<1>15. WithinBudget
  <2> HIDE DEF taken
  <2>1. /\ c <= Len(blocks) /\ taken = SubSeq(blocks, 1, c)
        /\ blocks # <<>> => c >= 1
        /\ c > 1 => Weights(blocks)[c] <= q.budget
        /\ c < Len(blocks) => Weights(blocks)[c + 1] > q.budget
    BY <1>12, <1>14 DEF First
  <2> QED
    BY <1>1, <1>13, <2>1, Zenon DEF WithinBudget
<1> QED
  BY <1>3, <1>7, <1>10, <1>15 DEF RankingSound

LEMMA RankingNextKeeps == RankingInv /\ [RankingNext]_rankingVars => RankingInv'
<1> SUFFICES ASSUME RankingInv, [RankingNext]_rankingVars
             PROVE  RankingInv'
  OBVIOUS
<1>1. CASE RankingNext
  <2>1. PICK q \in Questions : question' = q /\ outcome' = Ranked(q)
    BY <1>1 DEF RankingNext, Rank
  <2> QED
    BY <2>1 DEF RankingInv
<1>2. CASE UNCHANGED rankingVars
  BY <1>2 DEF RankingInv, rankingVars
<1> QED
  BY <1>1, <1>2

(* From the two searches to the context: a chunk that every search that    *)
(* found the other ranks higher stays ahead of it, no reranker but a       *)
(* hosted service drops or repeats a candidate, no text is shown twice,    *)
(* and the context takes the best blocks, as many as the budget allows.    *)
THEOREM RankingAlwaysSound == RankingSpec => []RankingSound
<1>1. RankingInit => RankingInv
  BY DEF RankingInit, RankingInv
<1>2. RankingInv => RankingSound
  BY NothingRanked, RankedSound DEF RankingInv
<1> QED
  BY <1>1, <1>2, RankingNextKeeps, PTL DEF RankingSpec

-----------------------------------------------------------------------------
(***************************************************************************)
(* Chunking.  Each loop has an invariant.  The windows up to a round leave *)
(* no gap before the next and, without an overlap, do not reach into it    *)
(* (Slides).  The headings pushed so far are those that no later one has   *)
(* ended (StillOpen).  The offsets that are added up are the lengths of    *)
(* the text (OffsetsAgree).  An offset is in the section of the heading    *)
(* that is above its line (BelowItsHeading, InSomeSection), and what is    *)
(* computed as the start of a chunk is never behind its first character.   *)
(***************************************************************************)
LEMMA MostOf ==
    ASSUME NEW N \in Nat, NEW S \in SUBSET Int, S # {}, \A y \in S : y <= N
    PROVE  Max(S) \in S /\ \A y \in S : y <= Max(S)
<1> DEFINE short == {N - y : y \in S}
<1>1. \A y \in S : N - y \in Nat
  OBVIOUS
<1>2. short \in SUBSET Nat /\ short # {}
  BY <1>1
<1>3. Min(short) \in short /\ \A m \in short : Min(short) <= m
  BY <1>2, LeastOf, Zenon
<1>4. PICK x \in S : Min(short) = N - x
  BY <1>3
<1>5. \A y \in S : N - x <= N - y
  BY <1>3, <1>4
<1>6. \A y \in S : x >= y
  BY <1>5
<1>7. Max(S) = CHOOSE z \in S : \A y \in S : z >= y
  BY Zenon DEF Max
<1>8. Max(S) \in S /\ \A y \in S : Max(S) >= y
  BY <1>6, <1>7, Zenon
<1> QED
  BY <1>8

(* What strip leaves begins and ends within the range, holds all that is   *)
(* no blank there, and begins with such a character.                       *)
LEMMA StrippedProperties ==
    ASSUME NEW t, NEW from \in Nat, NEW to \in Int
    PROVE  LET r == Stripped(t, from, to)
           IN  /\ r.from \in Nat /\ r.to \in Nat /\ from <= r.from /\ r.from <= r.to
               /\ r = [from |-> r.from, to |-> r.to]
               /\ \A o \in from .. to - 1 : ~Blank(t[o + 1]) => o \in r.from .. r.to - 1
               /\ ~Empty(r) => r.from < r.to /\ r.to <= to /\ ~Blank(t[r.from + 1])
<1> DEFINE inked == {i \in from .. to - 1 : ~Blank(t[i + 1])}
           r == Stripped(t, from, to)
<1>1. r = IF inked = {} THEN [from |-> from, to |-> from] ELSE [from |-> Min(inked), to |-> Max(inked) + 1]
  BY Zenon DEF Stripped
<1>2. \A i : i \in inked <=> i \in from .. to - 1 /\ ~Blank(t[i + 1])
  OBVIOUS
<1> HIDE DEF inked, r
<1>3. CASE inked = {}
  <2>1. r = [from |-> from, to |-> from]
    BY <1>1, <1>3
  <2>2. r.from = from /\ r.to = from
    BY <2>1
  <2>3. Empty(r)
    BY <2>2 DEF Empty
  <2>4. \A o \in from .. to - 1 : Blank(t[o + 1])
    BY <1>2, <1>3
  <2> QED
    BY <2>1, <2>2, <2>3, <2>4 DEF r
<1>4. CASE inked # {}
  <2>1. inked \in SUBSET Nat /\ inked \in SUBSET Int /\ \A i \in inked : from <= i /\ i <= to - 1
    BY <1>2
  <2>2. Min(inked) \in inked /\ \A i \in inked : Min(inked) <= i
    BY <1>4, <2>1, LeastOf, Zenon
  <2>3. to \in Nat /\ \A i \in inked : i <= to
    <3>1. PICK i \in inked : TRUE
      BY <1>4
    <3>2. i \in Nat /\ i <= to - 1
      BY <2>1, <3>1
    <3>3. \A j \in inked : j \in Int /\ j <= to - 1
      BY <2>1
    <3> QED
      BY <3>2, <3>3
  <2>4. Max(inked) \in inked /\ \A i \in inked : i <= Max(inked)
    BY <1>4, <2>1, <2>3, MostOf
  <2>5. r.from = Min(inked) /\ r.to = Max(inked) + 1 /\ r = [from |-> Min(inked), to |-> Max(inked) + 1]
    BY <1>1, <1>4
  <2>6. \A o \in from .. to - 1 : ~Blank(t[o + 1]) => o \in r.from .. r.to - 1
    <3> DEFINE lo == Min(inked)
               hi == Max(inked)
    <3>0. \A o \in inked : o \in Int /\ lo <= o /\ o <= hi /\ lo \in Int /\ hi \in Int
      BY <2>1, <2>2, <2>4
    <3> HIDE DEF lo, hi
    <3>1. \A o \in inked : o \in r.from .. r.to - 1
      <4>1. r.from = lo /\ r.to = hi + 1
        BY <2>5, Zenon DEF lo, hi
      <4> QED
        BY <3>0, <4>1
    <3> QED
      BY <1>2, <3>1
  <2>7. ~Blank(t[r.from + 1])
    BY <1>2, <2>2, <2>5
  <2> QED
    BY <2>1, <2>2, <2>4, <2>5, <2>6, <2>7 DEF r
<1> QED
  BY <1>3, <1>4

(* A break cuts off something and is not behind the end.                   *)
LEMMA BreakProperties ==
    ASSUME NEW t, NEW from \in Nat, NEW to \in Nat, from < to, NEW least \in Nat
    PROVE  BestBreak(t, from, to, least) \in from + 1 .. to
<1> DEFINE cuts(k) == {i \in Places(t, from, to, Breaks[k]) : i - from >= least}
           ok == {k \in DOMAIN Breaks : cuts(k) # {}}
           k == Min(ok)
           best == Max(cuts(Min(ok)))
<1>1. BestBreak(t, from, to, least) = IF ok = {} THEN to ELSE best + Len(Breaks[k])
  BY Zenon DEF BestBreak
<1>2. DOMAIN Breaks = 1 .. 4 /\ \A j \in 1 .. 4 : Len(Breaks[j]) \in 1 .. 2
  BY DEF Breaks
<1>3. ASSUME NEW j \in 1 .. 4, NEW i \in cuts(j)
      PROVE  i \in Nat /\ from <= i /\ i + Len(Breaks[j]) <= to
  BY <1>2 DEF Places
<1>4. ASSUME ok # {}
      PROVE  k \in 1 .. 4 /\ cuts(k) # {}
  <2>1. ok \in SUBSET Nat /\ ok \subseteq 1 .. 4
    BY <1>2
  <2>2. \A j \in ok : cuts(j) # {}
    OBVIOUS
  <2> HIDE DEF ok
  <2>3. Min(ok) \in ok
    BY <1>4, <2>1, LeastOf, Zenon
  <2> QED
    BY <2>1, <2>2, <2>3
<1> HIDE DEF k
<1>5. ASSUME ok # {}
      PROVE  best \in cuts(k)
  <2> DEFINE all == cuts(k)
  <2>1. all \in SUBSET Int /\ all # {} /\ \A i \in all : i <= to
    <3>1. k \in 1 .. 4 /\ all # {}
      BY <1>4, <1>5 DEF k
    <3>2. \A i \in all : i \in Nat /\ i + Len(Breaks[k]) <= to /\ Len(Breaks[k]) \in 1 .. 2
      BY <1>2, <1>3, <3>1
    <3>3. \A i \in all : i \in Int
      BY <3>2
    <3>4. \A i \in all : i <= to
      BY <3>2
    <3> QED
      BY <3>1, <3>3, <3>4
  <2> HIDE DEF all
  <2>2. Max(all) \in all
    BY <2>1, MostOf, Zenon
  <2> QED
    BY <2>2 DEF all, k
<1> HIDE DEF cuts, best
<1>6. ok # {} => best \in Nat /\ from <= best /\ best + Len(Breaks[k]) <= to /\ Len(Breaks[k]) \in 1 .. 2
  <2> SUFFICES ASSUME ok # {}
               PROVE  best \in Nat /\ from <= best /\ best + Len(Breaks[k]) <= to /\ Len(Breaks[k]) \in 1 .. 2
    OBVIOUS
  <2>1. k \in 1 .. 4 /\ best \in cuts(k)
    BY <1>4, <1>5 DEF k
  <2> QED
    BY <1>2, <1>3, <2>1
<1>7. CASE ok = {}
  BY <1>1, <1>7
<1>8. CASE ok # {}
  <2>1. BestBreak(t, from, to, least) = best + Len(Breaks[k])
    BY <1>1, <1>8
  <2> DEFINE n == Len(Breaks[k])
  <2>2. best \in Nat /\ from <= best /\ best + n <= to /\ n \in 1 .. 2
    BY <1>6, <1>8
  <2> HIDE DEF n, ok
  <2>3. best + n \in from + 1 .. to
    BY <2>2
  <2> QED
    BY <2>1, <2>3 DEF n
<1> QED
  BY <1>7, <1>8

LEMMA HalfOf == \A size \in Nat : size \div 2 \in Nat
  OBVIOUS

(* A window holds something, ends in the range, and is no longer than its  *)
(* size.                                                                   *)
LEMMA WindowEndProperties ==
    ASSUME NEW t, NEW start \in Nat, NEW to \in Nat, start < to, NEW size \in Nat \ {0}
    PROVE  WindowEnd(t, start, to, size) \in start + 1 .. to /\ WindowEnd(t, start, to, size) <= start + size
<1> DEFINE most == Min({start + size, to})
           end == WindowEnd(t, start, to, size)
           half == size \div 2
<1>1. most = IF start + size <= to THEN start + size ELSE to
  BY LeastOfTwo
<1>2. end = IF most < to THEN BestBreak(t, start, most, half) ELSE to
  BY Zenon DEF WindowEnd
<1>3. half \in Nat
  BY HalfOf
<1> HIDE DEF most, half
<1>4. most \in Nat /\ start < most /\ most <= to /\ most <= start + size /\ (~(most < to) => to <= start + size)
  BY <1>1
<1>5. BestBreak(t, start, most, half) \in start + 1 .. most
  BY <1>3, <1>4, BreakProperties
<1> QED
  BY <1>2, <1>4, <1>5

(* What the windows up to a round are: they leave no gap before the next,  *)
(* and without an overlap none begins before the ones before it end.       *)
Slides(t, range, size, overlap) ==
    {acc \in [starts : SUBSET (range.from .. range.to - 1), next : range.from .. range.to] :
        /\ \A o \in range.from .. acc.next - 1 :
              \E s \in acc.starts : s <= o /\ o < WindowEnd(t, s, range.to, size)
        /\ \A s \in acc.starts : s < acc.next
        /\ overlap = 0 =>
              /\ \A s \in acc.starts : WindowEnd(t, s, range.to, size) <= acc.next
              /\ \A s, r \in acc.starts : s < r => WindowEnd(t, s, range.to, size) <= r}

(* The next window begins behind where this one did and not behind its     *)
(* end; where it ends if there is no overlap.                              *)
LEMMA NextWindow ==
    ASSUME NEW to \in Nat, NEW next \in Nat, next < to, NEW end \in next + 1 .. to, NEW overlap \in Nat,
           NEW after, end = to => after = end, end # to => after = Max({end - overlap, next + 1})
    PROVE  after \in next + 1 .. end /\ (overlap = 0 => after = end)
<1> DEFINE S == {end - overlap, next + 1}
<1>1. S \in SUBSET Int /\ S # {} /\ \A y \in S : y <= end
  OBVIOUS
<1>2. Max(S) \in S /\ \A y \in S : y <= Max(S)
  <2>1. end \in Nat
    OBVIOUS
  <2> HIDE DEF S
  <2> QED
    BY <1>1, <2>1, MostOf, Zenon
<1>3. next + 1 \in S /\ end - overlap \in S /\ \A y \in S : y = end - overlap \/ y = next + 1
  OBVIOUS
<1> DEFINE m == Max(S)
<1> HIDE DEF S
<1>4. m \in Int /\ m <= end /\ next + 1 <= m /\ end - overlap <= m
  BY <1>1, <1>2, <1>3
<1> HIDE DEF m
<1>5. after = IF end = to THEN end ELSE m
  BY DEF m, S
<1> QED
  BY <1>4, <1>5

(* A round of the loop keeps what is said of the windows and goes on.      *)
LEMMA SlidKeeps ==
    ASSUME NEW t, NEW range, range.from \in Nat, range.to \in Nat,
           NEW size \in Nat \ {0}, NEW overlap \in Nat,
           NEW acc \in Slides(t, range, size, overlap)
    PROVE  /\ Slid(t, range, size, overlap, acc) \in Slides(t, range, size, overlap)
           /\ \/ Slid(t, range, size, overlap, acc).next = range.to
              \/ Slid(t, range, size, overlap, acc).next > acc.next
<1> DEFINE from == range.from
           to == range.to
           next == acc.next
           End(s) == WindowEnd(t, s, to, size)
           end == End(next)
           after == IF end = to THEN end ELSE Max({end - overlap, next + 1})
           new == Slid(t, range, size, overlap, acc)
<1>1. /\ acc.starts \in SUBSET (from .. to - 1) /\ next \in from .. to
      /\ acc \in [starts : SUBSET (from .. to - 1), next : from .. to]
      /\ \A o \in from .. next - 1 : \E s \in acc.starts : s <= o /\ o < End(s)
      /\ \A s \in acc.starts : s < next
      /\ overlap = 0 => \A s \in acc.starts : End(s) <= next
      /\ overlap = 0 => \A s, r \in acc.starts : s < r => End(s) <= r
  BY Zenon DEF Slides
<1>2. new = IF next = to THEN acc ELSE [starts |-> acc.starts \cup {next}, next |-> after]
  BY Zenon DEF Slid
<1>3. CASE next = to
  BY <1>2, <1>3
<1>4. CASE next # to
  <2>1. next \in Nat /\ next < to /\ from <= next /\ to \in Nat /\ from \in Nat
    BY <1>1, <1>4
  <2>2. end \in next + 1 .. to
    BY <2>1, WindowEndProperties
  <2>3. \A s \in acc.starts : End(s) \in s + 1 .. to
    <3>1. \A s \in acc.starts : s \in Nat /\ s < to
      BY <1>1
    <3> QED
      BY <3>1, WindowEndProperties
  <2> HIDE DEF End, end, from, to, next
  <2>4. after \in next + 1 .. end /\ (overlap = 0 => after = end)
    <3>1. (end = to => after = end) /\ (end # to => after = Max({end - overlap, next + 1}))
      OBVIOUS
    <3> HIDE DEF after
    <3> QED
      BY <2>1, <2>2, <3>1, NextWindow, Zenon
  <2>5. new = [starts |-> acc.starts \cup {next}, next |-> after]
    BY <1>2, <1>4
  <2> HIDE DEF new, after
  <2> DEFINE starts == acc.starts \cup {next}
  <2>6. new.starts = starts /\ new.next = after
    BY <2>5
  <2>7. starts \in SUBSET (from .. to - 1) /\ after \in from .. to /\ after \in Nat
    BY <1>1, <2>1, <2>2, <2>4
  <2>8. new \in [starts : SUBSET (from .. to - 1), next : from .. to]
    BY <2>5, <2>7
  <2>9. \A o \in from .. after - 1 : \E s \in starts : s <= o /\ o < End(s)
    <3> SUFFICES ASSUME NEW o \in from .. after - 1
                 PROVE  \E s \in starts : s <= o /\ o < End(s)
      OBVIOUS
    <3>1. CASE o \in from .. next - 1
      BY <1>1, <3>1
    <3>2. CASE o \notin from .. next - 1
      <4>1. next <= o /\ o < end
        BY <2>1, <2>2, <2>4, <2>7, <3>2
      <4>2. end = End(next)
        BY DEF end
      <4> QED
        BY <4>1, <4>2
    <3> QED
      BY <3>1, <3>2
  <2>10. \A s \in starts : s < after
    <3>1. \A s \in acc.starts : s \in Nat /\ s < next
      BY <1>1, <2>1
    <3> QED
      BY <2>1, <2>2, <2>4, <3>1
  <2>11. overlap = 0 => \A s \in starts : End(s) <= after
    <3> SUFFICES ASSUME overlap = 0, NEW s \in starts
                 PROVE  End(s) <= after
      OBVIOUS
    <3>1. CASE s = next
      <4>1. End(s) = after
        BY <2>4, <3>1 DEF end
      <4> QED
        BY <2>7, <4>1
    <3>2. CASE s \in acc.starts
      <4>1. End(s) <= next /\ End(s) \in Int
        BY <1>1, <2>3, <2>7, <3>2
      <4>2. next <= after
        BY <2>1, <2>2, <2>4
      <4> QED
        BY <2>1, <2>7, <4>1, <4>2
    <3> QED
      BY <3>1, <3>2
  <2>12. overlap = 0 => \A s, r \in starts : s < r => End(s) <= r
    <3> SUFFICES ASSUME overlap = 0, NEW s \in starts, NEW r \in starts, s < r
                 PROVE  End(s) <= r
      OBVIOUS
    <3>1. \A x \in acc.starts : x \in Nat /\ x < next
      BY <1>1, <2>1
    <3>2. s \in acc.starts
      BY <2>1, <3>1
    <3> QED
      BY <1>1, <3>2
  <2>13. new \in Slides(t, range, size, overlap)
    BY <2>6, <2>8, <2>9, <2>10, <2>11, <2>12 DEF Slides, End, from, to
  <2>14. new.next > next
    BY <2>1, <2>2, <2>4, <2>6, <2>7
  <2> QED
    BY <2>13, <2>14 DEF new, next
<1> QED
  BY <1>3, <1>4

(* As many rounds as the range has characters bring the windows to its     *)
(* end.                                                                    *)
LEMMA StartsProperties ==
    ASSUME NEW t, NEW range, range.from \in Nat, range.to \in Nat, range.from <= range.to,
           NEW size \in Nat \ {0}, NEW overlap \in Nat
    PROVE  \E acc \in Slides(t, range, size, overlap) :
              acc.next = range.to /\ Starts(t, range, size, overlap) = acc.starts
<1> DEFINE N == range.to - range.from
           S == Slides(t, range, size, overlap)
           base == [starts |-> {}, next |-> range.from]
           Loop(g) == g = [i \in 0 .. N |-> IF i = 0 THEN base ELSE Slid(t, range, size, overlap, g[i - 1])]
           step == [x \in S \X (1 .. N) |-> Slid(t, range, size, overlap, x[1])]
           f == CHOOSE g : Loop(g)
<1>1. N \in Nat
  OBVIOUS
<1>2. Starts(t, range, size, overlap) = f[N].starts
  BY Zenon DEF Starts
<1>3. base \in S /\ base.next = range.from
  <2>1. base \in [starts : SUBSET (range.from .. range.to - 1), next : range.from .. range.to]
    OBVIOUS
  <2>2. base.starts = {} /\ base.next = range.from
    OBVIOUS
  <2>3. \A o \in range.from .. base.next - 1 : FALSE
    BY <2>2
  <2> HIDE DEF base
  <2> QED
    BY <2>1, <2>2, <2>3 DEF Slides
<1>4. \A a \in S : /\ Slid(t, range, size, overlap, a) \in S
                   /\ \/ Slid(t, range, size, overlap, a).next = range.to
                      \/ Slid(t, range, size, overlap, a).next > a.next
  BY SlidKeeps
<1>5. \A a \in S : a.next \in range.from .. range.to
  BY DEF Slides
<1>6. \A a \in S, i \in 1 .. N : step[<<a, i>>] = Slid(t, range, size, overlap, a)
  OBVIOUS
<1> HIDE DEF step, S, base, N
<1>7. ClosedUnder(S, N, step)
  BY <1>4, <1>6 DEF ClosedUnder
<1>8. PICK g \in [0 .. N -> S] : IsLoop(g, N, base, step)
  BY <1>1, <1>3, <1>7, LoopExists, Zenon
<1>9. g[0] = base /\ \A i \in 1 .. N : g[i] = Slid(t, range, size, overlap, g[i - 1])
  <2>1. \A i \in 1 .. N : g[i - 1] \in S
    <3>1. \A i \in 1 .. N : i - 1 \in 0 .. N
      BY <1>1
    <3> QED
      BY <3>1
  <2> QED
    BY <1>6, <1>8, <2>1 DEF IsLoop
<1>10. Loop(g)
  <2>1. \A i \in 0 .. N : g[i] = IF i = 0 THEN base ELSE Slid(t, range, size, overlap, g[i - 1])
    BY <1>1, <1>9
  <2>2. g = [i \in 0 .. N |-> g[i]]
    OBVIOUS
  <2> QED
    BY <2>1, <2>2
<1> HIDE DEF Loop
<1>11. Loop(f)
  BY <1>10, Zenon
<1> HIDE DEF f
<1>12. f[0] = base /\ \A i \in 1 .. N : f[i] = Slid(t, range, size, overlap, f[i - 1])
  <2>1. \A i \in 0 .. N : f[i] = IF i = 0 THEN base ELSE Slid(t, range, size, overlap, f[i - 1])
    BY <1>11 DEF Loop
  <2>2. 0 \in 0 .. N /\ \A i \in 1 .. N : i \in 0 .. N /\ i # 0
    BY <1>1
  <2> QED
    BY <2>1, <2>2
<1> DEFINE Good == {i \in 0 .. N : f[i] \in S /\ (f[i].next = range.to \/ f[i].next >= range.from + i)}
<1>13. 0 \in Good
  BY <1>1, <1>3, <1>12
<1>14. \A i \in 1 .. N : i - 1 \in Good => i \in Good
  <2> SUFFICES ASSUME NEW i \in 1 .. N, i - 1 \in Good
               PROVE  i \in Good
    OBVIOUS
  <2> DEFINE a == f[i - 1]
             b == f[i]
  <2>1. i \in 0 .. N /\ a \in S /\ (a.next = range.to \/ a.next >= range.from + (i - 1))
    BY <1>1
  <2>2. b = Slid(t, range, size, overlap, a)
    BY <1>12
  <2> HIDE DEF a
  <2>3. b \in S /\ (b.next = range.to \/ b.next > a.next)
    BY <1>4, <2>1, <2>2
  <2> HIDE DEF b
  <2>4. a.next \in Int /\ b.next \in Int /\ a.next <= range.to /\ b.next <= range.to
    BY <1>5, <2>1, <2>3
  <2>5. b.next = range.to \/ b.next >= range.from + i
    BY <2>1, <2>3, <2>4
  <2> QED
    BY <2>1, <2>3, <2>5 DEF b
<1> HIDE DEF Good
<1>15. \A i \in 0 .. N : i \in Good
  BY <1>1, <1>13, <1>14, UpToN, Zenon
<1>16. N \in 0 .. N
  BY <1>1
<1>17. f[N] \in S /\ (f[N].next = range.to \/ f[N].next >= range.from + N)
  BY <1>15, <1>16 DEF Good
<1>18. f[N].next = range.to
  <2> DEFINE next == f[N].next
  <2>1. next \in range.from .. range.to
    BY <1>5, <1>17
  <2>2. next = range.to \/ next >= range.from + N
    BY <1>17
  <2> HIDE DEF next
  <2>3. next = range.to
    BY <2>1, <2>2 DEF N
  <2> QED
    BY <2>3 DEF next
<1> QED
  BY <1>2, <1>17, <1>18 DEF S

(* Windows cover what is no blank, are no longer than their size, begin    *)
(* behind no blank of their own, and do not share a character if they do   *)
(* not overlap.                                                            *)
AreWindows(t, W, range, size) ==
    /\ \A w \in W :
          /\ w.at \in Nat /\ w.from \in Nat /\ w.to \in Nat
          /\ range.from <= w.at /\ w.at <= w.from /\ w.from < w.to /\ w.to <= range.to
          /\ w.to - w.from <= size /\ ~Blank(t[w.from + 1])
    /\ \A o \in range.from .. range.to - 1 :
          ~Blank(t[o + 1]) => \E w \in W : o \in w.from .. w.to - 1

Apart(w, v) == w.to <= v.from \/ v.to <= w.from

(* The pieces of a range are windows in the sense above.                   *)
LEMMA WindowsProperties ==
    ASSUME NEW t, NEW range, range.from \in Nat, range.to \in Nat, range.from <= range.to,
           NEW size \in Nat \ {0}, NEW lap \in Nat
    PROVE  /\ AreWindows(t, Windows(t, range, size, lap), range, size)
           /\ lap = 0 => \A w, v \in Windows(t, range, size, lap) : w.at # v.at => Apart(w, v)
<1> DEFINE overlap == Min({lap, size \div 2})
           from == range.from
           to == range.to
           End(s) == WindowEnd(t, s, to, size)
           piece(s) == Stripped(t, s, End(s))
           starts == Starts(t, range, size, overlap)
           W == Windows(t, range, size, lap)
<1>1. overlap \in Nat /\ (lap = 0 => overlap = 0)
  <2> DEFINE half == size \div 2
  <2>1. half \in Nat
    BY HalfOf
  <2> HIDE DEF half
  <2>2. Min({lap, half}) = IF lap <= half THEN lap ELSE half
    BY <2>1, LeastOfTwo
  <2> QED
    BY <2>1, <2>2 DEF half
<1>2. W = {[at |-> s, from |-> piece(s).from, to |-> piece(s).to] : s \in {s \in starts : ~Empty(piece(s))}}
  BY DEF Windows
<1> HIDE DEF overlap, starts
<1>3. PICK acc \in Slides(t, range, size, overlap) : acc.next = to /\ starts = acc.starts
  BY <1>1, StartsProperties DEF starts
<1>4. /\ starts \in SUBSET (from .. to - 1)
      /\ \A o \in from .. to - 1 : \E s \in starts : s <= o /\ o < End(s)
      /\ lap = 0 => \A s, r \in starts : s < r => End(s) <= r
  BY <1>1, <1>3 DEF Slides
<1>5. \A s \in starts : s \in Nat /\ from <= s /\ s < to
  BY <1>4
<1>6. \A s \in starts : End(s) \in s + 1 .. to /\ End(s) <= s + size
  BY <1>5, WindowEndProperties
<1> HIDE DEF W
<1>7. ASSUME NEW s \in starts
      PROVE  /\ piece(s).from \in Nat /\ piece(s).to \in Nat
             /\ s <= piece(s).from /\ piece(s).from <= piece(s).to
             /\ \A o \in s .. End(s) - 1 : ~Blank(t[o + 1]) => o \in piece(s).from .. piece(s).to - 1
             /\ ~Empty(piece(s)) => /\ piece(s).from < piece(s).to /\ piece(s).to <= End(s)
                                    /\ ~Blank(t[piece(s).from + 1])
  <2> DEFINE end == End(s)
  <2>1. s \in Nat /\ end \in Int
    BY <1>5, <1>6
  <2> HIDE DEF end
  <2>2. LET r == Stripped(t, s, end)
        IN  /\ r.from \in Nat /\ r.to \in Nat /\ s <= r.from /\ r.from <= r.to
            /\ \A o \in s .. end - 1 : ~Blank(t[o + 1]) => o \in r.from .. r.to - 1
            /\ ~Empty(r) => r.from < r.to /\ r.to <= end /\ ~Blank(t[r.from + 1])
    BY <2>1, StrippedProperties, Zenon
  <2> QED
    BY <2>2, Zenon DEF end
<1> HIDE DEF piece, End, from, to
<1>8. ASSUME NEW w \in W
      PROVE  \E s \in starts : /\ w.at = s /\ w.from = piece(s).from /\ w.to = piece(s).to
                               /\ ~Empty(piece(s))
  BY <1>2
<1>9. ASSUME NEW w \in W
      PROVE  /\ w.at \in starts /\ w.from \in Nat /\ w.to \in Nat
             /\ w.at <= w.from /\ w.from < w.to /\ w.to <= End(w.at) /\ ~Blank(t[w.from + 1])
  <2>1. PICK s \in starts : w.at = s /\ w.from = piece(s).from /\ w.to = piece(s).to /\ ~Empty(piece(s))
    BY <1>8
  <2> QED
    BY <1>7, <2>1
<1>10. \A w \in W :
          /\ w.at \in Nat /\ w.from \in Nat /\ w.to \in Nat
          /\ from <= w.at /\ w.at <= w.from /\ w.from < w.to /\ w.to <= to
          /\ w.to - w.from <= size /\ ~Blank(t[w.from + 1])
  <2> SUFFICES ASSUME NEW w \in W
               PROVE  /\ w.at \in Nat /\ w.from \in Nat /\ w.to \in Nat
                      /\ from <= w.at /\ w.at <= w.from /\ w.from < w.to /\ w.to <= to
                      /\ w.to - w.from <= size /\ ~Blank(t[w.from + 1])
    OBVIOUS
  <2>1. w.at \in Nat /\ from <= w.at /\ End(w.at) \in w.at + 1 .. to /\ End(w.at) <= w.at + size /\ to \in Nat
    BY <1>5, <1>6, <1>9 DEF to
  <2>2. w.to <= to /\ w.to - w.from <= size
    BY <1>9, <2>1
  <2> QED
    BY <1>9, <2>1, <2>2
<1>11. \A o \in from .. to - 1 : ~Blank(t[o + 1]) => \E w \in W : o \in w.from .. w.to - 1
  <2> SUFFICES ASSUME NEW o \in from .. to - 1, ~Blank(t[o + 1])
               PROVE  \E w \in W : o \in w.from .. w.to - 1
    OBVIOUS
  <2>1. PICK s \in starts : s <= o /\ o < End(s)
    BY <1>4
  <2>2. o \in s .. End(s) - 1
    BY <1>5, <1>6, <2>1 DEF from, to
  <2>3. o \in piece(s).from .. piece(s).to - 1 /\ piece(s).from \in Nat /\ piece(s).to \in Nat
    BY <1>7, <2>2
  <2>4. ~Empty(piece(s))
    BY <2>3 DEF Empty
  <2> DEFINE w == [at |-> s, from |-> piece(s).from, to |-> piece(s).to]
  <2>5. w \in W
    BY <1>2, <2>1, <2>4
  <2>6. w.from = piece(s).from /\ w.to = piece(s).to
    OBVIOUS
  <2> QED
    BY <2>3, <2>5, <2>6
<1>12. ASSUME lap = 0, NEW w \in W, NEW v \in W, w.at # v.at
       PROVE  Apart(w, v)
  <2>1. \A x \in W : x.at \in starts /\ x.at \in Nat /\ x.from \in Nat /\ x.to \in Nat
                     /\ x.at <= x.from /\ x.to <= End(x.at) /\ End(x.at) \in Int
    BY <1>5, <1>6, <1>9
  <2>2. CASE w.at < v.at
    <3>1. End(w.at) <= v.at
      BY <1>4, <1>12, <2>1, <2>2
    <3>2. w.to <= v.from
      BY <2>1, <3>1
    <3> QED
      BY <3>2 DEF Apart
  <2>3. CASE v.at < w.at
    <3>1. End(v.at) <= w.at
      BY <1>4, <1>12, <2>1, <2>3
    <3>2. v.to <= w.from
      BY <2>1, <3>1
    <3> QED
      BY <3>2 DEF Apart
  <2> QED
    BY <1>12, <2>1, <2>2, <2>3
<1>13. AreWindows(t, W, range, size)
  BY <1>10, <1>11 DEF AreWindows, from, to
<1> QED
  BY <1>12, <1>13 DEF W

(* A heading is at the start of a line, and its mark is no blank.          *)
LEMMA HeadingsType ==
    ASSUME NEW t \in Seq(Char)
    PROVE  \A h \in Headings(t) :
              /\ h \in Nat /\ h < Len(t) /\ ~Blank(t[h + 1]) /\ LevelAt(t, h) \in Nat
              /\ h = 0 \/ t[h] = "|"
<1> SUFFICES ASSUME NEW h \in Headings(t)
             PROVE  /\ h \in Nat /\ h < Len(t) /\ ~Blank(t[h + 1]) /\ LevelAt(t, h) \in Nat
                    /\ h = 0 \/ t[h] = "|"
  OBVIOUS
<1>1. h \in 0 .. Len(t) - 1 /\ t[h + 1] \in Range(Marks) /\ (h = 0 \/ t[h] = "|")
  BY Zenon DEF Headings
<1>2. DOMAIN Marks = 1 .. 6 /\ Range(Marks) = {"#", "##", "###", "####", "#####", "######"}
  BY DEF Marks, Range
<1>3. ~Blank(t[h + 1])
  BY <1>1, <1>2 DEF Blank
<1>4. LevelAt(t, h) \in Nat
  <2> DEFINE c == t[h + 1]
  <2>1. \E i \in 1 .. 6 : Marks[i] = c
    BY <1>1, <1>2 DEF Range
  <2>2. Level(c) = CHOOSE i \in 1 .. 6 : Marks[i] = c
    BY <1>2, Zenon DEF Level
  <2>3. Level(c) \in 1 .. 6
    BY <2>1, <2>2, Zenon
  <2> QED
    BY <2>3 DEF LevelAt
<1> QED
  BY <1>1, <1>3, <1>4

(* The headings that no later one has ended behind n characters.           *)
StillOpen(t, n) ==
    {h \in Headings(t) :
        h < n /\ \A k \in Headings(t) : h < k /\ k < n => LevelAt(t, k) > LevelAt(t, h)}

(* Popping from the end is the same as ending each heading of the level or *)
(* a deeper one, since the levels on the stack rise.                       *)
LEMMA PushedIsOpen ==
    ASSUME NEW t \in Seq(Char), NEW n \in 1 .. Len(t), n - 1 \in Headings(t)
    PROVE  Pushed(t, StillOpen(t, n - 1), n - 1) = StillOpen(t, n)
<1> DEFINE H == Headings(t)
           before == StillOpen(t, n - 1)
           L(h) == LevelAt(t, h)
           x == n - 1
           staying == {g \in before : \E k \in before : k >= g /\ L(k) < L(x)}
<1>1. \A h \in H : h \in Nat /\ L(h) \in Nat
  BY HeadingsType
<1>2. Pushed(t, before, x) = staying \cup {x}
  BY Zenon DEF Pushed
<1>3. \A h : h \in before <=> /\ h \in H /\ h < x
                              /\ \A k \in H : h < k /\ k < x => L(k) > L(h)
  BY Zenon DEF StillOpen
<1>4. \A h : h \in StillOpen(t, n) <=> /\ h \in H /\ h < n
                                       /\ \A k \in H : h < k /\ k < n => L(k) > L(h)
  BY Zenon DEF StillOpen
<1>5. x \in H /\ x \in Nat /\ n = x + 1
  OBVIOUS
<1>6. ASSUME NEW g
      PROVE  g \in staying <=> g \in before /\ L(x) > L(g)
  <2>1. ASSUME g \in before, L(x) > L(g)
        PROVE  g \in staying
    <3>1. g >= g /\ L(g) < L(x)
      BY <1>1, <1>3, <1>5, <2>1
    <3> QED
      BY <2>1, <3>1
  <2>2. ASSUME g \in staying
        PROVE  g \in before /\ L(x) > L(g)
    <3>1. PICK k \in before : k >= g /\ L(k) < L(x)
      BY <2>2
    <3>2. g \in before /\ g \in H /\ k \in H /\ k < x /\ g \in Nat /\ k \in Nat
      BY <1>1, <1>3, <2>2
    <3>3. k = g \/ L(k) > L(g)
      BY <1>3, <3>1, <3>2
    <3> QED
      BY <1>1, <1>5, <3>1, <3>2, <3>3
  <2> QED
    BY <2>1, <2>2
<1> HIDE DEF staying, before, H, L, x
<1>7. ASSUME NEW g
      PROVE  g \in staying \cup {x} <=> g \in StillOpen(t, n)
  <2>1. CASE g = x
    <3>1. g \in H /\ g < n
      BY <1>5, <2>1
    <3>2. \A k \in H : ~(g < k /\ k < n)
      BY <1>1, <1>5, <2>1
    <3> QED
      BY <1>4, <2>1, <3>1, <3>2
  <2>2. CASE g # x /\ g \in H
    <3>1. g \in Nat /\ (g < n <=> g < x)
      BY <1>1, <1>5, <2>2
    <3>2. \A k \in H : k < n <=> k < x \/ k = x
      BY <1>1, <1>5
    <3>3. g \in staying <=> g < x /\ L(x) > L(g) /\ \A k \in H : g < k /\ k < x => L(k) > L(g)
      BY <1>3, <1>6, <2>2
    <3>4. g \in StillOpen(t, n) <=> g < n /\ \A k \in H : g < k /\ k < n => L(k) > L(g)
      BY <1>4, <2>2
    <3> QED
      BY <1>5, <2>2, <3>1, <3>2, <3>3, <3>4
  <2>3. CASE g # x /\ g \notin H
    BY <1>3, <1>4, <1>6, <2>3
  <2> QED
    BY <2>1, <2>2, <2>3
<1> QED
  BY <1>2, <1>7 DEF before, x

(* The stack behind n characters is what is still open there.              *)
LEMMA OpenProperties ==
    ASSUME NEW t \in Seq(Char)
    PROVE  \A n \in 0 .. Len(t) : Open(t)[n] = StillOpen(t, n)
<1> DEFINE N == Len(t)
           S == SUBSET Headings(t)
           Next(a, n) == IF n - 1 \in Headings(t) THEN Pushed(t, a, n - 1) ELSE a
           Loop(g) == g = [n \in 0 .. N |-> IF n = 0 THEN {} ELSE
                              IF n - 1 \in Headings(t) THEN Pushed(t, g[n - 1], n - 1) ELSE g[n - 1]]
           f == CHOOSE g : Loop(g)
           g == [n \in 0 .. N |-> StillOpen(t, n)]
<1>1. N \in Nat
  OBVIOUS
<1>2. Open(t) = f
  BY Zenon DEF Open
<1>3. \A h \in Headings(t) : h \in Nat /\ h < N
  BY HeadingsType
<1>4. StillOpen(t, 0) = {}
  BY <1>3 DEF StillOpen
<1>5. ASSUME NEW n \in 1 .. N
      PROVE  StillOpen(t, n) = IF n - 1 \in Headings(t) THEN Pushed(t, StillOpen(t, n - 1), n - 1)
                               ELSE StillOpen(t, n - 1)
  <2>1. CASE n - 1 \in Headings(t)
    BY <2>1, PushedIsOpen
  <2>2. CASE n - 1 \notin Headings(t)
    <3>1. \A h \in Headings(t) : h < n <=> h < n - 1
      BY <1>1, <1>3, <2>2
    <3>2. StillOpen(t, n) = StillOpen(t, n - 1)
      BY <3>1, Zenon DEF StillOpen
    <3> QED
      BY <2>2, <3>2
  <2> QED
    BY <2>1, <2>2
<1> HIDE DEF N
<1>6. g[0] = {} /\ \A n \in 1 .. N : g[n] = IF n - 1 \in Headings(t) THEN Pushed(t, g[n - 1], n - 1) ELSE g[n - 1]
  <2>1. 0 \in 0 .. N /\ \A n \in 1 .. N : n \in 0 .. N /\ n - 1 \in 0 .. N
    BY <1>1
  <2>2. \A n \in 0 .. N : g[n] = StillOpen(t, n)
    OBVIOUS
  <2> HIDE DEF g
  <2> QED
    BY <1>4, <1>5, <2>1, <2>2
<1>7. Loop(g)
  <2>1. g = [n \in 0 .. N |-> g[n]]
    OBVIOUS
  <2> HIDE DEF g
  <2>2. \A n \in 0 .. N : g[n] = IF n = 0 THEN {} ELSE
            IF n - 1 \in Headings(t) THEN Pushed(t, g[n - 1], n - 1) ELSE g[n - 1]
    <3> SUFFICES ASSUME NEW n \in 0 .. N
                 PROVE  g[n] = IF n = 0 THEN {} ELSE
                            IF n - 1 \in Headings(t) THEN Pushed(t, g[n - 1], n - 1) ELSE g[n - 1]
      OBVIOUS
    <3>1. CASE n = 0
      BY <1>6, <3>1
    <3>2. CASE n # 0
      <4>1. n \in 1 .. N
        BY <1>1, <3>2
      <4> QED
        BY <1>6, <3>2, <4>1, Zenon
    <3> QED
      BY <3>1, <3>2
  <2> QED
    BY <2>1, <2>2
<1> HIDE DEF Loop
<1>8. Loop(f)
  BY <1>7, Zenon
<1> HIDE DEF f
<1>9. f[0] = {} /\ \A n \in 1 .. N : f[n] = IF n - 1 \in Headings(t) THEN Pushed(t, f[n - 1], n - 1) ELSE f[n - 1]
  <2>1. \A n \in 0 .. N : f[n] = IF n = 0 THEN {} ELSE
            IF n - 1 \in Headings(t) THEN Pushed(t, f[n - 1], n - 1) ELSE f[n - 1]
    BY <1>8 DEF Loop
  <2>2. 0 \in 0 .. N /\ \A n \in 1 .. N : n \in 0 .. N /\ n # 0
    BY <1>1
  <2> QED
    BY <2>1, <2>2
<1> DEFINE Good == {n \in 0 .. N : f[n] = StillOpen(t, n)}
<1>10. 0 \in Good
  <2>1. 0 \in 0 .. N
    BY <1>1
  <2>2. f[0] = StillOpen(t, 0)
    BY <1>4, <1>9, Zenon
  <2> QED
    BY <2>1, <2>2, Zenon
<1>11. \A n \in 1 .. N : n - 1 \in Good => n \in Good
  <2>1. \A n \in 1 .. N : n \in 0 .. N
    BY <1>1
  <2> QED
    BY <1>5, <1>9, <2>1
<1> HIDE DEF Good
<1>12. \A n \in 0 .. N : n \in Good
  BY <1>1, <1>10, <1>11, UpToN, Zenon
<1> QED
  BY <1>2, <1>12 DEF Good, N

(* Where the line of an offset begins in a text.                           *)
LineFrom(t, o) == Max({0} \cup {i \in 1 .. o : t[i] = "|"})

(* A line begins behind the last end of a line before it.                  *)
LEMMA LineFromProperties ==
    ASSUME NEW t, NEW o \in Nat
    PROVE  /\ LineFrom(t, o) \in 0 .. o
           /\ LineFrom(t, o) = 0 \/ t[LineFrom(t, o)] = "|"
           /\ \A i \in 1 .. o : t[i] = "|" => i <= LineFrom(t, o)
<1> DEFINE S == {0} \cup {i \in 1 .. o : t[i] = "|"}
<1>1. S \in SUBSET Int /\ S # {} /\ \A y \in S : y <= o
  OBVIOUS
<1>2. \A y : y \in S <=> y = 0 \/ (y \in 1 .. o /\ t[y] = "|")
  OBVIOUS
<1>3. LineFrom(t, o) = Max(S)
  BY DEF LineFrom
<1> HIDE DEF S
<1>4. Max(S) \in S /\ \A y \in S : y <= Max(S)
  BY <1>1, MostOf
<1> DEFINE m == Max(S)
<1> HIDE DEF m
<1>5. m \in 0 .. o /\ (m = 0 \/ t[m] = "|") /\ \A i \in 1 .. o : t[i] = "|" => i <= m
  BY <1>2, <1>4 DEF m
<1> QED
  BY <1>3, <1>5 DEF m

(* A line ends at the first end of a line from its heading on.             *)
LEMMA LineEndProperties ==
    ASSUME NEW t \in Seq(Char), NEW h \in Headings(t)
    PROVE  /\ LineEnd(t, h) \in h .. Len(t)
           /\ LineEnd(t, h) < Len(t) => t[LineEnd(t, h) + 1] = "|"
           /\ \A i \in h .. LineEnd(t, h) - 1 : t[i + 1] # "|"
<1> DEFINE N == Len(t)
           S == {N} \cup {e \in h .. N - 1 : t[e + 1] = "|"}
<1>1. N \in Nat /\ h \in Nat /\ h < N
  BY HeadingsType
<1>2. S \in SUBSET Nat /\ S # {}
  BY <1>1
<1>3. \A y : y \in S <=> y = N \/ (y \in h .. N - 1 /\ t[y + 1] = "|")
  OBVIOUS
<1>4. LineEnd(t, h) = Min(S)
  BY DEF LineEnd
<1> HIDE DEF S
<1>5. Min(S) \in S /\ \A y \in S : Min(S) <= y
  BY <1>2, LeastOf
<1> DEFINE m == Min(S)
<1> HIDE DEF m, N
<1>6. m \in h .. N /\ (m < N => t[m + 1] = "|")
  BY <1>1, <1>3, <1>5 DEF m
<1>7. \A i \in h .. m - 1 : t[i + 1] # "|"
  <2> SUFFICES ASSUME NEW i \in h .. m - 1, t[i + 1] = "|"
               PROVE  FALSE
    OBVIOUS
  <2>1. i \in h .. N - 1
    BY <1>1, <1>6
  <2>2. m <= i
    BY <1>3, <1>5, <2>1 DEF m
  <2> QED
    BY <1>1, <1>6, <2>2
<1> QED
  BY <1>4, <1>6, <1>7 DEF m, N

(* Where a section begins, and the heading after it.                       *)
SectionStart(t, h) == IF h = -1 THEN 0 ELSE LineEnd(t, h) + 1

NextHeading(t, h) == Min({Len(t) + 1} \cup {k \in Headings(t) : k > h})

(* The next heading is the first behind this one, or the end.              *)
LEMMA NextHeadingProperties ==
    ASSUME NEW t \in Seq(Char), NEW h \in {-1} \cup Headings(t)
    PROVE  /\ NextHeading(t, h) \in Nat /\ NextHeading(t, h) <= Len(t) + 1
           /\ NextHeading(t, h) \in {Len(t) + 1} \cup Headings(t) /\ NextHeading(t, h) > h
           /\ \A k \in Headings(t) : k > h => NextHeading(t, h) <= k
           /\ SectionStart(t, h) \in Nat /\ SectionStart(t, h) > h
<1> DEFINE N == Len(t)
           H == Headings(t)
           S == {N + 1} \cup {k \in H : k > h}
<1>1. N \in Nat /\ \A k \in H : k \in Nat /\ k < N
  BY HeadingsType
<1>2. S \in SUBSET Nat /\ S # {} /\ \A y \in S : y <= N + 1
  BY <1>1
<1>3. \A y : y \in S <=> y = N + 1 \/ (y \in H /\ y > h)
  OBVIOUS
<1>4. NextHeading(t, h) = Min(S)
  BY DEF NextHeading
<1>5. SectionStart(t, h) \in Nat /\ SectionStart(t, h) > h
  <2>1. CASE h = -1
    BY <2>1 DEF SectionStart
  <2>2. CASE h # -1
    <3>1. h \in H
      BY <2>2
    <3>2. LineEnd(t, h) \in h .. N /\ h \in Nat
      BY <1>1, <3>1, LineEndProperties
    <3>3. SectionStart(t, h) = LineEnd(t, h) + 1
      BY <2>2 DEF SectionStart
    <3> QED
      BY <1>1, <3>2, <3>3
  <2> QED
    BY <2>1, <2>2
<1> HIDE DEF S
<1>6. Min(S) \in S /\ \A y \in S : Min(S) <= y
  BY <1>2, LeastOf
<1> DEFINE m == Min(S)
<1>7. m \in S /\ m \in Nat /\ m <= N + 1 /\ \A y \in S : m <= y
  BY <1>2, <1>6
<1> HIDE DEF m, H, N
<1>8. m \in {N + 1} \cup H
  BY <1>3, <1>7
<1>9. m > h
  BY <1>1, <1>3, <1>7 DEF H
<1>10. \A k \in H : k > h => m <= k
  BY <1>3, <1>7
<1>11. NextHeading(t, h) = m
  BY <1>4 DEF m
<1> QED
  BY <1>5, <1>7, <1>8, <1>9, <1>10, <1>11, Zenon DEF H, N

(* A section begins below its heading, ends before the next one, holds all *)
(* between them that is no blank, and is under what is open there.         *)
LEMMA SectionProperties ==
    ASSUME NEW t \in Seq(Char), NEW h \in {-1} \cup Headings(t), NEW s, s = Section(t, h)
    PROVE  /\ s.at = SectionStart(t, h) /\ s.path = StillOpen(t, h + 1)
           /\ s.body.from \in Nat /\ s.body.to \in Nat /\ s.body = [from |-> s.body.from, to |-> s.body.to]
           /\ s.at <= s.body.from /\ s.body.from <= s.body.to
           /\ ~Empty(s.body) => s.body.from < s.body.to /\ s.body.to <= NextHeading(t, h) - 1
           /\ \A o \in s.at .. NextHeading(t, h) - 2 :
                 ~Blank(t[o + 1]) => o \in s.body.from .. s.body.to - 1
<1> DEFINE start == SectionStart(t, h)
           next == NextHeading(t, h)
           body == Stripped(t, start, next - 1)
<1>1. start \in Nat /\ next \in Nat /\ next <= Len(t) + 1
  BY NextHeadingProperties
<1>2. s = [path |-> Open(t)[h + 1], at |-> start, body |-> body]
  BY Zenon DEF Section, SectionStart, NextHeading
<1>3. h + 1 \in 0 .. Len(t)
  BY HeadingsType
<1>4. Open(t)[h + 1] = StillOpen(t, h + 1)
  BY <1>3, OpenProperties
<1> DEFINE to == next - 1
<1>5. to \in Int /\ to - 1 = next - 2
  BY <1>1
<1> HIDE DEF start, next
<1>6. body = Stripped(t, start, to)
  OBVIOUS
<1> HIDE DEF body, to
<1>7. LET r == Stripped(t, start, to)
      IN  /\ r.from \in Nat /\ r.to \in Nat /\ start <= r.from /\ r.from <= r.to
          /\ r = [from |-> r.from, to |-> r.to]
          /\ \A o \in start .. to - 1 : ~Blank(t[o + 1]) => o \in r.from .. r.to - 1
          /\ ~Empty(r) => r.from < r.to /\ r.to <= to /\ ~Blank(t[r.from + 1])
  BY <1>1, <1>5, StrippedProperties, Zenon
<1>8. /\ body.from \in Nat /\ body.to \in Nat /\ start <= body.from /\ body.from <= body.to
      /\ body = [from |-> body.from, to |-> body.to]
      /\ \A o \in start .. to - 1 : ~Blank(t[o + 1]) => o \in body.from .. body.to - 1
      /\ ~Empty(body) => body.from < body.to /\ body.to <= to
  BY <1>6, <1>7, Zenon
<1>9. s.at = start /\ s.path = StillOpen(t, h + 1) /\ s.body = body
  BY <1>2, <1>4
<1>10. to = next - 1
  BY DEF to
<1> HIDE DEF to
<1> QED
  BY <1>5, <1>8, <1>9, <1>10 DEF start, next

(* Whatever is between a heading's line and the next heading is below that *)
(* heading and not below the next.                                         *)
LEMMA BelowItsHeading ==
    ASSUME NEW t \in Seq(Char), NEW h \in {-1} \cup Headings(t),
           NEW o \in Nat, SectionStart(t, h) <= o, o < NextHeading(t, h) - 1
    PROVE  \A k \in Headings(t) : k < LineFrom(t, o) <=> k <= h
<1> DEFINE l == LineFrom(t, o)
<1>1. l \in 0 .. o /\ \A i \in 1 .. o : t[i] = "|" => i <= l
  BY LineFromProperties
<1>2. \A k \in Headings(t) : k \in Nat /\ k < Len(t)
  BY HeadingsType
<1>3. /\ NextHeading(t, h) \in Nat /\ NextHeading(t, h) <= Len(t) + 1
      /\ \A k \in Headings(t) : k > h => NextHeading(t, h) <= k
  BY NextHeadingProperties
<1>4. h >= 0 => h < l
  <2> SUFFICES ASSUME h >= 0
               PROVE  h < l
    OBVIOUS
  <2> DEFINE e == LineEnd(t, h)
  <2>1. h \in Headings(t) /\ h # -1
    OBVIOUS
  <2>2. e \in h .. Len(t) /\ (e < Len(t) => t[e + 1] = "|")
    BY <2>1, LineEndProperties
  <2>3. e + 1 <= o
    BY <2>1 DEF SectionStart
  <2> HIDE DEF e, l
  <2>4. e + 1 \in 1 .. o /\ e < Len(t)
    BY <1>2, <1>3, <2>1, <2>2, <2>3
  <2>5. e + 1 <= l
    BY <1>1, <2>2, <2>4
  <2> QED
    BY <1>1, <1>2, <2>1, <2>2, <2>5
<1> HIDE DEF l
<1> SUFFICES ASSUME NEW k \in Headings(t)
             PROVE  k < l <=> k <= h
  BY DEF l
<1>5. k <= h => k < l
  BY <1>1, <1>2, <1>4
<1>6. k > h => ~(k < l)
  BY <1>1, <1>2, <1>3
<1> QED
  BY <1>2, <1>5, <1>6

(* Who is on no heading's line is in a section.                            *)
LEMMA InSomeSection ==
    ASSUME NEW t \in Seq(Char), NEW o \in 0 .. Len(t) - 1, ~Blank(t[o + 1]),
           LineFrom(t, o) \notin Headings(t)
    PROVE  \E h \in {-1} \cup Headings(t) : SectionStart(t, h) <= o /\ o < NextHeading(t, h) - 1
<1> DEFINE H == Headings(t)
           l == LineFrom(t, o)
           before == {-1} \cup {k \in H : k <= o}
           h == Max(before)
<1>1. \A k \in H : k \in Nat /\ k < Len(t) /\ (k = 0 \/ t[k] = "|")
  BY HeadingsType
<1>2. o \in Nat /\ l \in 0 .. o /\ (l = 0 \/ t[l] = "|") /\ \A i \in 1 .. o : t[i] = "|" => i <= l
  BY LineFromProperties
<1>3. before \in SUBSET Int /\ before # {} /\ \A y \in before : y <= o
  BY <1>1
<1>4. \A y : y \in before <=> y = -1 \/ (y \in H /\ y <= o)
  OBVIOUS
<1> HIDE DEF before
<1>5. h \in before /\ \A y \in before : y <= h
  BY <1>2, <1>3, MostOf
<1> HIDE DEF h
<1>6. h \in {-1} \cup H /\ h <= o
  BY <1>3, <1>4, <1>5
<1>7. \A k \in H : k > h => k > o
  BY <1>1, <1>3, <1>4, <1>5
<1>8. SectionStart(t, h) <= o
  <2>1. CASE h = -1
    BY <1>2, <2>1 DEF SectionStart
  <2>2. CASE h # -1
    <3> DEFINE e == LineEnd(t, h)
    <3>1. h \in H /\ h \in Nat
      BY <1>1, <1>6, <2>2
    <3>2. e \in h .. Len(t) /\ \A i \in h .. e - 1 : t[i + 1] # "|"
      BY <3>1, LineEndProperties
    <3> HIDE DEF e
    <3>3. CASE e < o
      BY <1>2, <2>2, <3>2, <3>3 DEF SectionStart, e
    <3>4. CASE ~(e < o)
      <4>1. l <= h
        <5> SUFFICES ASSUME l > h
                     PROVE  FALSE
          BY <1>2, <3>1
        <5>1. l - 1 \in h .. e - 1 /\ t[l] = "|" /\ (l - 1) + 1 = l
          BY <1>2, <3>1, <3>2, <3>4
        <5> QED
          BY <3>2, <5>1
      <4>2. h = 0 \/ h <= l
        BY <1>1, <1>2, <1>6, <3>1
      <4>3. l = h
        BY <1>2, <3>1, <4>1, <4>2
      <4> QED
        BY <3>1, <4>3
    <3> QED
      BY <3>3, <3>4
  <2> QED
    BY <2>1, <2>2
<1>9. o < NextHeading(t, h) - 1
  <2> DEFINE next == NextHeading(t, h)
  <2>1. next \in Nat /\ next \in {Len(t) + 1} \cup H /\ next > h
    BY <1>6, NextHeadingProperties
  <2> HIDE DEF next
  <2>2. CASE next = Len(t) + 1
    BY <2>2 DEF next
  <2>3. CASE next \in H /\ next > h
    <3>1. next > o /\ t[next] = "|"
      BY <1>1, <1>2, <1>7, <2>1, <2>3
    <3>2. next # o + 1
      <4>1. Blank("|")
        BY DEF Blank
      <4> QED
        BY <3>1, <4>1
    <3> QED
      BY <1>2, <2>1, <3>1, <3>2 DEF next
  <2> QED
    BY <2>1, <2>2, <2>3
<1> QED
  BY <1>6, <1>8, <1>9

UnderHeading(t, aware, l) ==
    LET above == {h \in 0 .. l - 1 : aware /\ h \in Headings(t)}
    IN  {h \in above : \A k \in above : k > h => LevelAt(t, k) > LevelAt(t, h)}

(* Sections are parts of the text, hold all that is no heading, under what *)
(* is open there, and do not share a character.                            *)
AreSections(t, aware, S) ==
    /\ \A s \in S :
          /\ s.at \in Nat /\ s.body.from \in Nat /\ s.body.to \in Nat
          /\ s.at <= s.body.from /\ s.body.from <= s.body.to /\ s.body.to <= Len(t)
    /\ \A o \in 0 .. Len(t) - 1 :
          ~Blank(t[o + 1]) /\ ~(aware /\ LineFrom(t, o) \in Headings(t)) =>
              \E s \in S : o \in s.body.from .. s.body.to - 1
    /\ \A s \in S, o \in Nat :
          o \in s.body.from .. s.body.to - 1 /\ ~Blank(t[o + 1]) =>
              \/ aware /\ LineFrom(t, o) \in Headings(t)
              \/ s.path = UnderHeading(t, aware, LineFrom(t, o))
    /\ \A s, r \in S : s # r => Apart(s.body, r.body)

(* What is open behind a heading is what the text below it is under.       *)
LEMMA OpenIsUnder ==
    ASSUME NEW t \in Seq(Char), NEW h \in {-1} \cup Headings(t), NEW l \in Nat,
           \A k \in Headings(t) : k < l <=> k <= h
    PROVE  StillOpen(t, h + 1) = UnderHeading(t, TRUE, l)
<1> DEFINE H == Headings(t)
           above == {k \in 0 .. l - 1 : TRUE /\ k \in H}
<1>1. \A k \in H : k \in Nat
  BY HeadingsType
<1>2. h \in Int
  BY <1>1
<1>3. \A k : k \in above <=> k \in H /\ k < h + 1
  BY <1>1, <1>2
<1>4. \A g \in H, k \in H : k > g <=> g < k
  BY <1>1
<1>5. UnderHeading(t, TRUE, l) = {g \in above : \A k \in above : k > g => LevelAt(t, k) > LevelAt(t, g)}
  BY Zenon DEF UnderHeading
<1> HIDE DEF above, H
<1>6. \A g : g \in UnderHeading(t, TRUE, l) <=>
              g \in H /\ g < h + 1 /\ \A k \in H : g < k /\ k < h + 1 => LevelAt(t, k) > LevelAt(t, g)
  BY <1>3, <1>4, <1>5
<1>7. \A g : g \in StillOpen(t, h + 1) <=>
              g \in H /\ g < h + 1 /\ \A k \in H : g < k /\ k < h + 1 => LevelAt(t, k) > LevelAt(t, g)
  BY Zenon DEF StillOpen, H
<1> QED
  BY <1>6, <1>7, Zenon

(* The whole text as a section without a heading.                          *)
LEMMA WholeIsSections ==
    ASSUME NEW t \in Seq(Char), NEW aware \in BOOLEAN,
           aware => \A o \in 0 .. Len(t) - 1 : ~Blank(t[o + 1]) => LineFrom(t, o) \in Headings(t)
    PROVE  AreSections(t, aware, {[path |-> {}, at |-> 0, body |-> [from |-> 0, to |-> Len(t)]]})
<1> DEFINE whole == [path |-> {}, at |-> 0, body |-> [from |-> 0, to |-> Len(t)]]
           N == Len(t)
<1>1. whole.path = {} /\ whole.at = 0 /\ whole.body.from = 0 /\ whole.body.to = N
  OBVIOUS
<1>2. N \in Nat
  OBVIOUS
<1>3. ASSUME ~aware, NEW l
      PROVE  UnderHeading(t, aware, l) = {}
  BY <1>3 DEF UnderHeading
<1> HIDE DEF whole, N
<1>4. \A s \in {whole} :
          /\ s.at \in Nat /\ s.body.from \in Nat /\ s.body.to \in Nat
          /\ s.at <= s.body.from /\ s.body.from <= s.body.to /\ s.body.to <= N
  BY <1>1, <1>2
<1>5. \A o \in 0 .. N - 1 : \E s \in {whole} : o \in s.body.from .. s.body.to - 1
  BY <1>1
<1>6. ASSUME NEW s \in {whole}, NEW o \in Nat,
             o \in s.body.from .. s.body.to - 1, ~Blank(t[o + 1])
      PROVE  \/ aware /\ LineFrom(t, o) \in Headings(t)
             \/ s.path = UnderHeading(t, aware, LineFrom(t, o))
  <2>1. s = whole /\ o \in 0 .. N - 1
    BY <1>1, <1>6
  <2>2. CASE aware
    BY <1>6, <2>1, <2>2 DEF N
  <2>3. CASE ~aware
    BY <1>1, <1>3, <2>1, <2>3
  <2> QED
    BY <2>2, <2>3
<1>7. \A s, r \in {whole} : s = r
  OBVIOUS
<1>8. AreSections(t, aware, {whole})
  BY <1>4, <1>5, <1>6, <1>7 DEF AreSections, N
<1> QED
  BY <1>8 DEF whole

(* However a text is split, the parts are sections in the sense above.     *)
LEMMA SplitProperties ==
    ASSUME NEW t \in Seq(Char), NEW aware \in BOOLEAN
    PROVE  AreSections(t, aware, SplitSections(t, aware))
<1> DEFINE H == {-1} \cup Headings(t)
           whole == [path |-> {}, at |-> 0, body |-> [from |-> 0, to |-> Len(t)]]
           S == {s \in {Section(t, h) : h \in H} : ~Empty(s.body)}
<1>1. SplitSections(t, aware) = IF ~aware \/ S = {} THEN {whole} ELSE S
  BY Zenon DEF SplitSections
<1>2. \A s : s \in S <=> ~Empty(s.body) /\ \E h \in H : s = Section(t, h)
  OBVIOUS
<1> HIDE DEF S
<1>3. ASSUME NEW h \in H, NEW s, s = Section(t, h)
      PROVE  /\ s.at = SectionStart(t, h) /\ s.path = StillOpen(t, h + 1)
             /\ s.body.from \in Nat /\ s.body.to \in Nat
             /\ s.at <= s.body.from /\ s.body.from <= s.body.to
             /\ ~Empty(s.body) => s.body.from < s.body.to /\ s.body.to <= NextHeading(t, h) - 1
             /\ \A o \in s.at .. NextHeading(t, h) - 2 :
                   ~Blank(t[o + 1]) => o \in s.body.from .. s.body.to - 1
  BY <1>3, SectionProperties
<1>4. ASSUME NEW h \in H
      PROVE  /\ h \in Int
             /\ NextHeading(t, h) \in Nat /\ NextHeading(t, h) <= Len(t) + 1
             /\ \A k \in Headings(t) : k > h => NextHeading(t, h) <= k
             /\ SectionStart(t, h) \in Nat /\ SectionStart(t, h) > h
  <2>1. h \in Int
    BY HeadingsType
  <2> QED
    BY <2>1, NextHeadingProperties
<1>5. ASSUME NEW o \in 0 .. Len(t) - 1, ~Blank(t[o + 1]), LineFrom(t, o) \notin Headings(t)
      PROVE  \E s \in S : o \in s.body.from .. s.body.to - 1
  <2>1. PICK h \in H : SectionStart(t, h) <= o /\ o < NextHeading(t, h) - 1
    BY <1>5, InSomeSection
  <2> DEFINE s == Section(t, h)
  <2>2. s = Section(t, h)
    OBVIOUS
  <2> HIDE DEF s
  <2>3. o \in s.at .. NextHeading(t, h) - 2
    BY <1>3, <1>4, <2>1, <2>2
  <2>4. o \in s.body.from .. s.body.to - 1 /\ s.body.from \in Nat /\ s.body.to \in Nat
    BY <1>3, <1>5, <2>2, <2>3
  <2>5. ~Empty(s.body)
    BY <2>4 DEF Empty
  <2> QED
    BY <1>2, <2>2, <2>4, <2>5
<1>6. CASE ~aware \/ S = {}
  <2>1. aware => \A o \in 0 .. Len(t) - 1 : ~Blank(t[o + 1]) => LineFrom(t, o) \in Headings(t)
    BY <1>5, <1>6
  <2>2. AreSections(t, aware, {whole})
    BY <2>1, WholeIsSections
  <2> QED
    BY <1>1, <1>6, <2>2
<1>7. CASE aware /\ S # {}
  <2> HIDE DEF H
  <2>1. ASSUME NEW s \in S
        PROVE  \E h \in H : /\ s = Section(t, h)
                            /\ s.at = SectionStart(t, h) /\ s.path = StillOpen(t, h + 1)
                            /\ s.at \in Nat /\ s.body.from \in Nat /\ s.body.to \in Nat
                            /\ s.at <= s.body.from /\ s.body.from <= s.body.to
                            /\ s.body.to <= NextHeading(t, h) - 1
    <3>1. PICK h \in H : s = Section(t, h)
      BY <1>2
    <3> QED
      BY <1>2, <1>3, <1>4, <3>1
  <2>2. \A s \in S :
          /\ s.at \in Nat /\ s.body.from \in Nat /\ s.body.to \in Nat
          /\ s.at <= s.body.from /\ s.body.from <= s.body.to /\ s.body.to <= Len(t)
    <3> SUFFICES ASSUME NEW s \in S
                 PROVE  /\ s.at \in Nat /\ s.body.from \in Nat /\ s.body.to \in Nat
                        /\ s.at <= s.body.from /\ s.body.from <= s.body.to /\ s.body.to <= Len(t)
      OBVIOUS
    <3>1. PICK h \in H : /\ s.at \in Nat /\ s.body.from \in Nat /\ s.body.to \in Nat
                         /\ s.at <= s.body.from /\ s.body.from <= s.body.to
                         /\ s.body.to <= NextHeading(t, h) - 1
      BY <2>1
    <3>2. NextHeading(t, h) \in Nat /\ NextHeading(t, h) <= Len(t) + 1
      BY <1>4
    <3> QED
      BY <3>1, <3>2
  <2>3. ASSUME NEW s \in S, NEW o \in Nat, o \in s.body.from .. s.body.to - 1, ~Blank(t[o + 1])
        PROVE  \/ aware /\ LineFrom(t, o) \in Headings(t)
               \/ s.path = UnderHeading(t, aware, LineFrom(t, o))
    <3>1. PICK h \in H : /\ s.at = SectionStart(t, h) /\ s.path = StillOpen(t, h + 1)
                         /\ s.at \in Nat /\ s.body.from \in Nat /\ s.body.to \in Nat
                         /\ s.at <= s.body.from /\ s.body.to <= NextHeading(t, h) - 1
      BY <2>1
    <3>2. SectionStart(t, h) <= o /\ o < NextHeading(t, h) - 1
      BY <1>4, <2>3, <3>1
    <3>3. h \in {-1} \cup Headings(t)
      BY DEF H
    <3>4. \A k \in Headings(t) : k < LineFrom(t, o) <=> k <= h
      BY <3>2, <3>3, BelowItsHeading
    <3>5. LineFrom(t, o) \in Nat
      BY LineFromProperties
    <3>6. StillOpen(t, h + 1) = UnderHeading(t, TRUE, LineFrom(t, o))
      BY <3>3, <3>4, <3>5, OpenIsUnder
    <3> QED
      BY <1>7, <3>1, <3>6
  <2>4. ASSUME NEW h \in H, NEW k \in H, h < k, NEW s \in S, NEW r \in S,
               s.body.to <= NextHeading(t, h) - 1, r.at = SectionStart(t, k), r.at <= r.body.from
        PROVE  Apart(s.body, r.body)
    <3>1. k \in Headings(t)
      BY <1>4, <2>4, HeadingsType DEF H
    <3>2. NextHeading(t, h) <= k /\ NextHeading(t, h) \in Nat
      BY <1>4, <2>4, <3>1
    <3>3. k < SectionStart(t, k) /\ SectionStart(t, k) \in Nat /\ k \in Int
      BY <1>4
    <3>4. s.body.to \in Nat /\ r.body.from \in Nat
      BY <2>2
    <3>5. s.body.to <= r.body.from
      BY <2>4, <3>2, <3>3, <3>4
    <3> QED
      BY <3>5 DEF Apart
  <2>5. ASSUME NEW s \in S, NEW r \in S, s # r
        PROVE  Apart(s.body, r.body)
    <3>1. PICK h \in H : s = Section(t, h) /\ s.at = SectionStart(t, h) /\ s.at <= s.body.from
                         /\ s.body.to <= NextHeading(t, h) - 1
      BY <2>1
    <3>2. PICK k \in H : r = Section(t, k) /\ r.at = SectionStart(t, k) /\ r.at <= r.body.from
                         /\ r.body.to <= NextHeading(t, k) - 1
      BY <2>1
    <3>3. h # k /\ h \in Int /\ k \in Int
      BY <1>4, <2>5, <3>1, <3>2
    <3>4. CASE h < k
      BY <2>4, <3>1, <3>2, <3>4
    <3>5. CASE k < h
      <4>1. Apart(r.body, s.body)
        BY <2>4, <3>1, <3>2, <3>5
      <4> QED
        BY <4>1 DEF Apart
    <3> QED
      BY <3>3, <3>4, <3>5
  <2>6. AreSections(t, aware, S)
    BY <1>5, <1>7, <2>2, <2>3, <2>5 DEF AreSections
  <2> QED
    BY <1>1, <1>7, <2>6
<1> QED
  BY <1>6, <1>7

(* Two texts are joined by a blank line, unless one of them is empty.      *)
LEMMA JoinedType ==
    ASSUME NEW t \in Seq(Char), NEW page \in Seq(Char)
    PROVE  /\ Joined(t, page) \in Seq(Char)
           /\ page = <<>> => Joined(t, page) = t
           /\ page # <<>> => Joined(t, page) # <<>>
           /\ page # <<>> /\ t = <<>> => Len(Joined(t, page)) = Len(page)
           /\ page # <<>> /\ t # <<>> => Len(Joined(t, page)) = Len(t) + 2 + Len(page)
<1> DEFINE blank == <<"|", "|">>
<1>1. blank \in Seq(Char) /\ Len(blank) = 2
  <2>1. "|" \in Char
    BY DEF Char
  <2> QED
    BY <2>1
<1> HIDE DEF blank
<1>2. Joined(t, page) = IF t = <<>> \/ page = <<>> THEN t \o page ELSE t \o blank \o page
  BY Zenon DEF Joined, blank
<1>3. \A a, b \in Seq(Char) : a \o b \in Seq(Char) /\ Len(a \o b) = Len(a) + Len(b) /\ Len(a) \in Nat
  OBVIOUS
<1>4. t \o blank \in Seq(Char) /\ Len(t \o blank) = Len(t) + 2
  BY <1>1, <1>3
<1> DEFINE tb == t \o blank
<1> HIDE DEF tb
<1>5. tb \o page \in Seq(Char) /\ Len(tb \o page) = Len(t) + 2 + Len(page)
  BY <1>3, <1>4 DEF tb
<1>6. \A s \in Seq(Char) : Len(s) \in Nat /\ (s = <<>> <=> Len(s) = 0)
  OBVIOUS
<1>7. CASE page = <<>>
  <2>1. t \o page = t
    BY <1>7
  <2> QED
    BY <1>2, <1>7, <2>1
<1>8. CASE page # <<>> /\ t = <<>>
  BY <1>2, <1>3, <1>6, <1>8
<1>9. CASE page # <<>> /\ t # <<>>
  <2>1. Joined(t, page) = tb \o page
    BY <1>2, <1>9 DEF tb
  <2> QED
    BY <1>5, <1>6, <1>9, <2>1
<1> QED
  BY <1>7, <1>8, <1>9

(* The texts of the first pages are what the loop that joins them says.    *)
LEMMA TextsProperties ==
    ASSUME NEW pages \in Seq(Seq(Char))
    PROVE  /\ \A i \in 0 .. Len(pages) : Texts(pages)[i] \in Seq(Char)
           /\ Texts(pages)[0] = <<>>
           /\ \A i \in 1 .. Len(pages) : Texts(pages)[i] = Joined(Texts(pages)[i - 1], pages[i])
<1> DEFINE N == Len(pages)
           S == Seq(Char)
           Loop(g) == g = [i \in 0 .. N |-> IF i = 0 THEN <<>> ELSE Joined(g[i - 1], pages[i])]
           step == [x \in S \X (1 .. N) |-> Joined(x[1], pages[x[2]])]
           f == CHOOSE g : Loop(g)
<1>1. N \in Nat /\ \A i \in 1 .. N : pages[i] \in S
  OBVIOUS
<1>2. Texts(pages) = f
  BY Zenon DEF Texts
<1>3. <<>> \in S
  OBVIOUS
<1>4. \A a \in S, i \in 1 .. N : Joined(a, pages[i]) \in S
  BY <1>1, JoinedType
<1>5. \A a \in S, i \in 1 .. N : step[<<a, i>>] = Joined(a, pages[i])
  OBVIOUS
<1> HIDE DEF N, S, step
<1>6. ClosedUnder(S, N, step)
  BY <1>4, <1>5 DEF ClosedUnder
<1>7. PICK g \in [0 .. N -> S] : IsLoop(g, N, <<>>, step)
  BY <1>1, <1>3, <1>6, LoopExists, Zenon
<1>8. g[0] = <<>> /\ \A i \in 1 .. N : g[i] = Joined(g[i - 1], pages[i])
  <2>1. \A i \in 1 .. N : g[i - 1] \in S
    <3>1. \A i \in 1 .. N : i - 1 \in 0 .. N
      BY <1>1
    <3> QED
      BY <3>1
  <2> QED
    BY <1>5, <1>7, <2>1 DEF IsLoop
<1>9. Loop(g)
  <2>1. \A i \in 0 .. N : g[i] = IF i = 0 THEN <<>> ELSE Joined(g[i - 1], pages[i])
    BY <1>1, <1>8
  <2>2. g = [i \in 0 .. N |-> g[i]]
    OBVIOUS
  <2> QED
    BY <2>1, <2>2
<1> HIDE DEF Loop
<1>10. Loop(f)
  BY <1>9, Zenon
<1> HIDE DEF f
<1>11. f[0] = <<>> /\ \A i \in 1 .. N : f[i] = Joined(f[i - 1], pages[i])
  <2>1. \A i \in 0 .. N : f[i] = IF i = 0 THEN <<>> ELSE Joined(f[i - 1], pages[i])
    BY <1>10 DEF Loop
  <2>2. 0 \in 0 .. N /\ \A i \in 1 .. N : i \in 0 .. N /\ i # 0
    BY <1>1
  <2> QED
    BY <2>1, <2>2
<1> DEFINE Good == {i \in 0 .. N : f[i] \in S}
<1>12. 0 \in Good
  BY <1>1, <1>3, <1>11
<1>13. \A i \in 1 .. N : i - 1 \in Good => i \in Good
  <2>1. \A i \in 1 .. N : i \in 0 .. N
    BY <1>1
  <2> QED
    BY <1>4, <1>11, <2>1
<1> HIDE DEF Good
<1>14. \A i \in 0 .. N : i \in Good
  BY <1>1, <1>12, <1>13, UpToN, Zenon
<1>15. \A i \in 0 .. N : f[i] \in S
  BY <1>14 DEF Good
<1> QED
  BY <1>2, <1>11, <1>15 DEF N, S

(* The offsets of pages are what the loop that adds them up says.          *)
LEMMA OffsetsProperties ==
    ASSUME NEW pages \in Seq(Seq(Char))
    PROVE  /\ \A i \in 0 .. Len(pages) : Offsets(pages)[i] \in Nat
           /\ Offsets(pages)[0] = 0
           /\ \A i \in 1 .. Len(pages) : Offsets(pages)[i] = Behind(Offsets(pages)[i - 1], pages[i])
<1> DEFINE N == Len(pages)
           Loop(g) == g = [i \in 0 .. N |-> IF i = 0 THEN 0 ELSE Behind(g[i - 1], pages[i])]
           step == [x \in Nat \X (1 .. N) |-> Behind(x[1], pages[x[2]])]
           f == CHOOSE g : Loop(g)
<1>1. N \in Nat /\ \A i \in 1 .. N : Len(pages[i]) \in Nat
  OBVIOUS
<1>2. Offsets(pages) = f
  BY Zenon DEF Offsets
<1>3. \A a \in Nat, i \in 1 .. N : Behind(a, pages[i]) \in Nat
  BY <1>1 DEF Behind
<1>4. \A a \in Nat, i \in 1 .. N : step[<<a, i>>] = Behind(a, pages[i])
  OBVIOUS
<1> HIDE DEF N, step
<1>5. ClosedUnder(Nat, N, step)
  BY <1>3, <1>4 DEF ClosedUnder
<1>6. PICK g \in [0 .. N -> Nat] : IsLoop(g, N, 0, step)
  <2>1. 0 \in Nat
    OBVIOUS
  <2> QED
    BY <1>1, <1>5, <2>1, LoopExists, Zenon
<1>7. g[0] = 0 /\ \A i \in 1 .. N : g[i] = Behind(g[i - 1], pages[i])
  <2>1. \A i \in 1 .. N : g[i - 1] \in Nat
    <3>1. \A i \in 1 .. N : i - 1 \in 0 .. N
      BY <1>1
    <3> QED
      BY <3>1
  <2> QED
    BY <1>4, <1>6, <2>1 DEF IsLoop
<1>8. Loop(g)
  <2>1. \A i \in 0 .. N : g[i] = IF i = 0 THEN 0 ELSE Behind(g[i - 1], pages[i])
    BY <1>1, <1>7
  <2>2. g = [i \in 0 .. N |-> g[i]]
    OBVIOUS
  <2> QED
    BY <2>1, <2>2
<1> HIDE DEF Loop
<1>9. Loop(f)
  BY <1>8, Zenon
<1> HIDE DEF f
<1>10. f[0] = 0 /\ \A i \in 1 .. N : f[i] = Behind(f[i - 1], pages[i])
  <2>1. \A i \in 0 .. N : f[i] = IF i = 0 THEN 0 ELSE Behind(f[i - 1], pages[i])
    BY <1>9 DEF Loop
  <2>2. 0 \in 0 .. N /\ \A i \in 1 .. N : i \in 0 .. N /\ i # 0
    BY <1>1
  <2> QED
    BY <2>1, <2>2
<1> DEFINE Good == {i \in 0 .. N : f[i] \in Nat}
<1>11. 0 \in Good
  BY <1>1, <1>10
<1>12. \A i \in 1 .. N : i - 1 \in Good => i \in Good
  <2>1. \A i \in 1 .. N : i \in 0 .. N
    BY <1>1
  <2> QED
    BY <1>3, <1>10, <2>1
<1> HIDE DEF Good
<1>13. \A i \in 0 .. N : i \in Good
  BY <1>1, <1>11, <1>12, UpToN, Zenon
<1>14. \A i \in 0 .. N : f[i] \in Nat
  BY <1>13 DEF Good
<1> QED
  BY <1>2, <1>10, <1>14 DEF N

(* The offsets that are added up are those of the text: the next page will *)
(* begin behind what there is and two ends of lines.                       *)
LEMMA OffsetsAgree ==
    ASSUME NEW pages \in Seq(Seq(Char))
    PROVE  \A i \in 0 .. Len(pages) :
              Offsets(pages)[i] = IF Texts(pages)[i] = <<>> THEN 0 ELSE Len(Texts(pages)[i]) + 2
<1> DEFINE N == Len(pages)
           T == Texts(pages)
           A == Offsets(pages)
           Good == {i \in 0 .. N : A[i] = IF T[i] = <<>> THEN 0 ELSE Len(T[i]) + 2}
<1>1. N \in Nat /\ \A i \in 1 .. N : i \in 0 .. N /\ i - 1 \in 0 .. N
  OBVIOUS
<1>2. /\ \A i \in 0 .. N : T[i] \in Seq(Char) /\ A[i] \in Nat
      /\ T[0] = <<>> /\ A[0] = 0
      /\ \A i \in 1 .. N : T[i] = Joined(T[i - 1], pages[i]) /\ A[i] = Behind(A[i - 1], pages[i])
  BY TextsProperties, OffsetsProperties
<1>3. \A i \in 1 .. N : pages[i] \in Seq(Char)
  OBVIOUS
<1> HIDE DEF N, T, A
<1>4. 0 \in Good
  BY <1>1, <1>2
<1>5. \A i \in 1 .. N : i - 1 \in Good => i \in Good
  <2> SUFFICES ASSUME NEW i \in 1 .. N, i - 1 \in Good
               PROVE  i \in Good
    OBVIOUS
  <2> DEFINE t == T[i - 1]
             u == T[i]
             a == A[i - 1]
             page == pages[i]
  <2>1. t \in Seq(Char) /\ a \in Nat /\ page \in Seq(Char) /\ u \in Seq(Char)
    BY <1>1, <1>2, <1>3
  <2>2. u = Joined(t, page) /\ A[i] = Behind(a, page)
    BY <1>2
  <2>3. a = IF t = <<>> THEN 0 ELSE Len(t) + 2
    OBVIOUS
  <2> HIDE DEF t, a, page, u, Good
  <2>4. Behind(a, page) = IF u = <<>> THEN 0 ELSE Len(u) + 2
    <3>1. Len(t) \in Nat /\ Len(page) \in Nat
      BY <2>1
    <3>2. CASE page = <<>>
      <4>1. u = t
        BY <2>1, <2>2, <3>2, JoinedType
      <4> QED
        BY <2>3, <3>2, <4>1 DEF Behind
    <3>3. CASE page # <<>> /\ t = <<>>
      <4>1. u # <<>> /\ Len(u) = Len(page)
        BY <2>1, <2>2, <3>3, JoinedType
      <4> QED
        BY <2>3, <3>1, <3>3, <4>1 DEF Behind
    <3>4. CASE page # <<>> /\ t # <<>>
      <4>1. u # <<>> /\ Len(u) = Len(t) + 2 + Len(page)
        BY <2>1, <2>2, <3>4, JoinedType
      <4> QED
        BY <2>3, <3>1, <3>4, <4>1 DEF Behind
    <3> QED
      BY <3>2, <3>3, <3>4
  <2> QED
    BY <1>1, <2>2, <2>4 DEF Good, u
<1> HIDE DEF Good
<1>6. \A i \in 0 .. N : i \in Good
  BY <1>1, <1>4, <1>5, UpToN, Zenon
<1> QED
  BY <1>6 DEF Good, N, T, A

(* The page of an offset in the text of some pages.                        *)
PageAt(pages, o) == Min({n \in DOMAIN pages : o < Len(Texts(pages)[n])})

(* A page has a text of its own if the text gets beyond an offset with it, *)
(* and every later one begins behind that offset.                          *)
LEMMA PageAtProperties ==
    ASSUME NEW pages \in Seq(Seq(Char)), NEW o \in Nat, o < Len(Texts(pages)[Len(pages)])
    PROVE  /\ PageAt(pages, o) \in 1 .. Len(pages) /\ pages[PageAt(pages, o)] # <<>>
           /\ \A k \in 1 .. Len(pages) : k > PageAt(pages, o) => Offsets(pages)[k - 1] > o
<1> DEFINE N == Len(pages)
           T == Texts(pages)
           A == Offsets(pages)
           long == {n \in DOMAIN pages : o < Len(T[n])}
           p == Min(long)
<1>1. N \in Nat /\ DOMAIN pages = 1 .. N /\ \A i \in 1 .. N : pages[i] \in Seq(Char)
  OBVIOUS
<1>2. /\ \A i \in 0 .. N : T[i] \in Seq(Char) /\ A[i] \in Nat
      /\ T[0] = <<>>
      /\ \A i \in 1 .. N : T[i] = Joined(T[i - 1], pages[i]) /\ A[i] = Behind(A[i - 1], pages[i])
      /\ \A i \in 0 .. N : A[i] = IF T[i] = <<>> THEN 0 ELSE Len(T[i]) + 2
  BY TextsProperties, OffsetsProperties, OffsetsAgree
<1>3. o < Len(T[N])
  OBVIOUS
<1>4. PageAt(pages, o) = p
  BY DEF PageAt
<1> HIDE DEF N, T, A
<1>5. long \in SUBSET Nat /\ long # {} /\ long \subseteq 1 .. N
  <2>1. N # 0
    <3> SUFFICES ASSUME N = 0
                 PROVE  FALSE
      OBVIOUS
    <3>1. T[N] = <<>>
      BY <1>2
    <3> QED
      BY <1>3, <3>1
  <2>2. N \in 1 .. N
    BY <1>1, <2>1
  <2> QED
    <3>1. N \in long
      BY <1>1, <1>3, <2>2
    <3>2. \A n \in long : n \in 1 .. N
      BY <1>1
    <3> HIDE DEF long
    <3> QED
      BY <1>1, <3>1, <3>2
<1>6. \A n \in long : o < Len(T[n])
  OBVIOUS
<1>7. \A n \in 1 .. N : n \notin long => ~(o < Len(T[n]))
  BY <1>1
<1> HIDE DEF long
<1>8. p \in long /\ \A n \in long : p <= n
  BY <1>5, LeastOf
<1> HIDE DEF p
<1>9. p \in 1 .. N /\ o < Len(T[p])
  BY <1>5, <1>6, <1>8
<1>10. pages[p] # <<>>
  <2> SUFFICES ASSUME pages[p] = <<>>
               PROVE  FALSE
    OBVIOUS
  <2>1. p - 1 \in 0 .. N /\ T[p - 1] \in Seq(Char) /\ pages[p] \in Seq(Char)
    BY <1>1, <1>2, <1>9
  <2>2. T[p] = T[p - 1]
    <3> DEFINE t == T[p - 1]
               page == pages[p]
    <3>1. t \in Seq(Char) /\ page \in Seq(Char) /\ page = <<>> /\ T[p] = Joined(t, page)
      BY <1>2, <1>9, <2>1
    <3> HIDE DEF t, page
    <3>2. Joined(t, page) = t
      BY <3>1, JoinedType
    <3> QED
      BY <3>1, <3>2 DEF t
  <2>3. CASE p = 1
    BY <1>2, <1>9, <2>2, <2>3
  <2>4. CASE p # 1
    <3>1. p - 1 \in 1 .. N /\ ~(p <= p - 1)
      BY <1>1, <1>9, <2>4
    <3>2. p - 1 \notin long
      BY <1>8, <3>1
    <3> QED
      BY <1>7, <1>9, <2>2, <3>1, <3>2
  <2> QED
    BY <2>3, <2>4
<1> DEFINE Good == {n \in 0 .. N : n >= p => A[n] > o}
<1>11. 0 \in Good
  BY <1>1, <1>9
<1>12. \A n \in 1 .. N : n - 1 \in Good => n \in Good
  <2> SUFFICES ASSUME NEW n \in 1 .. N, n - 1 \in Good, n >= p
               PROVE  A[n] > o
    BY <1>1
  <2>1. CASE n = p
    <3>1. T[p] # <<>> /\ Len(T[p]) \in Nat /\ A[p] = Len(T[p]) + 2
      <4>1. p \in 0 .. N /\ T[p] \in Seq(Char)
        BY <1>1, <1>2, <1>9
      <4>2. T[p] # <<>> /\ Len(T[p]) \in Nat
        BY <1>9, <4>1
      <4> QED
        BY <1>2, <4>1, <4>2
    <3> QED
      BY <1>9, <2>1, <3>1
  <2>2. CASE n # p
    <3>1. n - 1 \in 0 .. N /\ n - 1 >= p
      BY <1>1, <1>9, <2>2
    <3>2. A[n - 1] > o /\ A[n - 1] \in Nat /\ A[n] \in Nat
      BY <1>1, <1>2, <3>1
    <3>3. A[n] = Behind(A[n - 1], pages[n]) /\ Len(pages[n]) \in Nat
      BY <1>1, <1>2
    <3>4. A[n] >= A[n - 1]
      BY <3>2, <3>3 DEF Behind
    <3> QED
      BY <3>2, <3>4
  <2> QED
    BY <2>1, <2>2
<1> HIDE DEF Good
<1>13. \A n \in 0 .. N : n \in Good
  BY <1>1, <1>11, <1>12, UpToN, Zenon
<1>14. \A k \in 1 .. N : k > p => A[k - 1] > o
  <2>1. \A k \in 1 .. N : k > p => k - 1 \in 0 .. N /\ k - 1 >= p
    BY <1>1, <1>9
  <2> QED
    BY <1>13, <2>1 DEF Good
<1> QED
  BY <1>4, <1>9, <1>10, <1>14 DEF N, T, A

(* An offset that is not behind another is not given a page behind it.     *)
LEMMA PageNotBehind ==
    ASSUME NEW pages \in Seq(Seq(Char)), NEW o \in Nat, o < Len(Texts(pages)[Len(pages)]),
           NEW x \in Nat, x <= o
    PROVE  PageForOffset(x, Spans(pages)) <= PageAt(pages, o)
<1> DEFINE N == Len(pages)
           A == Offsets(pages)
           p == PageAt(pages, o)
           spans == Spans(pages)
           numbers(S) == {s.page : s \in S}
           around == {s \in spans : s.from <= x /\ x < s.to}
           last == {s \in spans : s.page = Max(numbers(spans))}
<1>1. /\ p \in 1 .. N /\ pages[p] # <<>>
      /\ \A k \in 1 .. N : k > p => A[k - 1] > o
  BY PageAtProperties
<1>2. N \in Nat /\ DOMAIN pages = 1 .. N /\ \A i \in 1 .. N : Len(pages[i]) \in Nat
  OBVIOUS
<1>3. \A i \in 1 .. N : A[i - 1] \in Nat
  <2>1. \A i \in 1 .. N : i - 1 \in 0 .. N
    OBVIOUS
  <2> QED
    BY <2>1, OffsetsProperties
<1>4. spans = {[from |-> A[i - 1], to |-> A[i - 1] + Len(pages[i]), page |-> i] :
                  i \in {n \in DOMAIN pages : pages[n] # <<>>}}
  BY Zenon DEF Spans
<1> HIDE DEF N, A, p, spans
<1>5. \A s \in spans : s.page \in 1 .. N /\ s.from = A[s.page - 1] /\ s.to = A[s.page - 1] + Len(pages[s.page])
  BY <1>2, <1>4
<1>6. \E s \in spans : s.page = p
  <2> DEFINE s == [from |-> A[p - 1], to |-> A[p - 1] + Len(pages[p]), page |-> p]
  <2>1. s \in spans /\ s.page = p
    BY <1>1, <1>2, <1>4
  <2> QED
    BY <2>1
<1>7. ASSUME NEW s \in spans, s.from <= x \/ s.to <= x
      PROVE  s.page <= p
  <2> DEFINE k == s.page
  <2>1. k \in 1 .. N /\ s.from = A[k - 1] /\ s.to = A[k - 1] + Len(pages[k])
    BY <1>5
  <2>2. A[k - 1] \in Nat /\ Len(pages[k]) \in Nat
    BY <1>2, <1>3, <2>1
  <2>3. A[k - 1] <= x
    BY <1>7, <2>1, <2>2
  <2> HIDE DEF k
  <2>4. ~(k > p)
    BY <1>1, <2>1, <2>2, <2>3
  <2>5. k <= p
    BY <1>1, <2>1, <2>4
  <2> QED
    BY <2>5 DEF k
<1> HIDE DEF last, numbers, around
<1>8. ASSUME NEW S \in SUBSET spans, S # {}
      PROVE  /\ \E s \in S : s.page = Min(numbers(S))
             /\ \A s \in S : Min(numbers(S)) <= s.page
             /\ \E s \in S : s.page = Max(numbers(S))
  <2> DEFINE P == numbers(S)
  <2>1. P \in SUBSET Nat /\ P \in SUBSET Int /\ P # {} /\ \A y \in P : y <= N
    BY <1>2, <1>5, <1>8 DEF numbers
  <2>2. \A y : y \in P <=> \E s \in S : y = s.page
    BY DEF numbers
  <2> HIDE DEF P
  <2>3. Min(P) \in P /\ \A y \in P : Min(P) <= y
    BY <2>1, LeastOf, Zenon
  <2>4. Max(P) \in P
    BY <1>2, <2>1, MostOf, Zenon
  <2>5. /\ \E s \in S : s.page = Min(P)
        /\ \A s \in S : Min(P) <= s.page
        /\ \E s \in S : s.page = Max(P)
    BY <2>2, <2>3, <2>4
  <2> QED
    BY <2>5, Zenon DEF P
<1>9. PageForOffset(x, spans) =
        IF spans = {} THEN NoPage
        ELSE IF around # {} THEN Min(numbers(around))
        ELSE IF \E s \in last : x >= s.to THEN Max(numbers(spans))
        ELSE Min(numbers(spans))
  BY Zenon DEF PageForOffset, around, last, numbers
<1>10. spans # {}
  BY <1>6
<1>11. CASE around # {}
  <2>1. around \in SUBSET spans /\ \A s \in around : s.from <= x
    BY DEF around
  <2>2. PICK s \in around : s.page = Min(numbers(around))
    BY <1>8, <1>11, <2>1
  <2>3. s.page <= p
    BY <1>7, <2>1, <2>2
  <2> QED
    BY <1>9, <1>10, <1>11, <2>2, <2>3 DEF p, spans
<1>12. CASE around = {} /\ \E s \in last : x >= s.to
  <2>1. PICK s \in last : x >= s.to
    BY <1>12
  <2>2. s \in spans /\ s.page = Max(numbers(spans))
    BY <2>1 DEF last
  <2>3. s.to <= x
    <3>1. s.page \in 1 .. N /\ s.to = A[s.page - 1] + Len(pages[s.page])
      BY <1>5, <2>2
    <3>2. A[s.page - 1] \in Nat /\ Len(pages[s.page]) \in Nat
      BY <1>2, <1>3, <3>1
    <3> QED
      BY <2>1, <3>1, <3>2
  <2>4. s.page <= p
    BY <1>7, <2>2, <2>3
  <2> QED
    BY <1>9, <1>10, <1>12, <2>2, <2>4 DEF p, spans
<1>13. CASE around = {} /\ ~\E s \in last : x >= s.to
  <2>1. Min(numbers(spans)) <= p
    BY <1>6, <1>8, <1>10
  <2> QED
    BY <1>9, <1>10, <1>13, <2>1 DEF p, spans
<1> QED
  BY <1>11, <1>12, <1>13

TextOf(d) == Texts(d.pages)[Len(d.pages)]

(* What a document that is given consists of.                              *)
LEMMA DocumentType ==
    ASSUME NEW d \in Documents
    PROVE  /\ d.pages \in Seq(Seq(Char)) /\ TextOf(d) \in Seq(Char)
           /\ d.aware \in BOOLEAN /\ d.child \in Nat \ {0} /\ d.overlap \in Nat
           /\ Max({d.parent, d.child}) \in Nat \ {0}
<1>1. /\ d.pages \in Seq(Seq(Char)) /\ d.aware \in BOOLEAN
      /\ d.child \in Nat \ {0} /\ d.parent \in Nat /\ d.overlap \in Nat
  BY ChunkingAssumption, Zenon
<1>2. TextOf(d) \in Seq(Char)
  <2>1. Len(d.pages) \in 0 .. Len(d.pages)
    BY <1>1
  <2> QED
    BY <1>1, <2>1, TextsProperties DEF TextOf
<1>3. Max({d.parent, d.child}) \in Nat \ {0}
  <2> DEFINE S == {d.parent, d.child}
             N == d.parent + d.child
  <2>1. S \in SUBSET Int /\ S # {} /\ (\A y \in S : y <= N) /\ N \in Nat /\ d.child \in S /\ S \in SUBSET Nat
    BY <1>1
  <2> HIDE DEF S, N
  <2>2. Max(S) \in S /\ \A y \in S : y <= Max(S)
    BY <2>1, MostOf, Zenon
  <2> DEFINE m == Max(S)
             child == d.child
  <2>3. m \in Nat /\ child <= m /\ child \in Nat /\ child # 0
    BY <1>1, <2>1, <2>2
  <2> HIDE DEF m, child
  <2>4. m \in Nat \ {0}
    BY <2>3
  <2> QED
    BY <2>4 DEF S, m
<1> QED
  BY <1>1, <1>2, <1>3

SpansOf(d) == IF d.paged THEN Spans(d.pages) ELSE {}

(* A chunk is a child of a parent of a section.                            *)
IsChunk(d, s, p, w) ==
    /\ s \in SplitSections(TextOf(d), d.aware)
    /\ p \in Parents(TextOf(d), d, s.body)
    /\ w \in Children(TextOf(d), d, p)

(* The chunks of a document are the children of the parents of its         *)
(* sections.                                                               *)
LEMMA ChunksOfDocument ==
    ASSUME NEW d, NEW c
    PROVE  c \in ChunkDocument(d) <=> \E s, p, w : IsChunk(d, s, p, w) /\ c = Chunk(s, p, w, SpansOf(d))
<1> DEFINE t == TextOf(d)
           spans == SpansOf(d)
<1>1. ChunkDocument(d) =
        UNION {UNION {{Chunk(s, p, w, spans) : w \in Children(t, d, p)} :
                         p \in Parents(t, d, s.body)} :
                  s \in SplitSections(t, d.aware)}
  BY Zenon DEF ChunkDocument, TextOf, SpansOf
<1> HIDE DEF t, spans
<1>2. c \in ChunkDocument(d) <=>
        \E s \in SplitSections(t, d.aware) : \E p \in Parents(t, d, s.body) :
           \E w \in Children(t, d, p) : c = Chunk(s, p, w, spans)
  BY <1>1
<1> QED
  BY <1>2, Zenon DEF IsChunk, t, spans

(* A child is in its parent, and this in its section, no longer than       *)
(* allowed; where each is said to begin is not behind where it does.       *)
LEMMA ChunkProperties ==
    ASSUME NEW d \in Documents, NEW s, NEW p, NEW w, IsChunk(d, s, p, w)
    PROVE  /\ s.at \in Nat /\ s.body.from \in Nat /\ s.body.to \in Nat
           /\ s.at <= s.body.from /\ s.body.to <= Len(TextOf(d))
           /\ p.at \in Nat /\ p.from \in Nat /\ p.to \in Nat
           /\ s.body.from <= p.at /\ p.at <= p.from /\ p.to <= s.body.to
           /\ w.at \in Nat /\ w.from \in Nat /\ w.to \in Nat
           /\ p.from <= w.at /\ w.at <= w.from /\ w.from < w.to /\ w.to <= p.to
           /\ w.to - w.from <= d.child /\ ~Blank(TextOf(d)[w.from + 1])
<1> DEFINE t == TextOf(d)
           S == SplitSections(t, d.aware)
           size == Max({d.parent, d.child})
           range == [from |-> p.from, to |-> p.to]
<1>1. /\ t \in Seq(Char) /\ d.aware \in BOOLEAN /\ d.child \in Nat \ {0} /\ d.overlap \in Nat
      /\ size \in Nat \ {0}
  BY DocumentType
<1> HIDE DEF t, size
<1>2. AreSections(t, d.aware, S)
  BY <1>1, SplitProperties
<1>3. s \in S /\ p \in Windows(t, s.body, size, 0) /\ w \in Windows(t, range, d.child, d.overlap)
  BY Zenon DEF IsChunk, Parents, Children, t, size
<1>4. /\ s.at \in Nat /\ s.body.from \in Nat /\ s.body.to \in Nat
      /\ s.at <= s.body.from /\ s.body.from <= s.body.to /\ s.body.to <= Len(t)
  BY <1>2, <1>3, Zenon DEF AreSections
<1>5. AreWindows(t, Windows(t, s.body, size, 0), s.body, size)
  <2>1. 0 \in Nat
    OBVIOUS
  <2> QED
    BY <1>1, <1>4, <2>1, WindowsProperties, Zenon
<1>6. /\ p.at \in Nat /\ p.from \in Nat /\ p.to \in Nat
      /\ s.body.from <= p.at /\ p.at <= p.from /\ p.from < p.to /\ p.to <= s.body.to
  BY <1>3, <1>5, Zenon DEF AreWindows
<1>7. range.from = p.from /\ range.to = p.to
  OBVIOUS
<1> HIDE DEF range
<1>8. range.from \in Nat /\ range.to \in Nat /\ range.from <= range.to
  BY <1>6, <1>7
<1>9. AreWindows(t, Windows(t, range, d.child, d.overlap), range, d.child)
  BY <1>1, <1>8, WindowsProperties, Zenon
<1>10. /\ w.at \in Nat /\ w.from \in Nat /\ w.to \in Nat
       /\ range.from <= w.at /\ w.at <= w.from /\ w.from < w.to /\ w.to <= range.to
       /\ w.to - w.from <= d.child /\ ~Blank(t[w.from + 1])
  BY <1>3, <1>9, Zenon DEF AreWindows
<1> QED
  BY <1>4, <1>6, <1>7, <1>10 DEF t

(* Whatever is no blank and not of a heading is in a chunk.                *)
LEMMA TextIsChunked ==
    ASSUME NEW d \in Documents, NEW o \in 0 .. Len(TextOf(d)) - 1, ~Blank(TextOf(d)[o + 1]),
           ~(d.aware /\ LineFrom(TextOf(d), o) \in Headings(TextOf(d)))
    PROVE  \E s, p, w : IsChunk(d, s, p, w) /\ o \in w.from .. w.to - 1
<1> DEFINE t == TextOf(d)
           S == SplitSections(t, d.aware)
           size == Max({d.parent, d.child})
<1>1. /\ t \in Seq(Char) /\ d.aware \in BOOLEAN /\ d.child \in Nat \ {0} /\ d.overlap \in Nat
      /\ size \in Nat \ {0}
  BY DocumentType
<1>2. o \in 0 .. Len(t) - 1 /\ ~Blank(t[o + 1]) /\ ~(d.aware /\ LineFrom(t, o) \in Headings(t))
  OBVIOUS
<1> HIDE DEF t, size
<1>3. AreSections(t, d.aware, S)
  BY <1>1, SplitProperties
<1>4. PICK s \in S : o \in s.body.from .. s.body.to - 1
  BY <1>2, <1>3, Zenon DEF AreSections
<1>5. s.body.from \in Nat /\ s.body.to \in Nat /\ s.body.from <= s.body.to
  BY <1>3, <1>4, Zenon DEF AreSections
<1> DEFINE P == Windows(t, s.body, size, 0)
<1>6. AreWindows(t, P, s.body, size)
  <2>1. 0 \in Nat
    OBVIOUS
  <2> QED
    BY <1>1, <1>5, <2>1, WindowsProperties, Zenon
<1>7. PICK p \in P : o \in p.from .. p.to - 1
  BY <1>2, <1>4, <1>6, Zenon DEF AreWindows
<1>8. p.from \in Nat /\ p.to \in Nat /\ p.from < p.to
  BY <1>6, <1>7, Zenon DEF AreWindows
<1> DEFINE range == [from |-> p.from, to |-> p.to]
           W == Windows(t, range, d.child, d.overlap)
<1>9. range.from = p.from /\ range.to = p.to
  OBVIOUS
<1> HIDE DEF range
<1>10. range.from \in Nat /\ range.to \in Nat /\ range.from <= range.to
  BY <1>8, <1>9
<1>11. AreWindows(t, W, range, d.child)
  BY <1>1, <1>10, WindowsProperties, Zenon
<1>12. o \in range.from .. range.to - 1
  BY <1>7, <1>9
<1>13. PICK w \in W : o \in w.from .. w.to - 1
  BY <1>2, <1>11, <1>12, Zenon DEF AreWindows
<1>14. IsChunk(d, s, p, w)
  BY <1>4, <1>7, <1>13, Zenon DEF IsChunk, Parents, Children, t, size, range
<1> QED
  BY <1>13, <1>14

(* Two parents that are not the same do not share a character.             *)
LEMMA ParentsApart ==
    ASSUME NEW d \in Documents, NEW s, NEW p, NEW w, IsChunk(d, s, p, w),
           NEW r, NEW q, NEW v, IsChunk(d, r, q, v), <<s.at, p.at>> # <<r.at, q.at>>
    PROVE  Apart(p, q)
<1> DEFINE t == TextOf(d)
           S == SplitSections(t, d.aware)
           size == Max({d.parent, d.child})
<1>1. t \in Seq(Char) /\ d.aware \in BOOLEAN /\ size \in Nat \ {0}
  BY DocumentType
<1> HIDE DEF t, size
<1>2. s \in S /\ r \in S /\ p \in Windows(t, s.body, size, 0) /\ q \in Windows(t, r.body, size, 0)
  BY Zenon DEF IsChunk, Parents, t, size
<1>3. AreSections(t, d.aware, S)
  BY <1>1, SplitProperties
<1>4. CASE s = r
  <2>1. p.at # q.at
    BY <1>4
  <2>2. s.body.from \in Nat /\ s.body.to \in Nat /\ s.body.from <= s.body.to
    BY <1>2, <1>3, Zenon DEF AreSections
  <2>3. \A x, y \in Windows(t, s.body, size, 0) : x.at # y.at => Apart(x, y)
    <3>1. 0 \in Nat
      OBVIOUS
    <3> QED
      BY <1>1, <2>2, <3>1, WindowsProperties, Zenon
  <2> QED
    BY <1>2, <1>4, <2>1, <2>3, Zenon
<1>5. CASE s # r
  <2>1. Apart(s.body, r.body)
    BY <1>2, <1>3, <1>5, Zenon DEF AreSections
  <2>2. /\ s.body.from \in Nat /\ s.body.to \in Nat /\ p.from \in Nat /\ p.to \in Nat
        /\ s.body.from <= p.at /\ p.at <= p.from /\ p.to <= s.body.to /\ p.at \in Nat
    BY ChunkProperties
  <2>3. /\ r.body.from \in Nat /\ r.body.to \in Nat /\ q.from \in Nat /\ q.to \in Nat
        /\ r.body.from <= q.at /\ q.at <= q.from /\ q.to <= r.body.to /\ q.at \in Nat
    BY ChunkProperties
  <2> QED
    BY <2>1, <2>2, <2>3 DEF Apart
<1> QED
  BY <1>4, <1>5

(* Either nothing is chunked yet or a document that was given.             *)
ChunkingInv ==
    \/ document = NoDocument /\ chunks = {}
    \/ document \in Documents /\ chunks = ChunkDocument(document)

(* Without a document there is nothing to lose.                            *)
LEMMA NothingChunked == document = NoDocument /\ chunks = {} => ChunksFaithful
<1> SUFFICES ASSUME document = NoDocument, chunks = {}
             PROVE  ChunksFaithful
  OBVIOUS
<1>1. document.pages = <<>> /\ <<>> \in Seq(Seq(Char)) /\ Len(<<>>) = 0
  BY DEF NoDocument
<1>2. Text = <<>>
  BY <1>1, TextsProperties DEF Text
<1>3. NothingLost
  BY <1>2 DEF NothingLost
<1>4. UnderItsHeadings /\ WithinParents /\ PageNotLate
  BY DEF UnderItsHeadings, WithinParents, PageNotLate
<1> QED
  BY <1>3, <1>4 DEF ChunksFaithful

(* The chunks of a document are its text.                                  *)
LEMMA CutFaithful ==
    ASSUME document \in Documents, chunks = ChunkDocument(document)
    PROVE  ChunksFaithful
<1> DEFINE d == document
           t == TextOf(d)
           spans == SpansOf(d)
<1>1. Text = t /\ (\A o : LineStart(o) = LineFrom(t, o)) /\ t \in Seq(Char)
  BY DocumentType, Zenon DEF Text, TextOf, LineStart, LineFrom
<1>2. \A h : Heading(h) <=> d.aware /\ h \in Headings(t)
  BY <1>1, Zenon DEF Heading
<1>3. \A c : c \in chunks <=> \E s, p, w : IsChunk(d, s, p, w) /\ c = Chunk(s, p, w, spans)
  BY ChunksOfDocument
<1>4. ASSUME NEW s, NEW p, NEW w, NEW c, c = Chunk(s, p, w, spans)
      PROVE  LET at == s.at + (p.at - s.body.from) + (w.at - p.from)
             IN  /\ c.path = s.path /\ c.key = <<s.at, p.at>>
                 /\ c.parent.from = p.from /\ c.parent.to = p.to
                 /\ c.from = w.from /\ c.to = w.to /\ c.page = PageForOffset(at, spans)
  BY <1>4 DEF Chunk
<1>5. d.child \in Nat \ {0}
  BY DocumentType
<1> HIDE DEF t, spans
<1>6. NothingLost
  <2>1. ASSUME NEW o \in 0 .. Len(Text) - 1, ~Blank(Text[o + 1]), ~Heading(LineStart(o))
        PROVE  \E c \in chunks : o \in c.from .. c.to - 1
    <3>1. o \in 0 .. Len(t) - 1 /\ ~Blank(t[o + 1]) /\ ~(d.aware /\ LineFrom(t, o) \in Headings(t))
      BY <1>1, <1>2, <2>1
    <3>2. PICK s, p, w : IsChunk(d, s, p, w) /\ o \in w.from .. w.to - 1
      BY <3>1, TextIsChunked DEF t
    <3> DEFINE c == Chunk(s, p, w, spans)
    <3>3. c = Chunk(s, p, w, spans)
      OBVIOUS
    <3> HIDE DEF c
    <3>4. c \in chunks
      BY <1>3, <3>2, <3>3
    <3>5. c.from = w.from /\ c.to = w.to
      BY <1>4, <3>3
    <3> QED
      BY <3>2, <3>4, <3>5
  <2>2. ASSUME NEW c \in chunks
        PROVE  c.to - c.from <= d.child
    <3>1. PICK s, p, w : IsChunk(d, s, p, w) /\ c = Chunk(s, p, w, spans)
      BY <1>3
    <3>2. c.from = w.from /\ c.to = w.to
      BY <1>4, <3>1
    <3>3. w.to - w.from <= d.child
      BY <3>1, ChunkProperties
    <3> QED
      BY <3>2, <3>3
  <2> QED
    BY <2>1, <2>2 DEF NothingLost
<1>7. UnderItsHeadings
  <2> SUFFICES ASSUME NEW c \in chunks, ~Heading(LineStart(c.from))
               PROVE  LET above == {h \in 0 .. LineStart(c.from) - 1 : Heading(h)}
                      IN  c.path = {h \in above : \A k \in above : k > h => LevelAt(Text, k) > LevelAt(Text, h)}
    BY Zenon DEF UnderItsHeadings
  <2> DEFINE l == LineStart(c.from)
             above == {h \in 0 .. l - 1 : Heading(h)}
             same == {h \in 0 .. l - 1 : d.aware /\ h \in Headings(t)}
  <2>1. PICK s, p, w : IsChunk(d, s, p, w) /\ c = Chunk(s, p, w, spans)
    BY <1>3
  <2>2. c.from = w.from /\ c.path = s.path
    BY <1>4, <2>1
  <2>3. AreSections(t, d.aware, SplitSections(t, d.aware))
    BY <1>1, DocumentType, SplitProperties
  <2>4. s \in SplitSections(t, d.aware)
    BY <2>1 DEF IsChunk, t
  <2>5. w.from \in Nat /\ w.from \in s.body.from .. s.body.to - 1 /\ ~Blank(t[w.from + 1])
    BY <2>1, ChunkProperties DEF t
  <2>6. ~(d.aware /\ LineFrom(t, w.from) \in Headings(t))
    BY <1>1, <1>2, <2>2
  <2>7. s.path = UnderHeading(t, d.aware, LineFrom(t, w.from))
    BY <2>3, <2>4, <2>5, <2>6, Zenon DEF AreSections
  <2>8. l = LineFrom(t, w.from)
    BY <1>1, <2>2
  <2> HIDE DEF l
  <2>9. UnderHeading(t, d.aware, l) =
            {h \in same : \A k \in same : k > h => LevelAt(t, k) > LevelAt(t, h)}
    BY Zenon DEF UnderHeading
  <2>10. above = same
    BY <1>2
  <2> HIDE DEF above, same
  <2>11. c.path = {h \in above : \A k \in above : k > h => LevelAt(Text, k) > LevelAt(Text, h)}
    BY <1>1, <2>2, <2>7, <2>8, <2>9, <2>10
  <2> QED
    BY <2>11, Zenon DEF above, l
<1>8. WithinParents
  <2>1. ASSUME NEW c \in chunks
        PROVE  c.parent.from <= c.from /\ c.to <= c.parent.to
    <3>1. PICK s, p, w : IsChunk(d, s, p, w) /\ c = Chunk(s, p, w, spans)
      BY <1>3
    <3>2. c.from = w.from /\ c.to = w.to /\ c.parent.from = p.from /\ c.parent.to = p.to
      BY <1>4, <3>1
    <3>3. /\ p.from \in Nat /\ p.to \in Nat /\ w.at \in Nat /\ w.from \in Nat /\ w.to \in Nat
          /\ p.from <= w.at /\ w.at <= w.from /\ w.to <= p.to
      BY <3>1, ChunkProperties
    <3> QED
      BY <3>2, <3>3
  <2>2. ASSUME NEW c \in chunks, NEW e \in chunks, e.key # c.key
        PROVE  c.parent.to <= e.parent.from \/ e.parent.to <= c.parent.from
    <3>1. PICK s, p, w : IsChunk(d, s, p, w) /\ c = Chunk(s, p, w, spans)
      BY <1>3
    <3>2. PICK r, q, v : IsChunk(d, r, q, v) /\ e = Chunk(r, q, v, spans)
      BY <1>3
    <3>3. c.key = <<s.at, p.at>> /\ c.parent.from = p.from /\ c.parent.to = p.to
      BY <1>4, <3>1
    <3>4. e.key = <<r.at, q.at>> /\ e.parent.from = q.from /\ e.parent.to = q.to
      BY <1>4, <3>2
    <3>5. <<s.at, p.at>> # <<r.at, q.at>>
      BY <2>2, <3>3, <3>4, Zenon
    <3>6. Apart(p, q)
      BY <3>1, <3>2, <3>5, ParentsApart, Zenon
    <3> QED
      BY <3>3, <3>4, <3>6, Zenon DEF Apart
  <2> QED
    BY <2>1, <2>2 DEF WithinParents
<1>9. PageNotLate
  <2> SUFFICES ASSUME d.paged, NEW c \in chunks
               PROVE  c.page <= PageOf(c.from)
    BY DEF PageNotLate
  <2>1. PICK s, p, w : IsChunk(d, s, p, w) /\ c = Chunk(s, p, w, spans)
    BY <1>3
  <2> DEFINE at == s.at + (p.at - s.body.from) + (w.at - p.from)
  <2>2. c.from = w.from /\ c.page = PageForOffset(at, spans)
    BY <1>4, <2>1
  <2>3. spans = Spans(d.pages)
    BY DEF spans, SpansOf
  <2>4. /\ s.at \in Nat /\ s.body.from \in Nat /\ s.body.to \in Nat
        /\ s.at <= s.body.from /\ s.body.to <= Len(t)
        /\ p.at \in Nat /\ p.from \in Nat /\ p.to \in Nat
        /\ s.body.from <= p.at /\ p.at <= p.from /\ p.to <= s.body.to
        /\ w.at \in Nat /\ w.from \in Nat /\ w.to \in Nat
        /\ p.from <= w.at /\ w.at <= w.from /\ w.from < w.to /\ w.to <= p.to
    BY <2>1, ChunkProperties DEF t
  <2>5. at \in Nat /\ at <= w.from
    BY <2>4
  <2>6. Len(t) \in Nat
    BY <1>1
  <2> HIDE DEF at
  <2>7. w.from < Len(Texts(d.pages)[Len(d.pages)])
    <3>1. w.from < Len(t)
      BY <2>4, <2>6
    <3> QED
      BY <3>1, Zenon DEF t, TextOf
  <2>8. d.pages \in Seq(Seq(Char)) /\ w.from \in Nat
    BY <2>4, DocumentType
  <2>9. PageForOffset(at, Spans(d.pages)) <= PageAt(d.pages, w.from)
    BY <2>5, <2>7, <2>8, PageNotBehind, Zenon
  <2>10. PageOf(w.from) = PageAt(d.pages, w.from)
    BY Zenon DEF PageOf, PageAt
  <2> QED
    BY <2>2, <2>3, <2>9, <2>10
<1> QED
  BY <1>6, <1>7, <1>8, <1>9 DEF ChunksFaithful

(* The chunks are always those of the document.                            *)
LEMMA ChunkingNextKeeps == ChunkingInv /\ [ChunkingNext]_chunkVars => ChunkingInv'
<1> SUFFICES ASSUME ChunkingInv, [ChunkingNext]_chunkVars
             PROVE  ChunkingInv'
  OBVIOUS
<1>1. CASE ChunkingNext
  <2>1. PICK d \in Documents : document' = d /\ chunks' = ChunkDocument(d)
    BY <1>1 DEF ChunkingNext, Cut
  <2> QED
    BY <2>1 DEF ChunkingInv
<1>2. CASE UNCHANGED chunkVars
  BY <1>2 DEF ChunkingInv, chunkVars
<1> QED
  BY <1>1, <1>2

(* Every character that is no blank and not of a heading is in a chunk of  *)
(* the allowed length, each chunk is labelled with the headings it is      *)
(* under and lies in its parent, no two parents share a character, and no  *)
(* page number is too high.                                                *)
THEOREM ChunksAlwaysFaithful == ChunkingSpec => []ChunksFaithful
<1>1. ChunkingInit => ChunkingInv
  BY DEF ChunkingInit, ChunkingInv
<1>2. ChunkingInv => ChunksFaithful
  BY NothingChunked, CutFaithful DEF ChunkingInv
<1> QED
  BY <1>1, <1>2, ChunkingNextKeeps, PTL DEF ChunkingSpec

=============================================================================
