----------------------------- MODULE RetrievalCache -----------------------------
(***************************************************************************)
(* Retrieval from the documents of a knowledge base or a conversation      *)
(* (services/rag_retrieval.py) through the semantic cache                  *)
(* (services/rag_cache.py): the chunks found for a query are kept, for a   *)
(* while, for that query and for those that mean nearly the same.          *)
(*                                                                         *)
(* A retrieval runs on the event loop and gives way where it awaits the    *)
(* embedding, the search in a thread, the reranker and the look at the     *)
(* parents of what it found.  Meanwhile documents are ingested (Ingestion) *)
(* and deleted, by this process or, with the standalone worker, by another *)
(* one, whose cache is not this one.  What is found of a document is       *)
(* represented by the version of its chunks; module Ranking has their      *)
(* order.                                                                  *)
(***************************************************************************)
EXTENDS Integers, Sequences, FiniteSets, Selections

CONSTANTS
    Retrieval,      \* the retrievals, each runs once
    Busy,           \* bound: sets of scopes, one of which is asked and changed
    Scope,          \* knowledge bases and conversations
    Conversation,   \* the scopes that are conversations
    Doc,
    ScopeOf,        \* where each document is attached
    Query,          \* texts of queries, after their rewriting
    Near,           \* pairs of queries with a similarity above the threshold
    Cap,            \* rag_semantic_cache_size
    Ttl,            \* rag_semantic_cache_ttl_s
    Standalone,     \* the documents that the standalone worker may ingest
    MaxVersion,     \* bound: ingests of a document
    MaxChanges      \* bound: ingests and deletions altogether

ASSUME RetrievalAssumption ==
    /\ Conversation \subseteq Scope /\ Busy \subseteq SUBSET Scope
    /\ ScopeOf \in [Doc -> Scope] /\ Standalone \subseteq Doc
    /\ Near \subseteq Query \X Query /\ \A p \in Near : <<p[2], p[1]>> \in Near
    /\ Cap \in Nat /\ Ttl \in Nat /\ MaxVersion \in Nat \ {0} /\ MaxChanges \in Nat

VARIABLES
    shelf,          \* the version of each document's chunks, 0 without chunks
    cache,          \* _CACHE: per scope, the entries from the least recent on
    run,            \* the retrievals
    busy,           \* the scopes that are asked and changed, fixed
    lost,           \* history: versions that went, how, and how long ago
    straddled       \* history: versions that went while a retrieval held them

retrievalVars == <<shelf, cache, run, busy, lost, straddled>>

Chunks == [doc : Doc, version : 1 .. MaxVersion]

(* What an answer shows: a chunk, or the whole section around it.          *)
Shown == [doc : Doc, version : 1 .. MaxVersion, whole : BOOLEAN]

Age == 0 .. Ttl + 1         \* of an entry that is expired: Ttl + 1

Entries == [query : Query, age : Age, answer : SUBSET Shown]

Lost == [doc : Doc, version : 1 .. MaxVersion, how : {"ingested", "elsewhere", "deleted"}, age : Age]

NoRun == [pc |-> "idle", scope |-> "none", query |-> "none", embedded |-> FALSE,
          before |-> {}, found |-> {}, answer |-> {}]

Runs ==
    [pc : {"idle", "asked", "search", "rank", "expand", "name", "done", "failed"},
     scope : Scope \cup {"none"}, query : Query \cup {"none"},
     embedded : BOOLEAN,        \* the query has a vector
     before : SUBSET Lost,      \* history: what was lost when the cache was asked
     found : SUBSET Chunks,
     answer : SUBSET Shown]

(* Every variable has a value of its type; no scope keeps more than Cap    *)
(* entries, nor two of one query.                                          *)
RetrievalTypeOK ==
    /\ shelf \in [Doc -> 0 .. MaxVersion]
    /\ DOMAIN cache = Scope
    /\ \A s \in Scope :
          /\ Len(cache[s]) <= IF Cap > 1 THEN Cap ELSE 1
          /\ \A i \in DOMAIN cache[s] : cache[s][i] \in Entries
          /\ \A i, j \in DOMAIN cache[s] : cache[s][i].query = cache[s][j].query => i = j
    /\ run \in [Retrieval -> Runs]
    /\ busy \in Busy
    /\ lost \subseteq Lost
    /\ straddled \subseteq Chunks

RetrievalInit ==
    /\ shelf = [d \in Doc |-> 1]
    /\ cache = [s \in Scope |-> <<>>]
    /\ run = [r \in Retrieval |-> NoRun]
    /\ busy \in Busy
    /\ lost = {} /\ straddled = {}

-----------------------------------------------------------------------------
(***************************************************************************)
(* The cache.                                                              *)
(***************************************************************************)

Fresh(e) == e.age <= Ttl

Miss == [hit |-> FALSE, answer |-> {}]

Hit(e) == [hit |-> TRUE, answer |-> e.answer]

MovedToEnd(store, i) == Append(LeftAt(store, DOMAIN store \ {i}), store[i])

Exact(s, q) == {i \in DOMAIN cache[s] : cache[s][i].query = q}

Alike(s, q) == {i \in DOMAIN cache[s] : Fresh(cache[s][i]) /\ <<q, cache[s][i].query>> \in Near}

Unexpired(s) == LeftAt(cache[s], {i \in DOMAIN cache[s] : Fresh(cache[s][i])})

(* Faulty variant: the text of a query that is known is enough.            *)
GetAnyAge(s, q) ==
    IF Exact(s, q) # {}
    THEN {<<Hit(cache[s][i]), MovedToEnd(cache[s], i)>> : i \in Exact(s, q)}
    ELSE {<<Miss, Unexpired(s)>>}

(* The entry of the same text; failing that, of those that are alike the   *)
(* most alike, after a scan that drops what has expired.  A pair of the    *)
(* outcome and what the scope's store becomes.                             *)
Get(s, q) ==
    LET same == {i \in Exact(s, q) : Fresh(cache[s][i])}
    IN  IF same # {}
        THEN {<<Hit(cache[s][i]), MovedToEnd(cache[s], i)>> : i \in same}
        ELSE LET outcomes == IF Alike(s, q) = {} THEN {Miss}
                             ELSE {Hit(cache[s][i]) : i \in Alike(s, q)}
             IN  outcomes \X {Unexpired(s)}

(* Faulty variant: nothing is dropped.                                     *)
AllOnes(store) == store

LastOnes(store) ==
    LET cap == IF Cap > 1 THEN Cap ELSE 1
    IN  IF Len(store) > cap THEN SubSeq(store, Len(store) - cap + 1, Len(store)) ELSE store

(* The entry of a known query is replaced and becomes the most recent one. *)
Put(s, q, answer) ==
    LET others == LeftAt(cache[s], DOMAIN cache[s] \ Exact(s, q))
    IN  LastOnes(Append(others, [query |-> q, age |-> 0, answer |-> answer]))

-----------------------------------------------------------------------------
(***************************************************************************)
(* A retrieval.                                                            *)
(***************************************************************************)

Present(s) == {[doc |-> d, version |-> shelf[d]] : d \in {x \in Doc : ScopeOf[x] = s /\ shelf[x] > 0}}

Becomes(r, next) == run' = [run EXCEPT ![r] = next]

Done(before, answer) == [NoRun EXCEPT !.pc = "done", !.before = before, !.answer = answer]

Ends(r, answer) == Becomes(r, Done(run[r].before, answer))

(* A conversation without documents is not searched.                       *)
Ask(r, s) ==
    /\ run[r].pc = "idle"
    /\ IF s \in Conversation /\ Present(s) = {}
       THEN Becomes(r, Done({}, {}))
       ELSE Becomes(r, [NoRun EXCEPT !.pc = "asked", !.scope = s])
    /\ UNCHANGED <<shelf, cache, busy, lost, straddled>>

(* The query was rewritten, which never fails, and embedded, which may     *)
(* fail or return nothing.                                                 *)
EmbedFails(r) ==
    /\ run[r].pc = "asked"
    /\ Becomes(r, [NoRun EXCEPT !.pc = "failed"])
    /\ UNCHANGED <<shelf, cache, busy, lost, straddled>>

LookUp(r, q, embedded) ==
    LET s == run[r].scope
        next == [run[r] EXCEPT !.pc = "search", !.query = q, !.embedded = embedded, !.before = lost]
    IN  /\ run[r].pc = "asked"
        /\ IF ~embedded
           THEN Becomes(r, next) /\ UNCHANGED cache
           ELSE \E g \in Get(s, q) :
                  /\ Becomes(r, IF g[1].hit THEN Done(lost, g[1].answer) ELSE next)
                  /\ cache' = [cache EXCEPT ![s] = g[2]]
        /\ UNCHANGED <<shelf, busy, lost, straddled>>

(* Both searches run in the thread.  What matches is fused; if nothing     *)
(* does, the retrieval ends and nothing is kept.                           *)
Search(r) ==
    /\ run[r].pc = "search"
    /\ \E found \in SUBSET Present(run[r].scope) :
          IF found = {} THEN Ends(r, {})
          ELSE Becomes(r, [run[r] EXCEPT !.pc = "rank", !.found = found])
    /\ UNCHANGED <<shelf, cache, busy, lost, straddled>>

(* The reranker keeps the best.                                            *)
Rerank(r) ==
    /\ run[r].pc = "rank"
    /\ \E best \in SUBSET run[r].found :
          Becomes(r, [run[r] EXCEPT !.pc = "expand", !.found = best])
    /\ UNCHANGED <<shelf, cache, busy, lost, straddled>>

(* A chunk whose section is gone by now stands for itself.                 *)
Expand(r) ==
    /\ run[r].pc = "expand"
    /\ Becomes(r, [run[r] EXCEPT !.pc = "name", !.answer =
          {[doc |-> c.doc, version |-> c.version, whole |-> c.version = shelf[c.doc]] : c \in run[r].found}])
    /\ UNCHANGED <<shelf, cache, busy, lost, straddled>>

(* The documents are named, and the answer is kept; an empty one only of a *)
(* knowledge base.                                                         *)
Answer(r) ==
    LET s == run[r].scope
    IN  /\ run[r].pc = "name"
        /\ Ends(r, run[r].answer)
        /\ cache' = IF run[r].embedded /\ (s \in Conversation => run[r].answer # {})
                    THEN [cache EXCEPT ![s] = Put(s, run[r].query, run[r].answer)] ELSE cache
        /\ UNCHANGED <<shelf, busy, lost, straddled>>

-----------------------------------------------------------------------------
(***************************************************************************)
(* What happens to the documents meanwhile, and time.                      *)
(***************************************************************************)

Held(c) == \E r \in Retrieval : run[r].pc \in {"rank", "expand", "name"} /\ c \in run[r].found

Loses(d, how) ==
    LET c == [doc |-> d, version |-> shelf[d]]
    IN  /\ Cardinality(lost) < MaxChanges
        /\ lost' = lost \cup {[doc |-> d, version |-> shelf[d], how |-> how, age |-> 0]}
        /\ straddled' = IF Held(c) THEN straddled \cup {c} ELSE straddled

(* Faulty variant: the cache is left as it is.                             *)
IngestKeepsCache(d) ==
    /\ ScopeOf[d] \in busy /\ shelf[d] \in 1 .. MaxVersion - 1
    /\ shelf' = [shelf EXCEPT ![d] = @ + 1]
    /\ Loses(d, "ingested")
    /\ UNCHANGED <<cache, run, busy>>

(* A document is ingested again by this process; its chunks are replaced   *)
(* and the cache of its scope is dropped.                                  *)
Ingest(d) ==
    /\ ScopeOf[d] \in busy /\ shelf[d] \in 1 .. MaxVersion - 1
    /\ shelf' = [shelf EXCEPT ![d] = @ + 1]
    /\ cache' = [cache EXCEPT ![ScopeOf[d]] = <<>>]
    /\ Loses(d, "ingested")
    /\ UNCHANGED <<run, busy>>

(* The standalone worker drops a cache of its own.                         *)
IngestElsewhere(d) ==
    /\ d \in Standalone /\ ScopeOf[d] \in busy /\ shelf[d] \in 1 .. MaxVersion - 1
    /\ shelf' = [shelf EXCEPT ![d] = @ + 1]
    /\ Loses(d, "elsewhere")
    /\ UNCHANGED <<cache, run, busy>>

(* A document is deleted with its chunks.                                  *)
DeleteDocument(d) ==
    /\ ScopeOf[d] \in busy /\ shelf[d] > 0
    /\ shelf' = [shelf EXCEPT ![d] = 0]
    /\ Loses(d, "deleted")
    /\ UNCHANGED <<cache, run, busy>>

Older(x) == [x EXCEPT !.age = IF @ > Ttl THEN @ ELSE @ + 1]

RetrievalTick ==
    /\ cache' = [s \in Scope |-> [i \in DOMAIN cache[s] |-> Older(cache[s][i])]]
    /\ lost' = {Older(l) : l \in lost}
    /\ UNCHANGED <<shelf, run, busy, straddled>>

RetrievalNext ==
    \/ \E r \in Retrieval :
        \/ \E s \in busy : Ask(r, s)
        \/ \E q \in Query, embedded \in BOOLEAN : LookUp(r, q, embedded)
        \/ EmbedFails(r) \/ Search(r) \/ Rerank(r) \/ Expand(r) \/ Answer(r)
    \/ \E d \in Doc : Ingest(d) \/ IngestElsewhere(d) \/ DeleteDocument(d)
    \/ RetrievalTick

RetrievalSpec == RetrievalInit /\ [][RetrievalNext]_retrievalVars

-----------------------------------------------------------------------------
(***************************************************************************)
(* Properties.                                                             *)
(***************************************************************************)

ShowsLost(r, l) == \E x \in run[r].answer : x.doc = l.doc /\ x.version = l.version

Straddled(l) == [doc |-> l.doc, version |-> l.version] \in straddled

(* Who asks after this process has ingested a document anew is not shown   *)
(* what it was before, unless it was ingested while a retrieval, between   *)
(* its search and its end, held the old chunks and then kept them.         *)
InvalidationReaches ==
    \A r \in Retrieval : run[r].pc = "done" =>
        \A l \in run[r].before : ShowsLost(r, l) => l.how # "ingested" \/ Straddled(l)

(* Whatever makes chunks go, deletion and another process included, nobody *)
(* who asks later than the time to live is shown them, unless a retrieval  *)
(* held them when they went.                                               *)
StaleWithinTtl ==
    \A r \in Retrieval : run[r].pc = "done" =>
        \A l \in run[r].before : ShowsLost(r, l) => l.age <= Ttl \/ Straddled(l)

(* Nobody is shown what is gone but for these two reasons; no scope keeps  *)
(* too much, and all variables have their types.                           *)
CacheCurrent == RetrievalTypeOK /\ InvalidationReaches /\ StaleWithinTtl

=============================================================================
