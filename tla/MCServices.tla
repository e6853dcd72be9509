------------------------------- MODULE MCServices -------------------------------
(* Five services that share no state, checked one after the other: in each *)
(* behaviour one of them runs, and the others stay as they are at first.   *)
EXTENDS RetrievalCache, Ranking, Chunking, UserCache, AgentConfig, TLC

CONSTANTS r1, r2, kb, chat, d1, d2, q1, q2, k1, k2, k3, u1, u2, ch1, ch2, ch3, ch4, sec, l1, l2, t1, t2

VARIABLE part

Parts == {"retrieval", "ranking", "chunking", "users", "files", "overlaps", "turns"}

-----------------------------------------------------------------------------
(* RetrievalCache: two documents, one of a knowledge base, which the       *)
(* standalone worker may ingest too, and one of a conversation.            *)
MCScopeOf == (d1 :> kb) @@ (d2 :> chat)
MCNear == {<<q1, q2>>, <<q2, q1>>}
MCBusy == {{kb}, {chat}}

-----------------------------------------------------------------------------
(* Ranking: two chunks of a section and two without one.                   *)
MCSectionOf == (ch1 :> sec) @@ (ch2 :> sec) @@ (ch3 :> ch3) @@ (ch4 :> ch4)
MCWeight == (ch1 :> 1) @@ (ch2 :> 2) @@ (ch3 :> 1) @@ (ch4 :> 1) @@ (sec :> 3)

MCLists == {l \in UNION {[1 .. n -> Found] : n \in 0 .. 3} : IsInjective(l)}
MCReplies == {[by |-> "nobody"], [by |-> "words", hits |-> <<0, 1, 1, 0>>]}
             \cup [by : {"llm", "service"}, named : {<<>>, <<7, 2, 2, 0>>}]
MCQuestions ==
    [lists : MCLists \X MCLists, k : {60}, candidates : {2, 4}, results : {3},
     reply : MCReplies, gone : {{}, {sec}}, budget : {0, 3}]

-----------------------------------------------------------------------------
(* Chunking: pages without text, with one word, with sentences, headings   *)
(* alone, with a blank line behind, and at the end of a page.              *)
MCHead(level) == <<Marks[level], "x">>
MCSentence == <<"x", ".", "_", "x", "_", "x", "x", "x">>
MCSection == MCHead(1) \o <<"|", "|", "x", "_", "x", "x">>
MCPages == {<<>>, MCSentence, MCSection, <<"x">>, MCHead(1),
            MCHead(2) \o <<"|", "x", ".", "_", "x">>,
            <<"x", "_", "x", "|", "|", "x", "x", "x", ".", "|">> \o MCHead(2)}
MCDocuments ==
    [pages : [1 .. 2 -> MCPages] \cup [1 .. 3 -> {<<>>, MCSentence, MCSection}],
     paged : BOOLEAN, aware : BOOLEAN, child : {2, 4}, parent : {4, 9}, overlap : {0, 2}]

-----------------------------------------------------------------------------
(* AgentConfig in three parts: files of every shape, edited and read by    *)
(* one load at a time; edits and loads that overlap; and turns, with one   *)
(* file and one load at a time, whose results fit, fit in part, or not at  *)
(* all.  A load does not look at the turns.                                *)
MCDefaults == [enabled |-> TRUE, maxTokens |-> 20, reserve |-> 4, percent |-> 80]
MCSet(name, odd, enabled, timeout) ==
    [name |-> name, set |-> [odd |-> odd, enabled |-> enabled, timeout |-> timeout]]
MCMixed == {EmptyList, EmptyObject,
            Object("yes", [other |-> TRUE], <<MCSet("gone", "no", FALSE, 2), MCSet(t1, "no", FALSE, 2)>>),
            Object("no", [other |-> TRUE], <<MCSet(t1, "no", TRUE, 0), MCSet(t2, "no", FALSE, 3)>>),
            Object("unsaid", [other |-> TRUE], <<MCSet(t1, "no", FALSE, 4), MCSet(t2, "timeout", FALSE, 0)>>)}
MCShapes == MCMixed \cup
    {[kind |-> "missing"], [kind |-> "broken"], [kind |-> "list", length |-> 1],
     [EmptyObject EXCEPT !.oddAgent = TRUE],
     Object("yes", [other |-> TRUE], <<MCSet(t2, "settings", FALSE, 0)>>)}
MCBudgets == [calls : {"yes", "unsaid"},
              budget : {[n |-> 10], [n |-> 12], [other |-> TRUE],
                        [dict |-> TRUE, maxTokens |-> 0], [dict |-> TRUE, enabled |-> FALSE]},
              section : {<<>>, <<MCSet(t1, "no", FALSE, 0), MCSet(t2, "no", FALSE, 0)>>}]
MCFiles == MCShapes \cup {Object(b.calls, b.budget, b.section) : b \in MCBudgets}
MCOneLoad == \A k, l \in Loader : k # l => ~(Loading(k) /\ Loading(l))'
MCResult(cost) == [cost |-> cost, dict |-> cost # 2]
MCBatches == {<<>>, <<MCResult(20)>>, <<MCResult(5), MCResult(1)>>,
              <<MCResult(1), MCResult(2), MCResult(1)>>, <<MCResult(1), MCResult(12), MCResult(2)>>}

-----------------------------------------------------------------------------
Init ==
    /\ part \in Parts
    /\ RetrievalInit /\ (part = "retrieval" \/ busy = {kb})
    /\ RankingInit /\ ChunkingInit
    /\ UserInit /\ (part = "users" \/ hasCache)
    /\ ConfigInit /\ (part = "turns" \/ file \in MCMixed)
    /\ part \in {"files", "overlaps", "turns"} \/ file = EmptyList

Next ==
    \/ /\ part = "retrieval" /\ RetrievalNext
       /\ UNCHANGED <<part, rankingVars, chunkVars, userVars, configVars>>
    \/ /\ part = "ranking" /\ RankingNext
       /\ UNCHANGED <<part, retrievalVars, chunkVars, userVars, configVars>>
    \/ /\ part = "chunking" /\ ChunkingNext
       /\ UNCHANGED <<part, retrievalVars, rankingVars, userVars, configVars>>
    \/ /\ part = "users" /\ UserNext
       /\ UNCHANGED <<part, retrievalVars, rankingVars, chunkVars, configVars>>
    \/ /\ \/ part = "files" /\ ConfigNext /\ file' \in MCShapes /\ MCOneLoad
          \/ part = "overlaps" /\ ConfigNext /\ file' \in MCMixed
          \/ part = "turns" /\ ConfigNext /\ file' \in {file, EmptyList} /\ MCOneLoad
       /\ part = "turns" \/ round' = round
       /\ UNCHANGED <<part, retrievalVars, rankingVars, chunkVars, userVars>>

MCLoaders == Permutations({l1, l2})

Spec == Init /\ [][Next]_<<part, retrievalVars, rankingVars, chunkVars, userVars, configVars>>

=============================================================================
