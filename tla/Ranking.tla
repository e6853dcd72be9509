--------------------------------- MODULE Ranking ---------------------------------
(***************************************************************************)
(* What a retrieval makes of what its two searches found                   *)
(* (services/rag_retrieval.py, providers/reranker.py): the lists are fused *)
(* by rank, a reranker reorders the candidates, each chunk gives way to    *)
(* the section around it, and the context of a conversation takes as many  *)
(* of these as its budget allows.                                          *)
(*                                                                         *)
(* The reranker is a service, a language model or a count of common words; *)
(* what it replies is arbitrary.  Indices count from 0.                    *)
(***************************************************************************)
EXTENDS Integers, FiniteSetsExt, Sequences, Selections

CONSTANTS
    Found,          \* the chunks that may be found
    SectionOf,      \* the section around a chunk, or the chunk if there is none
    Weight,         \* tokens of the text of a chunk or a section
    Questions       \* bound: what is found, replied and allowed

(* A question: the lists of the two searches, the rrf constant, how many   *)
(* candidates and results, the reranker's reply, the sections that are     *)
(* gone when they are looked for, and the budget.  A language model names  *)
(* numbers, a service says any integers, and words are counted in every    *)
(* candidate.  No search finds a section.                                  *)
ASSUME RankingAssumption ==
    /\ IsFiniteSet(Found) /\ DOMAIN SectionOf = Found
    /\ \A c \in Found : SectionOf[c] \in Found => SectionOf[c] = c
    /\ \A c \in Found : Weight[c] \in Nat /\ Weight[SectionOf[c]] \in Nat
    /\ \A q \in Questions :
          /\ q.lists \in Seq(Seq(Found)) /\ \A i \in DOMAIN q.lists : IsInjective(q.lists[i])
          /\ q.k \in Nat /\ q.candidates \in Nat \ {0} /\ q.results \in Nat \ {0}
          /\ q.budget \in Nat
          /\ \/ q.reply.by = "nobody"
             \/ q.reply.by = "llm" /\ q.reply.named \in Seq(Nat)
             \/ q.reply.by = "words" /\ q.reply.hits \in Seq(Nat) /\ Len(q.reply.hits) >= q.candidates
             \/ q.reply.by = "service" /\ q.reply.named \in Seq(Int)

VARIABLES
    question,       \* what was asked
    outcome         \* candidates, their order, the blocks shown and those
                    \* that the context takes

rankingVars == <<question, outcome>>

-----------------------------------------------------------------------------
(***************************************************************************)
(* Fusion by reciprocal ranks.                                             *)
(***************************************************************************)

RankIn(list, c) == CHOOSE i \in DOMAIN list : list[i] = c

(* Faulty variant: a later list replaces what an earlier one gave.         *)
AddedLast(sum, list, k, c) ==
    IF c \notin Range(list) THEN sum ELSE [n |-> 1, d |-> k + RankIn(list, c)]

(* One more list adds 1 / (k + rank) for what it has.  A score is a        *)
(* fraction of n and d.                                                    *)
Added(sum, list, k, c) ==
    LET m == k + RankIn(list, c)
    IN  IF c \notin Range(list) THEN sum ELSE [n |-> sum.n * m + sum.d, d |-> sum.d * m]

Score(lists, k, c) ==
    LET upTo[i \in 0 .. Len(lists)] ==
            IF i = 0 THEN [n |-> 0, d |-> 1] ELSE Added(upTo[i - 1], lists[i], k, c)
    IN  upTo[Len(lists)]

Higher(a, b) == a.n * b.d > b.n * a.d

Met(lists) == UNION {Range(lists[i]) : i \in DOMAIN lists}

(* Which of two was met first.                                             *)
MetBefore(lists, c, e) ==
    LET in(x) == Min({i \in DOMAIN lists : x \in Range(lists[i])})
    IN  \/ in(c) < in(e)
        \/ in(c) = in(e) /\ RankIn(lists[in(c)], c) < RankIn(lists[in(e)], e)

(* A set in its order, which is a set of pairs.                            *)
Sorted(S, ahead) ==
    [i \in 1 .. Cardinality(S) |->
        CHOOSE c \in S : Cardinality({e \in S : <<e, c>> \in ahead}) = i - 1]

AtMost(sequence, n) == SubSeq(sequence, 1, Min({n, Len(sequence)}))

(* Best first; equals in the order in which they were met.                 *)
Ahead(q) ==
    LET score == [c \in Met(q.lists) |-> Score(q.lists, q.k, c)]
    IN  {p \in Met(q.lists) \X Met(q.lists) :
            \/ Higher(score[p[1]], score[p[2]])
            \/ ~Higher(score[p[2]], score[p[1]]) /\ MetBefore(q.lists, p[1], p[2])}

Fused(q) == AtMost(Sorted(Met(q.lists), Ahead(q)), q.candidates)

-----------------------------------------------------------------------------
(***************************************************************************)
(* The reranker: indices of candidates, best first.                        *)
(***************************************************************************)

Identity(n) == [i \in 1 .. n |-> i - 1]

(* Each element where it comes first.                                      *)
Once(sequence) ==
    LeftAt(sequence, {i \in DOMAIN sequence : \A j \in DOMAIN sequence : j < i => sequence[j] # sequence[i]})

InRange(sequence, n) == LeftAt(sequence, {i \in DOMAIN sequence : sequence[i] \in 0 .. n - 1})

(* Faulty variant: only what the model names.                              *)
NamedIndices(named, n, results) == AtMost(Once(InRange(named, n)), results)

(* The numbers in the reply that are in range, each once, then the others. *)
ParseIndices(named, n, results) ==
    AtMost(Once(InRange(named, n) \o Identity(n)), results)

(* By how many words a passage shares with the query, else as they were.   *)
WordsAhead(hits, n) ==
    {p \in (0 .. n - 1) \X (0 .. n - 1) :
        \/ hits[p[1] + 1] > hits[p[2] + 1]
        \/ hits[p[1] + 1] = hits[p[2] + 1] /\ p[1] < p[2]}

ByWords(hits, n, results) == AtMost(Sorted(0 .. n - 1, WordsAhead(hits, n)), results)

(* A failure of whoever is asked leaves the order as it was.               *)
Order(q, n) ==
    CASE q.reply.by = "llm" /\ n = 1 -> <<0>>
      [] q.reply.by = "llm" /\ n > 1 -> ParseIndices(q.reply.named, n, q.results)
      [] q.reply.by = "words" -> ByWords(q.reply.hits, n, q.results)
      [] q.reply.by = "service" /\ q.reply.named # <<>> -> AtMost(q.reply.named, q.results)
      [] OTHER -> AtMost(Identity(n), q.results)

(* What is out of range is passed over.                                    *)
Final(fused, order) ==
    LET valid == InRange(order, Len(fused))
    IN  [i \in DOMAIN valid |-> fused[valid[i] + 1]]

-----------------------------------------------------------------------------
(***************************************************************************)
(* From small to big, and the budget.                                      *)
(***************************************************************************)

Block(q, c) == IF SectionOf[c] \in q.gone THEN c ELSE SectionOf[c]

(* Faulty variant: a section is shown for each of its chunks.              *)
ExpandedEach(q, final) == [i \in DOMAIN final |-> Block(q, final[i])]

(* A section stands where the best of its chunks stood.                    *)
Expanded(q, final) == Once([i \in DOMAIN final |-> Block(q, final[i])])

(* Faulty variant: a section that is too long is passed over.              *)
TakenAny(acc, b, budget) ==
    IF acc.taken # <<>> /\ acc.used + Weight[b] > budget THEN acc
    ELSE [acc EXCEPT !.taken = Append(@, b), !.used = @ + Weight[b]]

(* One more block, up to the first that does not fit; the very first       *)
(* always does.                                                            *)
Taken(acc, b, budget) ==
    IF acc.full \/ (acc.taken # <<>> /\ acc.used + Weight[b] > budget) THEN [acc EXCEPT !.full = TRUE]
    ELSE [acc EXCEPT !.taken = Append(@, b), !.used = @ + Weight[b]]

Affordable(q, blocks) ==
    LET after[n \in 0 .. Len(blocks)] ==
            IF n = 0 THEN [taken |-> <<>>, used |-> 0, full |-> FALSE]
            ELSE Taken(after[n - 1], blocks[n], q.budget)
    IN  after[Len(blocks)].taken

NoOutcome == [fused |-> <<>>, order |-> <<>>, blocks |-> <<>>, taken |-> <<>>]

Ranked(q) ==
    LET fused == Fused(q)
        order == IF fused = <<>> THEN <<>> ELSE Order(q, Len(fused))
        blocks == Expanded(q, Final(fused, order))
    IN  [fused |-> fused, order |-> order, blocks |-> blocks, taken |-> Affordable(q, blocks)]

NoQuestion == [lists |-> <<>>, reply |-> [by |-> "unasked"]]

RankingInit == question = NoQuestion /\ outcome = NoOutcome

Rank(q) ==
    /\ question' = q
    /\ outcome' = Ranked(q)

RankingNext == question = NoQuestion /\ \E q \in Questions : Rank(q)

RankingSpec == RankingInit /\ [][RankingNext]_rankingVars

-----------------------------------------------------------------------------
(***************************************************************************)
(* Properties.                                                             *)
(***************************************************************************)

Before(sequence, c, e) == \E i, j \in DOMAIN sequence : i < j /\ sequence[i] = c /\ sequence[j] = e

(* Reciprocal ranks agree with unanimous searches: who is before another   *)
(* wherever that one was found is a candidate if it is, and before it.     *)
UnanimousFirst ==
    \A c, e \in Found :
        /\ e \in Range(outcome.fused)
        /\ \A i \in DOMAIN question.lists :
              e \in Range(question.lists[i]) => Before(question.lists[i], c, e)
        => Before(outcome.fused, c, e)

(* However odd the reply of a language model, and however many passages    *)
(* share as many words with the query, each candidate is named once, and   *)
(* none is dropped but for those beyond the number of results.             *)
NoneDropped ==
    question.reply.by \in {"llm", "words", "nobody"} =>
        LET n == Len(outcome.fused)
        IN  /\ IsInjective(outcome.order) /\ Range(outcome.order) \subseteq 0 .. n - 1
            /\ Len(outcome.order) = Min({n, question.results})

(* No text is shown twice: neither a block, nor a chunk beside its own     *)
(* section; every chunk that was ranked is shown, and the blocks are in    *)
(* the order of the best chunk of each.                                    *)
ShownOnce ==
    LET final == Final(outcome.fused, outcome.order)
        blocks == outcome.blocks
        chunksOf(b) == {i \in DOMAIN final : b \in {final[i], SectionOf[final[i]]}}
    IN  /\ \A i, j \in DOMAIN blocks : i < j =>
              blocks[i] # blocks[j] /\ Min(chunksOf(blocks[i])) < Min(chunksOf(blocks[j]))
        /\ \A c \in Found \cap Range(blocks) : SectionOf[c] = c \/ SectionOf[c] \notin Range(blocks)
        /\ UNION {chunksOf(blocks[i]) : i \in DOMAIN blocks} = DOMAIN final

(* What the first n blocks weigh, for every n.                             *)
Weights(blocks) ==
    LET first[n \in 0 .. Len(blocks)] ==
            IF n = 0 THEN 0 ELSE first[n - 1] + Weight[blocks[n]]
    IN  first

(* The context takes the best blocks without a gap, as many as the budget  *)
(* allows, and never none of them.                                         *)
WithinBudget ==
    LET n == Len(outcome.taken)
    IN  /\ n <= Len(outcome.blocks) /\ outcome.taken = SubSeq(outcome.blocks, 1, n)
        /\ outcome.blocks # <<>> => n >= 1
        /\ n > 1 => Weights(outcome.blocks)[n] <= question.budget
        /\ n < Len(outcome.blocks) => Weights(outcome.blocks)[n + 1] > question.budget

(* From the two searches to the context: best first, nothing dropped,      *)
(* nothing twice, within the budget.                                       *)
RankingSound == UnanimousFirst /\ NoneDropped /\ ShownOnce /\ WithinBudget

=============================================================================
