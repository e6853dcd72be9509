-------------------------------- MODULE MCMemory --------------------------------
(***************************************************************************)
(* A small instance of Memory: two conversations of one owner, one of      *)
(* another; one project.                                                   *)
(***************************************************************************)
EXTENDS Memory, TLC

CONSTANTS o1, o2, c1, c2, d, p, f1, f2

MCOwnerOf == (c1 :> o1) @@ (c2 :> o1) @@ (d :> o2) @@ (p :> o1)

MCProjectOf == (c1 :> p) @@ (c2 :> p) @@ (d :> NoProject)

MCAnswers ==
    [l \in Layer |-> IF l \in FactByFact THEN {<<f1, f1>>} ELSE {<<f1, f1>>, <<f2, f1>>}]

MCTurns(m, n, k) == (c1 :> m) @@ (c2 :> n) @@ (d :> k)

MCSetups ==
    {[flags |-> {"skills"}, turns |-> MCTurns(2, 2, 0)],
     [flags |-> {"brain"}, turns |-> MCTurns(3, 0, 0)],
     [flags |-> {"knowledge"}, turns |-> MCTurns(2, 2, 0)],
     [flags |-> {"graph"}, turns |-> MCTurns(2, 0, 2)]}

MCFlips == {<<o1, "record">>, <<o1, "graph">>}

=============================================================================
