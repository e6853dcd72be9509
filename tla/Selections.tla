------------------------------- MODULE Selections -------------------------------
(***************************************************************************)
(* What a list comprehension with a condition makes of a list: the         *)
(* elements at the places that meet it, in their order.                    *)
(***************************************************************************)
EXTENDS Integers, Sequences, FiniteSets

LeftAt(sequence, places) ==
    [n \in 1 .. Cardinality(places) |->
        sequence[CHOOSE i \in places : Cardinality({j \in places : j <= i}) = n]]

=============================================================================
