--------------------------- MODULE MCFallbackRouter ---------------------------
(***************************************************************************)
(* Small instances of FallbackRouter: platform "A" with the keys ka and    *)
(* ks, platform "B" with the key kb.  ka is private to request r1; the     *)
(* other keys are shared.                                                  *)
(***************************************************************************)
EXTENDS FallbackRouter

CONSTANTS r1, r2, a1, a2, b1, ka, kb, ks

MCModelPlatform == [m \in Models |-> IF m = b1 THEN "B" ELSE "A"]

MCKeyPlatform == [k \in Keys |-> IF k = kb THEN "B" ELSE "A"]

MCScope == [r \in Requests |-> IF r = r1 THEN Keys ELSE Keys \ {ka}]

(* The lists for "auto", for a model of platform "B" requested first, and  *)
(* the lists that remain when a platform has no usable key.                *)
OneOrder == {<<a1, b1>>, <<b1>>}

TwoOrders == {<<a1, a2, b1>>, <<b1, a1, a2>>, <<a1, a2>>, <<b1>>, <<>>}

=============================================================================
