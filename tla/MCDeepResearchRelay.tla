-------------------------- MODULE MCDeepResearchRelay --------------------------
(***************************************************************************)
(* Small instances of DeepResearchRelay: platform "A" with the models a1   *)
(* and a2 and the key ka, platform "B" with the model b1 and the key kb.   *)
(***************************************************************************)
EXTENDS DeepResearchRelay

CONSTANTS r1, r2, a1, a2, b1, ka, kb

MCModelPlatform == [m \in Models |-> IF m = b1 THEN "B" ELSE "A"]

MCKeyPlatform == [k \in Keys |-> IF k = kb THEN "B" ELSE "A"]

MCScope == [r \in Relays |-> Keys]

(* The largest models come first; with no large model the list is empty.   *)
MCOrders == {<<a1, a2, b1>>, <<b1, a1>>, <<>>}

TwoModels == {<<a1, b1>>}

(* A 429, one whose text also mentions permissions, a plain 401, a stall.  *)
AllErrors == {<<"throttled", FALSE>>, <<"throttled", TRUE>>, <<"auth", TRUE>>,
              <<"rejected", FALSE>>}

Throttling == {<<"throttled", FALSE>>}

Refused == {<<"auth", TRUE>>}

=============================================================================
