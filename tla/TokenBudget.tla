------------------------------ MODULE TokenBudget ------------------------------
(***************************************************************************)
(* How many results of tools go into the context of the model              *)
(* (services/token_budget.py).  A result is represented by the tokens that *)
(* its data or its error is estimated at, and by whether it can carry a    *)
(* notice, which a successful one with a dictionary can.                   *)
(***************************************************************************)
EXTENDS Integers, Sequences

CONSTANTS
    NoticeCost      \* tokens of the notice that results were left out

ASSUME BudgetAssumption == NoticeCost \in Nat

Results == Seq([cost : Nat, dict : BOOLEAN])

(* A manager: enabled, max_tokens, reserve_for_response, and the threshold *)
(* in percent.                                                             *)
Managers == [enabled : BOOLEAN, maxTokens : Nat, reserve : Nat, percent : Nat]

(* A plain number is max_tokens, the rest has its defaults; so has what a  *)
(* dictionary leaves out.  Anything else is replaced before it comes here. *)
Build(cfg, defaults) ==
    LET given(f) == IF f \in DOMAIN cfg THEN cfg[f] ELSE defaults[f]
    IN  IF "n" \in DOMAIN cfg THEN [defaults EXCEPT !.maxTokens = cfg.n]
        ELSE [enabled |-> given("enabled"), maxTokens |-> given("maxTokens"),
              reserve |-> given("reserve"), percent |-> given("percent")]

Limit(m) == (m.maxTokens * m.percent) \div 100

(* What the n newest results are estimated at, for every n.                *)
Costs(results) ==
    LET newest[n \in 0 .. Len(results)] ==
            IF n = 0 THEN 0 ELSE newest[n - 1] + results[Len(results) - n + 1].cost
    IN  newest

Cost(results) == Costs(results)[Len(results)]

(* The check divides by max_tokens, for its log.                           *)
FitsRaises(m) == m.enabled /\ m.maxTokens = 0

Fits(m, results, current) ==
    ~m.enabled \/ current + Cost(results) + m.reserve < Limit(m)

(* Faulty variant: a result that does not fit is passed over, and older    *)
(* ones still go in.                                                       *)
KeepOver(acc, r, available) ==
    IF acc.total + r.cost > available THEN acc
    ELSE [acc EXCEPT !.kept = <<r>> \o @, !.total = @ + r.cost]

(* One more result is kept, in front of the newer ones, if it still fits.  *)
Keep(acc, r, available) ==
    IF acc.full \/ acc.total + r.cost > available THEN [acc EXCEPT !.full = TRUE]
    ELSE [acc EXCEPT !.kept = <<r>> \o @, !.total = @ + r.cost]

(* From the newest on, the results are kept up to the first that does not  *)
(* fit beside the notice; what is in the context already does not count.   *)
Kept(m, results) ==
    LET after[n \in 0 .. Len(results)] ==
            IF n = 0 THEN [kept |-> <<>>, total |-> NoticeCost, full |-> FALSE]
            ELSE Keep(after[n - 1], results[Len(results) - n + 1], Limit(m) - m.reserve)
    IN  after[Len(results)].kept

(* If none can be kept, all are.                                           *)
Truncate(m, results) ==
    IF ~m.enabled \/ Kept(m, results) = <<>> THEN results ELSE Kept(m, results)

(* The first that is kept carries the notice, if it can.                   *)
Noticed(kept, results) ==
    IF Len(kept) < Len(results) /\ kept[1].dict THEN NoticeCost ELSE 0

-----------------------------------------------------------------------------
(* What is appended is the longest run of newest results that is within    *)
(* the budget together with the notice, or all of them if no result is.    *)
LongestSuffix(m, results, kept) ==
    LET available == Limit(m) - m.reserve - NoticeCost
        within == {n \in 1 .. Len(results) : Costs(results)[n] <= available}
    IN  /\ kept = SubSeq(results, Len(results) - Len(kept) + 1, Len(results))
        /\ \/ within = {} /\ kept = results
           \/ Len(kept) \in within /\ Len(kept) + 1 \notin within

=============================================================================
