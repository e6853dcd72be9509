------------------------------ MODULE ChatContract ------------------------------
(***************************************************************************)
(* What the chat endpoints promise about one turn, whichever endpoint it   *)
(* came through (.kiro/specs/full-stack-agent-orchestration/               *)
(* requirements.md, requirements 1, 2 and 10): a turn is answered at most  *)
(* once and only after its question was kept, the client is told one       *)
(* verdict, "done" only of an answer that is kept, and nothing is kept for *)
(* a turn after its verdict.                                               *)
(***************************************************************************)
CONSTANT Turn

VARIABLES
    asked,      \* the turns whose question was kept
    answer,     \* what was kept as the answer of each turn
    verdict     \* what the client was told of each turn

contractVars == <<asked, answer, verdict>>

ContractInit ==
    /\ asked = {}
    /\ answer = [t \in Turn |-> "none"]
    /\ verdict = [t \in Turn |-> "none"]

Ask(t) ==
    /\ t \notin asked /\ verdict[t] = "none"
    /\ asked' = asked \cup {t}
    /\ UNCHANGED <<answer, verdict>>

Keep(t) ==
    /\ t \in asked /\ answer[t] = "none" /\ verdict[t] = "none"
    /\ \E a \in {"whole", "part", "sorry"} : answer' = [answer EXCEPT ![t] = a]
    /\ UNCHANGED <<asked, verdict>>

Tell(t) ==
    /\ verdict[t] = "none"
    /\ \/ verdict' = [verdict EXCEPT ![t] = "error"]
       \/ answer[t] # "none" /\ verdict' = [verdict EXCEPT ![t] = "done"]
    /\ UNCHANGED <<asked, answer>>

ContractNext == \E t \in Turn : Ask(t) \/ Keep(t) \/ Tell(t)

ContractSpec == ContractInit /\ [][ContractNext]_contractVars

=============================================================================
