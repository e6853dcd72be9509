----------------------------- MODULE ChatTurnProofs -----------------------------
(***************************************************************************)
(* Proofs about ChatTurn, for every set of turns and conversations and     *)
(* every bound.                                                            *)
(***************************************************************************)
EXTENDS ChatTurn, SequenceTheorems, TLAPS

(* Before and after the answer is stored.                                  *)
Early == {"gather", "decide", "tools", "route", "stream", "yield"}

Late == {"last", "store"}

Places == Early \cup Late \cup {"new", "end"}

(* What the place of a turn says of it: a turn under way has a             *)
(* conversation and no verdict, and it has an answer once it is past the   *)
(* model.                                                                  *)
Stage(r) ==
    /\ r.pc = "new" => r.home = NoConv /\ r.told = "none"
    /\ r.pc \notin {"new", "end"} => r.home \in Conv /\ r.told = "none"
    /\ r.pc \in Early => r.answer = "none"
    /\ r.pc \in Late => r.answer # "none"
    /\ r.home = NoConv => r.answer = "none"
    /\ r.path # "ws" => ~r.gone

StagesOK == \A t \in Turn : Stage(turn[t])

(* What one step makes of a turn: its question, its answer, or at most a   *)
(* verdict.                                                                *)
Asked(r, q, c) ==
    /\ r.home = NoConv /\ r.answer = "none" /\ r.told = "none"
    /\ q.home = c /\ q.answer = "none" /\ q.told = "none"

Answered(r, q, text) ==
    /\ r.home \in Conv /\ r.answer = "none" /\ r.told = "none"
    /\ q.home = r.home /\ q.answer = text /\ q.told = "none"

Settled(r, q) ==
    /\ q.home = r.home /\ q.answer = r.answer
    /\ \/ q.told = r.told
       \/ r.told = "none" /\ q.told = "error"
       \/ r.told = "none" /\ q.told = "done" /\ r.answer # "none"

Moves(t, q) == q \in TurnStates /\ Stage(q) /\ turn' = [turn EXCEPT ![t] = q]

Asking(t, q) ==
    \E c \in Conv : Asked(turn[t], q, c) /\ (Keeps(c, Question(t)) \/ Opens(c, Question(t)))

Answering(t, q) ==
    \E text \in {"whole", "part", "sorry"}, stopped \in BOOLEAN :
        /\ Answered(turn[t], q, text)
        /\ Keeps(turn[t].home, Answer(t, text, stopped))
        /\ text = "part" => stopped

Settling(t, q) == Settled(turn[t], q) /\ UNCHANGED storeVars

Effect(t) == \E q : Moves(t, q) /\ (Asking(t, q) \/ Answering(t, q) \/ Settling(t, q))

(* The messages of the endpoints, copies apart, are marked, in place and   *)
(* alone.                                                                  *)
Original(m) == m.role = "assistant" /\ ~m.copy

LogOK ==
    /\ \A c \in Conv : \A i \in DOMAIN log[c] :
        LET m == log[c][i]
        IN  Original(m) =>
                /\ m.text = "part" => m.stopped
                /\ turn[m.turn].home = c
                /\ turn[m.turn].answer = m.text
                /\ m.text # "none"
    /\ \A c \in Conv : \A i, j \in DOMAIN log[c] :
        /\ Original(log[c][i]) /\ Original(log[c][j])
        /\ log[c][i].turn = log[c][j].turn
        => i = j

CopiesOK == \A i \in DOMAIN branch.copies : branch.copies[i].copy

IInv == TypeOK /\ StagesOK /\ LogOK /\ CopiesOK

-----------------------------------------------------------------------------
(***************************************************************************)
(* What the steps of a turn do to it.                                      *)
(***************************************************************************)

(* A field of a turn may be given any value of its type.                   *)
LEMMA FieldTypes ==
    /\ NewTurn \in TurnStates
    /\ \A r \in TurnStates :
        /\ \A v \in Places : [r EXCEPT !.pc = v] \in TurnStates
        /\ \A v \in Paths : [r EXCEPT !.path = v] \in TurnStates
        /\ \A v \in Conv \cup {NoConv} : [r EXCEPT !.home = v] \in TurnStates
        /\ \A v \in 0 .. MaxRounds - 1 : [r EXCEPT !.rounds = v] \in TurnStates
        /\ \A v \in 0 .. Chunks : [r EXCEPT !.got = v] \in TurnStates
        /\ \A v \in BOOLEAN : [r EXCEPT !.recalled = v] \in TurnStates
        /\ \A v \in BOOLEAN : [r EXCEPT !.sees = v] \in TurnStates
        /\ \A v \in BOOLEAN : [r EXCEPT !.gone = v] \in TurnStates
        /\ \A v \in {"none", "whole", "part", "sorry"} : [r EXCEPT !.answer = v] \in TurnStates
        /\ \A v \in {"none", "done", "error"} : [r EXCEPT !.told = v] \in TurnStates
<1>1. NewTurn \in TurnStates
  BY ChatTurnAssumption DEF TurnStates, NewTurn, Paths, Agent, Whole
<1>2. \A r \in TurnStates : \A v \in Places : [r EXCEPT !.pc = v] \in TurnStates
  BY SMTT(30) DEF TurnStates, Places, Early, Late
<1>3. \A r \in TurnStates : \A v \in Paths : [r EXCEPT !.path = v] \in TurnStates
  BY SMTT(30) DEF TurnStates, Places, Early, Late
<1>4. \A r \in TurnStates : \A v \in Conv \cup {NoConv} : [r EXCEPT !.home = v] \in TurnStates
  BY SMTT(30) DEF TurnStates, Places, Early, Late
<1>5. \A r \in TurnStates : \A v \in 0 .. MaxRounds - 1 : [r EXCEPT !.rounds = v] \in TurnStates
  BY SMTT(30) DEF TurnStates, Places, Early, Late
<1>6. \A r \in TurnStates : \A v \in 0 .. Chunks : [r EXCEPT !.got = v] \in TurnStates
  BY SMTT(30) DEF TurnStates, Places, Early, Late
<1>7. \A r \in TurnStates : \A v \in BOOLEAN : [r EXCEPT !.recalled = v] \in TurnStates
  BY SMTT(30) DEF TurnStates, Places, Early, Late
<1>8. \A r \in TurnStates : \A v \in BOOLEAN : [r EXCEPT !.sees = v] \in TurnStates
  BY SMTT(30) DEF TurnStates, Places, Early, Late
<1>9. \A r \in TurnStates : \A v \in BOOLEAN : [r EXCEPT !.gone = v] \in TurnStates
  BY SMTT(30) DEF TurnStates, Places, Early, Late
<1>10. \A r \in TurnStates : \A v \in {"none", "whole", "part", "sorry"} : [r EXCEPT !.answer = v] \in TurnStates
  BY SMTT(30) DEF TurnStates, Places, Early, Late
<1>11. \A r \in TurnStates : \A v \in {"none", "done", "error"} : [r EXCEPT !.told = v] \in TurnStates
  BY SMTT(30) DEF TurnStates, Places, Early, Late
<1> QED
  BY <1>1, <1>2, <1>3, <1>4, <1>5, <1>6, <1>7, <1>8, <1>9, <1>10, <1>11

LEMMA NewTurnFields ==
    /\ NewTurn.pc = "new" /\ NewTurn.path = "send" /\ NewTurn.home = NoConv
    /\ NewTurn.rounds = 0 /\ NewTurn.got = 0 /\ NewTurn.recalled = FALSE
    /\ NewTurn.sees = FALSE /\ NewTurn.gone = FALSE
    /\ NewTurn.answer = "none" /\ NewTurn.told = "none"
BY DEF NewTurn

(* What the fields of a turn are.                                          *)
Reads(q, pc, home, answer, told) ==
    q.pc = pc /\ q.home = home /\ q.answer = answer /\ q.told = told /\ q.gone = FALSE

(* A turn that begins and one that is refused.                             *)
BegunTurn(pc, path, c, recalled, sees) ==
    [NewTurn EXCEPT !.pc = pc, !.path = path, !.home = c,
                    !.recalled = recalled, !.sees = sees]

RefusedTurn(path) == [NewTurn EXCEPT !.pc = "end", !.path = path, !.told = "error"]

LEMMA BegunType ==
    ASSUME NEW pc \in {"gather", "route"}, NEW path \in Paths, NEW c \in Conv,
           NEW recalled \in BOOLEAN, NEW sees \in BOOLEAN
    PROVE  /\ BegunTurn(pc, path, c, recalled, sees) \in TurnStates
           /\ Reads(BegunTurn(pc, path, c, recalled, sees), pc, c, "none", "none")
<1>1. pc \in Places /\ c \in Conv \cup {NoConv}
  BY DEF Places, Early
<1>2. BegunTurn(pc, path, c, recalled, sees) \in TurnStates
  BY <1>1, FieldTypes, Zenon DEF BegunTurn
<1>3. NewTurn \in TurnStates
  BY FieldTypes
<1>4. Reads(BegunTurn(pc, path, c, recalled, sees), pc, c, "none", "none")
  BY <1>3, NewTurnFields DEF TurnStates, BegunTurn, Reads
<1> QED
  BY <1>2, <1>4

LEMMA RefusedType ==
    ASSUME NEW path \in Paths
    PROVE  /\ RefusedTurn(path) \in TurnStates
           /\ Reads(RefusedTurn(path), "end", NoConv, "none", "error")
<1>1. "end" \in Places /\ "error" \in {"none", "done", "error"}
  BY DEF Places
<1>2. RefusedTurn(path) \in TurnStates
  BY <1>1, FieldTypes, Zenon DEF RefusedTurn
<1>3. NewTurn \in TurnStates
  BY FieldTypes
<1>4. Reads(RefusedTurn(path), "end", NoConv, "none", "error")
  BY <1>3, NewTurnFields DEF TurnStates, RefusedTurn, Reads
<1> QED
  BY <1>2, <1>4

LEMMA RefusedEffect ==
    ASSUME IInv, NEW t \in Turn, NEW path \in Paths, turn[t].pc = "new",
           turn' = [turn EXCEPT ![t] = RefusedTurn(path)], UNCHANGED storeVars
    PROVE  Effect(t)
<1> DEFINE q == RefusedTurn(path)
<1>1. turn[t].home = NoConv /\ turn[t].answer = "none" /\ turn[t].told = "none"
  BY DEF IInv, StagesOK, Stage
<1>2. q \in TurnStates /\ Reads(q, "end", NoConv, "none", "error")
  BY RefusedType, Zenon
<1>3. turn' = [turn EXCEPT ![t] = q]
  OBVIOUS
<1> HIDE DEF q
<1>4. Stage(q)
  BY <1>2 DEF Stage, Early, Late, Reads
<1>5. Moves(t, q) /\ Settling(t, q)
  BY <1>1, <1>2, <1>3, <1>4 DEF Moves, Settling, Settled, Reads
<1> QED
  BY <1>5 DEF Effect

LEMMA AsksEffect ==
    ASSUME IInv, NEW t \in Turn, NEW c \in Conv, NEW path \in Paths, NEW recalled \in BOOLEAN,
           NEW pc \in {"gather", "route"}, Asks(t, c, path, recalled, pc)
    PROVE  Effect(t)
<1>1. turn[t] \in TurnStates /\ Stage(turn[t]) /\ turn[t].pc = "new"
  BY DEF IInv, TypeOK, StagesOK, Asks
<1>2. turn[t].home = NoConv /\ turn[t].answer = "none" /\ turn[t].told = "none"
  BY <1>1 DEF Stage
<1>3. CASE Keeps(c, Question(t)) \/ Opens(c, Question(t))
  <2> DEFINE sees == path \in {"media", "kb"}
             q == BegunTurn(pc, path, c, recalled, sees)
  <2>1. conv[c].status # "deleted"
    BY <1>3 DEF Keeps, Opens, Live, Fresh
  <2>2. turn' = [turn EXCEPT ![t] = q]
    BY <2>1, Zenon DEF Asks, BegunTurn
  <2> HIDE DEF sees
  <2>3. sees \in BOOLEAN
    BY DEF sees
  <2>4. q \in TurnStates /\ Reads(q, pc, c, "none", "none")
    BY <2>3, BegunType, Zenon
  <2> HIDE DEF q
  <2>5. Stage(q)
    BY <2>4, ConversationsAssumption DEF Stage, Early, Late, Reads
  <2>6. Moves(t, q) /\ Asked(turn[t], q, c)
    BY <1>2, <2>2, <2>4, <2>5 DEF Moves, Asked, Reads
  <2> QED
    BY <1>3, <2>6 DEF Effect, Asking
<1>4. CASE ~(Keeps(c, Question(t)) \/ Opens(c, Question(t)))
  <2>1. turn' = [turn EXCEPT ![t] = RefusedTurn(path)] /\ UNCHANGED storeVars
    BY <1>4, Zenon DEF Asks, RefusedTurn
  <2> QED
    BY <1>1, <2>1, RefusedEffect
<1> QED
  BY <1>3, <1>4

(* A turn goes on, before its answer or after it.                          *)
LEMMA StayEffect ==
    ASSUME IInv, NEW t \in Turn, NEW q \in TurnStates,
           \/ turn[t].pc \in Early /\ q.pc \in Early
           \/ turn[t].pc \in Late /\ q.pc \in Late,
           q.home = turn[t].home, q.answer = turn[t].answer, q.told = turn[t].told,
           q.path = turn[t].path, q.path # "ws" => q.gone = turn[t].gone,
           turn' = [turn EXCEPT ![t] = q], UNCHANGED storeVars
    PROVE  Effect(t)
<1>1. turn[t] \in TurnStates /\ Stage(turn[t])
  BY DEF IInv, TypeOK, StagesOK
<1>2. Stage(q)
  BY <1>1 DEF Stage, Early, Late
<1>3. Settling(t, q) /\ Moves(t, q)
  BY <1>2 DEF Settling, Settled, Moves
<1> QED
  BY <1>3 DEF Effect

(* What is left of a turn that is over.                                    *)
LEMMA OverFields ==
    ASSUME IInv, NEW t \in Turn,
           NEW answer \in {"none", "whole", "part", "sorry"},
           NEW told \in {"none", "done", "error"}
    PROVE  /\ Over(t, answer, told) \in TurnStates
           /\ Reads(Over(t, answer, told), "end", turn[t].home, answer, told)
<1>1. turn[t] \in TurnStates
  BY DEF IInv, TypeOK
<1>2. turn[t].path \in Paths /\ turn[t].home \in Conv \cup {NoConv}
  BY <1>1 DEF TurnStates
<1>3. "end" \in Places
  BY DEF Places
<1>4. Over(t, answer, told) \in TurnStates
  BY <1>2, <1>3, FieldTypes, Zenon DEF Over
<1>5. NewTurn \in TurnStates
  BY FieldTypes
<1>6. Reads(Over(t, answer, told), "end", turn[t].home, answer, told)
  BY <1>5, NewTurnFields DEF Over, TurnStates, Reads
<1> QED
  BY <1>4, <1>6

LEMMA OverEffect ==
    ASSUME IInv, NEW t \in Turn, turn[t].pc \notin {"new", "end"},
           NEW told \in {"none", "done", "error"},
           told = "done" => turn[t].answer # "none",
           turn' = [turn EXCEPT ![t] = Over(t, turn[t].answer, told)],
           UNCHANGED storeVars
    PROVE  Effect(t)
<1> DEFINE q == Over(t, turn[t].answer, told)
<1>1. turn[t] \in TurnStates /\ Stage(turn[t])
  BY DEF IInv, TypeOK, StagesOK
<1>2. turn[t].answer \in {"none", "whole", "part", "sorry"}
  BY <1>1 DEF TurnStates
<1>3. q \in TurnStates /\ Reads(q, "end", turn[t].home, turn[t].answer, told)
  BY <1>2, OverFields, Zenon
<1> HIDE DEF q
<1>4. turn[t].told = "none"
  BY <1>1 DEF Stage
<1>5. Stage(q)
  BY <1>1, <1>3 DEF Stage, Early, Late, Reads
<1>6. turn' = [turn EXCEPT ![t] = q]
  BY DEF q
<1>7. Settling(t, q) /\ Moves(t, q)
  BY <1>3, <1>4, <1>5, <1>6 DEF Settling, Settled, Moves, Reads
<1> QED
  BY <1>7 DEF Effect

LEMMA EndsEffect ==
    ASSUME IInv, NEW t \in Turn, turn[t].pc \notin {"new", "end"},
           NEW verdict \in {"done", "error"}, verdict = "done" => turn[t].answer # "none",
           Ends(t, verdict), UNCHANGED storeVars
    PROVE  Effect(t)
<1>1. CASE turn[t].gone
  BY <1>1, OverEffect DEF Ends
<1>2. CASE ~turn[t].gone
  BY <1>2, OverEffect DEF Ends
<1> QED
  BY <1>1, <1>2

LEMMA StopsEffect ==
    ASSUME IInv, NEW t \in Turn, turn[t].pc \notin {"new", "end"},
           Stops(t), UNCHANGED storeVars
    PROVE  Effect(t)
BY OverEffect DEF Stops

LEMMA AnswersEffect ==
    ASSUME IInv, NEW t \in Turn, turn[t].pc \in Early,
           NEW text \in {"whole", "part", "sorry"}, NEW stopped \in BOOLEAN,
           text = "part" => stopped,
           NEW next \in Late, Answers(t, text, stopped, next)
    PROVE  Effect(t)
<1> DEFINE q == [turn[t] EXCEPT !.answer = text, !.pc = next, !.got = 0, !.sees = FALSE]
<1>1. turn[t] \in TurnStates /\ Stage(turn[t]) /\ turn \in [Turn -> TurnStates]
  BY DEF IInv, TypeOK, StagesOK
<1>2. turn[t].home \in Conv /\ turn[t].told = "none" /\ turn[t].answer = "none"
  BY <1>1 DEF Stage, Early
<1>3. CASE Keeps(turn[t].home, Answer(t, text, stopped))
  <2>1. turn' = [turn EXCEPT ![t].answer = text, ![t].pc = next,
                             ![t].got = 0, ![t].sees = FALSE]
    BY <1>3 DEF Answers, Keeps
  <2>2. turn' = [turn EXCEPT ![t] = q]
    BY <2>1, Zenon
  <2>3. next \in Places /\ text \in {"none", "whole", "part", "sorry"} /\ 0 \in 0 .. Chunks
    BY ChatTurnAssumption DEF Places
  <2>4. q \in TurnStates
    BY <1>1, <2>3, FieldTypes, Zenon
  <2>5. /\ q.pc = next /\ q.answer = text /\ q.home = turn[t].home
        /\ q.told = turn[t].told /\ q.path = turn[t].path /\ q.gone = turn[t].gone
    BY <1>1 DEF TurnStates
  <2> HIDE DEF q
  <2>6. Stage(q)
    BY <1>1, <1>2, <2>5, ConversationsAssumption DEF Stage, Early, Late
  <2>7. Moves(t, q) /\ Answered(turn[t], q, text)
    BY <1>2, <2>2, <2>4, <2>5, <2>6 DEF Moves, Answered
  <2>8. Answering(t, q)
    BY <1>3, <2>7 DEF Answering
  <2> QED
    BY <2>7, <2>8 DEF Effect
<1>4. CASE ~Keeps(turn[t].home, Answer(t, text, stopped))
  <2>1. Ends(t, "error") /\ UNCHANGED storeVars
    BY <1>4 DEF Answers, Fails
  <2>2. turn[t].pc \notin {"new", "end"}
    BY DEF Early
  <2> QED
    BY <2>1, <2>2, EndsEffect
<1> QED
  BY <1>3, <1>4

(* The steps of a turn under way, one by one.                              *)
LEMMA GatherEffect ==
    ASSUME IInv, NEW t \in Turn, Gather(t)
    PROVE  Effect(t)
<1>1. turn[t] \in TurnStates /\ turn \in [Turn -> TurnStates] /\ turn[t].pc = "gather"
  BY DEF IInv, TypeOK, Gather, At
<1>2. PICK next \in {"decide", "route"} :
        turn' = [turn EXCEPT ![t].pc = next, ![t].sees = Sees(t), ![t].recalled = FALSE]
  BY DEF Gather
<1> DEFINE sees == Sees(t)
           q == [turn[t] EXCEPT !.pc = next, !.sees = sees, !.recalled = FALSE]
<1>3. turn' = [turn EXCEPT ![t] = q]
  BY <1>2, Zenon
<1>4. next \in Places /\ sees \in BOOLEAN /\ FALSE \in BOOLEAN
  BY <1>2, <1>1 DEF Places, Early, Sees, InContext, TurnStates
<1> HIDE DEF sees
<1>5. q \in TurnStates
  BY <1>1, <1>4, FieldTypes, Zenon
<1>6. /\ q.pc = next /\ q.home = turn[t].home /\ q.answer = turn[t].answer
      /\ q.told = turn[t].told /\ q.path = turn[t].path /\ q.gone = turn[t].gone
  BY <1>1 DEF TurnStates
<1> HIDE DEF q
<1> QED
  BY <1>1, <1>2, <1>3, <1>5, <1>6, StayEffect DEF Gather, Early

LEMMA GoesEffect ==
    ASSUME IInv, NEW t \in Turn, NEW pc \in Early, turn[t].pc \in Early,
           Goes(t, pc), UNCHANGED storeVars
    PROVE  Effect(t)
<1> DEFINE q == [turn[t] EXCEPT !.pc = pc]
<1>1. turn[t] \in TurnStates /\ turn \in [Turn -> TurnStates] /\ pc \in Places
  BY DEF IInv, TypeOK, Places
<1>2. turn' = [turn EXCEPT ![t] = q]
  BY Zenon DEF Goes
<1>3. q \in TurnStates
  BY <1>1, FieldTypes, Zenon
<1>4. /\ q.pc = pc /\ q.home = turn[t].home /\ q.answer = turn[t].answer
      /\ q.told = turn[t].told /\ q.path = turn[t].path /\ q.gone = turn[t].gone
  BY <1>1 DEF TurnStates
<1> HIDE DEF q
<1> QED
  BY <1>2, <1>3, <1>4, StayEffect

LEMMA RoundsEffect ==
    ASSUME IInv, NEW t \in Turn, NEW pc \in Early, NEW rounds \in 0 .. MaxRounds - 1,
           turn[t].pc \in Early,
           turn' = [turn EXCEPT ![t].pc = pc, ![t].rounds = rounds], UNCHANGED storeVars
    PROVE  Effect(t)
<1> DEFINE q == [turn[t] EXCEPT !.pc = pc, !.rounds = rounds]
<1>1. turn[t] \in TurnStates /\ turn \in [Turn -> TurnStates] /\ pc \in Places
  BY DEF IInv, TypeOK, Places
<1>2. turn' = [turn EXCEPT ![t] = q]
  BY Zenon
<1>3. q \in TurnStates
  BY <1>1, FieldTypes, Zenon
<1>4. /\ q.pc = pc /\ q.home = turn[t].home /\ q.answer = turn[t].answer
      /\ q.told = turn[t].told /\ q.path = turn[t].path /\ q.gone = turn[t].gone
  BY <1>1 DEF TurnStates
<1> HIDE DEF q
<1> QED
  BY <1>2, <1>3, <1>4, StayEffect

LEMMA LeavesLoopEffect ==
    ASSUME IInv, NEW t \in Turn, turn[t].pc \in Early, LeavesLoop(t), UNCHANGED storeVars
    PROVE  Effect(t)
<1>1. "route" \in Early /\ 0 \in 0 .. MaxRounds - 1
  BY ChatTurnAssumption DEF Early
<1>2. turn' = [turn EXCEPT ![t].pc = "route", ![t].rounds = 0]
  BY DEF LeavesLoop
<1> QED
  BY <1>1, <1>2, RoundsEffect

LEMMA ToolsEffect ==
    ASSUME IInv, NEW t \in Turn, Decide(t) \/ RunTools(t) \/ ToolsFail(t)
    PROVE  Effect(t)
<1>1. turn[t] \in TurnStates /\ turn \in [Turn -> TurnStates]
  BY DEF IInv, TypeOK
<1>2. /\ turn[t].pc \in Early /\ "tools" \in Early /\ "decide" \in Early
      /\ UNCHANGED storeVars
  BY DEF Decide, RunTools, ToolsFail, At, Early
<1>3. CASE Decide(t)
  BY <1>2, <1>3, GoesEffect, LeavesLoopEffect DEF Decide
<1>4. CASE RunTools(t)
  <2>1. CASE turn[t].rounds + 1 < MaxRounds
    <3>1. turn' = [turn EXCEPT ![t].rounds = turn[t].rounds + 1, ![t].pc = "decide"]
      BY <1>1, <1>4, <2>1 DEF RunTools
    <3>2. turn' = [turn EXCEPT ![t].pc = "decide", ![t].rounds = turn[t].rounds + 1]
      BY <1>1, <3>1 DEF TurnStates
    <3>3. turn[t].rounds + 1 \in 0 .. MaxRounds - 1
      BY <1>1, <2>1, ChatTurnAssumption DEF TurnStates
    <3> QED
      BY <1>2, <3>2, <3>3, RoundsEffect
  <2>2. CASE ~(turn[t].rounds + 1 < MaxRounds)
    BY <1>2, <1>4, <2>2, LeavesLoopEffect DEF RunTools
  <2> QED
    BY <2>1, <2>2
<1>5. CASE ToolsFail(t)
  BY <1>2, <1>5, LeavesLoopEffect DEF ToolsFail
<1> QED
  BY <1>3, <1>4, <1>5

LEMMA WholeEffect ==
    ASSUME IInv, NEW t \in Turn, AgentAnswer(t) \/ Reply(t) \/ Timeout(t)
    PROVE  Effect(t)
<1>1. turn[t] \in TurnStates /\ Stage(turn[t]) /\ turn \in [Turn -> TurnStates]
  BY DEF IInv, TypeOK, StagesOK
<1>2. CASE AgentAnswer(t)
  <2>1. turn[t].pc \in Early /\ "store" \in Late
    BY <1>2 DEF AgentAnswer, At, Early, Late
  <2>2. PICK text \in {"whole", "sorry"} : Answers(t, text, FALSE, "store")
    BY <1>2 DEF AgentAnswer
  <2> QED
    BY <2>1, <2>2, AnswersEffect
<1>3. CASE Reply(t)
  <2>1. turn[t].pc = "store" /\ Ends(t, "done") /\ UNCHANGED storeVars
    BY <1>3 DEF Reply, At
  <2>2. turn[t].answer # "none"
    BY <1>1, <2>1 DEF Stage, Late
  <2> QED
    BY <2>1, <2>2, EndsEffect
<1>4. CASE Timeout(t)
  <2>1. CASE turn[t].pc \notin {"new", "end"} /\ Ends(t, "error")
    BY <1>4, <2>1, EndsEffect DEF Timeout
  <2>2. CASE turn[t].pc = "new" /\ turn' = [turn EXCEPT ![t] = RefusedTurn("agent")]
    BY <1>4, <2>2, RefusedEffect DEF Timeout, Paths, Agent, Whole
  <2> QED
    BY <1>4, <2>1, <2>2, Zenon DEF Timeout, RefusedTurn
<1> QED
  BY <1>2, <1>3, <1>4

LEMMA RoutesEffect ==
    ASSUME IInv, NEW t \in Turn, NEW path \in Paths, NEW pc \in {"yield", "stream"},
           Routes(t, path, pc)
    PROVE  Effect(t)
<1>1. turn[t] \in TurnStates /\ turn \in [Turn -> TurnStates] /\ turn[t].pc = "route"
  BY DEF IInv, TypeOK, Routes, At
<1>2. CASE turn' = [turn EXCEPT ![t].pc = pc, ![t].sees = FALSE] /\ UNCHANGED storeVars
  <2> DEFINE q == [turn[t] EXCEPT !.pc = pc, !.sees = FALSE]
  <2>1. turn' = [turn EXCEPT ![t] = q]
    BY <1>2, Zenon
  <2>2. pc \in Places /\ FALSE \in BOOLEAN
    BY DEF Places, Early
  <2>3. q \in TurnStates
    BY <1>1, <2>2, FieldTypes, Zenon
  <2>4. /\ q.pc = pc /\ q.home = turn[t].home /\ q.answer = turn[t].answer
        /\ q.told = turn[t].told /\ q.path = turn[t].path /\ q.gone = turn[t].gone
    BY <1>1 DEF TurnStates
  <2> HIDE DEF q
  <2> QED
    BY <1>1, <1>2, <2>1, <2>3, <2>4, StayEffect DEF Early
<1>3. CASE Fails(t)
  BY <1>1, <1>3, EndsEffect DEF Fails
<1> QED
  BY <1>2, <1>3, Zenon DEF Routes

LEMMA ChunkEffect ==
    ASSUME IInv, NEW t \in Turn, NEW paths, NEW next \in {"yield", "stream"},
           Chunk(t, paths, next)
    PROVE  Effect(t)
<1>1. turn[t] \in TurnStates /\ turn \in [Turn -> TurnStates] /\ turn[t].pc = "stream"
  BY DEF IInv, TypeOK, Chunk, At
<1> DEFINE got == turn[t].got + 1
           q == [turn[t] EXCEPT !.got = got, !.pc = next]
<1>2. got \in 0 .. Chunks
  BY <1>1, ChatTurnAssumption DEF TurnStates, Chunk
<1>3. turn' = [turn EXCEPT ![t].got = got, ![t].pc = next]
  BY <1>1 DEF Chunk
<1> HIDE DEF got
<1>4. turn' = [turn EXCEPT ![t] = q]
  BY <1>3, Zenon
<1>5. next \in Places
  BY DEF Places, Early
<1>6. q \in TurnStates
  BY <1>1, <1>2, <1>5, FieldTypes, Zenon
<1>7. /\ q.pc = next /\ q.home = turn[t].home /\ q.answer = turn[t].answer
      /\ q.told = turn[t].told /\ q.path = turn[t].path /\ q.gone = turn[t].gone
  BY <1>1 DEF TurnStates
<1> HIDE DEF q
<1> QED
  BY <1>1, <1>4, <1>6, <1>7, StayEffect DEF Early, Chunk

LEMMA FinishEffect ==
    ASSUME IInv, NEW t \in Turn,
           SseFinish(t) \/ KbFinish(t) \/ WsFinish(t) \/ LastTaken(t) \/ WsDone(t)
    PROVE  Effect(t)
<1>1. turn[t] \in TurnStates /\ Stage(turn[t])
  BY DEF IInv, TypeOK, StagesOK
<1>2. CASE SseFinish(t) \/ KbFinish(t) \/ WsFinish(t)
  <2>1. turn[t].pc \in Early /\ "last" \in Late /\ "store" \in Late
    BY <1>2 DEF SseFinish, KbFinish, WsFinish, At, Early, Late
  <2>2. Answers(t, "whole", FALSE, "last") \/ Answers(t, "whole", FALSE, "store")
    BY <1>2 DEF SseFinish, KbFinish, WsFinish
  <2> QED
    BY <2>1, <2>2, AnswersEffect
<1>3. CASE LastTaken(t) \/ WsDone(t)
  <2>1. turn[t].pc \in Late /\ Ends(t, "done") /\ UNCHANGED storeVars
    BY <1>3 DEF LastTaken, WsDone, At, Late
  <2>2. turn[t].answer # "none" /\ turn[t].pc \notin {"new", "end"}
    BY <1>1, <2>1 DEF Stage, Late
  <2> QED
    BY <2>1, <2>2, EndsEffect
<1> QED
  BY <1>2, <1>3

LEMMA SseCancelEffect ==
    ASSUME IInv, NEW t \in Turn, SseCancel(t)
    PROVE  Effect(t)
<1>1. turn[t] \in TurnStates /\ Stage(turn[t]) /\ turn[t].pc = "stream"
  BY DEF IInv, TypeOK, StagesOK, SseCancel, At
<1>2. turn[t].home \in Conv /\ turn[t].told = "none" /\ turn[t].answer = "none"
  BY <1>1 DEF Stage, Early
<1>3. CASE Stops(t) /\ UNCHANGED storeVars
  BY <1>1, <1>3, StopsEffect
<1>4. CASE /\ Keeps(turn[t].home, Answer(t, Received(t), TRUE))
           /\ turn' = [turn EXCEPT ![t] = Over(t, Received(t), "none")]
  <2> DEFINE text == Received(t)
             q == Over(t, text, "none")
  <2>1. text \in {"whole", "part", "sorry"} /\ text \in {"none", "whole", "part", "sorry"}
    BY DEF Received
  <2>2. Keeps(turn[t].home, Answer(t, text, TRUE)) /\ turn' = [turn EXCEPT ![t] = q]
    BY <1>4
  <2> HIDE DEF text
  <2>3. q \in TurnStates /\ Reads(q, "end", turn[t].home, text, "none")
    BY <2>1, OverFields, Zenon
  <2> HIDE DEF q
  <2>4. Stage(q)
    BY <1>2, <2>3, ConversationsAssumption DEF Stage, Early, Late, Reads
  <2>5. Moves(t, q) /\ Answered(turn[t], q, text)
    BY <1>2, <2>2, <2>3, <2>4 DEF Moves, Answered, Reads
  <2>6. Answering(t, q)
    BY <2>1, <2>2, <2>5 DEF Answering
  <2> QED
    BY <2>5, <2>6 DEF Effect
<1> QED
  BY <1>3, <1>4, Zenon DEF SseCancel

LEMMA WsChunkEffect ==
    ASSUME IInv, NEW t \in Turn, WsChunk(t)
    PROVE  Effect(t)
<1>1. CASE Chunk(t, {"ws"}, "stream")
  BY <1>1, ChunkEffect
<1>2. CASE ~Chunk(t, {"ws"}, "stream")
  <2> DEFINE text == IF turn[t].got + 1 = Chunks THEN "whole" ELSE "part"
  <2>1. turn[t].pc \in Early /\ "store" \in Late
    BY <1>2 DEF WsChunk, At, Early, Late
  <2>2. text \in {"whole", "part", "sorry"}
    OBVIOUS
  <2>3. Answers(t, text, TRUE, "store")
    BY <1>2 DEF WsChunk
  <2> HIDE DEF text
  <2> QED
    BY <2>1, <2>2, <2>3, AnswersEffect
<1> QED
  BY <1>1, <1>2

LEMMA LeavingEffect ==
    ASSUME IInv, NEW t \in Turn, Taken(t) \/ StreamFails(t) \/ StreamClose(t) \/ KbCancel(t)
    PROVE  Effect(t)
<1>1. CASE Taken(t)
  <2>1. turn[t].pc \in Early /\ "stream" \in Early /\ Goes(t, "stream") /\ UNCHANGED storeVars
    BY <1>1 DEF Taken, At, Early
  <2> QED
    BY <2>1, GoesEffect
<1>2. CASE StreamFails(t)
  BY <1>2, EndsEffect DEF StreamFails, Fails
<1>3. CASE StreamClose(t) \/ KbCancel(t)
  <2>1. turn[t].pc \notin {"new", "end"} /\ Stops(t) /\ UNCHANGED storeVars
    BY <1>3 DEF StreamClose, KbCancel, At
  <2> QED
    BY <2>1, StopsEffect
<1> QED
  BY <1>1, <1>2, <1>3

LEMMA SessionEffect ==
    ASSUME IInv, NEW t \in Turn, SessionTurns(t)
    PROVE  Effect(t)
<1>1. turn[t] \in TurnStates /\ turn \in [Turn -> TurnStates]
  BY DEF IInv, TypeOK
<1> DEFINE gone == ~turn[t].gone
           q == [turn[t] EXCEPT !.gone = gone]
<1>2. turn' = [turn EXCEPT ![t].gone = gone]
  BY <1>1 DEF SessionTurns
<1>3. gone \in BOOLEAN
  BY DEF TurnStates
<1> HIDE DEF gone
<1>4. turn' = [turn EXCEPT ![t] = q]
  BY <1>2, Zenon
<1>5. q \in TurnStates
  BY <1>1, <1>3, FieldTypes, Zenon
<1>6. /\ q.pc = turn[t].pc /\ q.home = turn[t].home /\ q.answer = turn[t].answer
      /\ q.told = turn[t].told /\ q.path = turn[t].path
  BY <1>1 DEF TurnStates
<1> HIDE DEF q
<1>7. turn[t].pc \in Early \/ turn[t].pc \in Late
  BY <1>1 DEF SessionTurns, TurnStates, Early, Late
<1> QED
  BY <1>4, <1>5, <1>6, <1>7, StayEffect DEF SessionTurns

LEMMA RequestsEffect ==
    ASSUME IInv, NEW t \in Turn, Requests(t)
    PROVE  Effect(t)
<1>1. CASE Refuse(t)
  <2>1. PICK path \in {"media", "kb"} \cap Serves[t] :
          turn' = [turn EXCEPT ![t] = RefusedTurn(path)]
    BY <1>1, Zenon DEF Refuse, RefusedTurn
  <2> QED
    BY <1>1, <2>1, RefusedEffect DEF Refuse, Paths
<1>2. CASE ~Refuse(t)
  <2>1. PICK c \in Conv : AgentAsk(t, c) \/ StreamAsk(t, c) \/ MediaAsk(t, c) \/ KbAsk(t, c)
    BY <1>2 DEF Requests
  <2>2. PICK path \in Paths, recalled \in BOOLEAN, pc \in {"gather", "route"} :
          Asks(t, c, path, recalled, pc)
    BY <2>1 DEF AgentAsk, StreamAsk, MediaAsk, KbAsk, Paths, Agent, Whole
  <2> QED
    BY <2>2, AsksEffect
<1> QED
  BY <1>1, <1>2

(* Every step of a turn is an effect on it.                                *)
LEMMA StepEffect ==
    ASSUME IInv, NEW t \in Turn, Requests(t) \/ TurnStep(t) \/ Disturb(t)
    PROVE  Effect(t)
<1>1. CASE Requests(t)
  BY <1>1, RequestsEffect
<1>2. CASE StreamRoute(t) \/ MediaRoute(t) \/ KbRoute(t)
  <2>1. PICK path \in {"sse", "ws", "media", "kb"}, pc \in {"yield", "stream"} :
          Routes(t, path, pc)
    BY <1>2 DEF StreamRoute, MediaRoute, KbRoute
  <2>2. path \in Paths
    BY DEF Paths, Agent
  <2> QED
    BY <2>1, <2>2, RoutesEffect
<1>3. CASE SseChunk(t) \/ KbChunk(t)
  BY <1>3, ChunkEffect DEF SseChunk, KbChunk
<1>4. CASE TurnStep(t)
  BY <1>2, <1>3, <1>4, GatherEffect, ToolsEffect, WholeEffect, WsChunkEffect, LeavingEffect,
     FinishEffect DEF TurnStep
<1>5. CASE Disturb(t)
  BY <1>5, WholeEffect, SseCancelEffect, LeavingEffect, SessionEffect DEF Disturb
<1> QED
  BY <1>1, <1>4, <1>5

-----------------------------------------------------------------------------
(***************************************************************************)
(* What the steps do to the store.                                         *)
(***************************************************************************)

(* Each message of the next store was there at the same place, or is a     *)
(* copy, or is m, at the end of what there was of c.                       *)
Grown(old, new) ==
    \A i \in DOMAIN new : (i \in DOMAIN old /\ new[i] = old[i]) \/ new[i].copy

LEMMA PrefixLemma ==
    ASSUME NEW S, NEW s \in Seq(S), NEW k \in 0 .. Len(s)
    PROVE  /\ SubSeq(s, 1, k) \in Seq(S)
           /\ \A i \in DOMAIN SubSeq(s, 1, k) : i \in DOMAIN s /\ SubSeq(s, 1, k)[i] = s[i]
OBVIOUS

LEMMA ConcatLemma ==
    ASSUME NEW S, NEW s1 \in Seq(S), NEW s2 \in Seq(S), NEW i \in DOMAIN (s1 \o s2)
    PROVE  \/ i \in DOMAIN s1 /\ (s1 \o s2)[i] = s1[i]
           \/ i - Len(s1) \in DOMAIN s2 /\ (s1 \o s2)[i] = s2[i - Len(s1)]
<1>1. i \in 1 .. Len(s1) + Len(s2)
  OBVIOUS
<1>2. (s1 \o s2)[i] = IF i <= Len(s1) THEN s1[i] ELSE s2[i - Len(s1)]
  BY <1>1, ConcatProperties
<1>3. CASE i <= Len(s1)
  BY <1>1, <1>2, <1>3
<1>4. CASE ~(i <= Len(s1))
  BY <1>1, <1>2, <1>4
<1> QED
  BY <1>3, <1>4

LEMMA TurnOfMessage ==
    ASSUME NEW l \in [Conv -> Seq(Messages)], NEW c \in Conv, NEW i \in DOMAIN l[c]
    PROVE  l[c][i] \in Messages /\ l[c][i].turn \in Turn
<1>1. l[c] \in Seq(Messages)
  OBVIOUS
<1>2. l[c][i] \in Messages
  BY <1>1, ElementOfSeq
<1> QED
  BY <1>2 DEF Messages

LEMMA CopiedType ==
    ASSUME NEW m \in Messages
    PROVE  Copied(m) \in Messages /\ Copied(m).copy
BY DEF Messages, Copied

LEMMA MessageTypes ==
    ASSUME NEW t \in Turn, NEW text \in {"whole", "part", "sorry"}, NEW stopped \in BOOLEAN
    PROVE  Question(t) \in Messages /\ Answer(t, text, stopped) \in Messages
BY DEF Messages, Texts, Question, Answer

LEMMA KeepsType ==
    ASSUME StoreTypeOK, NEW c \in Conv, NEW m \in Messages, Keeps(c, m) \/ Opens(c, m)
    PROVE  /\ StoreTypeOK'
           /\ \A d \in Conv \ {c} : log'[d] = log[d]
           /\ log'[c] = Append(log[c], m) \/ log'[c] = <<m>>
           /\ UNCHANGED branch
<1>1. CASE Keeps(c, m)
  <2>1. log' = [log EXCEPT ![c] = Append(log[c], m)] /\ Append(log[c], m) \in Seq(Messages)
    BY <1>1 DEF Keeps, StoreTypeOK
  <2> QED
    BY <1>1, <2>1 DEF Keeps, StoreTypeOK
<1>2. CASE Opens(c, m)
  <2>1. /\ <<m>> \in Seq(Messages)
        /\ [status |-> "live", parent |-> NoConv] \in Rows
    BY DEF Rows
  <2> QED
    BY <1>2, <2>1 DEF Opens, StoreTypeOK
<1> QED
  BY <1>1, <1>2

(* What the owner does adds no message but copies.                         *)
StoreShape ==
    StoreTypeOK' /\ CopiesOK' /\ \A c \in Conv : Grown(log[c], log'[c])

LEMMA DeleteShape ==
    ASSUME StoreTypeOK, CopiesOK, NEW c \in Conv, Delete(c) \/ Detach(c)
    PROVE  StoreShape
<1>1. [status |-> "deleted", parent |-> NoConv] \in Rows /\ <<>> \in Seq(Messages)
  BY DEF Rows
<1>2. CASE Delete(c)
  <2>1. conv' \in [Conv -> Rows] /\ log' \in [Conv -> Seq(Messages)]
    BY <1>1, <1>2, Zenon DEF Delete, StoreTypeOK
  <2>2. \A d \in Conv : log'[d] = <<>> \/ log'[d] = log[d]
    BY <1>2, Zenon DEF Delete, StoreTypeOK
  <2>3. \A d \in Conv : Grown(log[d], log'[d])
    BY <2>2 DEF Grown
  <2> QED
    BY <1>2, <2>1, <2>3 DEF Delete, StoreShape, StoreTypeOK, CopiesOK
<1>3. CASE Detach(c)
  <2>1. [conv[c] EXCEPT !.parent = NoConv] \in Rows
    BY DEF StoreTypeOK, Rows
  <2>2. conv' = [conv EXCEPT ![c] = [conv[c] EXCEPT !.parent = NoConv]]
    BY <1>3, Zenon DEF Detach
  <2>3. conv' \in [Conv -> Rows]
    BY <2>1, <2>2 DEF StoreTypeOK
  <2> QED
    BY <1>3, <2>3 DEF Detach, StoreShape, StoreTypeOK, CopiesOK, Grown
<1> QED
  BY <1>2, <1>3

LEMMA TruncateShape ==
    ASSUME StoreTypeOK, CopiesOK, NEW c \in Conv, NEW keep \in 0 .. Len(log[c]) - 1,
           Truncate(c, keep)
    PROVE  StoreShape
<1>1. log[c] \in Seq(Messages) /\ keep \in 0 .. Len(log[c])
  BY DEF StoreTypeOK
<1>2. /\ SubSeq(log[c], 1, keep) \in Seq(Messages)
      /\ Grown(log[c], SubSeq(log[c], 1, keep))
  BY <1>1, PrefixLemma DEF Grown
<1>3. log' = [log EXCEPT ![c] = SubSeq(log[c], 1, keep)]
  BY DEF Truncate
<1>4. log' \in [Conv -> Seq(Messages)] /\ \A d \in Conv : Grown(log[d], log'[d])
  BY <1>2, <1>3 DEF StoreTypeOK, Grown
<1> QED
  BY <1>4 DEF Truncate, StoreShape, StoreTypeOK, CopiesOK

LEMMA BranchReadShape ==
    ASSUME StoreTypeOK, CopiesOK, NEW c \in Conv, NEW upTo \in 1 .. Len(log[c]),
           NEW target \in Conv \cup {NoConv}, BranchRead(c, upTo, target)
    PROVE  StoreShape
<1> DEFINE copies == [i \in 1 .. upTo |-> Copied(log[c][i])]
<1>1. log[c] \in Seq(Messages) /\ upTo \in Nat /\ \A i \in 1 .. upTo : log[c][i] \in Messages
  BY DEF StoreTypeOK
<1>2. \A i \in 1 .. upTo : Copied(log[c][i]) \in Messages /\ Copied(log[c][i]).copy
  BY <1>1, CopiedType
<1>3. copies \in Seq(Messages) /\ DOMAIN copies = 1 .. upTo
  BY <1>1, <1>2
<1>4. \A i \in DOMAIN copies : copies[i].copy
  BY <1>2, <1>3
<1>5. branch' = [from |-> c, to |-> target, copies |-> copies]
  BY DEF BranchRead
<1> HIDE DEF copies
<1>6. branch' \in Branches /\ CopiesOK'
  BY <1>3, <1>4, <1>5 DEF Branches, CopiesOK
<1>7. branches' \in 0 .. MaxBranches
  BY ConversationsAssumption DEF BranchRead, StoreTypeOK
<1> QED
  BY <1>6, <1>7 DEF BranchRead, StoreShape, StoreTypeOK, Grown

LEMMA BranchWriteShape ==
    ASSUME StoreTypeOK, CopiesOK, BranchWrite
    PROVE  StoreShape
<1>1. /\ branch.copies \in Seq(Messages) /\ branch.from \in Conv \cup {NoConv}
      /\ branch.to \in Conv \cup {NoConv}
  BY DEF StoreTypeOK, Branches
<1>2. branch' \in Branches /\ CopiesOK' /\ branches' = branches
  BY DEF BranchWrite, NoBranch, Branches, CopiesOK
<1>3. CASE UNCHANGED <<conv, log>>
  BY <1>2, <1>3 DEF StoreShape, StoreTypeOK, Grown
<1>4. CASE branch.to = NoConv /\ ~UNCHANGED <<conv, log>>
  <2>1. PICK c \in Conv :
          /\ conv' = [conv EXCEPT ![c] = [status |-> "live", parent |-> branch.from]]
          /\ log' = [log EXCEPT ![c] = branch.copies]
    BY <1>4 DEF BranchWrite
  <2>2. [status |-> "live", parent |-> branch.from] \in Rows
    BY <1>1 DEF Rows
  <2>3. conv' \in [Conv -> Rows] /\ log' \in [Conv -> Seq(Messages)]
    BY <1>1, <2>1, <2>2 DEF StoreTypeOK
  <2>4. \A d \in Conv : Grown(log[d], log'[d])
    BY <2>1 DEF StoreTypeOK, Grown, CopiesOK
  <2> QED
    BY <1>2, <2>3, <2>4 DEF StoreShape, StoreTypeOK
<1>5. CASE branch.to # NoConv /\ ~UNCHANGED <<conv, log>>
  <2> DEFINE d == branch.to
  <2>1. /\ log' = [log EXCEPT ![d] = log[d] \o branch.copies] /\ conv' = conv
        /\ d \in Conv /\ log[d] \in Seq(Messages)
    BY <1>1, <1>5 DEF BranchWrite, StoreTypeOK
  <2>2. log[d] \o branch.copies \in Seq(Messages)
    BY <1>1, <2>1
  <2>3. Grown(log[d], log[d] \o branch.copies)
    <3> SUFFICES ASSUME NEW i \in DOMAIN (log[d] \o branch.copies)
                 PROVE  \/ i \in DOMAIN log[d] /\ (log[d] \o branch.copies)[i] = log[d][i]
                        \/ (log[d] \o branch.copies)[i].copy
      BY DEF Grown
    <3> DEFINE s1 == log[d]
               s2 == branch.copies
    <3>1. s1 \in Seq(Messages) /\ s2 \in Seq(Messages) /\ i \in DOMAIN (s1 \o s2)
      BY <1>1, <2>1
    <3> HIDE DEF s1, s2
    <3>2. \/ i \in DOMAIN s1 /\ (s1 \o s2)[i] = s1[i]
          \/ i - Len(s1) \in DOMAIN s2 /\ (s1 \o s2)[i] = s2[i - Len(s1)]
      BY <3>1, ConcatLemma
    <3> QED
      BY <3>2 DEF CopiesOK, s1, s2
  <2> HIDE DEF d
  <2>4. log' \in [Conv -> Seq(Messages)] /\ \A c \in Conv : Grown(log[c], log'[c])
    BY <2>1, <2>2, <2>3 DEF StoreTypeOK, Grown
  <2> QED
    BY <1>2, <2>1, <2>4 DEF StoreShape, StoreTypeOK
<1> QED
  BY <1>3, <1>4, <1>5

LEMMA StoreNextShape ==
    ASSUME StoreTypeOK, CopiesOK, StoreNext
    PROVE  StoreShape
BY DeleteShape, TruncateShape, BranchReadShape, BranchWriteShape DEF StoreNext

-----------------------------------------------------------------------------
(***************************************************************************)
(* The invariant.                                                          *)
(***************************************************************************)

(* A store whose originals were there before is as good as it was, if the  *)
(* turns are settled.                                                      *)
LEMMA GrownLog ==
    ASSUME LogOK, \A c \in Conv : Grown(log[c], log'[c]),
           \A t \in Turn : turn'[t].home = turn[t].home /\ turn'[t].answer = turn[t].answer,
           StoreTypeOK'
    PROVE  LogOK'
<1>1. \A c \in Conv : \A i \in DOMAIN log'[c] :
        Original(log'[c][i]) => i \in DOMAIN log[c] /\ log'[c][i] = log[c][i]
  BY DEF Grown, Original
<1>2. \A c \in Conv : \A i \in DOMAIN log'[c] :
        log'[c][i] \in Messages /\ log'[c][i].turn \in Turn
  BY TurnOfMessage DEF StoreTypeOK
<1> QED
  BY <1>1, <1>2 DEF LogOK

LEMMA SettlingLog ==
    ASSUME IInv, NEW t \in Turn, NEW q, Moves(t, q), Settling(t, q)
    PROVE  LogOK'
<1>1. turn \in [Turn -> TurnStates] /\ turn' = [turn EXCEPT ![t] = q]
  BY DEF IInv, TypeOK, Moves
<1>2. \A s \in Turn : turn'[s].home = turn[s].home /\ turn'[s].answer = turn[s].answer
  BY <1>1 DEF Settling, Settled
<1>3. StoreTypeOK' /\ \A c \in Conv : Grown(log[c], log'[c])
  BY DEF Settling, IInv, TypeOK, StoreTypeOK, storeVars, Grown
<1> QED
  BY <1>2, <1>3, GrownLog DEF IInv

(* A turn without an answer has none in the messages.                      *)
LEMMA NoneKept ==
    ASSUME IInv, NEW t \in Turn, turn[t].answer = "none",
           NEW c \in Conv, NEW i \in DOMAIN log[c], Original(log[c][i])
    PROVE  log[c][i].turn # t
BY DEF IInv, LogOK

LEMMA AddedLog ==
    ASSUME IInv, NEW t \in Turn, NEW q, Moves(t, q), turn[t].answer = "none",
           NEW c \in Conv, NEW m \in Messages,
           Keeps(c, m) \/ Opens(c, m),
           m.turn = t,
           Original(m) => /\ m.text = "part" => m.stopped
                          /\ q.home = c /\ q.answer = m.text /\ m.text # "none"
    PROVE  LogOK'
<1>1. turn \in [Turn -> TurnStates] /\ turn' = [turn EXCEPT ![t] = q] /\ StoreTypeOK
  BY DEF IInv, TypeOK, Moves
<1>2. /\ StoreTypeOK' /\ \A d \in Conv \ {c} : log'[d] = log[d]
      /\ log'[c] = Append(log[c], m) \/ log'[c] = <<m>>
  BY <1>1, KeepsType
<1>3. \A i \in DOMAIN log'[c] :
        \/ i \in DOMAIN log[c] /\ log'[c][i] = log[c][i]
        \/ i = Len(log'[c]) /\ log'[c][i] = m
  <2>1. log[c] \in Seq(Messages)
    BY <1>1 DEF StoreTypeOK
  <2>2. CASE log'[c] = Append(log[c], m)
    BY <2>1, <2>2, AppendProperties
  <2>3. CASE log'[c] = <<m>>
    BY <2>3
  <2> QED
    BY <1>2, <2>2, <2>3
<1>4. \A d \in Conv : \A i \in DOMAIN log'[d] :
        \/ i \in DOMAIN log[d] /\ log'[d][i] = log[d][i]
        \/ d = c /\ i = Len(log'[c]) /\ log'[d][i] = m
  BY <1>2, <1>3
<1>5. \A d \in Conv : \A i \in DOMAIN log[d] : Original(log[d][i]) =>
        /\ log[d][i].turn \in Turn \ {t}
        /\ turn'[log[d][i].turn] = turn[log[d][i].turn]
  <2>1. \A d \in Conv : \A i \in DOMAIN log[d] : log[d][i].turn \in Turn
    BY <1>1, TurnOfMessage DEF StoreTypeOK
  <2>2. \A d \in Conv : \A i \in DOMAIN log[d] : Original(log[d][i]) => log[d][i].turn # t
    BY NoneKept
  <2> QED
    BY <1>1, <2>1, <2>2
<1>6. turn'[t] = q
  BY <1>1
<1>7. ASSUME NEW d \in Conv, NEW i \in DOMAIN log'[d], Original(log'[d][i])
      PROVE  /\ log'[d][i].text = "part" => log'[d][i].stopped
             /\ turn'[log'[d][i].turn].home = d
             /\ turn'[log'[d][i].turn].answer = log'[d][i].text
             /\ log'[d][i].text # "none"
  <2>1. CASE i \in DOMAIN log[d] /\ log'[d][i] = log[d][i]
    BY <1>5, <1>7, <2>1 DEF IInv, LogOK
  <2>2. CASE d = c /\ log'[d][i] = m
    BY <1>6, <1>7, <2>2
  <2> QED
    BY <1>4, <2>1, <2>2
<1>8. ASSUME NEW d \in Conv, NEW i \in DOMAIN log'[d], NEW j \in DOMAIN log'[d],
             Original(log'[d][i]), Original(log'[d][j]), log'[d][i].turn = log'[d][j].turn
      PROVE  i = j
  <2>1. CASE /\ i \in DOMAIN log[d] /\ log'[d][i] = log[d][i]
             /\ j \in DOMAIN log[d] /\ log'[d][j] = log[d][j]
    BY <1>8, <2>1 DEF IInv, LogOK
  <2>2. CASE i \in DOMAIN log[d] /\ log'[d][i] = log[d][i] /\ log'[d][j] = m
    BY <1>5, <1>8, <2>2
  <2>3. CASE j \in DOMAIN log[d] /\ log'[d][j] = log[d][j] /\ log'[d][i] = m
    BY <1>5, <1>8, <2>3
  <2>4. CASE d = c /\ i = Len(log'[c]) /\ j = Len(log'[c])
    BY <2>4
  <2> QED
    BY <1>4, <2>1, <2>2, <2>3, <2>4
<1> QED
  BY <1>7, <1>8 DEF LogOK

LEMMA EffectInvariant ==
    ASSUME IInv, NEW t \in Turn, Effect(t)
    PROVE  IInv'
<1>1. PICK q : Moves(t, q) /\ (Asking(t, q) \/ Answering(t, q) \/ Settling(t, q))
  BY DEF Effect
<1>2. turn \in [Turn -> TurnStates] /\ turn' = [turn EXCEPT ![t] = q] /\ q \in TurnStates
      /\ Stage(q) /\ StoreTypeOK
  BY <1>1 DEF IInv, TypeOK, Moves
<1>3. turn' \in [Turn -> TurnStates] /\ StagesOK'
  BY <1>2 DEF IInv, StagesOK, Stage
<1>4. CASE Asking(t, q)
  <2>1. PICK c \in Conv :
          Asked(turn[t], q, c) /\ (Keeps(c, Question(t)) \/ Opens(c, Question(t)))
    BY <1>4 DEF Asking
  <2>2. Question(t) \in Messages /\ Question(t).turn = t /\ ~Original(Question(t))
    BY MessageTypes DEF Question, Original
  <2>3. StoreTypeOK' /\ UNCHANGED branch
    BY <1>2, <2>1, <2>2, KeepsType
  <2>4. LogOK'
    BY <1>1, <2>1, <2>2, AddedLog DEF Asked
  <2> QED
    BY <1>3, <2>3, <2>4 DEF IInv, TypeOK, CopiesOK
<1>5. CASE Answering(t, q)
  <2>1. PICK text \in {"whole", "part", "sorry"}, stopped \in BOOLEAN :
          /\ Answered(turn[t], q, text)
          /\ Keeps(turn[t].home, Answer(t, text, stopped))
          /\ text = "part" => stopped
    BY <1>5 DEF Answering
  <2>2. Answer(t, text, stopped) \in Messages /\ turn[t].home \in Conv
    BY <2>1, MessageTypes DEF Answered
  <2>3. StoreTypeOK' /\ UNCHANGED branch
    BY <1>2, <2>1, <2>2, KeepsType
  <2>4. /\ Answer(t, text, stopped).turn = t /\ Answer(t, text, stopped).text = text
        /\ Answer(t, text, stopped).stopped = stopped
    BY DEF Answer
  <2>5. LogOK'
    BY <1>1, <2>1, <2>2, <2>4, AddedLog DEF Answered
  <2> QED
    BY <1>3, <2>3, <2>5 DEF IInv, TypeOK, CopiesOK
<1>6. CASE Settling(t, q)
  <2>1. StoreTypeOK' /\ CopiesOK'
    BY <1>6 DEF Settling, IInv, TypeOK, StoreTypeOK, storeVars, CopiesOK
  <2>2. LogOK'
    BY <1>1, <1>6, SettlingLog
  <2> QED
    BY <1>3, <2>1, <2>2 DEF IInv, TypeOK
<1> QED
  BY <1>1, <1>4, <1>5, <1>6

LEMMA StoreInvariant ==
    ASSUME IInv, StoreNext, UNCHANGED turn
    PROVE  IInv'
<1>1. StoreShape
  BY StoreNextShape DEF IInv, TypeOK
<1>2. LogOK'
  BY <1>1, GrownLog DEF IInv, StoreShape
<1> QED
  BY <1>1, <1>2 DEF IInv, TypeOK, StoreShape, StagesOK, Stage

LEMMA NextInvariant == IInv /\ [Next]_vars => IInv'
<1> SUFFICES ASSUME IInv, [Next]_vars PROVE IInv'
  OBVIOUS
<1>1. ASSUME NEW t \in Turn, Requests(t) \/ TurnStep(t) \/ Disturb(t) PROVE IInv'
  BY <1>1, StepEffect, EffectInvariant
<1>2. CASE StoreNext /\ UNCHANGED turn
  BY <1>2, StoreInvariant
<1>3. CASE UNCHANGED vars
  BY <1>3 DEF vars, IInv, TypeOK, StoreTypeOK, StagesOK, Stage, LogOK, CopiesOK, Original
<1> QED
  BY <1>1, <1>2, <1>3 DEF Next

LEMMA InitInvariant == Init => IInv
<1> SUFFICES ASSUME Init PROVE IInv
  OBVIOUS
<1>1. NewTurn \in TurnStates
  BY FieldTypes
<1>2. /\ [status |-> "absent", parent |-> NoConv] \in Rows
      /\ NoBranch \in Branches /\ NoBranch.copies = <<>> /\ 0 \in 0 .. MaxBranches
      /\ <<>> \in Seq(Messages)
  BY ConversationsAssumption DEF Rows, NoBranch, Branches
<1>3. TypeOK
  BY <1>1, <1>2 DEF Init, StoreInit, TypeOK, StoreTypeOK
<1>4. StagesOK
  BY NewTurnFields DEF Init, StagesOK, Stage, Early, Late
<1>5. LogOK /\ CopiesOK
  BY <1>2 DEF Init, StoreInit, LogOK, CopiesOK
<1> QED
  BY <1>3, <1>4, <1>5 DEF IInv

LEMMA Invariance == Spec => []IInv
BY InitInvariant, NextInvariant, PTL DEF Spec

(* The rows and the turns are of their types: no turn goes through more    *)
(* rounds of tools than it may (services/agent.py:773), whatever the       *)
(* decision engine asks for.                                               *)
THEOREM TypeCorrect == Spec => []TypeOK
<1>1. IInv => TypeOK
  BY DEF IInv
<1> QED
  BY <1>1, Invariance, PTL

LEMMA KeptFacts ==
    ASSUME IInv, NEW t \in Turn, NEW p \in Kept(t)
    PROVE  /\ p[1] \in Conv /\ p[2] \in DOMAIN log[p[1]] /\ p = <<p[1], p[2]>>
           /\ Original(log[p[1]][p[2]]) /\ log[p[1]][p[2]].turn = t
<1>1. PICK c \in Conv : p \in {c} \X DOMAIN log[c]
  BY DEF Kept
<1> QED
  BY <1>1 DEF Kept, Original

(* However its stream ends, no turn has two answers in the messages, nor   *)
(* one in another conversation or with another text than it stored.        *)
THEOREM OneAnswer == Spec => []OneAnswerInPlace
<1>1. ASSUME IInv PROVE OneAnswerInPlace
  <2> SUFFICES ASSUME NEW t \in Turn
               PROVE  /\ \A p, q \in Kept(t) : p = q
                      /\ \A p \in Kept(t) :
                           p[1] = turn[t].home /\ log[p[1]][p[2]].text = turn[t].answer
    BY DEF OneAnswerInPlace
  <2>1. ASSUME NEW p \in Kept(t)
        PROVE  p[1] = turn[t].home /\ log[p[1]][p[2]].text = turn[t].answer
    BY <1>1, KeptFacts DEF IInv, LogOK
  <2>2. ASSUME NEW p \in Kept(t), NEW q \in Kept(t)
        PROVE  p = q
    <3>1. p[1] = q[1]
      BY <2>1
    <3>2. /\ p[1] \in Conv /\ p[2] \in DOMAIN log[p[1]] /\ p = <<p[1], p[2]>>
          /\ Original(log[p[1]][p[2]]) /\ log[p[1]][p[2]].turn = t
      BY <1>1, KeptFacts
    <3>3. /\ q[2] \in DOMAIN log[q[1]] /\ q = <<q[1], q[2]>>
          /\ Original(log[q[1]][q[2]]) /\ log[q[1]][q[2]].turn = t
      BY <1>1, KeptFacts
    <3>4. p[2] = q[2]
      BY <1>1, <3>1, <3>2, <3>3 DEF IInv, LogOK
    <3> QED
      BY <3>1, <3>2, <3>3, <3>4, Zenon
  <2> QED
    BY <2>1, <2>2
<1> QED
  BY <1>1, Invariance, PTL

(* A piece of an answer is marked wherever an endpoint stored it, however  *)
(* many turns and requests interleave.                                     *)
THEOREM PartsAlwaysMarked == Spec => []PartsAreMarked
<1>1. ASSUME IInv PROVE PartsAreMarked
  BY <1>1, KeptFacts DEF PartsAreMarked, IInv, LogOK
<1> QED
  BY <1>1, Invariance, PTL

-----------------------------------------------------------------------------
(***************************************************************************)
(* The contract.                                                           *)
(***************************************************************************)

LEMMA EffectContract ==
    ASSUME IInv, NEW t \in Turn, Effect(t)
    PROVE  Contract!ContractNext \/ UNCHANGED Contract!contractVars
<1> DEFINE asked == {s \in Turn : turn[s].home # NoConv}
           answer == [s \in Turn |-> turn[s].answer]
           told == [s \in Turn |-> turn[s].told]
<1>1. PICK q : Moves(t, q) /\ (Asking(t, q) \/ Answering(t, q) \/ Settling(t, q))
  BY DEF Effect
<1>2. turn \in [Turn -> TurnStates] /\ turn' = [turn EXCEPT ![t] = q]
  BY <1>1 DEF IInv, TypeOK, Moves
<1>3. /\ turn'[t] = q /\ \A s \in Turn \ {t} : turn'[s] = turn[s]
  BY <1>2
<1>4. /\ answer' = [answer EXCEPT ![t] = q.answer]
      /\ told' = [told EXCEPT ![t] = q.told]
  BY <1>3
<1>5. CASE Asking(t, q)
  <2>1. PICK c \in Conv : Asked(turn[t], q, c)
    BY <1>5 DEF Asking
  <2>2. t \notin asked /\ asked' = asked \cup {t} /\ told[t] = "none"
    BY <1>3, <2>1, ConversationsAssumption DEF Asked
  <2>3. answer' = answer /\ told' = told
    BY <1>3, <2>1 DEF Asked
  <2> QED
    BY <2>2, <2>3 DEF Contract!ContractNext, Contract!Ask
<1>6. CASE Answering(t, q)
  <2>1. PICK text \in {"whole", "part", "sorry"} : Answered(turn[t], q, text)
    BY <1>6 DEF Answering
  <2>2. t \in asked /\ asked' = asked /\ told[t] = "none" /\ answer[t] = "none"
    BY <1>3, <2>1, ConversationsAssumption DEF Answered
  <2>3. answer' = [answer EXCEPT ![t] = text] /\ told' = told
    BY <1>3, <1>4, <2>1 DEF Answered
  <2> QED
    BY <2>2, <2>3 DEF Contract!ContractNext, Contract!Keep
<1>7. CASE Settling(t, q)
  <2>1. Settled(turn[t], q)
    BY <1>7 DEF Settling
  <2>2. asked' = asked /\ answer' = answer
    BY <1>3, <2>1 DEF Settled
  <2>3. CASE q.told = turn[t].told
    <3>1. told' = told
      BY <1>3, <2>3
    <3> QED
      BY <2>2, <3>1 DEF Contract!contractVars
  <2>4. CASE /\ turn[t].told = "none"
             /\ \/ q.told = "error"
                \/ q.told = "done" /\ turn[t].answer # "none"
    <3>1. told[t] = "none" /\ answer[t] = turn[t].answer
      BY <2>4
    <3> QED
      BY <1>4, <2>2, <2>4, <3>1 DEF Contract!ContractNext, Contract!Tell
  <2> QED
    BY <2>1, <2>3, <2>4 DEF Settled
<1> QED
  BY <1>1, <1>5, <1>6, <1>7

(* Every endpoint implements the contract of a turn: answered at most      *)
(* once, after its question, with one verdict that is true and final.      *)
THEOREM ImplementsContract == Spec => KeepsChatContract
<1>1. Init => Contract!ContractInit
  BY NewTurnFields DEF Init, Contract!ContractInit
<1>2. IInv /\ [Next]_vars => [Contract!ContractNext]_(Contract!contractVars)
  <2> SUFFICES ASSUME IInv, [Next]_vars
               PROVE  Contract!ContractNext \/ UNCHANGED Contract!contractVars
    OBVIOUS
  <2>1. ASSUME NEW t \in Turn, Requests(t) \/ TurnStep(t) \/ Disturb(t)
        PROVE  Contract!ContractNext \/ UNCHANGED Contract!contractVars
    BY <2>1, StepEffect, EffectContract
  <2>2. CASE UNCHANGED turn
    BY <2>2 DEF Contract!contractVars
  <2> QED
    BY <2>1, <2>2 DEF Next, vars
<1> QED
  BY <1>1, <1>2, Invariance, PTL DEF Spec, KeepsChatContract, Contract!ContractSpec

-----------------------------------------------------------------------------
(***************************************************************************)
(* The answer of agent_chat.                                               *)
(***************************************************************************)

(* A conversation that was opened stays known, and a deleted one deleted.  *)
Remembers ==
    \A c \in Conv :
        /\ conv[c].status # "absent" => conv'[c].status # "absent"
        /\ conv[c].status = "deleted" => conv'[c].status = "deleted"

(* A turn of agent_chat streams nothing, its conversation is a known one,  *)
(* and it ends without an answer only if that was deleted.                 *)
Known(t) == turn[t].home # NoConv => conv[turn[t].home].status # "absent"

Streamless(t) == turn[t].path = "send" => turn[t].pc \notin {"stream", "yield", "last"}

Excused(t) ==
    turn[t].path = "send" /\ turn[t].pc = "end" /\ turn[t].home # NoConv
    /\ turn[t].answer = "none" => conv[turn[t].home].status = "deleted"

AnswersOK == \A t \in Turn : Known(t) /\ Streamless(t) /\ Excused(t)

LEMMA StoreRemembers ==
    ASSUME StoreTypeOK, StoreNext
    PROVE  Remembers
<1>1. CASE \E c \in Conv : Delete(c)
  <2>1. \A d \in Conv :
          conv'[d] = [status |-> "deleted", parent |-> NoConv] \/ conv'[d] = conv[d]
    BY <1>1, Zenon DEF Delete
  <2> QED
    BY <2>1 DEF Remembers
<1>2. CASE \E c \in Conv : Detach(c)
  BY <1>2 DEF Detach, Remembers, StoreTypeOK, Rows
<1>3. CASE BranchWrite
  BY <1>3 DEF BranchWrite, Remembers, StoreTypeOK, Rows, Fresh
<1>4. CASE UNCHANGED conv
  BY <1>4 DEF Remembers
<1> QED
  BY <1>1, <1>2, <1>3, <1>4 DEF StoreNext, Truncate, BranchRead

LEMMA KeepsRemembers ==
    ASSUME StoreTypeOK, NEW c \in Conv, NEW m, Keeps(c, m) \/ Opens(c, m)
    PROVE  Remembers /\ conv'[c].status = "live"
<1>1. CASE Keeps(c, m)
  BY <1>1 DEF Keeps, Remembers, Live
<1>2. CASE Opens(c, m)
  <2>1. /\ conv[c].status = "absent" /\ conv'[c] = [status |-> "live", parent |-> NoConv]
        /\ \A d \in Conv \ {c} : conv'[d] = conv[d]
    BY <1>2 DEF Opens, Fresh, StoreTypeOK
  <2> QED
    BY <2>1 DEF Remembers
<1> QED
  BY <1>1, <1>2

LEMMA EffectRemembers ==
    ASSUME IInv, NEW t \in Turn, Effect(t)
    PROVE  /\ Remembers
           /\ \A s \in Turn \ {t} : turn'[s] = turn[s]
           /\ turn'[t].home = turn[t].home \/ conv'[turn'[t].home].status = "live"
<1>1. PICK q : Moves(t, q) /\ (Asking(t, q) \/ Answering(t, q) \/ Settling(t, q))
  BY DEF Effect
<1>2. /\ turn \in [Turn -> TurnStates] /\ turn' = [turn EXCEPT ![t] = q] /\ StoreTypeOK
  BY <1>1 DEF IInv, TypeOK, Moves
<1>3. turn'[t] = q /\ \A s \in Turn \ {t} : turn'[s] = turn[s]
  BY <1>2
<1>4. CASE Asking(t, q)
  <2>1. PICK c \in Conv : q.home = c /\ (Keeps(c, Question(t)) \/ Opens(c, Question(t)))
    BY <1>4 DEF Asking, Asked
  <2> QED
    BY <1>2, <1>3, <2>1, KeepsRemembers
<1>5. CASE Answering(t, q)
  <2>1. /\ q.home = turn[t].home /\ turn[t].home \in Conv
        /\ \E m : Keeps(turn[t].home, m)
    BY <1>5 DEF Answering, Answered
  <2> QED
    BY <1>2, <1>3, <2>1, KeepsRemembers
<1>6. CASE Settling(t, q)
  BY <1>3, <1>6 DEF Settling, Settled, storeVars, Remembers
<1> QED
  BY <1>1, <1>4, <1>5, <1>6

(* Only four kinds of steps leave a turn at agent_chat, and one of them    *)
(* may end it.                                                             *)
(* The end of a turn leaves its path as it was.                            *)
LEMMA EndsPath ==
    ASSUME IInv, NEW t \in Turn
    PROVE  /\ \A answer, told : Over(t, answer, told).path = turn[t].path
           /\ \A v : Ends(t, v) => turn'[t].path = turn[t].path
           /\ Stops(t) => turn'[t].path = turn[t].path
<1>1. NewTurn \in TurnStates /\ turn \in [Turn -> TurnStates]
  BY FieldTypes DEF IInv, TypeOK
<1>2. ASSUME NEW answer, NEW told
      PROVE  Over(t, answer, told).path = turn[t].path
  BY <1>1 DEF Over, TurnStates
<1>3. ASSUME NEW v, Ends(t, v)
      PROVE  turn'[t].path = turn[t].path
  <2>1. PICK told : turn' = [turn EXCEPT ![t] = Over(t, turn[t].answer, told)]
    BY <1>3 DEF Ends
  <2> QED
    BY <1>1, <1>2, <2>1
<1>4. ASSUME Stops(t)
      PROVE  turn'[t].path = turn[t].path
  <2>1. turn'[t] = Over(t, turn[t].answer, "none")
    BY <1>1, <1>4 DEF Stops
  <2> QED
    BY <1>2, <2>1
<1> QED
  BY <1>2, <1>3, <1>4

LEMMA AnswersPath ==
    ASSUME IInv, NEW t \in Turn, NEW text, NEW stopped, NEW next,
           Answers(t, text, stopped, next)
    PROVE  turn'[t].path = turn[t].path
<1>1. turn[t] \in TurnStates /\ turn \in [Turn -> TurnStates]
  BY DEF IInv, TypeOK
<1>2. CASE turn' = [turn EXCEPT ![t].answer = text, ![t].pc = next,
                                ![t].got = 0, ![t].sees = FALSE]
  BY <1>1, <1>2 DEF TurnStates
<1>3. CASE Fails(t)
  BY <1>3, EndsPath DEF Fails
<1> QED
  BY <1>2, <1>3 DEF Answers

LEMMA StepPath ==
    ASSUME IInv, NEW t \in Turn, TurnStep(t) \/ Disturb(t), turn'[t].path = "send"
    PROVE  turn[t].path = "send"
<1>1. turn[t] \in TurnStates /\ turn \in [Turn -> TurnStates]
  BY DEF IInv, TypeOK
<1>2. CASE Gather(t) \/ Decide(t) \/ RunTools(t) \/ ToolsFail(t) \/ Taken(t) \/ SessionTurns(t)
  BY <1>1, <1>2 DEF Gather, Decide, RunTools, ToolsFail, LeavesLoop, Taken, Goes, SessionTurns,
     TurnStates
<1>3. CASE AgentAnswer(t) \/ SseFinish(t) \/ KbFinish(t) \/ WsFinish(t)
  BY <1>3, AnswersPath DEF AgentAnswer, SseFinish, KbFinish, WsFinish
<1>4. CASE Reply(t) \/ LastTaken(t) \/ WsDone(t) \/ StreamFails(t)
  BY <1>4, EndsPath DEF Reply, LastTaken, WsDone, StreamFails, Fails
<1>5. CASE StreamRoute(t) \/ MediaRoute(t) \/ KbRoute(t)
  <2>1. PICK path, pc : Routes(t, path, pc)
    BY <1>5 DEF StreamRoute, MediaRoute, KbRoute
  <2>2. CASE turn' = [turn EXCEPT ![t].pc = pc, ![t].sees = FALSE]
    BY <1>1, <2>2 DEF TurnStates
  <2>3. CASE Fails(t)
    BY <2>3, EndsPath DEF Fails
  <2> QED
    BY <2>1, <2>2, <2>3 DEF Routes
<1>6. CASE \E paths, next : Chunk(t, paths, next)
  BY <1>1, <1>6 DEF Chunk, TurnStates
<1>7. CASE WsChunk(t) /\ ~\E paths, next : Chunk(t, paths, next)
  <2>1. PICK text : Answers(t, text, TRUE, "store")
    BY <1>7 DEF WsChunk
  <2> QED
    BY <2>1, AnswersPath
<1>8. CASE StreamClose(t) \/ KbCancel(t)
  BY <1>8, EndsPath DEF StreamClose, KbCancel
<1>9. CASE SseCancel(t)
  <2>1. CASE turn' = [turn EXCEPT ![t] = Over(t, Received(t), "none")]
    BY <1>1, <2>1, EndsPath
  <2>2. CASE Stops(t)
    BY <2>2, EndsPath
  <2> QED
    BY <1>9, <2>1, <2>2 DEF SseCancel
<1>10. CASE Timeout(t)
  <2>1. CASE Ends(t, "error")
    BY <2>1, EndsPath
  <2>2. CASE turn' = [turn EXCEPT ![t] =
                 [NewTurn EXCEPT !.pc = "end", !.path = "agent", !.told = "error"]]
    <3>1. NewTurn \in TurnStates
      BY FieldTypes
    <3>2. turn'[t].path = "agent"
      BY <1>1, <2>2, <3>1 DEF TurnStates
    <3> QED
      BY <3>2
  <2> QED
    BY <1>10, <2>1, <2>2 DEF Timeout
<1> QED
  BY <1>2, <1>3, <1>4, <1>5, <1>6, <1>7, <1>8, <1>9, <1>10 DEF TurnStep, Disturb, SseChunk, KbChunk

LEMMA OtherPaths ==
    ASSUME IInv, AnswersOK, NEW t \in Turn, TurnStep(t) \/ Disturb(t), turn'[t].path = "send"
    PROVE  \/ Gather(t) \/ Decide(t) \/ RunTools(t) \/ ToolsFail(t)
           \/ AgentAnswer(t) \/ Reply(t)
<1>1. turn[t] \in TurnStates /\ turn \in [Turn -> TurnStates] /\ Streamless(t)
  BY DEF IInv, TypeOK, AnswersOK
<1>2. turn[t].path = "send"
  BY StepPath
<1>3. CASE turn[t].path = "send" /\ TurnStep(t)
  BY <1>1, <1>3 DEF TurnStep, StreamRoute, MediaRoute, KbRoute, Routes, SseChunk, KbChunk,
     WsChunk, Chunk, Taken, LastTaken, StreamFails, SseFinish, KbFinish, WsFinish, WsDone, At,
     Sse, Streamless
<1>4. CASE turn[t].path = "send" /\ Disturb(t)
  <2>1. CASE Timeout(t)
    <3>1. turn' = [turn EXCEPT ![t] = RefusedTurn("agent")]
      BY <1>4, <2>1, Zenon DEF Timeout, RefusedTurn
    <3>2. NewTurn \in TurnStates
      BY FieldTypes
    <3>3. turn'[t].path = "agent"
      BY <1>1, <3>1, <3>2 DEF RefusedTurn, TurnStates
    <3> QED
      BY <3>3
  <2> QED
    BY <1>1, <1>4, <2>1 DEF Disturb, SseCancel, KbCancel, StreamClose, SessionTurns, At, Sse,
       Streamless
<1> QED
  BY <1>2, <1>3, <1>4

LEMMA SendSteps ==
    ASSUME IInv, AnswersOK, NEW t \in Turn, Requests(t) \/ TurnStep(t) \/ Disturb(t),
           turn'[t].path = "send"
    PROVE  /\ turn'[t].pc \notin {"stream", "yield", "last"}
           /\ turn'[t].pc = "end" /\ turn'[t].home # NoConv /\ turn'[t].answer = "none" =>
                conv[turn'[t].home].status # "live" /\ turn'[t].home = turn[t].home
                /\ UNCHANGED conv
<1>1. turn[t] \in TurnStates /\ turn \in [Turn -> TurnStates] /\ Stage(turn[t])
      /\ NewTurn \in TurnStates /\ Streamless(t)
  BY FieldTypes DEF IInv, TypeOK, StagesOK, AnswersOK
<1>2. CASE Requests(t)
  <2>1. CASE Refuse(t)
    BY <1>1, <2>1, NewTurnFields DEF Refuse, TurnStates
  <2>2. CASE ~Refuse(t)
    <3>1. PICK c \in Conv, path \in Paths, recalled \in BOOLEAN, pc \in {"gather", "route"} :
            Asks(t, c, path, recalled, pc)
      BY <1>2, <2>2 DEF Requests, AgentAsk, StreamAsk, MediaAsk, KbAsk, Paths, Agent, Whole
    <3>2. CASE UNCHANGED storeVars /\ turn' = [turn EXCEPT ![t] = RefusedTurn(path)]
      <4>1. turn'[t] = RefusedTurn(path) /\ RefusedTurn(path).home = NoConv
            /\ RefusedTurn(path).pc = "end"
        BY <1>1, <3>2, RefusedType DEF Reads
      <4> QED
        BY <4>1
    <3>3. CASE turn' = [turn EXCEPT ![t] = BegunTurn(pc, path, c, recalled,
                                                     path \in {"media", "kb"})]
      <4> DEFINE sees == path \in {"media", "kb"}
                 q == BegunTurn(pc, path, c, recalled, sees)
      <4>1. sees \in BOOLEAN
        OBVIOUS
      <4>2. turn'[t] = q
        BY <1>1, <3>3
      <4> HIDE DEF sees
      <4>3. Reads(q, pc, c, "none", "none")
        BY <4>1, BegunType, Zenon
      <4> HIDE DEF q
      <4> QED
        BY <4>2, <4>3 DEF Reads
    <3> QED
      BY <3>1, <3>2, <3>3, Zenon DEF Asks, BegunTurn, RefusedTurn
  <2> QED
    BY <2>1, <2>2
<1>3. CASE Gather(t) \/ Decide(t) \/ RunTools(t) \/ ToolsFail(t)
  BY <1>1, <1>3 DEF Gather, Decide, RunTools, ToolsFail, Goes, LeavesLoop, TurnStates
<1>4. CASE AgentAnswer(t)
  <2>1. PICK text \in {"whole", "sorry"} : Answers(t, text, FALSE, "store")
    BY <1>4 DEF AgentAnswer
  <2>2. CASE turn' = [turn EXCEPT ![t].answer = text, ![t].pc = "store",
                                  ![t].got = 0, ![t].sees = FALSE]
    BY <1>1, <2>2 DEF TurnStates
  <2>3. CASE ~Live(turn[t].home) /\ Fails(t)
    <3>1. PICK told \in {"none", "error"} :
            turn' = [turn EXCEPT ![t] = Over(t, turn[t].answer, told)]
      BY <2>3 DEF Fails, Ends
    <3>2. turn'[t] = Over(t, turn[t].answer, told)
      BY <1>1, <3>1
    <3>3. turn[t].answer \in {"none", "whole", "part", "sorry"}
      BY <1>1 DEF TurnStates
    <3>4. Reads(Over(t, turn[t].answer, told), "end", turn[t].home, turn[t].answer, told)
      BY <3>3, OverFields, Zenon
    <3>5. turn'[t].home = turn[t].home /\ turn'[t].pc = "end"
      BY <3>2, <3>4 DEF Reads
    <3> QED
      BY <2>3, <3>5 DEF Fails, storeVars, Live
  <2> QED
    BY <2>1, <2>2, <2>3 DEF Answers
<1>5. CASE Reply(t)
  <2>1. PICK told \in {"none", "done"} :
          turn' = [turn EXCEPT ![t] = Over(t, turn[t].answer, told)]
    BY <1>5 DEF Reply, Ends
  <2>2. turn'[t] = Over(t, turn[t].answer, told)
    BY <1>1, <2>1
  <2>3. turn[t].answer \in {"none", "whole", "part", "sorry"} /\ turn[t].answer # "none"
    BY <1>1, <1>5 DEF TurnStates, Reply, At, Stage, Late
  <2>4. Reads(Over(t, turn[t].answer, told), "end", turn[t].home, turn[t].answer, told)
    BY <2>3, OverFields, Zenon
  <2> QED
    BY <2>2, <2>3, <2>4 DEF Reads
<1> QED
  BY <1>2, <1>3, <1>4, <1>5, OtherPaths

LEMMA AnswersInvariant == IInv /\ AnswersOK /\ [Next]_vars => AnswersOK'
<1> SUFFICES ASSUME IInv, AnswersOK, [Next]_vars PROVE AnswersOK'
  OBVIOUS
<1>1. turn \in [Turn -> TurnStates] /\ StoreTypeOK
  BY DEF IInv, TypeOK
<1>2. \A t \in Turn : turn[t].home \in Conv \cup {NoConv}
  BY <1>1 DEF TurnStates
<1>3. ASSUME NEW t \in Turn, Requests(t) \/ TurnStep(t) \/ Disturb(t) PROVE AnswersOK'
  <2>1. Effect(t)
    BY <1>3, StepEffect
  <2>2. /\ Remembers /\ \A s \in Turn \ {t} : turn'[s] = turn[s]
        /\ turn'[t].home = turn[t].home \/ conv'[turn'[t].home].status = "live"
    BY <2>1, EffectRemembers
  <2>3. ASSUME NEW s \in Turn \ {t} PROVE (Known(s) /\ Streamless(s) /\ Excused(s))'
    BY <1>2, <2>2, <2>3 DEF AnswersOK, Known, Streamless, Excused, Remembers
  <2>4. Known(t)'
    BY <1>2, <2>2 DEF AnswersOK, Known, Remembers
  <2>5. CASE turn'[t].path = "send"
    <3>1. /\ turn'[t].pc \notin {"stream", "yield", "last"}
          /\ turn'[t].pc = "end" /\ turn'[t].home # NoConv /\ turn'[t].answer = "none" =>
               conv[turn'[t].home].status # "live" /\ turn'[t].home = turn[t].home
               /\ UNCHANGED conv
      BY <1>3, <2>5, SendSteps
    <3>2. \A c \in Conv : conv[c].status \in {"absent", "live", "deleted"}
      BY <1>1 DEF StoreTypeOK, Rows
    <3>3. Streamless(t)' /\ Excused(t)'
      BY <1>2, <3>1, <3>2 DEF AnswersOK, Known, Streamless, Excused
    <3> QED
      BY <2>3, <2>4, <3>3 DEF AnswersOK
  <2>6. CASE turn'[t].path # "send"
    BY <2>3, <2>4, <2>6 DEF AnswersOK, Streamless, Excused
  <2> QED
    BY <2>5, <2>6
<1>4. CASE StoreNext /\ UNCHANGED turn
  <2>1. Remembers
    BY <1>1, <1>4, StoreRemembers
  <2> QED
    BY <1>2, <1>4, <2>1 DEF AnswersOK, Known, Streamless, Excused, Remembers
<1>5. CASE UNCHANGED vars
  BY <1>5 DEF vars, AnswersOK, Known, Streamless, Excused
<1> QED
  BY <1>3, <1>4, <1>5 DEF Next

(* agent_chat comes to an answer or an apology whatever fails on its way,  *)
(* unless the conversation was deleted.                                    *)
THEOREM AlwaysAnswers == Spec => []AgentChatAnswers
<1>1. Init => AnswersOK
  BY NewTurnFields DEF Init, AnswersOK, Known, Streamless, Excused
<1>2. AnswersOK => AgentChatAnswers
  BY DEF AnswersOK, Excused, AgentChatAnswers, Live
<1> QED
  BY <1>1, <1>2, AnswersInvariant, Invariance, PTL DEF Spec

=============================================================================
