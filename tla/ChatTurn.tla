-------------------------------- MODULE ChatTurn --------------------------------
(***************************************************************************)
(* The turns of the chat, from the question to the stored answer, through  *)
(* each of the endpoints that serve them:                                  *)
(*                                                                         *)
(*   send   POST /api/chat/send              agent_chat                    *)
(*   agent  POST /api/agent/chat             agent_chat_orchestrated       *)
(*   sse    POST /api/chat/stream            agent_stream_chat             *)
(*   media  the same, with attachments       multimodal_stream_chat        *)
(*   ws     WS /api/agent/ws/{session}       agent_stream_chat             *)
(*   kb     POST /api/knowledge/../stream    kb_chat_stream                *)
(*                                                                         *)
(* An action runs from one await to the next.  The rows are those of       *)
(* Conversations, whose operations run between any two steps.              *)
(***************************************************************************)
EXTENDS Conversations

CONSTANTS
    MaxRounds,      \* max_tool_rounds
    MaxContext,     \* max_context_messages
    Chunks,         \* the chunks of a whole streamed answer
    Serves          \* bound: the endpoints that may serve each turn

VARIABLE turn       \* what each turn has come to

vars == <<conv, log, branch, branches, turn>>

Whole == {"send", "agent"}              \* answered in one piece
Sse == {"sse", "media"}                 \* the stream of routes/chat.py
Agent == Whole \cup {"sse", "ws"}       \* with context and tools
Paths == Agent \cup {"media", "kb"}

ASSUME ChatTurnAssumption ==
    /\ MaxRounds \in Nat \ {0}
    /\ MaxContext \in Nat \ {0}
    /\ Chunks \in Nat \ {0}
    /\ Serves \in [Turn -> SUBSET Paths]

TurnStates ==
    [pc : {"new", "gather", "decide", "tools", "route",
           "stream",        \* awaits the next chunk of the provider
           "yield",         \* the response takes over a chunk
           "last",          \* the response takes over the final event
           "store",         \* awaits the memory store, the answer is kept
           "end"},
     path : Paths, home : Conv \cup {NoConv},
     rounds : 0 .. MaxRounds - 1, got : 0 .. Chunks,
     recalled : BOOLEAN,    \* memories were found for the question
     sees : BOOLEAN,        \* the model to be asked is given the question
     gone : BOOLEAN,        \* the WebSocket session is not active
     answer : {"none", "whole", "part", "sorry"},
     told : {"none", "done", "error"}]

NewTurn ==
    [pc |-> "new", path |-> "send", home |-> NoConv, rounds |-> 0, got |-> 0,
     recalled |-> FALSE, sees |-> FALSE, gone |-> FALSE, answer |-> "none", told |-> "none"]

(* Every variable has a value of its type.                                 *)
TypeOK == StoreTypeOK /\ turn \in [Turn -> TurnStates]

Init == StoreInit /\ turn = [t \in Turn |-> NewTurn]

At(t, pc, paths) == turn[t].pc = pc /\ turn[t].path \in paths

Goes(t, pc) == turn' = [turn EXCEPT ![t].pc = pc]

(* The turn is over, its locals are gone.                                  *)
Over(t, answer, told) ==
    [NewTurn EXCEPT !.pc = "end", !.path = turn[t].path, !.home = turn[t].home,
                    !.answer = answer, !.told = told]

(* The client is told how it ended, a WebSocket client only if its session *)
(* is still there.                                                         *)
Ends(t, verdict) ==
    turn' = [turn EXCEPT ![t] =
        Over(t, turn[t].answer, IF turn[t].gone THEN "none" ELSE verdict)]

(* It ended without a word.                                                *)
Stops(t) == turn' = [turn EXCEPT ![t] = Over(t, turn[t].answer, "none")]

Fails(t) == Ends(t, "error") /\ UNCHANGED storeVars

(* The answer is committed; if the conversation is gone the commit fails   *)
(* and the turn with it.                                                   *)
Answers(t, text, stopped, next) ==
    \/ /\ Keeps(turn[t].home, Answer(t, text, stopped))
       /\ turn' = [turn EXCEPT ![t].answer = text, ![t].pc = next,
                               ![t].got = 0, ![t].sees = FALSE]
    \/ ~Live(turn[t].home) /\ Fails(t)

Received(t) == IF turn[t].got = Chunks THEN "whole" ELSE "part"

-----------------------------------------------------------------------------
(***************************************************************************)
(* The question.                                                           *)
(***************************************************************************)

(* The question is committed to a new conversation or to the one that the  *)
(* request names, which may have been deleted.                             *)
Asks(t, c, path, recalled, pc) ==
    /\ turn[t].pc = "new" /\ path \in Serves[t]
    /\ \/ /\ Keeps(c, Question(t)) \/ Opens(c, Question(t))
          /\ turn' = [turn EXCEPT ![t] =
                [NewTurn EXCEPT !.pc = pc, !.path = path, !.home = c,
                                !.recalled = recalled, !.sees = path \in {"media", "kb"}]]
       \/ /\ conv[c].status = "deleted"
          /\ turn' = [turn EXCEPT ![t] =
                [NewTurn EXCEPT !.pc = "end", !.path = path, !.told = "error"]]
          /\ UNCHANGED storeVars

(* Memories are looked for before the question is stored, and only in a    *)
(* conversation that the request names.                                    *)
AgentAsk(t, c) ==
    \/ Asks(t, c, "send", FALSE, "gather")
    \/ Asks(t, c, "agent", FALSE, "gather")
    \/ ~Fresh(c) /\ Asks(t, c, "agent", TRUE, "gather")

StreamAsk(t, c) == \E path \in {"sse", "ws"} : Asks(t, c, path, FALSE, "gather")

(* The prompt is built from the request.                                   *)
MediaAsk(t, c) == Asks(t, c, "media", FALSE, "route")

KbAsk(t, c) == Asks(t, c, "kb", FALSE, "route")

(* No model can see the image, or nothing could be retrieved: the request  *)
(* fails before the question is stored.                                    *)
Refuse(t) ==
    /\ turn[t].pc = "new"
    /\ \E path \in {"media", "kb"} \cap Serves[t] :
          turn' = [turn EXCEPT ![t] =
                [NewTurn EXCEPT !.pc = "end", !.path = path, !.told = "error"]]
    /\ UNCHANGED storeVars

-----------------------------------------------------------------------------
(***************************************************************************)
(* Context and tools.                                                      *)
(***************************************************************************)

(* The question is among the latest messages of its conversation.          *)
InContext(t) ==
    LET messages == log[turn[t].home]
    IN  \E i \in DOMAIN messages :
            messages[i] = Question(t) /\ i > Len(messages) - MaxContext

(* What the model is given, once the web and the documents were searched:  *)
(* the history that comes with the request, else that of the conversation. *)
Sees(t) == ~turn[t].recalled /\ InContext(t)

Gather(t) ==
    /\ At(t, "gather", Agent)
    /\ \E next \in {"decide", "route"} :
          turn' = [turn EXCEPT ![t].pc = next, ![t].sees = Sees(t), ![t].recalled = FALSE]
    /\ UNCHANGED storeVars

LeavesLoop(t) == turn' = [turn EXCEPT ![t].pc = "route", ![t].rounds = 0]

(* The decision engine asks for tools, or for none, or fails.              *)
Decide(t) ==
    /\ At(t, "decide", Agent)
    /\ Goes(t, "tools") \/ LeavesLoop(t)
    /\ UNCHANGED storeVars

(* Faulty variant: the rounds are counted from the wrong end.              *)
RunsToolsOnceMore(t) ==
    /\ At(t, "tools", Agent)
    /\ IF turn[t].rounds < MaxRounds
       THEN turn' = [turn EXCEPT ![t].rounds = @ + 1, ![t].pc = "decide"]
       ELSE LeavesLoop(t)
    /\ UNCHANGED storeVars

RunTools(t) ==
    /\ At(t, "tools", Agent)
    /\ IF turn[t].rounds + 1 < MaxRounds
       THEN turn' = [turn EXCEPT ![t].rounds = @ + 1, ![t].pc = "decide"]
       ELSE LeavesLoop(t)
    /\ UNCHANGED storeVars

(* The executor raises: the answer is given with what there is.            *)
ToolsFail(t) ==
    /\ At(t, "tools", Agent)
    /\ LeavesLoop(t)
    /\ UNCHANGED storeVars

-----------------------------------------------------------------------------
(***************************************************************************)
(* An answer in one piece.                                                 *)
(***************************************************************************)

(* Faulty variant: an error of the models is raised.                       *)
AgentRaises(t) ==
    /\ At(t, "route", Whole)
    /\ Answers(t, "whole", FALSE, "store") \/ Fails(t)

(* Whatever happened before, there is an answer: an apology if no model    *)
(* gave one.                                                               *)
AgentAnswer(t) ==
    /\ At(t, "route", Whole)
    /\ \E text \in {"whole", "sorry"} : Answers(t, text, FALSE, "store")

Reply(t) ==
    /\ At(t, "store", Whole)
    /\ Ends(t, "done")
    /\ UNCHANGED storeVars

(* Faulty variant: the answer is given up, but the pipeline goes on.       *)
TimeoutShielded(t) ==
    /\ turn[t].pc \notin {"new", "end"} /\ turn[t].path = "agent"
    /\ turn' = [turn EXCEPT ![t].told = "error"]
    /\ UNCHANGED storeVars

(* The orchestrated pipeline is cancelled at whichever await it is.        *)
Timeout(t) ==
    /\ \/ turn[t].pc \notin {"new", "end"} /\ turn[t].path = "agent" /\ Ends(t, "error")
       \/ /\ turn[t].pc = "new" /\ "agent" \in Serves[t]
          /\ turn' = [turn EXCEPT ![t] =
                [NewTurn EXCEPT !.pc = "end", !.path = "agent", !.told = "error"]]
    /\ UNCHANGED storeVars

-----------------------------------------------------------------------------
(***************************************************************************)
(* The streams.  Every await before the stream ends well or with an error. *)
(***************************************************************************)

Routes(t, path, pc) ==
    /\ At(t, "route", {path})
    /\ \/ turn' = [turn EXCEPT ![t].pc = pc, ![t].sees = FALSE] /\ UNCHANGED storeVars
       \/ Fails(t)

StreamRoute(t) == Routes(t, "sse", "yield") \/ Routes(t, "ws", "stream")

MediaRoute(t) == Routes(t, "media", "yield")

KbRoute(t) == Routes(t, "kb", "yield")

Chunk(t, paths, next) ==
    /\ At(t, "stream", paths)
    /\ turn[t].got < Chunks
    /\ turn' = [turn EXCEPT ![t].got = @ + 1, ![t].pc = next]
    /\ UNCHANGED storeVars

Taken(t) ==
    /\ At(t, "yield", Sse \cup {"kb"})
    /\ Goes(t, "stream")
    /\ UNCHANGED storeVars

StreamFails(t) == turn[t].pc = "stream" /\ Fails(t)

SseChunk(t) == Chunk(t, Sse, "yield")

SseFinish(t) ==
    /\ At(t, "stream", Sse)
    /\ turn[t].got = Chunks
    /\ Answers(t, "whole", FALSE, "last")

LastTaken(t) ==
    /\ turn[t].pc = "last"
    /\ Ends(t, "done")
    /\ UNCHANGED storeVars

(* Faulty variant: a client that leaves at the final event is taken to     *)
(* leave in the middle.                                                    *)
SseCancelLate(t) ==
    /\ At(t, "stream", Sse) \/ At(t, "last", Sse)
    /\ Keeps(turn[t].home, Answer(t, "part", TRUE))
    /\ turn' = [turn EXCEPT ![t] = Over(t, "part", "none")]

(* The client left while the generator awaits the provider: what there is  *)
(* of the answer is stored.                                                *)
SseCancel(t) ==
    /\ At(t, "stream", Sse)
    /\ \/ /\ turn[t].got > 0
          /\ Keeps(turn[t].home, Answer(t, Received(t), TRUE))
          /\ turn' = [turn EXCEPT ![t] = Over(t, Received(t), "none")]
       \/ /\ turn[t].got = 0 \/ ~Live(turn[t].home)
          /\ Stops(t)
          /\ UNCHANGED storeVars

(* The client left while the response takes over an event: the generator   *)
(* is closed where it is.                                                  *)
StreamClose(t) ==
    /\ turn[t].pc \in {"yield", "last"}
    /\ Stops(t)
    /\ UNCHANGED storeVars

KbChunk(t) == Chunk(t, {"kb"}, "yield")

KbFinish(t) ==
    /\ At(t, "stream", {"kb"})
    /\ turn[t].got = Chunks
    /\ Answers(t, "whole", FALSE, "last")

KbCancel(t) ==
    /\ At(t, "stream", {"kb"})
    /\ Stops(t)
    /\ UNCHANGED storeVars

(* Faulty variant: the stored piece is not marked.                         *)
WsChunkUnmarked(t) ==
    \/ ~turn[t].gone /\ Chunk(t, {"ws"}, "stream")
    \/ /\ turn[t].gone
       /\ At(t, "stream", {"ws"})
       /\ turn[t].got < Chunks
       /\ Answers(t, "part", FALSE, "store")

(* The token is sent.  If the session has gone, the answer stops here and  *)
(* what there is of it is stored.                                          *)
WsChunk(t) ==
    \/ ~turn[t].gone /\ Chunk(t, {"ws"}, "stream")
    \/ /\ turn[t].gone
       /\ At(t, "stream", {"ws"})
       /\ turn[t].got < Chunks
       /\ LET text == IF turn[t].got + 1 = Chunks THEN "whole" ELSE "part"
          IN  Answers(t, text, TRUE, "store")

WsFinish(t) ==
    /\ At(t, "stream", {"ws"})
    /\ turn[t].got = Chunks
    /\ Answers(t, "whole", FALSE, "store")

WsDone(t) ==
    /\ At(t, "store", {"ws"})
    /\ Ends(t, "done")
    /\ UNCHANGED storeVars

(* The client closes its socket, or connects again under the same session. *)
SessionTurns(t) ==
    /\ turn[t].path = "ws"
    /\ turn[t].pc \notin {"new", "end"}
    /\ turn' = [turn EXCEPT ![t].gone = ~@]
    /\ UNCHANGED storeVars

-----------------------------------------------------------------------------

(* What the program does for a turn once the request is there.             *)
TurnStep(t) ==
    \/ Gather(t) \/ Decide(t) \/ RunTools(t) \/ ToolsFail(t)
    \/ AgentAnswer(t) \/ Reply(t)
    \/ StreamRoute(t) \/ MediaRoute(t) \/ KbRoute(t)
    \/ SseChunk(t) \/ KbChunk(t) \/ WsChunk(t)
    \/ Taken(t) \/ LastTaken(t) \/ StreamFails(t)
    \/ SseFinish(t) \/ KbFinish(t) \/ WsFinish(t) \/ WsDone(t)

(* What the client and the clock do to it.                                 *)
Disturb(t) ==
    \/ Timeout(t) \/ SseCancel(t) \/ KbCancel(t) \/ StreamClose(t) \/ SessionTurns(t)

Requests(t) ==
    \/ Refuse(t)
    \/ \E c \in Conv : AgentAsk(t, c) \/ StreamAsk(t, c) \/ MediaAsk(t, c) \/ KbAsk(t, c)

Next ==
    \/ \E t \in Turn : Requests(t) \/ TurnStep(t) \/ Disturb(t)
    \/ StoreNext /\ UNCHANGED turn

Spec == Init /\ [][Next]_vars

-----------------------------------------------------------------------------
(***************************************************************************)
(* Properties.                                                             *)
(***************************************************************************)

(* Where the answer of a turn is, copies of branches apart.                *)
Kept(t) ==
    {p \in UNION {{c} \X DOMAIN log[c] : c \in Conv} :
        LET m == log[p[1]][p[2]]
        IN  m.turn = t /\ m.role = "assistant" /\ ~m.copy}

(* However a stream ends, is cancelled, closed or fails, and whatever is   *)
(* done to the conversations meanwhile, the messages hold at most one      *)
(* answer of a turn besides the copies of branches; it is in the           *)
(* conversation of the question and is what the turn stored.               *)
OneAnswerInPlace ==
    \A t \in Turn :
        /\ \A p, q \in Kept(t) : p = q
        /\ \A p \in Kept(t) :
            p[1] = turn[t].home /\ log[p[1]][p[2]].text = turn[t].answer

(* A reader of the messages can tell a piece of an answer from a whole     *)
(* one: a piece is marked as stopped when it is stored (routes/chat.py:285 *)
(* and routes/agent.py:213).                                               *)
PartsAreMarked ==
    \A t \in Turn : \A p \in Kept(t) :
        log[p[1]][p[2]].text = "part" => log[p[1]][p[2]].stopped

(* "Guarantee response generation even if all previous steps failed"       *)
(* (services/agent.py:890): a turn of agent_chat that was not cut off ends *)
(* with an answer or an apology, if its conversation is still there.       *)
AgentChatAnswers ==
    \A t \in Turn :
        /\ turn[t].path = "send" /\ turn[t].pc = "end"
        /\ turn[t].home # NoConv /\ Live(turn[t].home)
        => turn[t].answer # "none"

(* Seen from the client and the database, every endpoint implements the    *)
(* contract of a turn.                                                     *)
Contract == INSTANCE ChatContract WITH
    asked <- {t \in Turn : turn[t].home # NoConv},
    answer <- [t \in Turn |-> turn[t].answer],
    verdict <- [t \in Turn |-> turn[t].told]

KeepsChatContract == Contract!ContractSpec

(* Requirement 8.8 of full-stack-agent-orchestration has memories          *)
(* prepended to the prompt as context: the question itself is given to the *)
(* model whenever it is among the latest messages of the conversation.     *)
QuestionReachesModel ==
    [][\A t \in Turn :
        turn[t].pc = "gather" /\ turn'[t].pc \in {"decide", "route"} /\ InContext(t)
            => turn'[t].sees]_vars

=============================================================================
