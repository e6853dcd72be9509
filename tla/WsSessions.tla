------------------------------ MODULE WsSessions ------------------------------
(***************************************************************************)
(* services/ws_manager.py with the WebSocket endpoint of routes/agent.py:  *)
(* the registry of sessions, the endpoint coroutine of each socket, the    *)
(* generation that a socket asked for, and the keepalive loop.  All of     *)
(* them run on one event loop and interleave where they wait: for a        *)
(* message, for a chunk of the answer, and inside ws.send_json.            *)
(*                                                                         *)
(* A socket is used once; a client that reconnects opens another socket    *)
(* with the same session id.  Times are ages: how long ago an entry was    *)
(* written, up to Cap, beyond which the code sees no difference.           *)
(***************************************************************************)
EXTENDS Integers, FiniteSets

CONSTANTS
    Sids,           \* session ids
    Sockets,        \* WebSocket connections
    SidOf,          \* [Sockets -> Sids]
    NoSocket, NoTime,
    MaxSessions,    \* MAX_SESSIONS, 100 in the code
    IdleTimeout,    \* IDLE_TIMEOUT_S, 30 min
    PingWait,       \* PING_WAIT_S, 10 s
    MaxLag,         \* bound on the time that one pass of the keepalive loop takes
    MaxChunks,      \* bound on the chunks of a generated answer
    Askers          \* bound: the sockets whose clients ask for an answer

ASSUME SessionsAssumption ==
    /\ Sids # {}
    /\ SidOf \in [Sockets -> Sids]
    /\ NoSocket \notin Sockets
    /\ NoTime \notin Int
    /\ MaxSessions \in Nat
    /\ IdleTimeout \in Nat
    /\ PingWait \in Nat
    /\ MaxLag \in Nat
    /\ MaxChunks \in Nat
    /\ Askers \subseteq Sockets

VARIABLES
    table,      \* _sessions
    activity,   \* the age of each _last_activity entry
    pinged,     \* the age of each _ping_sent_at entry
    gauge,      \* ws_sessions_active of services/observability.py
    socket,     \* the state of each connection
    endpoint,   \* the endpoint coroutine of each socket
    chat,       \* the generation that each socket asked for
    loop        \* the keepalive loop

vars == <<table, activity, pinged, gauge, socket, endpoint, chat, loop>>

Cap == IdleTimeout + PingWait + MaxLag + 1

Ages == 0 .. Cap

Registered == {sid \in Sids : table[sid] # NoSocket}

(* ws is the socket that a coroutine holds while it waits in send_json;    *)
(* a chunk that is being sent is followed by others, a notice of an error  *)
(* or the final "done" by the end.  It is storing once the answer is saved *)
(* and memories and events are not.                                        *)
Chats ==
    [phase : {"none", "generating", "sending", "storing", "failing", "finishing", "ended"},
     ws : Sockets \cup {NoSocket},
     chunks : 0 .. MaxChunks,
     saved : {"nothing", "partial", "full"}]

Loops ==
    [phase : {"asleep", "visiting", "pinging"},
     todo : SUBSET Sids,
     sid : Sids,
     ws : Sockets \cup {NoSocket},
     lag : 0 .. MaxLag]

(* Every variable has a value of its type.                                 *)
TypeOK ==
    /\ table \in [Sids -> Sockets \cup {NoSocket}]
    /\ activity \in [Sids -> Ages \cup {NoTime}]
    /\ pinged \in [Sids -> Ages \cup {NoTime}]
    /\ gauge \in Nat
    /\ socket \in [Sockets -> {"new", "open", "left", "closed"}]
    /\ endpoint \in [Sockets -> {"none", "receiving", "ended"}]
    /\ chat \in [Sockets -> Chats]
    /\ loop \in Loops

Init ==
    /\ table = [sid \in Sids |-> NoSocket]
    /\ activity = [sid \in Sids |-> NoTime]
    /\ pinged = [sid \in Sids |-> NoTime]
    /\ gauge = 0
    /\ socket = [s \in Sockets |-> "new"]
    /\ endpoint = [s \in Sockets |-> "none"]
    /\ chat = [s \in Sockets |-> [phase |-> "none", ws |-> NoSocket, chunks |-> 0,
                                  saved |-> "nothing"]]
    /\ loop = [phase |-> "asleep", todo |-> {}, sid |-> CHOOSE sid \in Sids : TRUE,
               ws |-> NoSocket, lag |-> 0]

-----------------------------------------------------------------------------
(***************************************************************************)
(* The methods of WebSocketManager.                                        *)
(***************************************************************************)

Full == Cardinality(Registered) >= MaxSessions

Register(sid, s) ==
    /\ table' = [table EXCEPT ![sid] = s]
    /\ activity' = [activity EXCEPT ![sid] = 0]
    /\ pinged' = [pinged EXCEPT ![sid] = NoTime]
    /\ gauge' = gauge + 1

(* Faulty variant: the gauge falls although nothing was registered.        *)
UnregisterUncounted(sid) ==
    /\ table' = [table EXCEPT ![sid] = NoSocket]
    /\ activity' = [activity EXCEPT ![sid] = NoTime]
    /\ pinged' = [pinged EXCEPT ![sid] = NoTime]
    /\ gauge' = gauge - 1

(* Whatever socket holds the session goes.                                 *)
Unregister(sid) ==
    /\ table' = [table EXCEPT ![sid] = NoSocket]
    /\ activity' = [activity EXCEPT ![sid] = NoTime]
    /\ pinged' = [pinged EXCEPT ![sid] = NoTime]
    /\ gauge' = IF sid \in Registered THEN gauge - 1 ELSE gauge

(* Faulty variant: the ping stays pending.                                 *)
TouchKeepsPing(sid) ==
    /\ activity' = IF sid \in Registered THEN [activity EXCEPT ![sid] = 0] ELSE activity
    /\ UNCHANGED pinged

Touch(sid) ==
    IF sid \in Registered
    THEN /\ activity' = [activity EXCEPT ![sid] = 0]
         /\ pinged' = [pinged EXCEPT ![sid] = NoTime]
    ELSE UNCHANGED <<activity, pinged>>

(* _safe_close.                                                            *)
Closed(ws) == IF ws = NoSocket THEN socket ELSE [socket EXCEPT ![ws] = "closed"]

(* send_json raises on a socket that the server has closed; on one that    *)
(* the client has left it may or may not have been noticed.                *)
MaySend(ws) == socket[ws] \in {"open", "left"}

MayFail(ws) == socket[ws] \in {"left", "closed"}

-----------------------------------------------------------------------------
(***************************************************************************)
(* The endpoint.                                                           *)
(***************************************************************************)
Connect(s) ==
    /\ socket[s] = "new"
    /\ ~Full
    /\ Register(SidOf[s], s)
    /\ socket' = [socket EXCEPT ![s] = "open"]
    /\ endpoint' = [endpoint EXCEPT ![s] = "receiving"]
    /\ UNCHANGED <<chat, loop>>

(* Code 4003: the endpoint returns before its try block.                   *)
TurnAway(s) ==
    /\ socket[s] = "new"
    /\ Full
    /\ socket' = [socket EXCEPT ![s] = "closed"]
    /\ endpoint' = [endpoint EXCEPT ![s] = "ended"]
    /\ UNCHANGED <<table, activity, pinged, gauge, chat, loop>>

(* A pong, or any message that asks for nothing.                           *)
ReceivePong(s) ==
    /\ endpoint[s] = "receiving" /\ socket[s] = "open"
    /\ Touch(SidOf[s])
    /\ UNCHANGED <<table, gauge, socket, endpoint, chat, loop>>

(* A "chat" message starts a task of its own (at most one per socket).     *)
ReceiveChat(s) ==
    /\ s \in Askers
    /\ endpoint[s] = "receiving" /\ socket[s] = "open"
    /\ chat[s].phase = "none"
    /\ Touch(SidOf[s])
    /\ chat' = [chat EXCEPT ![s].phase = "generating"]
    /\ UNCHANGED <<table, gauge, socket, endpoint, loop>>

ClientLeaves(s) ==
    /\ socket[s] = "open"
    /\ socket' = [socket EXCEPT ![s] = "left"]
    /\ UNCHANGED <<table, activity, pinged, gauge, endpoint, chat, loop>>

(* receive_json raises: the client left, the server closed the socket, or  *)
(* the message is no JSON.  The finally block unregisters the session id.  *)
EndpointEnds(s) ==
    /\ endpoint[s] = "receiving"
    /\ endpoint' = [endpoint EXCEPT ![s] = "ended"]
    /\ Unregister(SidOf[s])
    /\ socket' = Closed(s)
    /\ UNCHANGED <<chat, loop>>

-----------------------------------------------------------------------------
(***************************************************************************)
(* _handle_ws_chat, the task of a generation.                              *)
(***************************************************************************)

(* Partial answers are saved when the session is found gone.               *)
StopGenerating(s) ==
    chat' = [chat EXCEPT ![s] = [@ EXCEPT !.phase = "storing", !.ws = NoSocket,
                                          !.saved = "partial"]]

(* A chunk arrives for a session that nobody holds: send returns at once.  *)
ChunkForNobody(s) ==
    /\ chat[s].phase = "generating"
    /\ SidOf[s] \notin Registered
    /\ StopGenerating(s)
    /\ UNCHANGED <<table, activity, pinged, gauge, socket, endpoint, loop>>

ChunkArrives(s) ==
    /\ chat[s].phase = "generating"
    /\ SidOf[s] \in Registered
    /\ chat[s].chunks < MaxChunks
    /\ chat' = [chat EXCEPT ![s].phase = "sending", ![s].ws = table[SidOf[s]],
                            ![s].chunks = @ + 1]
    /\ UNCHANGED <<table, activity, pinged, gauge, socket, endpoint, loop>>

(* send_json returned; the session may have gone meanwhile.                *)
ChunkSent(s) ==
    /\ chat[s].phase = "sending"
    /\ MaySend(chat[s].ws)
    /\ IF SidOf[s] \in Registered
       THEN chat' = [chat EXCEPT ![s].phase = "generating", ![s].ws = NoSocket]
       ELSE StopGenerating(s)
    /\ UNCHANGED <<table, activity, pinged, gauge, socket, endpoint, loop>>

(* send_json raised: the session is dropped, whoever holds it by now.      *)
ChunkNotSent(s) ==
    /\ chat[s].phase = "sending"
    /\ MayFail(chat[s].ws)
    /\ Unregister(SidOf[s])
    /\ socket' = Closed(chat[s].ws)
    /\ StopGenerating(s)
    /\ UNCHANGED <<endpoint, loop>>

(* The stream is over: the whole answer is saved.                          *)
AnswerComplete(s) ==
    /\ chat[s].phase = "generating"
    /\ chat' = [chat EXCEPT ![s].phase = "storing", ![s].saved = "full"]
    /\ UNCHANGED <<table, activity, pinged, gauge, socket, endpoint, loop>>

(* When the rest is stored, "done" is sent to whoever has the id by then,  *)
(* after a part of an answer as well.                                      *)
Stored(s) ==
    /\ chat[s].phase = "storing"
    /\ chat' = [chat EXCEPT ![s].ws = table[SidOf[s]],
                            ![s].phase = IF SidOf[s] \in Registered THEN "finishing" ELSE "ended"]
    /\ UNCHANGED <<table, activity, pinged, gauge, socket, endpoint, loop>>

DoneSent(s) ==
    /\ chat[s].phase = "finishing"
    /\ MaySend(chat[s].ws)
    /\ chat' = [chat EXCEPT ![s].phase = "ended", ![s].ws = NoSocket]
    /\ UNCHANGED <<table, activity, pinged, gauge, socket, endpoint, loop>>

DoneNotSent(s) ==
    /\ chat[s].phase = "finishing"
    /\ MayFail(chat[s].ws)
    /\ Unregister(SidOf[s])
    /\ socket' = Closed(chat[s].ws)
    /\ chat' = [chat EXCEPT ![s].phase = "ended", ![s].ws = NoSocket]
    /\ UNCHANGED <<endpoint, loop>>

(* The generation raises: send_error_and_close.                            *)
GenerationFails(s) ==
    /\ chat[s].phase \in {"generating", "storing"}
    /\ chat' = [chat EXCEPT ![s].ws = table[SidOf[s]],
                            ![s].phase = IF SidOf[s] \in Registered THEN "failing" ELSE "ended"]
    /\ UNCHANGED <<table, activity, pinged, gauge, socket, endpoint, loop>>

(* ... which closes whether or not the error was delivered.                *)
ErrorSentOrNot(s) ==
    /\ chat[s].phase = "failing"
    /\ Unregister(SidOf[s])
    /\ socket' = Closed(chat[s].ws)
    /\ chat' = [chat EXCEPT ![s].phase = "ended", ![s].ws = NoSocket]
    /\ UNCHANGED <<endpoint, loop>>

-----------------------------------------------------------------------------
(***************************************************************************)
(* _keepalive_loop.  The loop reads the clock once per pass; lag is how    *)
(* long ago that was.                                                      *)
(***************************************************************************)
LoopWakes ==
    /\ loop.phase = "asleep"
    /\ loop' = [loop EXCEPT !.phase = "visiting", !.todo = Registered]
    /\ UNCHANGED <<table, activity, pinged, gauge, socket, endpoint, chat>>

(* Faulty variant: a session that is gone counts as idle for ever.         *)
IdleForGone(sid) == IF activity[sid] = NoTime THEN Cap ELSE activity[sid] - loop.lag

(* A session that is gone by the time the loop comes to it is not idle.    *)
IdleFor(sid) == IF activity[sid] = NoTime THEN 0 ELSE activity[sid] - loop.lag

Visiting(sid) == loop.phase = "visiting" /\ sid \in loop.todo

Visited(sid) == [loop EXCEPT !.todo = @ \ {sid}]

PingTimesOut(sid) ==
    /\ Visiting(sid)
    /\ pinged[sid] # NoTime
    /\ pinged[sid] - loop.lag > PingWait
    /\ Unregister(sid)
    /\ socket' = Closed(table[sid])
    /\ loop' = Visited(sid)
    /\ UNCHANGED <<endpoint, chat>>

(* A ping is pending, or the session is not idle: nothing to do.           *)
LeaveAlone(sid) ==
    /\ Visiting(sid)
    /\ \/ pinged[sid] # NoTime /\ pinged[sid] - loop.lag <= PingWait
       \/ pinged[sid] = NoTime /\ IdleFor(sid) <= IdleTimeout
    /\ loop' = Visited(sid)
    /\ UNCHANGED <<table, activity, pinged, gauge, socket, endpoint, chat>>

(* Faulty variant: the ping is not remembered.                             *)
PingForgotten(sid) ==
    /\ Visiting(sid)
    /\ pinged[sid] = NoTime /\ IdleFor(sid) > IdleTimeout
    /\ loop' = [Visited(sid) EXCEPT !.phase = "pinging", !.sid = sid, !.ws = table[sid]]
    /\ UNCHANGED <<table, activity, pinged, gauge, socket, endpoint, chat>>

Ping(sid) ==
    /\ Visiting(sid)
    /\ pinged[sid] = NoTime /\ IdleFor(sid) > IdleTimeout
    /\ pinged' = [pinged EXCEPT ![sid] = loop.lag]
    /\ loop' = IF sid \in Registered
               THEN [Visited(sid) EXCEPT !.phase = "pinging", !.sid = sid, !.ws = table[sid]]
               ELSE Visited(sid)
    /\ UNCHANGED <<table, activity, gauge, socket, endpoint, chat>>

PingSent ==
    /\ loop.phase = "pinging"
    /\ MaySend(loop.ws)
    /\ loop' = [loop EXCEPT !.phase = "visiting", !.ws = NoSocket]
    /\ UNCHANGED <<table, activity, pinged, gauge, socket, endpoint, chat>>

PingNotSent ==
    /\ loop.phase = "pinging"
    /\ MayFail(loop.ws)
    /\ Unregister(loop.sid)
    /\ socket' = Closed(loop.ws)
    /\ loop' = [loop EXCEPT !.phase = "visiting", !.ws = NoSocket]
    /\ UNCHANGED <<endpoint, chat>>

PassEnds ==
    /\ loop.phase = "visiting"
    /\ loop.todo = {}
    /\ loop' = [loop EXCEPT !.phase = "asleep", !.lag = 0]
    /\ UNCHANGED <<table, activity, pinged, gauge, socket, endpoint, chat>>

LoopStep ==
    \/ LoopWakes \/ PingSent \/ PingNotSent \/ PassEnds
    \/ \E sid \in Sids : PingTimesOut(sid) \/ LeaveAlone(sid) \/ Ping(sid)

Older(age) == IF age = NoTime THEN NoTime ELSE IF age < Cap THEN age + 1 ELSE Cap

TimePasses ==
    /\ loop.phase # "asleep" => loop.lag < MaxLag
    /\ activity' = [sid \in Sids |-> Older(activity[sid])]
    /\ pinged' = [sid \in Sids |-> Older(pinged[sid])]
    /\ loop' = [loop EXCEPT !.lag = IF loop.phase = "asleep" THEN 0 ELSE @ + 1]
    /\ UNCHANGED <<table, gauge, socket, endpoint, chat>>

EndpointStep(s) ==
    \/ Connect(s) \/ TurnAway(s) \/ ReceivePong(s) \/ ReceiveChat(s)
    \/ ClientLeaves(s) \/ EndpointEnds(s)

ChatStep(s) ==
    \/ ChunkForNobody(s) \/ ChunkArrives(s) \/ ChunkSent(s) \/ ChunkNotSent(s)
    \/ AnswerComplete(s) \/ Stored(s) \/ DoneSent(s) \/ DoneNotSent(s)
    \/ GenerationFails(s) \/ ErrorSentOrNot(s)

Next ==
    \/ \E s \in Sockets : EndpointStep(s) \/ ChatStep(s)
    \/ LoopStep
    \/ TimePasses

Spec == Init /\ [][Next]_vars

(* The loop's sleeps and sends end, and so do those of the generations.    *)
FairSpec ==
    /\ Spec
    /\ WF_vars(LoopStep)
    /\ WF_vars(TimePasses)
    /\ \A s \in Sockets : WF_vars(ChatStep(s))

-----------------------------------------------------------------------------
(***************************************************************************)
(* Properties.                                                             *)
(***************************************************************************)

(* The three dictionaries agree at every await: an activity entry for each *)
(* session and for no other, a ping only for a session that exists.  The   *)
(* loop works from a list of ids that others may have removed meanwhile.   *)
(* The gauge is never negative, and all else has its type.                 *)
BookkeepingAgrees ==
    /\ TypeOK
    /\ \A sid \in Sids :
          /\ activity[sid] # NoTime <=> table[sid] # NoSocket
          /\ pinged[sid] # NoTime => table[sid] # NoSocket

(* A pending ping means that nothing was heard since, and for longer than  *)
(* the idle timeout before: a client that sends is never timed out, and a  *)
(* reconnection does not inherit the ping of the connection before it.     *)
PingMeansSilence ==
    \A sid \in Sids :
        pinged[sid] # NoTime =>
            activity[sid] = Cap \/ activity[sid] - pinged[sid] > IdleTimeout

(* A session from which nothing is heard any more leaves the registry:     *)
(* again and again it is gone or has just been heard.                      *)
SilenceIsNoticed ==
    \A sid \in Sids : []<>(table[sid] = NoSocket \/ activity[sid] = 0)

=============================================================================
