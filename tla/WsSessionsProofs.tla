--------------------------- MODULE WsSessionsProofs ---------------------------
(***************************************************************************)
(* Proofs about WsSessions, for every set of sockets and session ids and   *)
(* every value of the limits and timeouts.                                 *)
(***************************************************************************)
EXTENDS WsSessions, FiniteSetTheorems, TLAPS

-----------------------------------------------------------------------------
(***************************************************************************)
(* The inductive invariant, in two halves.  Books is about what the        *)
(* methods of the manager write: the gauge counts connections, and a       *)
(* reconnection counts twice, so it is never below the number of sessions. *)
(* Coroutines is the types of what the coroutines write themselves.        *)
(***************************************************************************)
GaugeCovers ==
    /\ gauge \in Nat
    /\ IsFiniteSet(Registered)
    /\ Cardinality(Registered) <= gauge

Agree ==
    \A sid \in Sids :
        /\ activity[sid] # NoTime <=> table[sid] # NoSocket
        /\ pinged[sid] # NoTime => table[sid] # NoSocket

Books ==
    /\ table \in [Sids -> Sockets \cup {NoSocket}]
    /\ activity \in [Sids -> Ages \cup {NoTime}]
    /\ pinged \in [Sids -> Ages \cup {NoTime}]
    /\ Agree
    /\ PingMeansSilence
    /\ GaugeCovers

Coroutines ==
    /\ socket \in [Sockets -> {"new", "open", "left", "closed"}]
    /\ endpoint \in [Sockets -> {"none", "receiving", "ended"}]
    /\ chat \in [Sockets -> Chats]
    /\ loop \in Loops

IInv == Books /\ Coroutines

(* The assumptions on the constants, in the form the proofs use them.      *)
LEMMA ConstantTypes ==
    /\ SidOf \in [Sockets -> Sids]
    /\ NoSocket \notin Sockets
    /\ Cap \in Nat /\ IdleTimeout \in Nat /\ MaxLag \in Nat /\ MaxChunks \in Nat
    /\ MaxLag < Cap /\ IdleTimeout < Cap
    /\ NoTime \notin Ages
    /\ 0 \in Ages
  BY SessionsAssumption DEF Cap, Ages

LEMMA IInvImplies == IInv => BookkeepingAgrees /\ PingMeansSilence
  BY DEF IInv, Books, Coroutines, Agree, GaugeCovers, BookkeepingAgrees, TypeOK

-----------------------------------------------------------------------------
(***************************************************************************)
(* What the methods of the manager do to the books.                        *)
(***************************************************************************)
LEMMA UnregisterKeepsBooks ==
    ASSUME NEW sid \in Sids, Books, Unregister(sid)
    PROVE  Books'
<1> USE ConstantTypes
<1>1. /\ table' \in [Sids -> Sockets \cup {NoSocket}]
      /\ activity' \in [Sids -> Ages \cup {NoTime}]
      /\ pinged' \in [Sids -> Ages \cup {NoTime}]
  BY DEF Books, Unregister
<1>2. Agree'
  BY DEF Books, Agree, Unregister
<1>3. PingMeansSilence'
  BY DEF Books, PingMeansSilence, Unregister
<1>4. Registered' = Registered \ {sid}
  BY DEF Books, Registered, Unregister
<1>5. GaugeCovers'
  <2>1. IsFiniteSet(Registered) /\ Cardinality(Registered) \in Nat
    BY FS_CardinalityType DEF Books, GaugeCovers
  <2>2. CASE sid \in Registered
    <3>1. IsFiniteSet(Registered') /\ Cardinality(Registered') = Cardinality(Registered) - 1
      BY <1>4, <2>1, <2>2, FS_RemoveElement
    <3>2. gauge' = gauge - 1
      BY <2>2 DEF Unregister
    <3> QED
      BY <2>1, <3>1, <3>2, FS_CardinalityType DEF Books, GaugeCovers
  <2>3. CASE sid \notin Registered
    <3>1. Registered' = Registered
      BY <1>4, <2>3
    <3> QED
      BY <2>1, <2>3, <3>1 DEF Books, GaugeCovers, Unregister
  <2> QED
    BY <2>2, <2>3
<1> QED
  BY <1>1, <1>2, <1>3, <1>5 DEF Books

LEMMA RegisterKeepsBooks ==
    ASSUME NEW sid \in Sids, NEW s \in Sockets, Books, Register(sid, s)
    PROVE  Books'
<1> USE ConstantTypes
<1>1. /\ table' \in [Sids -> Sockets \cup {NoSocket}]
      /\ activity' \in [Sids -> Ages \cup {NoTime}]
      /\ pinged' \in [Sids -> Ages \cup {NoTime}]
  BY DEF Books, Register
<1>2. Agree'
  BY DEF Books, Agree, Register
<1>3. PingMeansSilence'
  BY DEF Books, PingMeansSilence, Register
<1>4. Registered' = Registered \cup {sid}
  BY DEF Books, Registered, Register
<1>5. GaugeCovers'
  <2>1. IsFiniteSet(Registered) /\ Cardinality(Registered) \in Nat
    BY FS_CardinalityType DEF Books, GaugeCovers
  <2>2. /\ IsFiniteSet(Registered')
        /\ \/ Cardinality(Registered') = Cardinality(Registered)
           \/ Cardinality(Registered') = Cardinality(Registered) + 1
    BY <1>4, <2>1, FS_AddElement
  <2> QED
    BY <2>1, <2>2 DEF Books, GaugeCovers, Register
<1> QED
  BY <1>1, <1>2, <1>3, <1>5 DEF Books

LEMMA TouchKeepsBooks ==
    ASSUME NEW sid \in Sids, Books, Touch(sid), UNCHANGED <<table, gauge>>
    PROVE  Books'
<1> USE ConstantTypes
<1>1. /\ table' \in [Sids -> Sockets \cup {NoSocket}]
      /\ activity' \in [Sids -> Ages \cup {NoTime}]
      /\ pinged' \in [Sids -> Ages \cup {NoTime}]
  BY DEF Books, Touch
<1>2. Agree'
  BY DEF Books, Agree, Touch, Registered
<1>3. PingMeansSilence'
  BY DEF Books, PingMeansSilence, Touch
<1>4. GaugeCovers'
  BY DEF Books, GaugeCovers, Registered
<1> QED
  BY <1>1, <1>2, <1>3, <1>4 DEF Books

LEMMA UnchangedBooks ==
    ASSUME Books, UNCHANGED <<table, activity, pinged, gauge>>
    PROVE  Books'
  BY DEF Books, Agree, PingMeansSilence, GaugeCovers, Registered

(* An age and a time stamp that stays behind it keep their distance, or    *)
(* the age has reached the cap.                                            *)
LEMMA TimeKeepsBooks ==
    ASSUME Books, TimePasses
    PROVE  Books'
<1> USE ConstantTypes
<1>1. \A age \in Ages \cup {NoTime} :
        /\ Older(age) \in Ages \cup {NoTime}
        /\ Older(age) = NoTime <=> age = NoTime
  BY DEF Older, Ages
<1>2. /\ table' = table /\ gauge' = gauge
      /\ \A sid \in Sids : activity'[sid] = Older(activity[sid]) /\ pinged'[sid] = Older(pinged[sid])
      /\ activity' \in [Sids -> Ages \cup {NoTime}]
      /\ pinged' \in [Sids -> Ages \cup {NoTime}]
  BY <1>1 DEF TimePasses, Books
<1>3. Agree'
  BY <1>1, <1>2 DEF Books, Agree
<1>4. PingMeansSilence'
  <2> SUFFICES ASSUME NEW sid \in Sids, pinged'[sid] # NoTime
               PROVE  activity'[sid] = Cap \/ activity'[sid] - pinged'[sid] > IdleTimeout
    BY DEF PingMeansSilence
  <2>1. pinged[sid] \in Ages /\ activity[sid] \in Ages
    BY <1>1, <1>2 DEF Books, Agree
  <2>2. activity[sid] = Cap \/ activity[sid] - pinged[sid] > IdleTimeout
    BY <2>1 DEF Books, PingMeansSilence
  <2>3. /\ activity'[sid] = IF activity[sid] < Cap THEN activity[sid] + 1 ELSE Cap
        /\ pinged'[sid] = IF pinged[sid] < Cap THEN pinged[sid] + 1 ELSE Cap
    BY <1>2, <2>1 DEF Older
  <2> QED
    BY <2>1, <2>2, <2>3 DEF Ages
<1>5. GaugeCovers'
  BY <1>2 DEF Books, GaugeCovers, Registered
<1> QED
  BY <1>2, <1>3, <1>4, <1>5 DEF Books

-----------------------------------------------------------------------------
(***************************************************************************)
(* The steps, one lemma for each of the three kinds of coroutines.         *)
(***************************************************************************)
LEMMA InitHolds == Init => IInv
<1> SUFFICES ASSUME Init PROVE IInv
  OBVIOUS
<1> USE ConstantTypes
<1>1. Registered = {}
  BY DEF Init, Registered
<1>2. GaugeCovers
  BY <1>1, FS_EmptySet DEF Init, GaugeCovers
<1>3. Books
  BY <1>2 DEF Init, Books, Agree, PingMeansSilence
<1>4. (CHOOSE sid \in Sids : TRUE) \in Sids
  BY SessionsAssumption
<1>5. Coroutines
  BY <1>4 DEF Init, Coroutines, Chats, Loops
<1> QED
  BY <1>3, <1>5 DEF IInv

LEMMA EndpointKeeps ==
    ASSUME NEW s \in Sockets, IInv, EndpointStep(s)
    PROVE  IInv'
<1> USE ConstantTypes DEF IInv
<1>0. SidOf[s] \in Sids
  OBVIOUS
<1>1. CASE Connect(s)
  <2>1. Books'
    BY <1>0, <1>1, RegisterKeepsBooks DEF Connect
  <2> QED
    BY <1>1, <2>1 DEF Connect, Coroutines
<1>2. CASE TurnAway(s)
  <2>1. Books'
    BY <1>2, UnchangedBooks DEF TurnAway
  <2> QED
    BY <1>2, <2>1 DEF TurnAway, Coroutines
<1>3. CASE ReceivePong(s)
  <2>1. Books'
    BY <1>0, <1>3, TouchKeepsBooks DEF ReceivePong
  <2> QED
    BY <1>3, <2>1 DEF ReceivePong, Coroutines
<1>4. CASE ReceiveChat(s)
  <2>1. Books'
    BY <1>0, <1>4, TouchKeepsBooks DEF ReceiveChat
  <2> QED
    BY <1>4, <2>1 DEF ReceiveChat, Coroutines, Chats
<1>5. CASE ClientLeaves(s)
  <2>1. Books'
    BY <1>5, UnchangedBooks DEF ClientLeaves
  <2> QED
    BY <1>5, <2>1 DEF ClientLeaves, Coroutines
<1>6. CASE EndpointEnds(s)
  <2>1. Books'
    BY <1>0, <1>6, UnregisterKeepsBooks DEF EndpointEnds
  <2> QED
    BY <1>6, <2>1 DEF EndpointEnds, Closed, Coroutines
<1> QED
  BY <1>1, <1>2, <1>3, <1>4, <1>5, <1>6 DEF EndpointStep

LEMMA ChatKeeps ==
    ASSUME NEW s \in Sockets, IInv, ChatStep(s)
    PROVE  IInv'
<1> USE ConstantTypes DEF IInv
<1>0. /\ SidOf[s] \in Sids
      /\ chat[s] \in Chats
      /\ table[SidOf[s]] \in Sockets \cup {NoSocket}
      /\ chat[s].ws \in Sockets \cup {NoSocket}
      /\ Closed(chat[s].ws) \in [Sockets -> {"new", "open", "left", "closed"}]
  BY DEF Books, Coroutines, Chats, Closed
<1> DEFINE Quiet == UNCHANGED <<table, activity, pinged, gauge, socket, endpoint, loop>>
<1>1. Quiet /\ chat' \in [Sockets -> Chats] => IInv'
  BY UnchangedBooks DEF Coroutines
<1>2. Unregister(SidOf[s]) /\ socket' = Closed(chat[s].ws) /\ chat' \in [Sockets -> Chats]
        /\ UNCHANGED <<endpoint, loop>> => IInv'
  BY <1>0, UnregisterKeepsBooks DEF Coroutines
<1>3. StopGenerating(s) => chat' \in [Sockets -> Chats]
  <2>1. [chat[s] EXCEPT !.phase = "storing", !.ws = NoSocket, !.saved = "partial"] \in Chats
    BY <1>0 DEF Chats
  <2> QED
    BY <2>1 DEF StopGenerating, Coroutines
<1>4. CASE ChunkForNobody(s)
  BY <1>1, <1>3, <1>4 DEF ChunkForNobody
<1>5. CASE ChunkArrives(s)
  <2>1. chat' \in [Sockets -> Chats]
    BY <1>0, <1>5 DEF ChunkArrives, Chats, Coroutines
  <2> QED
    BY <1>1, <1>5, <2>1 DEF ChunkArrives
<1>6. CASE ChunkSent(s)
  <2>1. chat' \in [Sockets -> Chats]
    BY <1>0, <1>3, <1>6 DEF ChunkSent, Chats, Coroutines
  <2> QED
    BY <1>1, <1>6, <2>1 DEF ChunkSent
<1>7. CASE ChunkNotSent(s)
  BY <1>2, <1>3, <1>7 DEF ChunkNotSent
<1>8. CASE AnswerComplete(s)
  <2>1. chat' \in [Sockets -> Chats]
    BY <1>0, <1>8 DEF AnswerComplete, Chats, Coroutines
  <2> QED
    BY <1>1, <1>8, <2>1 DEF AnswerComplete
<1>9. CASE DoneSent(s)
  <2>1. chat' \in [Sockets -> Chats]
    BY <1>0, <1>9 DEF DoneSent, Chats, Coroutines
  <2> QED
    BY <1>1, <1>9, <2>1 DEF DoneSent
<1>10. CASE DoneNotSent(s)
  <2>1. chat' \in [Sockets -> Chats]
    BY <1>0, <1>10 DEF DoneNotSent, Chats, Coroutines
  <2> QED
    BY <1>2, <1>10, <2>1 DEF DoneNotSent
<1>11. CASE GenerationFails(s)
  <2>1. chat' \in [Sockets -> Chats]
    BY <1>0, <1>11 DEF GenerationFails, Chats, Coroutines
  <2> QED
    BY <1>1, <1>11, <2>1 DEF GenerationFails
<1>12. CASE ErrorSentOrNot(s)
  <2>1. chat' \in [Sockets -> Chats]
    BY <1>0, <1>12 DEF ErrorSentOrNot, Chats, Coroutines
  <2> QED
    BY <1>2, <1>12, <2>1 DEF ErrorSentOrNot
<1>13. CASE Stored(s)
  <2>1. chat' \in [Sockets -> Chats]
    BY <1>0, <1>13 DEF Stored, Chats, Coroutines
  <2> QED
    BY <1>1, <1>13, <2>1 DEF Stored
<1> QED
  BY <1>4, <1>5, <1>6, <1>7, <1>8, <1>9, <1>10, <1>11, <1>12, <1>13 DEF ChatStep

LEMMA PingKeepsBooks ==
    ASSUME NEW sid \in Sids, Books, loop \in Loops, Ping(sid)
    PROVE  Books'
<1> USE ConstantTypes
<1>1. /\ activity[sid] \in Ages
      /\ activity[sid] - loop.lag > IdleTimeout
      /\ loop.lag \in 0 .. MaxLag
  BY DEF Books, Ping, IdleFor, Loops
<1>2. /\ pinged' = [pinged EXCEPT ![sid] = loop.lag]
      /\ UNCHANGED <<table, activity, gauge>>
  BY DEF Ping
<1>3. pinged' \in [Sids -> Ages \cup {NoTime}]
  BY <1>1, <1>2 DEF Books, Ages
<1>4. Agree'
  BY <1>1, <1>2 DEF Books, Agree
<1>5. PingMeansSilence'
  BY <1>1, <1>2 DEF Books, PingMeansSilence
<1>6. GaugeCovers'
  BY <1>2 DEF Books, GaugeCovers, Registered
<1> QED
  BY <1>2, <1>3, <1>4, <1>5, <1>6 DEF Books

LEMMA LoopKeeps ==
    ASSUME IInv, LoopStep
    PROVE  IInv'
<1> USE ConstantTypes DEF IInv
<1>0. /\ loop \in Loops
      /\ loop.sid \in Sids
      /\ loop.ws \in Sockets \cup {NoSocket}
      /\ Closed(loop.ws) \in [Sockets -> {"new", "open", "left", "closed"}]
      /\ \A sid \in Sids :
            /\ table[sid] \in Sockets \cup {NoSocket}
            /\ Closed(table[sid]) \in [Sockets -> {"new", "open", "left", "closed"}]
            /\ Visited(sid) \in Loops
  BY DEF Books, Coroutines, Loops, Closed, Visited
<1>1. CASE LoopWakes
  <2>1. Books'
    BY <1>1, UnchangedBooks DEF LoopWakes
  <2>2. Registered \subseteq Sids
    BY DEF Registered
  <2> QED
    BY <1>0, <1>1, <2>1, <2>2 DEF LoopWakes, Coroutines, Loops
<1>2. CASE PingSent
  <2>1. Books'
    BY <1>2, UnchangedBooks DEF PingSent
  <2> QED
    BY <1>0, <1>2, <2>1 DEF PingSent, Coroutines, Loops
<1>3. CASE PingNotSent
  <2>1. Books'
    BY <1>0, <1>3, UnregisterKeepsBooks DEF PingNotSent
  <2> QED
    BY <1>0, <1>3, <2>1 DEF PingNotSent, Coroutines, Loops
<1>4. CASE PassEnds
  <2>1. Books'
    BY <1>4, UnchangedBooks DEF PassEnds
  <2>2. 0 \in 0 .. MaxLag
    OBVIOUS
  <2>3. [loop EXCEPT !.phase = "asleep", !.lag = 0] \in Loops
    BY <1>0, <2>2 DEF Loops
  <2> QED
    BY <1>4, <2>1, <2>3 DEF PassEnds, Coroutines
<1>5. ASSUME NEW sid \in Sids, PingTimesOut(sid)
      PROVE  IInv'
  <2>1. Books'
    BY <1>5, UnregisterKeepsBooks DEF PingTimesOut
  <2> QED
    BY <1>0, <1>5, <2>1 DEF PingTimesOut, Coroutines
<1>6. ASSUME NEW sid \in Sids, LeaveAlone(sid)
      PROVE  IInv'
  <2>1. Books'
    BY <1>6, UnchangedBooks DEF LeaveAlone
  <2> QED
    BY <1>0, <1>6, <2>1 DEF LeaveAlone, Coroutines
<1>7. ASSUME NEW sid \in Sids, Ping(sid)
      PROVE  IInv'
  <2>1. Books'
    BY <1>0, <1>7, PingKeepsBooks
  <2>2. loop' \in Loops
    BY <1>0, <1>7 DEF Ping, Loops
  <2> QED
    BY <1>7, <2>1, <2>2 DEF Ping, Coroutines
<1> QED
  BY <1>1, <1>2, <1>3, <1>4, <1>5, <1>6, <1>7 DEF LoopStep

LEMMA StepKeeps == IInv /\ [Next]_vars => IInv'
<1> SUFFICES ASSUME IInv, [Next]_vars PROVE IInv'
  OBVIOUS
<1>1. ASSUME NEW s \in Sockets, EndpointStep(s) \/ ChatStep(s)
      PROVE  IInv'
  BY <1>1, EndpointKeeps, ChatKeeps
<1>2. CASE LoopStep
  BY <1>2, LoopKeeps
<1>3. CASE TimePasses
  <2>1. Books'
    BY <1>3, TimeKeepsBooks DEF IInv
  <2>2. loop' \in Loops
    BY <1>3, ConstantTypes DEF TimePasses, IInv, Coroutines, Loops
  <2> QED
    BY <1>3, <2>1, <2>2 DEF TimePasses, IInv, Coroutines
<1>4. CASE UNCHANGED vars
  BY <1>4, UnchangedBooks DEF vars, IInv, Coroutines
<1> QED
  BY <1>1, <1>2, <1>3, <1>4 DEF Next

-----------------------------------------------------------------------------
(***************************************************************************)
(* The theorems.                                                           *)
(***************************************************************************)
LEMMA AlwaysIInv == Spec => []IInv
  BY InitHolds, StepKeeps, PTL DEF Spec

(* ws_manager.py: the three dictionaries agree at every await, and the     *)
(* gauge of observability.py never falls below zero, whoever unregisters   *)
(* a session that was replaced or is gone.                                 *)
THEOREM BookkeepingAlwaysAgrees == Spec => []BookkeepingAgrees
  BY AlwaysIInv, IInvImplies, PTL

(* ws_manager.py: a pending ping means that nothing was heard since it was *)
(* sent, and for longer than the idle timeout before.                      *)
THEOREM PingsMeanSilence == Spec => []PingMeansSilence
  BY AlwaysIInv, IInvImplies, PTL

=============================================================================
