----------------------------- MODULE ToolExecutor -----------------------------
(***************************************************************************)
(* services/tool_executor.py: batches of tool calls that run concurrently  *)
(* under a semaphore, each with a rate limit, a validation, a timeout and  *)
(* (for HTTP tools) retries, and the cancellation of a batch.              *)
(*                                                                         *)
(* A call and the body of its tool are two things: the call waits, the     *)
(* body runs as a task of its own (an async or HTTP tool) or in a thread   *)
(* (a sync tool).  For the first half of the timeout the call waits behind *)
(* asyncio.shield, for the second half it waits for the task itself.       *)
(***************************************************************************)
EXTENDS Integers, Sequences, FiniteSets

CONSTANTS
    Batches, Calls, Tools,
    BatchOf,        \* [Calls -> Batches]
    ToolOf,         \* [Calls -> Tools]
    Kind,           \* [Tools -> {"async", "sync", "http"}]
    Rpm,            \* [Tools -> Nat \cup {NoLimit}]: rate_limit_rpm
    NoLimit,
    MaxConcurrent,  \* max_concurrent, 5 by default
    MaxAttempts,    \* max_attempts of the retry policy, 3
    Window,         \* the sliding window of the rate limiter, 60 s
    MaxTime         \* bound on the clock

ASSUME ExecutorAssumption ==
    /\ BatchOf \in [Calls -> Batches]
    /\ ToolOf \in [Calls -> Tools]
    /\ Kind \in [Tools -> {"async", "sync", "http"}]
    /\ Rpm \in [Tools -> Nat \cup {NoLimit}]
    /\ NoLimit \notin Nat
    /\ MaxConcurrent \in Nat \ {0}
    /\ MaxAttempts \in Nat \ {0}
    /\ Window \in Nat
    /\ MaxTime \in Nat

VARIABLES
    now,            \* time.time()
    batch,          \* the coroutine of execute_batch
    permits,        \* the free permits of each batch's semaphore
    call,           \* where _execute_one stands, and the status it returned
    body,           \* what the tool of each call is doing
    attempts,       \* HTTP requests sent by the body
    invocations,    \* _invocations of the rate limiter
    admitted        \* history: every admission of the limiter, in order

vars == <<now, batch, permits, call, body, attempts, invocations, admitted>>

Statuses == {"success", "error", "timeout"}

(* Every variable has a value of its type.                                 *)
TypeOK ==
    /\ now \in Nat
    /\ batch \in [Batches -> {"new", "running", "returned", "cancelled"}]
    /\ permits \in [Batches -> 0 .. MaxConcurrent]
    /\ call \in [Calls -> {"queued", "firstHalf", "secondHalf", "cancelled"} \cup Statuses]
    /\ body \in [Calls -> {"none", "running", "backoff", "success", "error", "timeout", "killed"}]
    /\ attempts \in [Calls -> 0 .. MaxAttempts]
    /\ invocations \in [Tools -> Seq(Nat)]
    /\ admitted \in [Tools -> Seq(Nat)]

Init ==
    /\ now = 0
    /\ batch = [b \in Batches |-> "new"]
    /\ permits = [b \in Batches |-> MaxConcurrent]
    /\ call = [c \in Calls |-> "queued"]
    /\ body = [c \in Calls |-> "none"]
    /\ attempts = [c \in Calls |-> 0]
    /\ invocations = [t \in Tools |-> <<>>]
    /\ admitted = [t \in Tools |-> <<>>]

IsQueued(c) == call[c] = "queued"

IsRunning(c) == call[c] \in {"firstHalf", "secondHalf"}

IsOver(c) == call[c] \in Statuses

Members(b) == {c \in Calls : BatchOf[c] = b}

KindOf(c) == Kind[ToolOf[c]]

BodyRuns(c) == body[c] \in {"running", "backoff"}

-----------------------------------------------------------------------------
(***************************************************************************)
(* RateLimiter.check_and_record.                                           *)
(***************************************************************************)

(* What is left of the list of t once the entries at its front that were   *)
(* made before since are popped: the loop stops at the first that is later.*)
Popped(t, since) ==
    LET list == invocations[t]
        first == CHOOSE i \in 1 .. Len(list) + 1 :
                     /\ \A j \in 1 .. i - 1 : list[j] < since
                     /\ i <= Len(list) => list[i] >= since
    IN  SubSeq(list, first, Len(list))

(* Faulty variant: an entry as old as the window is forgotten.             *)
InOpenWindow(t) == Popped(t, now - Window + 1)

(* The entries that are still inside the window.                           *)
InWindow(t) == Popped(t, now - Window)

HasRoom(t) == Rpm[t] # NoLimit => Len(InWindow(t)) < Rpm[t]

(* The invocation is recorded, unless the tool has no limit.               *)
Record(t) ==
    IF Rpm[t] = NoLimit THEN UNCHANGED <<invocations, admitted>>
    ELSE /\ invocations' = [invocations EXCEPT ![t] = Append(InWindow(t), now)]
         /\ admitted' = [admitted EXCEPT ![t] = Append(@, now)]

-----------------------------------------------------------------------------
(***************************************************************************)
(* execute_batch and _execute_one.                                         *)
(***************************************************************************)
StartBatch(b) ==
    /\ batch[b] = "new"
    /\ batch' = [batch EXCEPT ![b] = "running"]
    /\ UNCHANGED <<now, permits, call, body, attempts, invocations, admitted>>

(* A queued call gets a permit and runs until it first has to wait.        *)
Acquires(c) ==
    /\ batch[BatchOf[c]] = "running"
    /\ IsQueued(c)
    /\ permits[BatchOf[c]] > 0

Launch(c) ==
    /\ Acquires(c)
    /\ HasRoom(ToolOf[c])
    /\ Record(ToolOf[c])
    /\ permits' = [permits EXCEPT ![BatchOf[c]] = @ - 1]
    /\ call' = [call EXCEPT ![c] = "firstHalf"]
    /\ body' = [body EXCEPT ![c] = "running"]
    /\ attempts' = [attempts EXCEPT ![c] = IF KindOf(c) = "http" THEN 1 ELSE 0]
    /\ UNCHANGED <<now, batch>>

(* The limit is reached: nothing is recorded.                              *)
RefuseForRate(c) ==
    /\ Acquires(c)
    /\ ~HasRoom(ToolOf[c])
    /\ invocations' = [invocations EXCEPT ![ToolOf[c]] = InWindow(ToolOf[c])]
    /\ call' = [call EXCEPT ![c] = "error"]
    /\ UNCHANGED <<now, batch, permits, body, attempts, admitted>>

(* The parameters do not fit the schema: the slot is used up all the same. *)
RefuseParameters(c) ==
    /\ Acquires(c)
    /\ HasRoom(ToolOf[c])
    /\ Record(ToolOf[c])
    /\ call' = [call EXCEPT ![c] = "error"]
    /\ UNCHANGED <<now, batch, permits, body, attempts>>

(* The name is not in the registry.                                        *)
RefuseUnknown(c) ==
    /\ Acquires(c)
    /\ call' = [call EXCEPT ![c] = "error"]
    /\ UNCHANGED <<now, batch, permits, body, attempts, invocations, admitted>>

(* Half of the timeout is over: a warning, and the call goes on waiting.   *)
HalfTime(c) ==
    /\ call[c] = "firstHalf"
    /\ call' = [call EXCEPT ![c] = "secondHalf"]
    /\ UNCHANGED <<now, batch, permits, body, attempts, invocations, admitted>>

(* Faulty variants: the permit is lost; the body is not cancelled.         *)
KeepPermit(c) == UNCHANGED permits

GivePermitBack(c) == permits' = [permits EXCEPT ![BatchOf[c]] = @ + 1]

SparedBody(c) == body[c]

(* The state of c's body after its task is cancelled: a thread goes on.    *)
KilledBody(c) ==
    IF BodyRuns(c) /\ KindOf(c) # "sync" THEN "killed" ELSE body[c]

(* Faulty variant: whatever an HTTP tool hands back is taken for data.     *)
StatusOfData(c) == IF KindOf(c) = "http" THEN "success" ELSE body[c]

(* HTTP tools return a result of their own, with the status in it.         *)
StatusFor(c) == body[c]

(* The body has ended and the call hands its result on.                    *)
Collect(c) ==
    /\ IsRunning(c)
    /\ body[c] \in Statuses
    /\ call' = [call EXCEPT ![c] = StatusFor(c)]
    /\ GivePermitBack(c)
    /\ UNCHANGED <<now, batch, body, attempts, invocations, admitted>>

(* The whole timeout is over.                                              *)
TimeOut(c) ==
    /\ call[c] = "secondHalf"
    /\ call' = [call EXCEPT ![c] = "timeout"]
    /\ body' = [body EXCEPT ![c] = KilledBody(c)]
    /\ GivePermitBack(c)
    /\ UNCHANGED <<now, batch, attempts, invocations, admitted>>

(* gather returns when every task is done.                                 *)
ReturnResults(b) ==
    /\ batch[b] = "running"
    /\ \A c \in Members(b) : IsOver(c)
    /\ batch' = [batch EXCEPT ![b] = "returned"]
    /\ UNCHANGED <<now, permits, call, body, attempts, invocations, admitted>>

(* The caller is cancelled: every task of the batch is.  A call in its     *)
(* first half waits for the shield, and only the shield is cancelled.      *)
CancelBatch(b) ==
    /\ batch[b] = "running"
    /\ batch' = [batch EXCEPT ![b] = "cancelled"]
    /\ call' = [c \in Calls |-> IF c \in Members(b) /\ ~IsOver(c) THEN "cancelled" ELSE call[c]]
    /\ body' = [c \in Calls |-> IF c \in Members(b) /\ call[c] = "secondHalf"
                                THEN KilledBody(c) ELSE body[c]]
    /\ permits' = [permits EXCEPT ![b] = MaxConcurrent]
    /\ UNCHANGED <<now, attempts, invocations, admitted>>

-----------------------------------------------------------------------------
(***************************************************************************)
(* The bodies.                                                             *)
(***************************************************************************)
Ends(c, outcome) ==
    /\ body' = [body EXCEPT ![c] = outcome]
    /\ UNCHANGED <<now, batch, permits, call, attempts, invocations, admitted>>

(* A tool of ours returns or raises (a TimeoutError counts as a timeout).  *)
ToolEnds(c) ==
    /\ KindOf(c) # "http" /\ body[c] = "running"
    /\ \E outcome \in Statuses : Ends(c, outcome)

(* A 2xx, a status that is not retried, or a timeout of the request.       *)
HttpAnswers(c) ==
    /\ KindOf(c) = "http" /\ body[c] = "running"
    /\ \E outcome \in Statuses : Ends(c, outcome)

(* Faulty variant: off by one in the number of attempts.                   *)
MayRetryOnceMore(c) == attempts[c] <= MaxAttempts

MayRetry(c) == attempts[c] < MaxAttempts

(* 429, 5xx or a network error: wait for the next attempt, or give up.     *)
HttpFails(c) ==
    /\ KindOf(c) = "http" /\ body[c] = "running"
    /\ Ends(c, IF MayRetry(c) THEN "backoff" ELSE "error")

HttpRetries(c) ==
    /\ body[c] = "backoff"
    /\ body' = [body EXCEPT ![c] = "running"]
    /\ attempts' = [attempts EXCEPT ![c] = @ + 1]
    /\ UNCHANGED <<now, batch, permits, call, invocations, admitted>>

Tick ==
    /\ now < MaxTime
    /\ now' = now + 1
    /\ UNCHANGED <<batch, permits, call, body, attempts, invocations, admitted>>

CallStep(c) ==
    \/ Launch(c) \/ RefuseForRate(c) \/ RefuseParameters(c) \/ RefuseUnknown(c)
    \/ HalfTime(c) \/ Collect(c) \/ TimeOut(c)

BodyStep(c) == ToolEnds(c) \/ HttpAnswers(c) \/ HttpFails(c) \/ HttpRetries(c)

Next ==
    \/ \E b \in Batches : StartBatch(b) \/ ReturnResults(b) \/ CancelBatch(b)
    \/ \E c \in Calls : CallStep(c) \/ BodyStep(c)
    \/ Tick

Spec == Init /\ [][Next]_vars

(* The event loop runs what is ready and its timers fire.  Nothing is      *)
(* assumed of the tools: a body may run for ever.                          *)
FairSpec ==
    /\ Spec
    /\ \A b \in Batches : WF_vars(ReturnResults(b))
    /\ \A c \in Calls : WF_vars(CallStep(c))

-----------------------------------------------------------------------------
(***************************************************************************)
(* Properties.                                                             *)
(***************************************************************************)

(* The semaphore is balanced: a permit is taken for each call that runs    *)
(* and given back on every way out, so no permit is ever lost.  No call    *)
(* makes more attempts than it may, and all else has its type.             *)
PermitsBalance ==
    /\ TypeOK
    /\ \A b \in Batches :
        batch[b] # "cancelled" =>
            permits[b] + Cardinality({c \in Members(b) : IsRunning(c)}) = MaxConcurrent

(* A tool that is no thread runs only while its call does, unless the      *)
(* whole batch was cancelled: a call that timed out has stopped its tool,  *)
(* so that at most MaxConcurrent of them run for a batch.                  *)
TimeoutStopsTask ==
    \A c \in Calls :
        BodyRuns(c) /\ KindOf(c) # "sync" =>
            IsRunning(c) \/ batch[BatchOf[c]] = "cancelled"

(* No result is invented: a call that reports success has a tool that      *)
(* returned, and one that reports an error either never ran or has a tool  *)
(* that failed; a tool that fails does not spoil another call's result.    *)
ResultsTruthful ==
    \A c \in Calls :
        /\ call[c] = "success" => body[c] = "success"
        /\ call[c] = "error" => body[c] \in {"none", "error"}

(* The limiter admits at most rate_limit_rpm calls in any window of 60     *)
(* seconds, across batches, although it prunes its list as it goes.        *)
WindowRespected ==
    \A t \in Tools :
        Rpm[t] # NoLimit =>
            \A i \in 1 .. Len(admitted[t]) :
                i + Rpm[t] <= Len(admitted[t]) =>
                    admitted[t][i + Rpm[t]] - admitted[t][i] > Window

(* Every batch that runs ends, whatever its tools do, as long as the       *)
(* timers fire: a tool that hangs takes its permit only until its timeout. *)
EveryBatchEnds ==
    \A b \in Batches : batch[b] = "running" ~> batch[b] \in {"returned", "cancelled"}

=============================================================================
