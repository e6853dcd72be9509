----------------------------- MODULE Conversations -----------------------------
(***************************************************************************)
(* routes/conversations.py over the tables conversations and messages of   *)
(* models/db_models.py: the messages of each conversation, oldest first,   *)
(* and what the owner may do to them while turns are in progress.  The     *)
(* handlers run in the thread pool, so that they interleave with the       *)
(* turns; each is one transaction.  A branch reads its source before it    *)
(* writes its target, and is two steps.                                    *)
(***************************************************************************)
EXTENDS Integers, Sequences

CONSTANTS
    Conv,       \* ids of conversations, given out in order
    Turn,       \* the turns of the chat
    NoConv,
    MaxBranches \* bound on the branches taken

ASSUME ConversationsAssumption ==
    /\ Conv \subseteq Nat
    /\ NoConv \notin Conv
    /\ MaxBranches \in Nat

VARIABLES
    conv,       \* the row of each conversation
    log,        \* the messages of each conversation, by created_at
    branch,     \* the branch request being served
    branches    \* how many were taken

storeVars == <<conv, log, branch, branches>>

Rows == [status : {"absent", "live", "deleted"}, parent : Conv \cup {NoConv}]

Texts == {"question", "whole", "part", "sorry"}

Messages ==
    [turn : Turn, role : {"user", "assistant"}, text : Texts,
     stopped : BOOLEAN, copy : BOOLEAN]

NoBranch == [from |-> NoConv, to |-> NoConv, copies |-> <<>>]

Branches == [from : Conv \cup {NoConv}, to : Conv \cup {NoConv}, copies : Seq(Messages)]

StoreTypeOK ==
    /\ conv \in [Conv -> Rows]
    /\ log \in [Conv -> Seq(Messages)]
    /\ branch \in Branches
    /\ branches \in 0 .. MaxBranches

StoreInit ==
    /\ conv = [c \in Conv |-> [status |-> "absent", parent |-> NoConv]]
    /\ log = [c \in Conv |-> <<>>]
    /\ branch = NoBranch
    /\ branches = 0

Live(c) == conv[c].status = "live"

(* The id that the next new conversation gets.                             *)
Fresh(c) ==
    /\ conv[c].status = "absent"
    /\ \A d \in Conv : conv[d].status = "absent" => c <= d

Question(t) ==
    [turn |-> t, role |-> "user", text |-> "question", stopped |-> FALSE, copy |-> FALSE]

Answer(t, text, stopped) ==
    [turn |-> t, role |-> "assistant", text |-> text, stopped |-> stopped, copy |-> FALSE]

(* Adding a message commits, unless its conversation is gone: messages     *)
(* refer to conversations by a foreign key.                                *)
Keeps(c, m) ==
    /\ Live(c)
    /\ log' = [log EXCEPT ![c] = Append(@, m)]
    /\ UNCHANGED <<conv, branch, branches>>

Opens(c, m) ==
    /\ Fresh(c)
    /\ conv' = [conv EXCEPT ![c] = [status |-> "live", parent |-> NoConv]]
    /\ log' = [log EXCEPT ![c] = <<m>>]
    /\ UNCHANGED <<branch, branches>>

-----------------------------------------------------------------------------

(* c and the branches nested under it.                                     *)
Family(c) ==
    {d \in Conv : \A S \in SUBSET Conv :
        c \in S /\ (\A e \in Conv : conv[e].parent \in S => e \in S) => d \in S}

Delete(c) ==
    /\ Live(c)
    /\ conv' = [d \in Conv |-> IF d \in Family(c)
                               THEN [status |-> "deleted", parent |-> NoConv]
                               ELSE conv[d]]
    /\ log' = [d \in Conv |-> IF d \in Family(c) THEN <<>> ELSE log[d]]
    /\ UNCHANGED <<branch, branches>>

Detach(c) ==
    /\ Live(c)
    /\ conv' = [conv EXCEPT ![c].parent = NoConv]
    /\ UNCHANGED <<log, branch, branches>>

Truncate(c, keep) ==
    /\ Live(c)
    /\ log' = [log EXCEPT ![c] = SubSeq(@, 1, keep)]
    /\ UNCHANGED <<conv, branch, branches>>

(* The new message takes over role and text, but not the mark of a stopped *)
(* answer.                                                                 *)
Copied(m) == [m EXCEPT !.stopped = FALSE, !.copy = TRUE]

BranchRead(c, upTo, target) ==
    /\ branches < MaxBranches
    /\ branches' = branches + 1
    /\ branch = NoBranch
    /\ Live(c)
    /\ target # NoConv => Live(target)
    /\ upTo \in 1 .. Len(log[c])
    /\ branch' = [from |-> c, to |-> target,
                  copies |-> [i \in 1 .. upTo |-> Copied(log[c][i])]]
    /\ UNCHANGED <<conv, log>>

(* A target that was deleted in the meantime fails the transaction; a      *)
(* source that was deleted does not, parent_id is no foreign key.          *)
BranchWrite ==
    /\ branch # NoBranch
    /\ branch' = NoBranch
    /\ UNCHANGED branches
    /\ \/ /\ branch.to = NoConv
          /\ \E c \in Conv :
                /\ Fresh(c)
                /\ conv' = [conv EXCEPT ![c] = [status |-> "live", parent |-> branch.from]]
                /\ log' = [log EXCEPT ![c] = branch.copies]
       \/ /\ branch.to # NoConv /\ Live(branch.to)
          /\ log' = [log EXCEPT ![branch.to] = @ \o branch.copies]
          /\ UNCHANGED conv
       \/ /\ branch.to # NoConv /\ ~Live(branch.to)
          /\ UNCHANGED <<conv, log>>

StoreNext ==
    \/ \E c \in Conv :
        \/ Delete(c)
        \/ Detach(c)
        \/ \E keep \in 0 .. Len(log[c]) - 1 : Truncate(c, keep)
        \/ \E upTo \in 1 .. Len(log[c]), target \in Conv \cup {NoConv} :
              BranchRead(c, upTo, target)
    \/ BranchWrite

=============================================================================
