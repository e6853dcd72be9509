------------------------------- MODULE UserCache -------------------------------
(***************************************************************************)
(* The tools that read and write a user's record (tools/user_service.py)   *)
(* through the Redis cache (services/redis_cache.py).                      *)
(*                                                                         *)
(* A command of the cache may fail, and its caller waits for it 500 ms and *)
(* no longer: it may still arrive afterwards, and commands that travel on  *)
(* different connections of the pool arrive in any order.  A failure is    *)
(* taken for a miss.  A read of the database is given 2 s, a tool call     *)
(* 10 s; what runs in a thread goes on after that.                         *)
(***************************************************************************)
EXTENDS Integers, FiniteSets

CONSTANTS
    Call,           \* the tool calls, each runs once
    User,
    Unknown,        \* the users that do not exist at first
    MaxWrites       \* bound: updates of a record

ASSUME UserAssumption == Unknown \subseteq User /\ MaxWrites \in Nat

VARIABLES
    hasCache,       \* the cache is enabled, fixed
    row,            \* table users: the version of each record, or None
    kept,           \* the cache: the version kept, or None
    travelling,     \* commands of the cache on their way
    call,           \* the tool calls
    settled         \* history: the last version whose update has ended well

userVars == <<hasCache, row, kept, travelling, call, settled>>

None == 0

Version == 1 .. MaxWrites + 1

Commands == [op : {"set", "delete"}, user : User, version : Version, by : Call]

NoCall == [pc |-> "idle", user |-> "none", fresh |-> FALSE, version |-> None,
           since |-> None, late |-> FALSE]

Calls ==
    [pc : {"idle", "get", "query", "set", "update", "abandoned", "delete", "done", "degraded", "error"},
     user : User \cup {"none"}, fresh : BOOLEAN,
     version : Version \cup {None},     \* what it read or wrote
     since : Version \cup {None},       \* history: what it must at least return
     late : BOOLEAN]                    \* history: what it was told was outdated when it was kept

(* Every variable has a value of its type; no record is older than the     *)
(* updates that ended, or than what was sent to the cache.                 *)
UserTypeOK ==
    /\ hasCache \in BOOLEAN
    /\ row \in [User -> Version \cup {None}]
    /\ kept \in [User -> [version : Version \cup {None}, late : BOOLEAN]]
    /\ travelling \subseteq Commands
    /\ call \in [Call -> Calls]
    /\ settled \in [User -> Version \cup {None}]
    /\ \A u \in User : settled[u] <= row[u] /\ kept[u].version <= row[u]
    /\ \A c \in travelling : c.version <= row[c.user]

UserInit ==
    /\ hasCache \in BOOLEAN
    /\ row = [u \in User |-> IF u \in Unknown THEN None ELSE 1]
    /\ kept = [u \in User |-> [version |-> None, late |-> FALSE]]
    /\ travelling = {}
    /\ call = [k \in Call |-> NoCall]
    /\ settled = row

Goes(k, next) == call' = [call EXCEPT ![k] = next]

Command(op, k, v) == [op |-> op, user |-> call[k].user, version |-> v, by |-> k]

-----------------------------------------------------------------------------
(***************************************************************************)
(* user_get.                                                               *)
(***************************************************************************)

(* Faulty variant: the cache is asked in any case.                         *)
GetBeginsCached(k, u, fresh) ==
    /\ call[k].pc = "idle"
    /\ Goes(k, [NoCall EXCEPT !.pc = IF hasCache THEN "get" ELSE "query", !.user = u,
                              !.fresh = fresh, !.since = IF fresh THEN row[u] ELSE settled[u]])
    /\ UNCHANGED <<hasCache, row, kept, travelling, settled>>

(* Who needs fresh data does not look into the cache.                      *)
GetBegins(k, u, fresh) ==
    /\ call[k].pc = "idle"
    /\ Goes(k, [NoCall EXCEPT !.pc = IF hasCache /\ ~fresh THEN "get" ELSE "query", !.user = u,
                              !.fresh = fresh, !.since = IF fresh THEN row[u] ELSE settled[u]])
    /\ UNCHANGED <<hasCache, row, kept, travelling, settled>>

CacheRead(k) ==
    LET told == kept[call[k].user]
    IN  /\ call[k].pc = "get"
        /\ \/ /\ told.version # None
              /\ Goes(k, [call[k] EXCEPT !.pc = "done", !.version = told.version, !.late = told.late])
           \/ Goes(k, [call[k] EXCEPT !.pc = "query"])
        /\ UNCHANGED <<hasCache, row, kept, travelling, settled>>

(* The record is sent to the cache, also if it had to be fresh.            *)
ReadRow(k) ==
    LET v == row[call[k].user]
    IN  /\ call[k].pc = "query"
        /\ IF v = None
           THEN Goes(k, [call[k] EXCEPT !.pc = "error"]) /\ UNCHANGED travelling
           ELSE IF hasCache
           THEN /\ Goes(k, [call[k] EXCEPT !.pc = "set", !.version = v])
                /\ travelling' = travelling \cup {Command("set", k, v)}
           ELSE Goes(k, [call[k] EXCEPT !.pc = "done", !.version = v]) /\ UNCHANGED travelling
        /\ UNCHANGED <<hasCache, row, kept, settled>>

(* The database took too long: an answer without the record, not kept.     *)
Degrades(k) ==
    /\ call[k].pc = "query"
    /\ Goes(k, [call[k] EXCEPT !.pc = "degraded"])
    /\ UNCHANGED <<hasCache, row, kept, travelling, settled>>

-----------------------------------------------------------------------------
(***************************************************************************)
(* user_create and user_update.                                            *)
(***************************************************************************)

(* Faulty variant: it replaces the record.                                 *)
CreateOver(k, u) ==
    /\ call[k].pc = "idle"
    /\ row' = [row EXCEPT ![u] = 1]
    /\ Goes(k, [NoCall EXCEPT !.pc = "done", !.user = u, !.version = 1])
    /\ UNCHANGED <<hasCache, kept, travelling, settled>>

(* A record of the same address is refused.                                *)
Create(k, u) ==
    /\ call[k].pc = "idle"
    /\ IF row[u] = None
       THEN row' = [row EXCEPT ![u] = 1] /\ Goes(k, [NoCall EXCEPT !.pc = "done", !.user = u, !.version = 1])
       ELSE UNCHANGED row /\ Goes(k, [NoCall EXCEPT !.pc = "error", !.user = u])
    /\ UNCHANGED <<hasCache, kept, travelling, settled>>

UpdateBegins(k, u) ==
    /\ call[k].pc = "idle" /\ row[u] <= MaxWrites
    /\ Goes(k, [NoCall EXCEPT !.pc = "update", !.user = u])
    /\ UNCHANGED <<hasCache, row, kept, travelling, settled>>

(* The call is cancelled; its thread is not.                               *)
UpdateTimesOut(k) ==
    /\ call[k].pc = "update"
    /\ Goes(k, [call[k] EXCEPT !.pc = "abandoned"])
    /\ UNCHANGED <<hasCache, row, kept, travelling, settled>>

(* Faulty variant: the cache is not told.                                  *)
CommitOnly(k) ==
    LET u == call[k].user
    IN  /\ call[k].pc = "update" /\ row[u] \in 1 .. MaxWrites
        /\ row' = [row EXCEPT ![u] = @ + 1]
        /\ Goes(k, [call[k] EXCEPT !.pc = "delete", !.version = row[u] + 1])
        /\ UNCHANGED <<hasCache, kept, travelling, settled>>

(* The record is written, then the cache is told to drop what it keeps.    *)
Commit(k) ==
    LET u == call[k].user
    IN  /\ call[k].pc = "update" /\ row[u] \in 1 .. MaxWrites
        /\ row' = [row EXCEPT ![u] = @ + 1]
        /\ Goes(k, [call[k] EXCEPT !.pc = "delete", !.version = row[u] + 1])
        /\ travelling' = IF hasCache THEN travelling \cup {Command("delete", k, row[u] + 1)}
                                    ELSE travelling
        /\ UNCHANGED <<hasCache, kept, settled>>

NoSuchUser(k) ==
    /\ call[k].pc \in {"update", "abandoned"} /\ row[call[k].user] = None
    /\ Goes(k, [call[k] EXCEPT !.pc = "error"])
    /\ UNCHANGED <<hasCache, row, kept, travelling, settled>>

(* Nobody is left to tell the cache.                                       *)
CommitAbandoned(k) ==
    LET u == call[k].user
    IN  /\ call[k].pc = "abandoned" /\ row[u] \in 1 .. MaxWrites
        /\ row' = [row EXCEPT ![u] = @ + 1]
        /\ Goes(k, [call[k] EXCEPT !.pc = "error"])
        /\ UNCHANGED <<hasCache, kept, travelling, settled>>

-----------------------------------------------------------------------------
(***************************************************************************)
(* The cache.                                                              *)
(***************************************************************************)

Mine(k) == {c \in travelling : c.by = k}

Arrives(c) ==
    /\ kept' = [kept EXCEPT ![c.user] =
          IF c.op = "set" THEN [version |-> c.version, late |-> c.version # row[c.user]]
                          ELSE [version |-> None, late |-> FALSE]]
    /\ travelling' = travelling \ {c}
    /\ UNCHANGED <<hasCache, row, call, settled>>

(* The command was carried out, or there is no cache.                      *)
Acknowledged(k) ==
    LET u == call[k].user
    IN  /\ call[k].pc \in {"set", "delete"} /\ Mine(k) = {}
        /\ Goes(k, [call[k] EXCEPT !.pc = "done"])
        /\ settled' = IF call[k].pc = "delete" /\ call[k].version > settled[u]
                      THEN [settled EXCEPT ![u] = call[k].version] ELSE settled
        /\ UNCHANGED <<hasCache, row, kept, travelling>>

(* The command fails, or is waited for too long and still on its way; the  *)
(* caller goes on as if nothing had happened.                              *)
GivesUp(k) ==
    /\ call[k].pc \in {"set", "delete"} /\ Mine(k) # {}
    /\ Goes(k, [call[k] EXCEPT !.pc = "done"])
    /\ \/ travelling' = travelling \ Mine(k)
       \/ UNCHANGED travelling
    /\ UNCHANGED <<hasCache, row, kept, settled>>

Expires(u) ==
    /\ kept[u].version # None
    /\ kept' = [kept EXCEPT ![u] = [version |-> None, late |-> FALSE]]
    /\ UNCHANGED <<hasCache, row, travelling, call, settled>>

UserNext ==
    \/ \E k \in Call :
        \/ \E u \in User : Create(k, u) \/ UpdateBegins(k, u)
        \/ \E u \in User, fresh \in BOOLEAN : GetBegins(k, u, fresh)
        \/ CacheRead(k) \/ ReadRow(k) \/ Degrades(k)
        \/ Commit(k) \/ UpdateTimesOut(k) \/ CommitAbandoned(k) \/ NoSuchUser(k)
        \/ Acknowledged(k) \/ GivesUp(k)
    \/ \E c \in travelling : Arrives(c)
    \/ \E u \in User : Expires(u)

UserSpec == UserInit /\ [][UserNext]_userVars

-----------------------------------------------------------------------------
(***************************************************************************)
(* Properties.                                                             *)
(***************************************************************************)

(* A read that needs fresh data returns the record as it was when the read *)
(* began, or a later one, however slow the cache is.                       *)
FreshIsCurrent ==
    \A k \in Call : call[k].pc = "done" /\ call[k].fresh => call[k].version >= call[k].since

(* Once an update has returned and the cache has acknowledged its command, *)
(* every read that begins shows this update or a later one, unless the     *)
(* cache was told of an older record by a read that this update overtook.  *)
UpdateIsSeen ==
    \A k \in Call : call[k].pc = "done" =>
        call[k].version >= call[k].since \/ call[k].late

(* A read returns what it must at least return; all variables have their   *)
(* types, and the cache is never ahead of the table.                       *)
UsersCurrent == UserTypeOK /\ FreshIsCurrent /\ UpdateIsSeen

=============================================================================
