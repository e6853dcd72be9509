------------------------------ MODULE MemoryStore ------------------------------
(***************************************************************************)
(* What is kept about the owners of conversations, and how it goes: the    *)
(* episodes (memory/episodic.py) and the facts of the four layers that     *)
(* learn from conversations (skills, project brain, content knowledge      *)
(* graph, personal graph; models/db_models.py), the owner's requests that  *)
(* erase some of it, and the sweeps of main.py that let it fade.  Each     *)
(* handler and each sweep is one transaction.                              *)
(*                                                                         *)
(* A conversation that exists has messages.  Owners of conversations and   *)
(* projects do not change.                                                 *)
(***************************************************************************)
EXTENDS Integers, Sequences, FiniteSets

CONSTANTS
    Owner,          \* account ids
    Conv, Project,
    NoConv, NoProject,
    Fact,           \* what can be learned, up to the likeness that merges facts
    OwnerOf,        \* of each conversation and project
    ProjectOf,      \* of each conversation at first
    Cascade,        \* memory_chunks refers to conversations ON DELETE CASCADE
    MaxRequests     \* bound on the owners' requests

ASSUME MemoryStoreAssumption ==
    /\ OwnerOf \in [Conv \cup Project -> Owner]
    /\ ProjectOf \in [Conv -> Project \cup {NoProject}]
    /\ NoConv \notin Conv /\ NoProject \notin Project
    /\ Cascade \in BOOLEAN /\ MaxRequests \in Nat

VARIABLES
    account,        \* the accounts that exist
    project,        \* the projects that exist
    conv,           \* the row of each conversation
    episodes,       \* table memory_chunks
    facts,          \* tables skills, project_brain_entries, kg_edges, memory_edges
    lastId,         \* the ids of facts are never given out again
    requests        \* how many requests were served

tables == <<account, project, conv, episodes, facts, lastId>>
storeVars == <<tables, requests>>

Layer == {"skills", "brain", "knowledge", "graph"}

Episodes == [owner : Owner, conv : Conv \cup {NoConv}, old : BOOLEAN]

Facts ==
    [id : Nat \ {0}, layer : Layer, owner : Owner, project : Project \cup {NoProject},
     conv : Conv \cup {NoConv}, fact : Fact, support : Nat \ {0}, stale : BOOLEAN,
     from : Conv]           \* history: the conversation it was learned from

StoreTypeOK ==
    /\ account \subseteq Owner
    /\ project \subseteq Project
    /\ conv \in [Conv -> [live : BOOLEAN, project : Project \cup {NoProject}]]
    /\ episodes \subseteq Episodes
    /\ facts \subseteq Facts
    /\ lastId \in Nat /\ \A r \in facts : r.id <= lastId
    /\ requests \in 0 .. MaxRequests

StoreInit ==
    /\ account = Owner
    /\ project = Project
    /\ conv = [c \in Conv |-> [live |-> TRUE, project |-> ProjectOf[c]]]
    /\ episodes = {} /\ facts = {} /\ lastId = 0
    /\ requests = 0

Live(c) == c \in Conv /\ conv[c].live

(* Faulty variant: nothing checks the conversation.                        *)
WriteStrayEpisode(o, c) ==
    /\ episodes' = episodes \cup {[owner |-> o, conv |-> c, old |-> FALSE]}
    /\ UNCHANGED <<account, project, conv, facts, lastId>>

(* A new episode, unless the conversation it refers to is gone.            *)
WriteEpisode(o, c) ==
    /\ episodes' = IF c = NoConv \/ Live(c)
                   THEN episodes \cup {[owner |-> o, conv |-> c, old |-> FALSE]}
                   ELSE episodes
    /\ UNCHANGED <<account, project, conv, facts, lastId>>

-----------------------------------------------------------------------------
(***************************************************************************)
(* Requests of an owner whose account exists.                              *)
(***************************************************************************)

Request(o) ==
    /\ o \in account
    /\ requests < MaxRequests /\ requests' = requests + 1

(* "Forget me" spares the project brain.                                   *)
Purge(o, scope) ==
    /\ Request(o)
    /\ episodes' = IF scope \in {"all", "episodic"}
                   THEN {e \in episodes : e.owner # o} ELSE episodes
    /\ facts' = {r \in facts : \/ r.owner # o \/ r.layer = "brain"
                               \/ scope \notin {"all", r.layer}}
    /\ UNCHANGED <<account, project, conv, lastId>>

(* One edge of the personal graph.                                         *)
ForgetEdge(o, r) ==
    /\ Request(o)
    /\ r.layer = "graph" /\ r.owner = o
    /\ facts' = facts \ {r}
    /\ UNCHANGED <<account, project, conv, episodes, lastId>>

(* One entry of a project's brain.                                         *)
ForgetEntry(o, r) ==
    /\ Request(o)
    /\ r.layer = "brain" /\ r.owner = o /\ r.project \in project
    /\ facts' = facts \ {r}
    /\ UNCHANGED <<account, project, conv, episodes, lastId>>

(* The tool memory_delete.                                                 *)
DeleteEpisode(o, e) ==
    /\ Request(o)
    /\ e.owner = o
    /\ episodes' = episodes \ {e}
    /\ UNCHANGED <<account, project, conv, facts, lastId>>

Assign(c, p) ==
    /\ Request(OwnerOf[c])
    /\ Live(c)
    /\ p # NoProject => p \in project /\ OwnerOf[p] = OwnerOf[c]
    /\ conv' = [conv EXCEPT ![c].project = p]
    /\ UNCHANGED <<account, project, episodes, facts, lastId>>

Closed(C) ==
    [c \in Conv |-> IF c \in C THEN [live |-> FALSE, project |-> NoProject] ELSE conv[c]]

(* Edges that belong to a project outlive the conversation.                *)
DeleteConversation(c) ==
    /\ Request(OwnerOf[c])
    /\ Live(c)
    /\ conv' = Closed({c})
    /\ episodes' = {e \in episodes : e.conv # c}
    /\ facts' = {r \in facts : ~(r.layer = "knowledge" /\ r.conv = c /\ r.project = NoProject)}
    /\ UNCHANGED <<account, project, lastId>>

DeleteProject(p, deleteConversations) ==
    LET within == {c \in Conv : conv[c].project = p}
    IN  /\ Request(OwnerOf[p])
        /\ p \in project
        /\ project' = project \ {p}
        /\ IF deleteConversations
           THEN /\ conv' = Closed(within)
                /\ episodes' = {e \in episodes : e.conv \notin within}
           ELSE /\ conv' = [c \in Conv |-> IF c \in within
                                           THEN [conv[c] EXCEPT !.project = NoProject]
                                           ELSE conv[c]]
                /\ UNCHANGED episodes
        /\ facts' = {r \in facts : r.project # p}
        /\ UNCHANGED <<account, lastId>>

Owned(o) == {c \in Conv : Live(c) /\ OwnerOf[c] = o}

(* The conversations go first: where their deletion does not cascade to    *)
(* the episodes, these forbid it.                                          *)
TripsKey(o) == ~Cascade /\ \E e \in episodes : e.conv \in Owned(o)

DeleteAccount(o) ==
    /\ Request(o)
    /\ IF TripsKey(o)
       THEN UNCHANGED <<account, project, conv, episodes, facts, lastId>>
       ELSE /\ account' = account \ {o}
            /\ project' = {p \in project : OwnerOf[p] # o}
            /\ conv' = Closed(Owned(o))
            /\ episodes' = {e \in episodes : e.owner # o /\ e.conv \notin Owned(o)}
            /\ facts' = {r \in facts : r.owner # o}
            /\ UNCHANGED lastId

Requested ==
    \/ \E o \in Owner :
        \/ \E scope \in {"all", "episodic", "skills", "knowledge", "graph"} : Purge(o, scope)
        \/ \E r \in facts : ForgetEdge(o, r) \/ ForgetEntry(o, r)
        \/ \E e \in episodes : DeleteEpisode(o, e)
        \/ DeleteAccount(o)
    \/ \E c \in Conv : DeleteConversation(c) \/ \E p \in project \cup {NoProject} : Assign(c, p)
    \/ \E p \in Project : DeleteProject(p, TRUE) \/ DeleteProject(p, FALSE)

-----------------------------------------------------------------------------
(***************************************************************************)
(* Time.                                                                   *)
(***************************************************************************)

Edge == {"knowledge", "graph"}

(* So much time passes that all that is there is past its term.            *)
TimePasses ==
    /\ episodes' = {[e EXCEPT !.old = TRUE] : e \in episodes}
    /\ facts' = {[r EXCEPT !.stale = TRUE] : r \in facts}
    /\ UNCHANGED <<account, project, conv, lastId, requests>>

Retention ==
    /\ episodes' = {e \in episodes : ~e.old}
    /\ UNCHANGED <<account, project, conv, facts, lastId, requests>>

Weak(r, layer) == r.layer = layer /\ r.stale /\ r.support <= 1

Faded(r, layer) ==
    IF r.layer = layer /\ r.stale /\ r.support > 1
    THEN [r EXCEPT !.support = @ - 1] ELSE r

(* Faulty variant: a point is taken first.                                 *)
SweepTwice(layer) ==
    {r \in {Faded(s, layer) : s \in facts} : ~Weak(r, layer)}

(* Faulty variant: the last point is never taken.                          *)
SweepSpares(layer) == {Faded(r, layer) : r \in facts}

(* First the weak edges are dropped, then the others lose a point; these   *)
(* stay stale.                                                             *)
Sweep(layer) == {Faded(r, layer) : r \in {s \in facts : ~Weak(s, layer)}}

Decay(layer) ==
    /\ facts' = Sweep(layer)
    /\ UNCHANGED <<account, project, conv, episodes, lastId, requests>>

Sweeper == Retention \/ \E layer \in Edge : Decay(layer)

=============================================================================
