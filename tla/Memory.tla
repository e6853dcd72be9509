--------------------------------- MODULE Memory ---------------------------------
(***************************************************************************)
(* How the assistant learns (services/memory_manager.py): a turn that ends *)
(* is stored as an episode and counted by each layer; every so many turns  *)
(* of a conversation a layer reads the conversation in the background,     *)
(* asks a model what can be learned from it and stores the answer, merged  *)
(* with what it knows already.                                             *)
(*                                                                         *)
(*   skills     memory/skills_extractor.py, semantic.py    of the owner    *)
(*   brain      memory/project_brain.py                    of a project    *)
(*   knowledge  rag/knowledge_graph.py       of a project or conversation  *)
(*   graph      memory/memory_graph.py                     of the owner    *)
(*                                                                         *)
(* Two layers store fact by fact, the graphs a whole answer in one         *)
(* transaction.  An action runs from one await or query to the next; the   *)
(* requests and sweeps of MemoryStore run between any two.  The embedding  *)
(* model stays the same.                                                   *)
(***************************************************************************)
EXTENDS MemoryStore

CONSTANTS
    Every,          \* the turns from one reading of a conversation to the next
    MaxTrack,       \* _MAX_TRACK
    Answers,        \* what the model may say each layer can learn
    Setups,         \* the layers an operator may have left on, and a bound on
                    \* the turns of each conversation
    Flips,          \* bound: the switches that owners may flip
    ToolConv,       \* bound: the conversations that calls of memory_store name
    Slots,          \* bound: background tasks of a layer at a time
    MaxId           \* bound: the facts whose fading is watched

Switch == {"recall", "record", "reflect", "graph"}

ASSUME MemoryAssumption ==
    /\ Every \in Nat \ {0} /\ MaxTrack \in Nat
    /\ \A l \in Layer : Answers[l] \subseteq Seq(Fact) \ {<<>>}  \* no answer: Load quits
    /\ \A s \in Setups : s.flags \subseteq Layer /\ s.turns \in [Conv -> Nat]
    /\ Flips \subseteq Owner \X Switch /\ ToolConv \subseteq Conv \cup {NoConv}
    /\ Slots \in Nat \ {0} /\ MaxId \in Nat

VARIABLES
    flags,          \* the operator's switches, fixed
    prefs,          \* table memory_prefs: the switches an owner left on
    left,           \* the turns that each conversation may still have
    storing,        \* the turn whose auto_store awaits: the switches it read
    counts,         \* _turn_counts of each layer
    task,           \* the background tasks
    stored, started,    \* history: turns counted, tasks started
    overlapped      \* history: two stores of a layer were open at a time, or
                    \* one answer named a fact twice

turnVars == <<prefs, left, storing, counts, stored, started>>
vars == <<storeVars, flags, turnVars, task, overlapped>>

NoTurn == {"none"}

FactByFact == {"skills", "brain"}

NoTask == [pc |-> "idle", conv |-> NoConv, project |-> NoProject,
           batch |-> <<>>, upd |-> {}, add |-> <<>>]

TaskStates ==
    [pc : {"idle", "load", "read", "commit"},
     conv : Conv \cup {NoConv}, project : Project \cup {NoProject},
     batch : Seq(Fact),                             \* still to be looked up
     upd : SUBSET [id : Nat, support : Nat],        \* rows to be updated
     add : Seq(Fact)]                               \* rows to be inserted

(* Every variable has a value of its type.                                 *)
TypeOK ==
    /\ StoreTypeOK
    /\ flags \subseteq Layer
    /\ prefs \in [Owner -> SUBSET Switch]
    /\ left \in [Conv -> Nat]
    /\ storing \in [Conv -> (SUBSET Switch) \cup {NoTurn}]
    /\ \A l \in Layer : \A c \in DOMAIN counts[l] : c \in Conv /\ counts[l][c] \in 0 .. Every - 1
    /\ task \in [Layer -> [1 .. Slots -> TaskStates]]
    /\ stored \in [Layer -> [Conv -> Nat]] /\ started \in [Layer -> [Conv -> Nat]]
    /\ overlapped \in BOOLEAN

Init ==
    /\ StoreInit
    /\ \E s \in Setups : flags = s.flags /\ left = s.turns
    /\ prefs = [o \in Owner |-> Switch]
    /\ storing = [c \in Conv |-> NoTurn]
    /\ counts = [l \in Layer |-> <<>>]
    /\ task = [l \in Layer |-> [k \in 1 .. Slots |-> NoTask]]
    /\ stored = [l \in Layer |-> [c \in Conv |-> 0]]
    /\ started = [l \in Layer |-> [c \in Conv |-> 0]]
    /\ overlapped = FALSE

-----------------------------------------------------------------------------
(***************************************************************************)
(* The end of a turn.                                                      *)
(***************************************************************************)

(* An owner can turn a layer off, but not turn on what the operator did    *)
(* not.                                                                    *)
Effective(o) ==
    {s \in prefs[o] : CASE s = "reflect" -> "skills" \in flags
                        [] s = "graph"   -> "graph" \in flags
                        [] OTHER         -> TRUE}

(* The answer was stored; the switches are read once.  With recording off  *)
(* the turn ends here.                                                     *)
TurnEnds(c) ==
    LET on == Effective(OwnerOf[c])
    IN  /\ Live(c) /\ left[c] > 0 /\ storing[c] = NoTurn
        /\ left' = [left EXCEPT ![c] = @ - 1]
        /\ storing' = [storing EXCEPT ![c] = IF "record" \in on THEN on ELSE NoTurn]
        /\ UNCHANGED <<storeVars, flags, prefs, counts, task, stored, started, overlapped>>

(* Which layers count a turn of c, when these switches were on.            *)
CountsSkills(on) == "skills" \in flags /\ "reflect" \in on

CountsBrain(c) == "brain" \in flags /\ Live(c) /\ conv[c].project # NoProject

CountsKnowledge == "knowledge" \in flags

CountsGraph(on) == "graph" \in flags /\ "graph" \in on

Counting(c, on) ==
    {l \in Layer :
        \/ l = "skills" /\ CountsSkills(on)
        \/ l = "brain" /\ CountsBrain(c)
        \/ l = "knowledge" /\ CountsKnowledge
        \/ l = "graph" /\ CountsGraph(on)}

Count(l, c) == IF c \in DOMAIN counts[l] THEN counts[l][c] + 1 ELSE 1

Due(l, c) == Count(l, c) >= Every

(* Faulty variant: a reading does not start the count again.               *)
CountedOn(l, c) ==
    [d \in DOMAIN counts[l] \cup {c} |->
        IF d # c THEN counts[l][d] ELSE IF Due(l, c) THEN Every - 1 ELSE Count(l, c)]

(* A reading starts the count again; if too many conversations are         *)
(* counted by then, all counts are forgotten.                              *)
Counted(l, c) ==
    LET counter == [d \in DOMAIN counts[l] \cup {c} |->
                        IF d # c THEN counts[l][d] ELSE IF Due(l, c) THEN 0 ELSE Count(l, c)]
    IN  IF Due(l, c) /\ Cardinality(DOMAIN counter) > MaxTrack THEN <<>> ELSE counter

FreeSlot(l, k) ==
    /\ task[l][k].pc = "idle"
    /\ \A j \in 1 .. k - 1 : task[l][j].pc # "idle"

(* The project's brain is chosen here, that of the knowledge graph later.  *)
NewTask(l, c) ==
    [NoTask EXCEPT !.pc = "load", !.conv = c,
                   !.project = IF l = "brain" THEN conv[c].project ELSE NoProject]

(* The episode is written, unless it cannot be embedded or its             *)
(* conversation is gone; the layers count the turn in any case.            *)
TurnStored(c) ==
    LET counting == Counting(c, storing[c])
        due == {l \in counting : Due(l, c)}
    IN  /\ storing[c] # NoTurn
        /\ storing' = [storing EXCEPT ![c] = NoTurn]
        /\ WriteEpisode(OwnerOf[c], c) \/ UNCHANGED tables
        /\ \A l \in due : \E k \in 1 .. Slots : task[l][k].pc = "idle"
        /\ counts' = [l \in Layer |-> IF l \in counting THEN Counted(l, c) ELSE counts[l]]
        /\ task' = [l \in Layer |-> [k \in 1 .. Slots |->
              IF l \in due /\ FreeSlot(l, k) THEN NewTask(l, c) ELSE task[l][k]]]
        /\ stored' = [l \in Layer |-> [stored[l] EXCEPT ![c] = @ + (IF l \in counting THEN 1 ELSE 0)]]
        /\ started' = [l \in Layer |-> [started[l] EXCEPT ![c] = @ + (IF l \in due THEN 1 ELSE 0)]]
        /\ UNCHANGED <<flags, prefs, left, requests, overlapped>>

-----------------------------------------------------------------------------
(***************************************************************************)
(* A background task: the conversation is read, then the facts are looked  *)
(* up and committed.                                                       *)
(***************************************************************************)

Becomes(l, k, next) == task' = [task EXCEPT ![l][k] = next]

Quits(l, k) == Becomes(l, k, NoTask)

(* The messages are read, none if the conversation is gone, and the model  *)
(* is asked.  What it answers, if it does, is looked up later.             *)
Load(l, k, p) ==
    /\ task[l][k].pc = "load"
    /\ \/ Quits(l, k)
       \/ /\ Live(task[l][k].conv)
          /\ \E answer \in Answers[l] :
                Becomes(l, k, [task[l][k] EXCEPT !.pc = "read", !.batch = answer, !.project = p])
    /\ UNCHANGED <<storeVars, flags, turnVars, overlapped>>

ReflectSkills(k) == Load("skills", k, NoProject)

ReflectBrain(k) == Load("brain", k, task["brain"][k].project)

ExtractKnowledge(k) ==
    \E p \in Project \cup {NoProject} :
        /\ Live(task["knowledge"][k].conv) => p = conv[task["knowledge"][k].conv].project
        /\ Load("knowledge", k, p)

ExtractGraph(k) == Load("graph", k, NoProject)

(* The rows that count as the same fact.                                   *)
Same(l, t, f) == {r \in facts : r.layer = l /\ r.owner = OwnerOf[t.conv] /\ r.fact = f}

SameSkill(t, f) == Same("skills", t, f)

SameEntry(t, f) == {r \in Same("brain", t, f) : r.project = t.project}

(* Faulty variant: a fact is looked for in the conversation alone.         *)
SameInConversation(t, f) == {r \in Same("knowledge", t, f) : r.conv = t.conv}

SameTriple(t, f) ==
    {r \in Same("knowledge", t, f) :
        IF t.project # NoProject THEN r.project = t.project ELSE r.conv = t.conv}

SameEdge(t, f) == Same("graph", t, f)

Matches(l, t, f) ==
    CASE l = "skills"    -> SameSkill(t, f)
      [] l = "brain"     -> SameEntry(t, f)
      [] l = "knowledge" -> SameTriple(t, f)
      [] l = "graph"     -> SameEdge(t, f)

Open(t) == t.upd # {} \/ t.add # <<>>

(* One fact is looked up: a match will be reinforced, else a row added.    *)
(* What this transaction read or added before is not read again: a row     *)
(* keeps the support it was read with, and an added row is not found.      *)
Looked(l, t, f) ==
    LET rest == [t EXCEPT !.batch = Tail(@)]
        found == Matches(l, t, f)
        again == {u \in t.upd : \E r \in found : r.id = u.id}
    IN  IF found = {} THEN {[rest EXCEPT !.add = Append(@, f)]}
        ELSE IF again = {}
        THEN {[rest EXCEPT !.upd = @ \cup {[id |-> r.id, support |-> r.support + 1]}] : r \in found}
        ELSE {[rest EXCEPT !.upd = (@ \ {u}) \cup {[u EXCEPT !.support = @ + 1]}] : u \in again}

LookUp(l, k, pc) ==
    LET t == task[l][k]
        f == Head(t.batch)
    IN  /\ t.pc = "read"
        /\ \E next \in Looked(l, t, f) : Becomes(l, k, [next EXCEPT !.pc = pc])
        /\ overlapped' = (\/ overlapped
                          \/ f \in {t.add[i] : i \in DOMAIN t.add}
                          \/ \E j \in 1 .. Slots \ {k} : Open(task[l][j]))
        /\ UNCHANGED <<storeVars, flags, turnVars>>

(* A fact that cannot be embedded is passed over.                          *)
PassOver(l, k) ==
    LET t == task[l][k]
    IN  /\ t.pc = "read"
        /\ IF Len(t.batch) = 1 THEN Quits(l, k)
           ELSE Becomes(l, k, [t EXCEPT !.batch = Tail(@)])
        /\ UNCHANGED <<storeVars, flags, turnVars, overlapped>>

(* Fact by fact.                                                           *)
UpsertSkill(k) == LookUp("skills", k, "commit") \/ PassOver("skills", k)

AddEntry(k) == LookUp("brain", k, "commit") \/ PassOver("brain", k)

(* All that the model said in one transaction.                             *)
WhenLast(l, k) == IF Len(task[l][k].batch) = 1 THEN "commit" ELSE "read"

StoreTriples(k) == LookUp("knowledge", k, WhenLast("knowledge", k))

StoreEdges(k) == LookUp("graph", k, WhenLast("graph", k))

Reinforced(t) ==
    {r \in facts : \A u \in t.upd : u.id # r.id}
        \cup {[r EXCEPT !.support = (CHOOSE u \in t.upd : u.id = r.id).support, !.stale = FALSE] :
                r \in {s \in facts : \E u \in t.upd : u.id = s.id}}

Added(l, t) ==
    {[id |-> lastId + i, layer |-> l, owner |-> OwnerOf[t.conv], project |-> t.project,
      conv |-> IF l = "knowledge" THEN t.conv ELSE NoConv,
      fact |-> t.add[i], support |-> 1, stale |-> FALSE, from |-> t.conv] : i \in DOMAIN t.add}

(* The transaction ends.  If a row that it updates is gone, all of it is   *)
(* rolled back.                                                            *)
Commit(l, k) ==
    LET t == task[l][k]
        kept == \A u \in t.upd : \E r \in facts : r.id = u.id
    IN  /\ t.pc = "commit"
        /\ facts' = IF kept THEN Reinforced(t) \cup Added(l, t) ELSE facts
        /\ lastId' = IF kept THEN lastId + Len(t.add) ELSE lastId
        /\ IF t.batch = <<>> THEN Quits(l, k)
           ELSE Becomes(l, k, [t EXCEPT !.pc = "read", !.upd = {}, !.add = <<>>])
        /\ UNCHANGED <<account, project, conv, episodes, requests,
                       flags, turnVars, overlapped>>

TaskStep(k) ==
    \/ ReflectSkills(k) \/ ReflectBrain(k) \/ ExtractKnowledge(k) \/ ExtractGraph(k)
    \/ UpsertSkill(k) \/ AddEntry(k) \/ StoreTriples(k) \/ StoreEdges(k)
    \/ \E l \in Layer : Commit(l, k)

-----------------------------------------------------------------------------
(***************************************************************************)
(* What else the owner does.                                               *)
(***************************************************************************)

Flip(o, s) ==
    /\ Request(o)
    /\ prefs' = [prefs EXCEPT ![o] = IF s \in @ THEN @ \ {s} ELSE @ \cup {s}]
    /\ UNCHANGED <<account, project, conv, episodes, facts, lastId,
                   flags, left, storing, counts, task, stored, started, overlapped>>

(* The tool memory_store, with any conversation the model names.           *)
ToolStores(o, c) ==
    /\ Request(o)
    /\ WriteEpisode(o, c)
    /\ UNCHANGED <<flags, prefs, left, storing, counts, task, stored, started, overlapped>>

Others == UNCHANGED <<flags, turnVars, task, overlapped>>

Next ==
    \/ \E c \in Conv : TurnEnds(c) \/ TurnStored(c)
    \/ \E k \in 1 .. Slots : TaskStep(k)
    \/ \E o \in Owner :
        \/ \E s \in Switch : <<o, s>> \in Flips /\ Flip(o, s)
        \/ \E c \in ToolConv : ToolStores(o, c)
    \/ Requested /\ Others
    \/ TimePasses /\ Others
    \/ Sweeper /\ Others

Spec == Init /\ [][Next]_vars

(* The sweeper is a loop without end.                                      *)
Fairness == \A layer \in Edge : WF_vars(Decay(layer) /\ Others)

FairSpec == Spec /\ Fairness

-----------------------------------------------------------------------------
(***************************************************************************)
(* What is recalled for a turn of c.                                       *)
(***************************************************************************)

EpisodesRecalled(o) == {e \in episodes : e.owner = o /\ "recall" \in Effective(o)}

(* Faulty variant: whose skills they are is not asked.                     *)
AllSkillsRecalled(o) == {r \in facts : r.layer = "skills" /\ "recall" \in Effective(o)}

SkillsRecalled(o) ==
    {r \in facts : r.layer = "skills" /\ r.owner = o /\ "recall" \in Effective(o)}

GraphRecalled(o) ==
    {r \in facts : r.layer = "graph" /\ r.owner = o /\ {"recall", "graph"} \subseteq Effective(o)}

(* What is known of the project, whatever the switches say.                *)
BrainRecalled(c) ==
    {r \in facts : /\ r.layer = "brain" /\ r.owner = OwnerOf[c]
                   /\ conv[c].project # NoProject /\ r.project = conv[c].project}

KnowledgeRecalled(c) ==
    {r \in facts : /\ r.layer = "knowledge" /\ r.owner = OwnerOf[c]
                   /\ conv[c].project # NoProject /\ r.project = conv[c].project}

Recalled(c) ==
    SkillsRecalled(OwnerOf[c]) \cup GraphRecalled(OwnerOf[c])
        \cup BrainRecalled(c) \cup KnowledgeRecalled(c)

-----------------------------------------------------------------------------
(***************************************************************************)
(* Properties.                                                             *)
(***************************************************************************)

(* Nobody is told what the assistant learned from someone else.            *)
OwnerScoped ==
    \A c \in Conv : Live(c) =>
        /\ \A r \in Recalled(c) : OwnerOf[r.from] = OwnerOf[c]
        /\ \A e \in EpisodesRecalled(OwnerOf[c]) : e.owner = OwnerOf[c]

(* An episode that belongs to a conversation goes with it, whatever        *)
(* deletes the conversation and whoever still wants to store something.    *)
EpisodesHaveHome ==
    \A e \in episodes : e.conv # NoConv => Live(e.conv)

(* Rows belong to somebody: both of these, and all variables have their    *)
(* types.                                                                  *)
RowsBelong == TypeOK /\ OwnerScoped /\ EpisodesHaveHome

(* A layer reads a conversation at most once in Every of its turns, also   *)
(* after the counts were forgotten.                                        *)
Debounced ==
    \A l \in Layer, c \in Conv : Every * started[l][c] <= stored[l][c]

(* The same fact is stored twice only if two stores of its layer were open *)
(* at the same time, or one answer of the model named it twice.            *)
Key(r) ==
    <<r.layer, r.owner, r.project, IF r.project = NoProject THEN r.conv ELSE NoConv, r.fact>>

TwiceOnlyIfOverlapped ==
    ~overlapped => \A r, s \in facts : Key(r) = Key(s) => r = s

(* A sweep takes no more than one point of support from a fact, only from  *)
(* one that was not seen for long, and leaves it as old as it was.         *)
FadesSlowly ==
    [][task' = task /\ requests' = requests /\ ~TimePasses =>
          \A r \in facts :
             \/ r \in facts'
             \/ r.stale /\ r.support = 1
             \/ r.stale /\ [r EXCEPT !.support = @ - 1] \in facts']_vars

(* An edge that nobody sees again is dropped in the end.                   *)
FadesAway ==
    \A id \in 1 .. MaxId :
        (\E r \in facts : r.id = id /\ r.stale /\ r.layer \in Edge)
            ~> ~(\E r \in facts : r.id = id /\ r.stale)

(* What nobody reinforces fades: one point with each sweep, and away.      *)
Fades == FadesSlowly /\ FadesAway

(* routes/auth.py: the deletion of an account cannot trip a foreign key.   *)
DeletionTripsNoKey == \A o \in account : ~TripsKey(o)

=============================================================================
