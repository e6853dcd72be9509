---------------------------- MODULE IngestionProofs ----------------------------
(***************************************************************************)
(* Proofs about Ingestion, for every set of documents, tasks and embedding *)
(* models, with and without the broker.                                    *)
(***************************************************************************)
EXTENDS Ingestion, SequenceTheorems, TLAPS

(* An ingest under way has a document; once it embeds, a model as well.    *)
TasksOK ==
    \A t \in Coroutines :
        /\ task[t].phase # "idle" => task[t].doc \in Docs
        /\ task[t].phase = "embedding" => task[t].provider \in Providers

(* Nothing hangs on a document that is not there.                          *)
NothingLeft == \A d \in Docs : ~Exists(d) => chunks[d] = NoChunks /\ jobs[d] = <<>>

-----------------------------------------------------------------------------
(***************************************************************************)
(* The helpers of the actions.                                             *)
(***************************************************************************)

(* The choice of a model yields a model.                                   *)
LEMMA ChoiceType ==
    ASSUME keys \in SUBSET (Providers \ {Local})
    PROVE  ProviderForKb \in Providers
<1>1. Usable \in SUBSET Providers /\ Usable # {}
  BY IngestionAssumption DEF Usable
<1>2. \E p \in Usable : \A q \in Usable : Rank[p] <= Rank[q]
  BY <1>1, IngestionAssumption
<1>3. Preferred \in Usable
  BY <1>2 DEF Preferred
<1> QED
  BY <1>1, <1>3 DEF ProviderForKb

(* Marking a job keeps the other jobs, and those of other documents.       *)
LEMMA JobSetEffect ==
    ASSUME jobs \in [Docs -> Seq(JobStatuses)],
           NEW d \in Docs, NEW j \in Nat, NEW value \in JobStatuses,
           JobSet(d, j, value)
    PROVE  /\ jobs' \in [Docs -> Seq(JobStatuses)]
           /\ \A e \in Docs \ {d} : jobs'[e] = jobs[e]
           /\ Len(jobs'[d]) = Len(jobs[d])
           /\ jobs[d] = <<>> <=> jobs'[d] = <<>>
           /\ j \in 1 .. Len(jobs[d]) => jobs'[d][j] = value
<1>1. jobs[d] \in Seq(JobStatuses) /\ DOMAIN jobs[d] = 1 .. Len(jobs[d])
  BY LenProperties
<1>2. CASE j \in 1 .. Len(jobs[d])
  <2> DEFINE s == [jobs[d] EXCEPT ![j] = value]
  <2>1. jobs' = [jobs EXCEPT ![d] = s]
    BY <1>1, <1>2 DEF JobSet
  <2>2. s \in Seq(JobStatuses) /\ Len(s) = Len(jobs[d]) /\ s[j] = value
    BY <1>1, <1>2, ExceptSeq
  <2> HIDE DEF s
  <2>3. jobs'[d] = s /\ \A e \in Docs \ {d} : jobs'[e] = jobs[e]
    BY <2>1
  <2>4. jobs[d] = <<>> <=> s = <<>>
    BY <1>1, <2>2, EmptySeq
  <2> QED
    BY <2>1, <2>2, <2>3, <2>4
<1>3. CASE j \notin 1 .. Len(jobs[d])
  BY <1>1, <1>3 DEF JobSet
<1> QED
  BY <1>2, <1>3


-----------------------------------------------------------------------------
(***************************************************************************)
(* What an action does to documents, and what it does to tasks.            *)
(***************************************************************************)
(* The rows of the documents are in order.                                 *)
DocsOK ==
    /\ status \in [Docs -> DocStatuses]
    /\ chunks \in [Docs -> ChunkSets]
    /\ jobs \in [Docs -> Seq(JobStatuses)]
    /\ NothingLeft /\ RowsAgree /\ JobNeverOverstates

(* So are the tasks.                                                       *)
TasksTyped == task \in [Coroutines -> TaskStates] /\ TasksOK

(* What the documents and the tasks do not depend on.                      *)
OthersTyped ==
    /\ keys \in SUBSET (Providers \ {Local})
    /\ topic \in Seq(Events)
    /\ event \in Events \cup {NoEvent}
    /\ file \in [Files -> [row : BOOLEAN, chunks : BOOLEAN, busy : BOOLEAN]]
    /\ requests \in Nat /\ keyChanges \in Nat /\ crashes \in Nat

(* What is inductive: the properties, and that nothing hangs on a document *)
(* that is not there, and that a task that embeds has a model.             *)
IInv == DocsOK /\ TasksTyped /\ pin \in Providers \cup {NoProvider} /\ OthersTyped

(* The place of a document on the shelf.                                   *)
Place(d) ==
    CASE status[d] = "absent" -> "absent"
      [] status[d] = "deleted" -> "gone"
      [] OTHER -> IF chunks[d] = NoChunks THEN "stored" ELSE "searchable"

(* No document moves.                                                      *)
ShelfSame == \A d \in Docs : Place(d)' = Place(d)

(* One document moves on by one step of DocumentShelf.                     *)
ShelfMoves ==
    \E d \in Docs :
        /\ \A e \in Docs \ {d} : Place(e)' = Place(e)
        /\ \/ Place(d) = "absent" /\ Place(d)' = "stored"
           \/ Place(d) = "stored" /\ Place(d)' = "searchable"
           \/ Place(d) \in {"stored", "searchable"} /\ Place(d)' = "gone"

(* A task that ends is as if it had never been.                            *)
LEMMA EndedTyped ==
    ASSUME TasksTyped, NEW t \in Coroutines, Ended(t)
    PROVE  TasksTyped'
<1>1. IdleTask \in TaskStates
  BY DEF IdleTask, TaskStates
<1>2. task' \in [Coroutines -> TaskStates]
  BY <1>1 DEF Ended, TasksTyped
<1>3. TasksOK'
  <2> SUFFICES ASSUME NEW u \in Coroutines
               PROVE  /\ task'[u].phase # "idle" => task'[u].doc \in Docs
                      /\ task'[u].phase = "embedding" => task'[u].provider \in Providers
    BY DEF TasksOK
  <2>1. CASE u = t
    BY <2>1 DEF Ended, TasksTyped, IdleTask
  <2>2. CASE u # t
    BY <2>2 DEF Ended, TasksTyped, TasksOK
  <2> QED
    BY <2>1, <2>2
<1> QED
  BY <1>2, <1>3 DEF TasksTyped

(* A document whose status and jobs are set stays in order, if the status  *)
(* and the latest job that come out of it do.                              *)
LEMMA OneDocument ==
    ASSUME DocsOK, NEW d \in Docs,
           status' \in [Docs -> DocStatuses],
           chunks' \in [Docs -> ChunkSets],
           jobs' \in [Docs -> Seq(JobStatuses)],
           \A e \in Docs \ {d} :
               status'[e] = status[e] /\ chunks'[e] = chunks[e] /\ jobs'[e] = jobs[e],
           status'[d] \in {"absent", "deleted"} => chunks'[d] = NoChunks /\ jobs'[d] = <<>>,
           status'[d] = "completed" => chunks'[d] # NoChunks,
           jobs'[d] # <<>> /\ jobs'[d][Len(jobs'[d])] = "completed" => status'[d] = "completed"
    PROVE  DocsOK' /\ \A e \in Docs \ {d} : Place(e)' = Place(e)
<1>1. NothingLeft'
  BY DEF DocsOK, NothingLeft, Exists
<1>2. RowsAgree'
  BY DEF DocsOK, RowsAgree
<1>3. JobNeverOverstates'
  BY DEF DocsOK, JobNeverOverstates
<1>4. \A e \in Docs \ {d} : Place(e)' = Place(e)
  BY DEF Place, NoChunks
<1> QED
  BY <1>1, <1>2, <1>3, <1>4 DEF DocsOK

(* A failure takes nothing away.                                           *)
LEMMA FailEffect ==
    ASSUME DocsOK, TasksTyped, NEW d \in Docs, NEW t \in Coroutines, Fail(d, t)
    PROVE  DocsOK' /\ TasksTyped' /\ ShelfSame
<1>1. TasksTyped'
  BY EndedTyped DEF Fail
<1>2. Len(jobs[d]) \in Nat /\ (jobs[d] # <<>> => Len(jobs[d]) \in 1 .. Len(jobs[d]))
  BY EmptySeq, LenProperties DEF DocsOK
<1>3. JobSet(d, Len(jobs[d]), "failed")
  BY DEF Fail, MarkFailed
<1>4. /\ jobs' \in [Docs -> Seq(JobStatuses)]
      /\ \A e \in Docs \ {d} : jobs'[e] = jobs[e]
      /\ Len(jobs'[d]) = Len(jobs[d])
      /\ jobs[d] = <<>> <=> jobs'[d] = <<>>
      /\ jobs[d] # <<>> => jobs'[d][Len(jobs[d])] = "failed"
  <2>1. jobs \in [Docs -> Seq(JobStatuses)] /\ "failed" \in JobStatuses
    BY DEF DocsOK, JobStatuses
  <2> QED
    BY <1>2, <1>3, <2>1, JobSetEffect
<1>5. /\ chunks' = chunks
      /\ status' = IF Exists(d) THEN [status EXCEPT ![d] = "failed"] ELSE status
  BY DEF Fail, RolledBack
<1>6. /\ status' \in [Docs -> DocStatuses]
      /\ \A e \in Docs \ {d} : status'[e] = status[e]
      /\ status'[d] = IF Exists(d) THEN "failed" ELSE status[d]
  BY <1>5 DEF DocsOK, DocStatuses
<1>7. status'[d] # "completed"
  BY <1>6 DEF Exists
<1>8. status'[d] \in {"absent", "deleted"} => chunks'[d] = NoChunks /\ jobs'[d] = <<>>
  BY <1>4, <1>5, <1>6 DEF DocsOK, NothingLeft, Exists
<1>9. jobs'[d] # <<>> => jobs'[d][Len(jobs'[d])] = "failed"
  BY <1>4
<1>10. DocsOK' /\ \A e \in Docs \ {d} : Place(e)' = Place(e)
  BY <1>4, <1>5, <1>6, <1>7, <1>8, <1>9, OneDocument DEF DocsOK
<1>11. Place(d)' = Place(d)
  BY <1>5, <1>6 DEF Place, Exists, NoChunks
<1> QED
  BY <1>1, <1>10, <1>11 DEF ShelfSame

(* A chunk set that is stored is a chunk set.                              *)
LEMMA ChunkSetType ==
    ASSUME NEW vectors \in Providers, NEW provider \in Providers
    PROVE  /\ [vectors |-> vectors, tag |-> provider] \in ChunkSets
           /\ [vectors |-> vectors, tag |-> provider] # NoChunks
  BY IngestionAssumption DEF ChunkSets, NoChunks

(* What ends an ingest in a success, or in a failure if the document is    *)
(* gone: nothing is lost, and the document may become searchable.          *)
LEMMA FinishEffect ==
    ASSUME DocsOK, TasksTyped, pin \in Providers \cup {NoProvider},
           NEW d \in Docs, NEW t \in Coroutines, NEW j \in Nat,
           NEW vectors \in Providers, NEW provider \in Providers,
           Finish(d, t, j, vectors, provider)
    PROVE  /\ DocsOK' /\ TasksTyped' /\ pin' \in Providers \cup {NoProvider}
           /\ ShelfSame \/ ShelfMoves
<1>1. CASE ~Exists(d) /\ Fail(d, t)
  <2>1. pin' = pin
    BY <1>1 DEF Fail
  <2> QED
    BY <1>1, <2>1, FailEffect
<1>2. CASE Stored(d, vectors, provider) /\ JobSet(d, j, "completed") /\ Ended(t)
  <2> DEFINE c == [vectors |-> vectors, tag |-> provider]
  <2>1. TasksTyped'
    BY <1>2, EndedTyped
  <2>2. pin' \in Providers \cup {NoProvider}
    BY <1>2 DEF Stored
  <2>3. jobs \in [Docs -> Seq(JobStatuses)] /\ "completed" \in JobStatuses
    BY DEF DocsOK, JobStatuses
  <2>4. jobs' \in [Docs -> Seq(JobStatuses)] /\ \A e \in Docs \ {d} : jobs'[e] = jobs[e]
    BY <1>2, <2>3, JobSetEffect
  <2>5. c \in ChunkSets /\ c # NoChunks
    BY ChunkSetType
  <2>6. /\ chunks' = [chunks EXCEPT ![d] = c]
        /\ status' = [status EXCEPT ![d] = "completed"]
        /\ Exists(d)
    BY <1>2 DEF Stored
  <2> HIDE DEF c
  <2>7. /\ chunks' \in [Docs -> ChunkSets] /\ chunks'[d] = c
        /\ \A e \in Docs \ {d} : chunks'[e] = chunks[e]
    BY <2>5, <2>6 DEF DocsOK
  <2>8. /\ status' \in [Docs -> DocStatuses] /\ status'[d] = "completed"
        /\ \A e \in Docs \ {d} : status'[e] = status[e]
    BY <2>6 DEF DocsOK, DocStatuses
  <2>9. DocsOK' /\ \A e \in Docs \ {d} : Place(e)' = Place(e)
    BY <2>4, <2>5, <2>7, <2>8, OneDocument
  <2>10. Place(d)' = "searchable" /\ Place(d) \in {"stored", "searchable"}
    <3>1. status[d] # "absent" /\ status[d] # "deleted"
      BY <2>6 DEF Exists
    <3>2. Place(d)' = "searchable"
      BY <2>5, <2>7, <2>8 DEF Place, NoChunks
    <3>3. Place(d) \in {"stored", "searchable"}
      BY <3>1 DEF Place
    <3> QED
      BY <3>2, <3>3
  <2>11. ShelfSame \/ ShelfMoves
    BY <2>9, <2>10 DEF ShelfSame, ShelfMoves
  <2> QED
    BY <2>1, <2>2, <2>9, <2>11
<1> QED
  BY <1>1, <1>2 DEF Finish

-----------------------------------------------------------------------------
(***************************************************************************)
(* The steps.                                                              *)
(***************************************************************************)
(* What each step does to the shelf.                                       *)
Kept == ShelfSame \/ ShelfMoves

(* A step that leaves the rows alone leaves the documents where they are.  *)
LEMMA RowsAlone ==
    ASSUME UNCHANGED <<status, chunks, jobs>>
    PROVE  (DocsOK => DocsOK') /\ ShelfSame
<1>1. DocsOK => DocsOK'
  BY DEF DocsOK, NothingLeft, RowsAgree, JobNeverOverstates, Exists
<1>2. ShelfSame
  BY DEF ShelfSame, Place, NoChunks
<1> QED
  BY <1>1, <1>2

(* A task that is set to a state with a document, and to one with a model  *)
(* if it is to embed.                                                      *)
LEMMA OneTask ==
    ASSUME TasksTyped, NEW t \in Coroutines, NEW q \in TaskStates,
           q.phase # "idle" => q.doc \in Docs,
           q.phase = "embedding" => q.provider \in Providers,
           task' = [task EXCEPT ![t] = q]
    PROVE  TasksTyped'
<1>1. task' \in [Coroutines -> TaskStates]
  BY DEF TasksTyped
<1>2. \A u \in Coroutines : task'[u] = IF u = t THEN q ELSE task[u]
  BY DEF TasksTyped
<1> QED
  BY <1>1, <1>2 DEF TasksTyped, TasksOK

(* What is published is an event.                                         *)
LEMMA PublishedType ==
    ASSUME topic \in Seq(Events), NEW d \in Docs, NEW n \in 0 .. Retries - 1,
           Published(d, n)
    PROVE  topic' \in Seq(Events)
<1>1. [doc |-> d, attempt |-> n] \in Events
  BY DEF Events
<1> QED
  BY <1>1, AppendProperties DEF Published

(* An upload puts a document on the shelf; a re-ingest leaves it there.    *)
LEMMA NewJobStep ==
    ASSUME IInv, NEW d \in Docs, NEW t \in Tasks,
           Upload(d, t) \/ Reingest(d, t)
    PROVE  IInv' /\ Kept
<1> DEFINE q == [IdleTask EXCEPT !.phase = "dispatching", !.doc = d]
           js == Append(jobs[d], "pending")
<1>1. NewJob(d, t) /\ t \in Coroutines /\ status[d] # "deleted"
  BY DEF Upload, Reingest, Exists, Coroutines
<1>2. TasksTyped'
  <2>1. q \in TaskStates /\ q.phase = "dispatching" /\ q.doc = d
    BY DEF IdleTask, TaskStates
  <2> QED
    BY <1>1, <2>1, OneTask DEF NewJob, IInv
<1>3. /\ js \in Seq(JobStatuses) /\ js[Len(js)] = "pending"
  <2>1. jobs[d] \in Seq(JobStatuses) /\ "pending" \in JobStatuses
    BY DEF IInv, DocsOK, JobStatuses
  <2> QED
    BY <2>1, AppendProperties
<1>4. /\ jobs' = [jobs EXCEPT ![d] = js]
      /\ status' = [status EXCEPT ![d] = "pending"] /\ chunks' = chunks
  BY <1>1 DEF NewJob
<1> HIDE DEF js
<1>5. /\ jobs' \in [Docs -> Seq(JobStatuses)] /\ jobs'[d] = js
      /\ \A e \in Docs \ {d} : jobs'[e] = jobs[e]
  BY <1>3, <1>4 DEF IInv, DocsOK
<1>6. /\ status' \in [Docs -> DocStatuses] /\ status'[d] = "pending"
      /\ \A e \in Docs \ {d} : status'[e] = status[e]
  BY <1>4 DEF IInv, DocsOK, DocStatuses
<1>7. DocsOK' /\ \A e \in Docs \ {d} : Place(e)' = Place(e)
  BY <1>3, <1>4, <1>5, <1>6, OneDocument DEF IInv, DocsOK
<1>8. ASSUME status[d] = "absent"
      PROVE  Kept
  <2>1. chunks[d] = NoChunks
    BY <1>8 DEF IInv, DocsOK, NothingLeft, Exists
  <2>2. Place(d) = "absent" /\ Place(d)' = "stored"
    BY <1>4, <1>6, <1>8, <2>1 DEF Place, NoChunks
  <2> QED
    BY <1>7, <2>2 DEF ShelfMoves, Kept
<1>9. ASSUME status[d] # "absent"
      PROVE  Kept
  <2>1. Place(d)' = Place(d)
    BY <1>1, <1>4, <1>6, <1>9 DEF Place, NoChunks
  <2> QED
    BY <1>7, <2>1 DEF ShelfSame, Kept
<1>10. OthersTyped' /\ pin' = pin
  BY <1>1 DEF NewJob, IInv, OthersTyped
<1> QED
  BY <1>2, <1>7, <1>8, <1>9, <1>10 DEF IInv

(* A deletion leaves nothing behind.                                       *)
LEMMA DeleteStep ==
    ASSUME IInv, NEW d \in Docs, Delete(d)
    PROVE  IInv' /\ Kept
<1>1. /\ status' = [status EXCEPT ![d] = "deleted"]
      /\ chunks' = [chunks EXCEPT ![d] = NoChunks]
      /\ jobs' = [jobs EXCEPT ![d] = <<>>]
      /\ status[d] # "absent" /\ status[d] # "deleted"
  BY DEF Delete, Exists
<1>2. /\ status' \in [Docs -> DocStatuses] /\ status'[d] = "deleted"
      /\ chunks' \in [Docs -> ChunkSets] /\ chunks'[d] = NoChunks
      /\ \A e \in Docs \ {d} : status'[e] = status[e] /\ chunks'[e] = chunks[e]
  BY <1>1 DEF IInv, DocsOK, DocStatuses, ChunkSets
<1>3. /\ jobs' \in [Docs -> Seq(JobStatuses)] /\ jobs'[d] = <<>>
      /\ \A e \in Docs \ {d} : jobs'[e] = jobs[e]
  BY <1>1, EmptySeq DEF IInv, DocsOK
<1>4. DocsOK' /\ \A e \in Docs \ {d} : Place(e)' = Place(e)
  BY <1>2, <1>3, OneDocument DEF IInv
<1>5. Place(d) \in {"stored", "searchable"} /\ Place(d)' = "gone"
  <2>1. Place(d) \in {"stored", "searchable"}
    BY <1>1 DEF Place
  <2>2. Place(d)' = "gone"
    BY <1>2 DEF Place
  <2> QED
    BY <2>1, <2>2
<1>6. TasksTyped' /\ OthersTyped' /\ pin' = pin
  BY DEF Delete, IInv, TasksTyped, TasksOK, OthersTyped, counters
<1> QED
  BY <1>4, <1>5, <1>6 DEF IInv, ShelfMoves, Kept

(* Dispatching touches no row.                                             *)
LEMMA DispatchStep ==
    ASSUME IInv, NEW t \in Coroutines, DispatchByEvent(t) \/ DispatchInProcess(t)
    PROVE  IInv' /\ Kept
<1>1. task[t] \in TaskStates /\ task[t].doc \in Docs
  BY DEF DispatchByEvent, DispatchInProcess, IInv, TasksTyped, TasksOK
<1>2. DocsOK' /\ ShelfSame
  BY RowsAlone DEF DispatchByEvent, DispatchInProcess, IInv
<1>3. TasksTyped'
  <2>1. CASE DispatchByEvent(t)
    BY <2>1, EndedTyped DEF DispatchByEvent, Ended, IInv
  <2>2. CASE DispatchInProcess(t)
    <3> DEFINE q == [task[t] EXCEPT !.phase = "ready"]
    <3>1. q \in TaskStates /\ q.phase = "ready" /\ q.doc \in Docs
      BY <1>1 DEF TaskStates
    <3>2. task' = [task EXCEPT ![t] = q]
      BY <2>2 DEF DispatchInProcess
    <3> QED
      BY <3>1, <3>2, OneTask DEF IInv
  <2> QED
    BY <2>1, <2>2
<1>4. topic' \in Seq(Events)
  <2>1. 0 \in 0 .. Retries - 1
    BY IngestionAssumption
  <2>2. topic \in Seq(Events)
    BY DEF IInv, OthersTyped
  <2>3. topic' = topic \/ Published(task[t].doc, 0)
    BY DEF DispatchByEvent, DispatchInProcess
  <2> QED
    BY <1>1, <2>1, <2>2, <2>3, PublishedType
<1>5. OthersTyped' /\ pin' = pin
  BY <1>4 DEF DispatchByEvent, DispatchInProcess, IInv, OthersTyped, counters
<1> QED
  BY <1>2, <1>3, <1>5 DEF IInv, Kept

(* The ways an ingest may begin.                                           *)
LEMMA BeginStep ==
    ASSUME IInv, NEW t \in Coroutines, Begins(t)
    PROVE  IInv' /\ Kept
<1> DEFINE d == task[t].doc
           n == Len(jobs[d])
<1>1. d \in Docs /\ task[t] \in TaskStates
  BY DEF Begins, BeginVanished, BeginUnchanged, BeginUnreadable, BeginReusing,
         BeginEmbedding, IInv, TasksTyped, TasksOK
<1>2. OthersTyped'
  BY DEF Begins, BeginVanished, BeginUnchanged, BeginUnreadable, BeginReusing,
         BeginEmbedding, IInv, OthersTyped, counters
<1>3. n \in Nat /\ (jobs[d] # <<>> => n \in 1 .. n)
  BY <1>1, EmptySeq, LenProperties DEF IInv, DocsOK
<1>4. ProviderForKb \in Providers
  BY ChoiceType DEF IInv, OthersTyped
<1>5. DocsOK /\ TasksTyped /\ pin \in Providers \cup {NoProvider}
      /\ jobs \in [Docs -> Seq(JobStatuses)]
  BY DEF IInv, DocsOK
<1> HIDE DEF n
<1>6. CASE BeginVanished(t)
  <2>1. DocsOK' /\ ShelfSame
    BY <1>5, <1>6, RowsAlone DEF BeginVanished
  <2>2. TasksTyped' /\ pin' = pin
    BY <1>5, <1>6, EndedTyped DEF BeginVanished
  <2> QED
    BY <1>2, <1>5, <2>1, <2>2 DEF IInv, Kept
<1>7. CASE BeginUnchanged(t)
  <2>1. JobSet(d, n, "completed") /\ "completed" \in JobStatuses
    BY <1>7 DEF BeginUnchanged, JobStatuses, n
  <2>2. /\ jobs' \in [Docs -> Seq(JobStatuses)]
        /\ \A e \in Docs \ {d} : jobs'[e] = jobs[e]
    BY <1>1, <1>3, <1>5, <2>1, JobSetEffect
  <2>3. status' = status /\ chunks' = chunks /\ status[d] = "completed"
    BY <1>7 DEF BeginUnchanged
  <2>4. /\ status \in [Docs -> DocStatuses] /\ chunks \in [Docs -> ChunkSets]
        /\ chunks[d] # NoChunks
    BY <1>1, <1>5, <2>3 DEF DocsOK, RowsAgree
  <2>5. DocsOK' /\ \A e \in Docs \ {d} : Place(e)' = Place(e)
    BY <1>1, <1>5, <2>2, <2>3, <2>4, OneDocument
  <2>6. ShelfSame
    BY <2>3 DEF ShelfSame, Place, NoChunks
  <2>7. TasksTyped' /\ pin' = pin
    BY <1>5, <1>7, EndedTyped DEF BeginUnchanged
  <2> QED
    BY <1>2, <1>5, <2>5, <2>6, <2>7 DEF IInv, Kept
<1>8. CASE BeginUnreadable(t)
  <2>1. Fail(d, t) /\ pin' = pin
    BY <1>8 DEF BeginUnreadable, Fail
  <2> QED
    BY <1>1, <1>2, <1>5, <2>1, FailEffect DEF IInv, Kept
<1>9. CASE BeginReusing(t)
  <2>1. Finish(d, t, n, chunks[d].vectors, ProviderForKb) /\ chunks[d] # NoChunks
    BY <1>9 DEF BeginReusing, n
  <2>2. chunks[d].vectors \in Providers
    BY <1>1, <1>5, <2>1 DEF DocsOK, ChunkSets
  <2> QED
    BY <1>1, <1>2, <1>3, <1>4, <1>5, <2>1, <2>2, FinishEffect DEF IInv, Kept
<1>10. CASE BeginEmbedding(t)
  <2> DEFINE q == [task[t] EXCEPT !.phase = "embedding", !.job = n,
                                  !.provider = ProviderForKb]
  <2>1. TasksTyped'
    <3>1. /\ q \in TaskStates
          /\ q.phase = "embedding" /\ q.doc \in Docs /\ q.provider \in Providers
      BY <1>1, <1>3, <1>4 DEF TaskStates
    <3>2. task' = [task EXCEPT ![t] = q]
      BY <1>10 DEF BeginEmbedding, n
    <3> QED
      BY <1>5, <3>1, <3>2, OneTask
  <2>2. JobSet(d, n, "embedding") /\ "embedding" \in JobStatuses
    BY <1>10 DEF BeginEmbedding, JobStatuses, n
  <2>3. /\ jobs' \in [Docs -> Seq(JobStatuses)]
        /\ \A e \in Docs \ {d} : jobs'[e] = jobs[e]
        /\ Len(jobs'[d]) = n
        /\ jobs[d] = <<>> <=> jobs'[d] = <<>>
        /\ n \in 1 .. n => jobs'[d][n] = "embedding"
    BY <1>1, <1>3, <1>5, <2>2, JobSetEffect DEF n
  <2>4. status' = [status EXCEPT ![d] = "processing"] /\ chunks' = chunks /\ Exists(d)
    BY <1>10 DEF BeginEmbedding
  <2>5. /\ status' \in [Docs -> DocStatuses] /\ status'[d] = "processing"
        /\ \A e \in Docs \ {d} : status'[e] = status[e]
        /\ chunks' \in [Docs -> ChunkSets]
    BY <1>1, <1>5, <2>4 DEF DocsOK, DocStatuses
  <2>6. jobs'[d] # <<>> => jobs'[d][Len(jobs'[d])] = "embedding"
    BY <1>3, <2>3
  <2>7. DocsOK' /\ \A e \in Docs \ {d} : Place(e)' = Place(e)
    BY <1>1, <1>5, <2>3, <2>4, <2>5, <2>6, OneDocument
  <2>8. pin' = pin
    BY <1>10 DEF BeginEmbedding
  <2>9. status[d] # "absent" /\ status[d] # "deleted"
    BY <2>4 DEF Exists
  <2> HIDE DEF d
  <2>10. PICK c \in Docs : c = d
    BY <1>1
  <2>11. Place(c)' = Place(c)
    BY <2>4, <2>5, <2>9, <2>10 DEF Place, NoChunks
  <2>12. ShelfSame
    BY <2>7, <2>10, <2>11 DEF ShelfSame
  <2> QED
    BY <1>2, <1>5, <2>1, <2>7, <2>8, <2>12 DEF IInv, Kept
<1> QED
  BY <1>6, <1>7, <1>8, <1>9, <1>10 DEF Begins

(* The ways an embedding may end.                                          *)
LEMMA EmbedStep ==
    ASSUME IInv, NEW t \in Coroutines, Embeds(t)
    PROVE  IInv' /\ Kept
<1>1. /\ task[t].doc \in Docs /\ task[t].provider \in Providers
      /\ task[t].job \in Nat
  BY DEF Embeds, Embedded, EmbedFails, IInv, TasksTyped, TasksOK, TaskStates
<1>2. OthersTyped'
  BY DEF Embeds, Embedded, EmbedFails, IInv, OthersTyped, counters
<1>3. CASE Embedded(t)
  <2>1. Finish(task[t].doc, t, task[t].job, task[t].provider, task[t].provider)
    BY <1>3 DEF Embedded
  <2> QED
    BY <1>1, <1>2, <2>1, FinishEffect DEF IInv, Kept
<1>4. CASE EmbedFails(t)
  <2>1. Fail(task[t].doc, t) /\ pin' = pin
    BY <1>4 DEF EmbedFails, Fail
  <2> QED
    BY <1>1, <1>2, <2>1, FailEffect DEF IInv, Kept
<1> QED
  BY <1>3, <1>4 DEF Embeds

(* The worker touches no row; what it publishes is within the retries.     *)
LEMMA WorkerStep ==
    ASSUME IInv, Consume \/ Report
    PROVE  IInv' /\ Kept
<1>1. DocsOK' /\ ShelfSame
  BY RowsAlone DEF Consume, Report, IInv
<1>2. pin' = pin
  BY DEF Consume, Report
<1>3. CASE Consume
  <2> DEFINE q == [IdleTask EXCEPT !.phase = "ready", !.doc = Head(topic).doc]
  <2>1. Head(topic) \in Events /\ Tail(topic) \in Seq(Events)
    BY <1>3, HeadTailProperties DEF Consume, IInv, OthersTyped
  <2>2. /\ q \in TaskStates
        /\ q.phase = "ready" /\ q.doc \in Docs
    BY <2>1 DEF IdleTask, TaskStates, Events
  <2>3. Worker \in Coroutines /\ task' = [task EXCEPT ![Worker] = q]
    BY <1>3 DEF Consume, Coroutines
  <2>4. TasksTyped'
    BY <2>2, <2>3, OneTask DEF IInv
  <2>5. OthersTyped'
    BY <1>3, <2>1 DEF Consume, IInv, OthersTyped, counters
  <2> QED
    BY <1>1, <1>2, <2>4, <2>5 DEF IInv, Kept
<1>4. CASE Report
  <2>1. event \in Events
    BY <1>4 DEF Report, IInv, OthersTyped
  <2>2. topic' \in Seq(Events)
    <3>1. CASE UNCHANGED topic
      BY <3>1 DEF IInv, OthersTyped
    <3>2. CASE Retried(event.attempt) /\ Published(event.doc, event.attempt + 1)
      <4>1. event.doc \in Docs /\ event.attempt + 1 \in 0 .. Retries - 1
        BY <2>1, <3>2, IngestionAssumption DEF Events, Retried
      <4>2. topic \in Seq(Events)
        BY DEF IInv, OthersTyped
      <4> QED
        BY <3>2, <4>1, <4>2, PublishedType
    <3> QED
      BY <1>4, <3>1, <3>2 DEF Report
  <2>3. OthersTyped' /\ task' = task
    BY <1>4, <2>2 DEF Report, IInv, OthersTyped, counters
  <2>4. TasksTyped'
    BY <2>3 DEF IInv, TasksTyped, TasksOK
  <2> QED
    BY <1>1, <1>2, <2>3, <2>4 DEF IInv, Kept
<1> QED
  BY <1>3, <1>4

(* An attached file is apart from all documents.                           *)
FileStates == [row : BOOLEAN, chunks : BOOLEAN, busy : BOOLEAN]

FileType == [Files -> FileStates]

LEMMA FileStep ==
    ASSUME IInv, NEW f \in Files,
           Attach(f) \/ AttachAgain(f) \/ FileEmbedded(f) \/ FileFails(f)
    PROVE  IInv' /\ Kept
<1>1. UNCHANGED <<status, chunks, jobs, pin, keys, task, topic, event, keyChanges, crashes>>
  BY DEF Attach, AttachAgain, FileEmbedded, FileFails, counters
<1>2. DocsOK' /\ ShelfSame
  BY <1>1, RowsAlone DEF IInv
<1>3. TasksTyped'
  BY <1>1 DEF IInv, TasksTyped, TasksOK
<1>4. file' \in FileType
  <2>1. file \in FileType
    BY DEF IInv, OthersTyped, FileType, FileStates
  <2>2. \A q \in FileStates :
            /\ [q EXCEPT !.row = TRUE, !.busy = TRUE] \in FileStates
            /\ [q EXCEPT !.chunks = TRUE, !.busy = FALSE] \in FileStates
            /\ [q EXCEPT !.busy = FALSE] \in FileStates
    BY Zenon DEF FileStates
  <2>3. \/ file' = file
        \/ \E q \in FileStates : file' = [file EXCEPT ![f] = q]
    BY <2>1, <2>2 DEF Attach, AttachAgain, FileEmbedded, FileFails, FileType
  <2> QED
    BY <2>1, <2>3 DEF FileType
<1>5. requests' \in Nat
  BY DEF Attach, AttachAgain, FileEmbedded, FileFails, IInv, OthersTyped, counters
<1> QED
  BY <1>1, <1>2, <1>3, <1>4, <1>5 DEF IInv, OthersTyped, Kept, FileType, FileStates

(* A change of keys touches no row.                                        *)
LEMMA KeyStep ==
    ASSUME IInv, NEW p \in Providers \ {Local}, KeyChanges(p)
    PROVE  IInv' /\ Kept
<1>1. DocsOK' /\ ShelfSame
  BY RowsAlone DEF KeyChanges, IInv
<1>2. TasksTyped' /\ OthersTyped' /\ pin' = pin
  BY DEF KeyChanges, IInv, TasksTyped, TasksOK, OthersTyped
<1> QED
  BY <1>1, <1>2 DEF IInv, Kept

(* A crash loses tasks, and no row.                                        *)
LEMMA CrashStep ==
    ASSUME IInv, Crash
    PROVE  IInv' /\ Kept
<1>1. DocsOK' /\ ShelfSame
  BY RowsAlone DEF Crash, IInv
<1>2. TasksTyped'
  BY DEF Crash, TasksTyped, TasksOK, IdleTask, TaskStates
<1>3. topic' \in Seq(Events)
  <2>1. CASE UNCHANGED topic
    BY <2>1 DEF IInv, OthersTyped
  <2>2. CASE event # NoEvent /\ topic' = <<event>> \o topic
    <3>1. <<event>> \in Seq(Events) /\ topic \in Seq(Events)
      BY <2>2 DEF IInv, OthersTyped
    <3> QED
      BY <2>2, <3>1, ConcatProperties
  <2> QED
    BY <2>1, <2>2 DEF Crash
<1>4. file' \in FileType
  <2>1. \A q \in FileStates : [q EXCEPT !.busy = FALSE] \in FileStates
    BY Zenon DEF FileStates
  <2>2. file \in FileType /\ file' = [f \in Files |-> [file[f] EXCEPT !.busy = FALSE]]
    BY DEF Crash, IInv, OthersTyped, FileType, FileStates
  <2> QED
    BY <2>1, <2>2 DEF FileType
<1>5. OthersTyped' /\ pin' = pin
  BY <1>3, <1>4 DEF Crash, IInv, OthersTyped, FileType, FileStates
<1> QED
  BY <1>1, <1>2, <1>5 DEF IInv, Kept

(* Every step keeps the invariant, and is a step of DocumentShelf.         *)
LEMMA NextStep ==
    ASSUME IInv, [Next]_vars
    PROVE  IInv' /\ Kept
<1>1. ASSUME NEW d \in Docs, NEW t \in Tasks, Upload(d, t) \/ Reingest(d, t)
      PROVE  IInv' /\ Kept
  BY <1>1, NewJobStep
<1>2. ASSUME NEW d \in Docs, Delete(d)
      PROVE  IInv' /\ Kept
  BY <1>2, DeleteStep
<1>3. ASSUME NEW t \in Coroutines, TaskStep(t)
      PROVE  IInv' /\ Kept
  BY <1>3, DispatchStep, BeginStep, EmbedStep DEF TaskStep
<1>4. ASSUME NEW f \in Files,
             Attach(f) \/ AttachAgain(f) \/ FileEmbedded(f) \/ FileFails(f)
      PROVE  IInv' /\ Kept
  BY <1>4, FileStep
<1>5. ASSUME NEW p \in Providers \ {Local}, KeyChanges(p)
      PROVE  IInv' /\ Kept
  BY <1>5, KeyStep
<1>6. CASE UNCHANGED vars
  <2>1. DocsOK' /\ ShelfSame
    BY <1>6, RowsAlone DEF vars, IInv
  <2>2. TasksTyped' /\ OthersTyped' /\ pin' = pin
    BY <1>6 DEF vars, IInv, TasksTyped, TasksOK, OthersTyped
  <2> QED
    BY <2>1, <2>2 DEF IInv, Kept
<1> QED
  BY <1>1, <1>2, <1>3, <1>4, <1>5, <1>6, WorkerStep, CrashStep DEF Next

(* Nothing is there in the beginning.                                      *)
LEMMA InitInv ==
    ASSUME Init
    PROVE  IInv
<1>1. /\ IdleTask \in TaskStates /\ NoChunks \in ChunkSets
      /\ "absent" \in DocStatuses /\ <<>> \in Seq(JobStatuses) /\ <<>> \in Seq(Events)
  BY EmptySeq DEF IdleTask, TaskStates, ChunkSets, DocStatuses
<1>2. DocsOK
  BY <1>1 DEF Init, DocsOK, NothingLeft, RowsAgree, JobNeverOverstates, Exists
<1>3. TasksTyped
  BY <1>1 DEF Init, TasksTyped, TasksOK, IdleTask
<1>4. OthersTyped
  BY <1>1 DEF Init, OthersTyped
<1> QED
  BY <1>2, <1>3, <1>4 DEF Init, IInv

(* The invariant holds in every behaviour.                                 *)
LEMMA InvHolds == Spec => []IInv
<1>1. Init => IInv
  BY InitInv
<1>2. IInv /\ [Next]_vars => IInv'
  BY NextStep
<1> QED
  BY <1>1, <1>2, PTL DEF Spec

-----------------------------------------------------------------------------
(***************************************************************************)
(* The theorems.                                                           *)
(***************************************************************************)

(* Every variable keeps its type; in particular the worker never publishes *)
(* an attempt beyond the configured retries.                               *)
THEOREM TypeCorrect == Spec => []TypeOK
<1>1. IInv => TypeOK
  BY DEF IInv, DocsOK, TasksTyped, OthersTyped, TypeOK
<1> QED
  BY <1>1, InvHolds, PTL

(* However ingests, deletions, keys and crashes interleave: a completed    *)
(* document has chunks, and nothing hangs on a deleted one.                *)
THEOREM RowsAlwaysAgree == Spec => []RowsAgree
<1>1. IInv => RowsAgree
  BY DEF IInv, DocsOK
<1> QED
  BY <1>1, InvHolds, PTL

(* The latest job of a document never says completed of one that is not,   *)
(* although a failing ingest may mark a job that another one began with.   *)
THEOREM JobsNeverOverstate == Spec => []JobNeverOverstates
<1>1. IInv => JobNeverOverstates
  BY DEF IInv, DocsOK
<1> QED
  BY <1>1, InvHolds, PTL

(* Ingestion implements DocumentShelf: what is searchable stays so until   *)
(* it is deleted, and what is deleted stays deleted.                       *)
THEOREM ImplementsShelf == Spec => KeepsShelf
<1> DEFINE S == [d \in Docs |-> CASE status[d] = "absent" -> "absent"
                                  [] status[d] = "deleted" -> "gone"
                                  [] OTHER -> IF chunks[d] = NoChunks THEN "stored"
                                              ELSE "searchable"]
<1>1. S = [d \in Docs |-> Place(d)]
  BY Zenon DEF Place
<1>2. S' = [d \in Docs |-> Place(d)']
  BY Zenon DEF Place, NoChunks
<1>3. Init => Shelf!ShelfInit
  <2>1. ASSUME Init, NEW d \in Docs
        PROVE  Place(d) = "absent"
    BY <2>1 DEF Init, Place
  <2> HIDE DEF S
  <2>2. Init => S = [d \in Docs |-> "absent"]
    BY <1>1, <2>1
  <2> QED
    BY <2>2 DEF Shelf!ShelfInit, S
<1>4. Kept => [Shelf!ShelfNext]_S
  <2> HIDE DEF S
  <2>1. CASE ShelfSame
    <3>1. S' = S
      BY <1>1, <1>2, <2>1 DEF ShelfSame
    <3> QED
      BY <3>1
  <2>2. CASE ShelfMoves
    <3>1. PICK d \in Docs :
              /\ \A e \in Docs \ {d} : Place(e)' = Place(e)
              /\ \/ Place(d) = "absent" /\ Place(d)' = "stored"
                 \/ Place(d) = "stored" /\ Place(d)' = "searchable"
                 \/ Place(d) \in {"stored", "searchable"} /\ Place(d)' = "gone"
      BY <2>2 DEF ShelfMoves
    <3>2. S' = [S EXCEPT ![d] = Place(d)'] /\ S[d] = Place(d)
      BY <1>1, <1>2, <3>1
    <3>3. \/ S[d] = "absent" /\ S' = [S EXCEPT ![d] = "stored"]
          \/ S[d] = "stored" /\ S' = [S EXCEPT ![d] = "searchable"]
          \/ S[d] \in {"stored", "searchable"} /\ S' = [S EXCEPT ![d] = "gone"]
      BY <3>1, <3>2
    <3>4. Shelf!Store(d) \/ Shelf!Index(d) \/ Shelf!Remove(d)
      BY <3>3 DEF Shelf!Store, Shelf!Index, Shelf!Remove, S
    <3> QED
      BY <3>4 DEF Shelf!ShelfNext
  <2> QED
    BY <2>1, <2>2 DEF Kept
<1>5. IInv /\ [Next]_vars => [Shelf!ShelfNext]_S
  BY <1>4, NextStep
<1> QED
  BY <1>3, <1>5, InvHolds, PTL DEF Spec, KeepsShelf, Shelf!ShelfSpec

-----------------------------------------------------------------------------
(***************************************************************************)
(* One vector space.  While the keys stay, every ingest that looks at them *)
(* chooses the same model: the pin, if it is set, is already that model.   *)
(* So are the model of every ingest that embeds, and that of the vectors   *)
(* which a later ingest takes over.                                        *)
(***************************************************************************)
FirstChoice == CHOOSE p \in Providers : \A q \in Providers : Rank[p] <= Rank[q]

SpaceInv ==
    keyChanges = 0 =>
        /\ keys = Providers \ {Local}
        /\ pin \in {NoProvider, FirstChoice}
        /\ \A d \in Docs : chunks[d] # NoChunks =>
              chunks[d].vectors = FirstChoice /\ chunks[d].tag = FirstChoice /\ pin = FirstChoice
        /\ \A t \in Coroutines : task[t].phase = "embedding" => task[t].provider = FirstChoice

(* The choice is the same before and after the pin is set.                 *)
LEMMA ChoiceStays ==
    ASSUME SpaceInv, keyChanges = 0
    PROVE  ProviderForKb = FirstChoice /\ FirstChoice \in Providers
<1>1. Usable = Providers
  BY IngestionAssumption DEF SpaceInv, Usable
<1>2. Preferred = FirstChoice
  BY <1>1 DEF Preferred, FirstChoice
<1>3. \E p \in Providers : \A q \in Providers : Rank[p] <= Rank[q]
  BY IngestionAssumption
<1>4. FirstChoice \in Providers
  BY <1>3 DEF FirstChoice
<1> QED
  BY <1>1, <1>2, <1>4, IngestionAssumption DEF SpaceInv, ProviderForKb

(* A step that stores nothing and starts no embedding keeps the space.     *)
LEMMA QuietKeepsSpace ==
    ASSUME SpaceInv, UNCHANGED <<pin, keys, keyChanges>>,
           \A d \in Docs : chunks'[d] \in {chunks[d], NoChunks},
           \A t \in Coroutines :
               task'[t].phase = "embedding" =>
                   task[t].phase = "embedding" /\ task'[t].provider = task[t].provider
    PROVE  SpaceInv'
  BY DEF SpaceInv, FirstChoice, NoChunks

(* A task that ends or that is set to a phase before the embedding, while  *)
(* the other tasks go on.                                                  *)
LEMMA TaskTurnsQuiet ==
    ASSUME TasksTyped, NEW t \in Coroutines, NEW q, q.phase # "embedding",
           task' = [task EXCEPT ![t] = q]
    PROVE  \A u \in Coroutines :
               task'[u].phase = "embedding" =>
                   task[u].phase = "embedding" /\ task'[u].provider = task[u].provider
<1>1. \A u \in Coroutines : task'[u] = IF u = t THEN q ELSE task[u]
  BY DEF TasksTyped
<1> QED
  BY <1>1

(* An ingest that ends with the vectors and the tag of that one model, or  *)
(* that fails.                                                             *)
LEMMA FinishKeepsSpace ==
    ASSUME IInv, SpaceInv, UNCHANGED <<keys, keyChanges>>,
           NEW d \in Docs, NEW t \in Coroutines, NEW j,
           NEW vectors, NEW provider,
           keyChanges = 0 => vectors = FirstChoice /\ provider = FirstChoice,
           Finish(d, t, j, vectors, provider)
    PROVE  SpaceInv'
<1>1. Ended(t)
  BY DEF Finish, Fail
<1>2. \A u \in Coroutines :
         task'[u].phase = "embedding" =>
             task[u].phase = "embedding" /\ task'[u].provider = task[u].provider
  BY <1>1, TaskTurnsQuiet DEF IInv, Ended, IdleTask
<1>3. CASE ~Exists(d) /\ Fail(d, t)
  BY <1>2, <1>3, QuietKeepsSpace DEF Fail, RolledBack
<1>4. CASE Stored(d, vectors, provider)
  <2> SUFFICES ASSUME keyChanges = 0
               PROVE  SpaceInv'
    BY DEF SpaceInv
  <2>1. /\ chunks' = [chunks EXCEPT ![d] = [vectors |-> FirstChoice, tag |-> FirstChoice]]
        /\ pin' = IF pin = NoProvider THEN FirstChoice ELSE pin
    BY <1>4 DEF Stored
  <2>2. pin' = FirstChoice
    BY <2>1 DEF SpaceInv
  <2>3. \A e \in Docs : chunks'[e] = IF e = d THEN [vectors |-> FirstChoice, tag |-> FirstChoice]
                                     ELSE chunks[e]
    BY <2>1 DEF IInv, DocsOK
  <2>4. FirstChoice' = FirstChoice /\ NoChunks' = NoChunks
    BY DEF FirstChoice, NoChunks
  <2>5. \A e \in Docs : chunks'[e] # NoChunks =>
           chunks'[e].vectors = FirstChoice /\ chunks'[e].tag = FirstChoice
    BY <2>3 DEF SpaceInv
  <2>6. \A u \in Coroutines : task'[u].phase = "embedding" => task'[u].provider = FirstChoice
    BY <1>2 DEF SpaceInv
  <2> QED
    BY <2>2, <2>4, <2>5, <2>6 DEF SpaceInv
<1> QED
  BY <1>3, <1>4 DEF Finish

LEMMA BeginKeepsSpace ==
    ASSUME IInv, SpaceInv, NEW t \in Coroutines, Begins(t)
    PROVE  SpaceInv'
<1> DEFINE d == task[t].doc
<1>1. TasksTyped /\ task[t].phase = "ready" /\ d \in Docs
  BY DEF IInv, TasksTyped, TasksOK, Begins, BeginVanished, BeginUnchanged, BeginUnreadable,
         BeginReusing, BeginEmbedding
<1>2. ASSUME Ended(t)
      PROVE  \A u \in Coroutines :
               task'[u].phase = "embedding" =>
                   task[u].phase = "embedding" /\ task'[u].provider = task[u].provider
  BY <1>1, <1>2, TaskTurnsQuiet DEF Ended, IdleTask
<1>3. CASE BeginVanished(t) \/ BeginUnchanged(t)
  BY <1>2, <1>3, QuietKeepsSpace DEF BeginVanished, BeginUnchanged, counters
<1>4. CASE BeginUnreadable(t)
  BY <1>2, <1>4, QuietKeepsSpace DEF BeginUnreadable, Fail, RolledBack, counters
<1>5. CASE BeginReusing(t)
  <2>1. /\ chunks[d] # NoChunks
        /\ Finish(d, t, Len(jobs[d]), chunks[d].vectors, ProviderForKb)
        /\ UNCHANGED <<keys, keyChanges>>
    BY <1>5 DEF BeginReusing, counters
  <2>2. keyChanges = 0 => chunks[d].vectors = FirstChoice /\ ProviderForKb = FirstChoice
    BY <1>1, <2>1, ChoiceStays DEF SpaceInv
  <2> HIDE DEF d
  <2> QED
    BY <1>1, <2>1, <2>2, FinishKeepsSpace
<1>6. CASE BeginEmbedding(t)
  <2>1. /\ task' = [task EXCEPT ![t] = [task[t] EXCEPT !.phase = "embedding",
                       !.job = Len(jobs[d]), !.provider = ProviderForKb]]
        /\ UNCHANGED <<chunks, pin, keys, keyChanges>>
    BY <1>6 DEF BeginEmbedding, counters
  <2>2. task[t] \in TaskStates
    BY <1>1 DEF TasksTyped
  <2>3. task'[t].provider = ProviderForKb
    BY <1>1, <2>1, <2>2 DEF TasksTyped, TaskStates
  <2>4. \A u \in Coroutines \ {t} : task'[u] = task[u]
    BY <1>1, <2>1 DEF TasksTyped
  <2>5. keyChanges = 0 =>
           \A u \in Coroutines : task'[u].phase = "embedding" => task'[u].provider = FirstChoice
    BY <2>3, <2>4, ChoiceStays DEF SpaceInv
  <2>6. FirstChoice' = FirstChoice /\ NoChunks' = NoChunks
    BY DEF FirstChoice, NoChunks
  <2> QED
    BY <2>1, <2>5, <2>6 DEF SpaceInv
<1> QED
  BY <1>3, <1>4, <1>5, <1>6 DEF Begins

LEMMA NextKeepsSpace ==
    ASSUME IInv, SpaceInv, [Next]_vars
    PROVE  SpaceInv'
<1>1. TasksTyped
  BY DEF IInv
<1>2. ASSUME NEW d \in Docs, NEW t \in Tasks, NewJob(d, t)
      PROVE  SpaceInv'
  <2> DEFINE q == [IdleTask EXCEPT !.phase = "dispatching", !.doc = d]
  <2>1. q.phase # "embedding" /\ t \in Coroutines
    BY DEF IdleTask, Coroutines
  <2>2. task' = [task EXCEPT ![t] = q] /\ UNCHANGED <<chunks, pin, keys, keyChanges>>
    BY <1>2 DEF NewJob
  <2> HIDE DEF q
  <2> QED
    BY <1>1, <2>1, <2>2, TaskTurnsQuiet, QuietKeepsSpace
<1>3. ASSUME NEW d \in Docs, Delete(d)
      PROVE  SpaceInv'
  <2>1. \A e \in Docs : chunks'[e] \in {chunks[e], NoChunks}
    BY <1>3 DEF Delete, IInv, DocsOK
  <2>2. UNCHANGED <<task, pin, keys, keyChanges>>
    BY <1>3 DEF Delete, counters
  <2> QED
    BY <2>1, <2>2, QuietKeepsSpace
<1>4. ASSUME NEW t \in Coroutines, DispatchByEvent(t) \/ DispatchInProcess(t)
      PROVE  SpaceInv'
  <2>1. UNCHANGED <<chunks, pin, keys, keyChanges>>
    BY <1>4 DEF DispatchByEvent, DispatchInProcess, counters
  <2>2. PICK q : q.phase # "embedding" /\ task' = [task EXCEPT ![t] = q]
    <3>1. CASE DispatchByEvent(t)
      BY <3>1 DEF DispatchByEvent, IdleTask
    <3>2. CASE DispatchInProcess(t)
      <4>1. task' = [task EXCEPT ![t] = [task[t] EXCEPT !.phase = "ready"]]
        BY <3>2 DEF DispatchInProcess
      <4>2. [task[t] EXCEPT !.phase = "ready"].phase # "embedding"
        BY <1>1 DEF TasksTyped, TaskStates
      <4> QED
        BY <4>1, <4>2
    <3> QED
      BY <1>4, <3>1, <3>2
  <2> QED
    BY <1>1, <2>1, <2>2, TaskTurnsQuiet, QuietKeepsSpace
<1>5. ASSUME NEW t \in Coroutines, Embeds(t)
      PROVE  SpaceInv'
  <2> DEFINE d == task[t].doc
  <2>1. d \in Docs /\ task[t].phase = "embedding"
    BY <1>1, <1>5 DEF TasksTyped, TasksOK, Embeds, Embedded, EmbedFails
  <2>2. CASE Embedded(t)
    <3>1. /\ Finish(d, t, task[t].job, task[t].provider, task[t].provider)
          /\ UNCHANGED <<keys, keyChanges>>
      BY <2>2 DEF Embedded, counters
    <3>2. keyChanges = 0 => task[t].provider = FirstChoice
      BY <2>1 DEF SpaceInv
    <3> HIDE DEF d
    <3> QED
      BY <2>1, <3>1, <3>2, FinishKeepsSpace
  <2>3. CASE EmbedFails(t)
    <3>1. Ended(t) /\ UNCHANGED <<chunks, pin, keys, keyChanges>>
      BY <2>3 DEF EmbedFails, Fail, RolledBack, counters
    <3>2. task' = [task EXCEPT ![t] = IdleTask] /\ IdleTask.phase # "embedding"
      BY <3>1 DEF Ended, IdleTask
    <3> QED
      BY <1>1, <3>1, <3>2, TaskTurnsQuiet, QuietKeepsSpace
  <2> QED
    BY <1>5, <2>2, <2>3 DEF Embeds
<1>6. ASSUME Consume \/ Report
      PROVE  SpaceInv'
  <2>1. CASE Consume
    <3> DEFINE q == [IdleTask EXCEPT !.phase = "ready", !.doc = Head(topic).doc]
    <3>1. q.phase # "embedding" /\ Worker \in Coroutines
      BY DEF IdleTask, Coroutines
    <3>2. task' = [task EXCEPT ![Worker] = q] /\ UNCHANGED <<chunks, pin, keys, keyChanges>>
      BY <2>1 DEF Consume, counters
    <3> HIDE DEF q
    <3> QED
      BY <1>1, <3>1, <3>2, TaskTurnsQuiet, QuietKeepsSpace
  <2>2. CASE Report
    BY <2>2, QuietKeepsSpace DEF Report, counters
  <2> QED
    BY <1>6, <2>1, <2>2
<1>7. ASSUME NEW f \in Files,
             Attach(f) \/ AttachAgain(f) \/ FileEmbedded(f) \/ FileFails(f)
      PROVE  SpaceInv'
  BY <1>7, QuietKeepsSpace DEF Attach, AttachAgain, FileEmbedded, FileFails, counters
<1>8. ASSUME NEW p \in Providers \ {Local}, KeyChanges(p)
      PROVE  SpaceInv'
  <2>1. keyChanges' # 0
    BY <1>8 DEF KeyChanges, IInv, OthersTyped
  <2> QED
    BY <2>1 DEF SpaceInv
<1>9. ASSUME Crash
      PROVE  SpaceInv'
  <2>1. \A u \in Coroutines : task'[u].phase # "embedding"
    BY <1>9 DEF Crash, IdleTask
  <2>2. UNCHANGED <<chunks, pin, keys, keyChanges>>
    BY <1>9 DEF Crash
  <2> QED
    BY <2>1, <2>2, QuietKeepsSpace
<1>10. CASE UNCHANGED vars
  BY <1>10, QuietKeepsSpace DEF vars
<1> QED
  BY <1>2, <1>3, <1>4, <1>5, <1>6, <1>7, <1>8, <1>9, <1>10, BeginKeepsSpace
     DEF Next, TaskStep, Upload, Reingest

(* As long as no key comes or goes, all vectors of a knowledge base are    *)
(* those of one model, the one that it is pinned to, however many ingests  *)
(* choose before the pin is set, fail, are repeated or take vectors over.  *)
THEOREM OneSpace == Spec => []OneSpaceWhileKeysStay
<1>1. Init => SpaceInv
  BY DEF Init, SpaceInv, NoChunks, IdleTask
<1>2. IInv /\ SpaceInv /\ [Next]_vars => SpaceInv'
  BY NextKeepsSpace
<1>3. SpaceInv => OneSpaceWhileKeysStay
  BY DEF SpaceInv, OneSpaceWhileKeysStay
<1> QED
  BY <1>1, <1>2, <1>3, InvHolds, PTL DEF Spec

=============================================================================
