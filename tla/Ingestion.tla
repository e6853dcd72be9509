------------------------------- MODULE Ingestion -------------------------------
(***************************************************************************)
(* services/rag_ingestion.py with services/rag_events.py,                  *)
(* workers/rag_index_worker.py and the routes of routes/knowledge.py: how  *)
(* uploaded documents of a knowledge base, and files attached to a chat,   *)
(* become embedded chunks.                                                 *)
(*                                                                         *)
(* An ingest waits only while its chunks are embedded, batch after batch;  *)
(* what it does before and after is one action each.  It runs as a         *)
(* background task of the request, or in the worker that consumes the      *)
(* Kafka topic.                                                            *)
(***************************************************************************)
EXTENDS Integers, Sequences

CONSTANTS
    Docs,           \* documents of the knowledge base
    Files,          \* files attached to a conversation
    Tasks,          \* background tasks of requests
    Worker,         \* the task of the Kafka worker
    Providers,      \* embedding models
    Local,          \* the keyless encoder, the last resort
    Rank,           \* [Providers -> Nat]: rag_embedding_preference
    NoProvider, NoDoc,
    Kafka,          \* rag_kafka_indexing
    Retries,        \* rag_kafka_index_retries, 3
    MaxRequests,    \* bound on uploads, re-ingests and attachments
    MaxKeyChanges,  \* bound on the changes of the provider keys
    MaxCrashes      \* bound on the crashes

ASSUME IngestionAssumption ==
    /\ Worker \notin Tasks
    /\ Local \in Providers
    /\ Rank \in [Providers -> Nat]
    /\ \A S \in SUBSET Providers :      \* the ranks are places in a list
           S # {} => \E p \in S : \A q \in S : Rank[p] <= Rank[q]
    /\ NoProvider \notin Providers
    /\ NoDoc \notin Docs
    /\ Kafka \in BOOLEAN
    /\ Retries \in Nat \ {0}
    /\ MaxRequests \in Nat
    /\ MaxKeyChanges \in Nat
    /\ MaxCrashes \in Nat

VARIABLES
    status,     \* of each document row
    chunks,     \* the chunks of each document: their vectors and their tag
    jobs,       \* the status of each ingestion job of a document, oldest first
    pin,        \* the embedding model that the knowledge base is pinned to
    keys,       \* the providers with a usable key
    task,       \* the ingests in progress
    topic,      \* nexus.document.uploaded
    event,      \* the event that the worker handles
    file,       \* the attached files
    requests, keyChanges, crashes

vars == <<status, chunks, jobs, pin, keys, task, topic, event, file,
          requests, keyChanges, crashes>>

counters == <<requests, keyChanges, crashes>>

Coroutines == Tasks \cup {Worker}

NoChunks == [vectors |-> NoProvider, tag |-> NoProvider]

ChunkSets == [vectors : Providers, tag : Providers] \cup {NoChunks}

DocStatuses == {"absent", "pending", "processing", "completed", "failed", "deleted"}

JobStatuses == {"pending", "embedding", "completed", "failed"}

Events == [doc : Docs, attempt : 0 .. Retries - 1]

NoEvent == [doc |-> NoDoc, attempt |-> 0]

IdleTask == [phase |-> "idle", doc |-> NoDoc, job |-> 0, provider |-> NoProvider]

TaskStates ==
    [phase : {"idle", "dispatching", "ready", "embedding"}, doc : Docs \cup {NoDoc},
     job : Nat, provider : Providers \cup {NoProvider}]

(* Every variable has a value of its type.                                 *)
TypeOK ==
    /\ status \in [Docs -> DocStatuses]
    /\ chunks \in [Docs -> ChunkSets]
    /\ jobs \in [Docs -> Seq(JobStatuses)]
    /\ pin \in Providers \cup {NoProvider}
    /\ keys \in SUBSET (Providers \ {Local})
    /\ task \in [Coroutines -> TaskStates]
    /\ topic \in Seq(Events)
    /\ event \in Events \cup {NoEvent}
    /\ file \in [Files -> [row : BOOLEAN, chunks : BOOLEAN, busy : BOOLEAN]]
    /\ requests \in Nat /\ keyChanges \in Nat /\ crashes \in Nat

Init ==
    /\ status = [d \in Docs |-> "absent"]
    /\ chunks = [d \in Docs |-> NoChunks]
    /\ jobs = [d \in Docs |-> <<>>]
    /\ pin = NoProvider
    /\ keys = Providers \ {Local}
    /\ task = [t \in Coroutines |-> IdleTask]
    /\ topic = <<>>
    /\ event = NoEvent
    /\ file = [f \in Files |-> [row |-> FALSE, chunks |-> FALSE, busy |-> FALSE]]
    /\ requests = 0 /\ keyChanges = 0 /\ crashes = 0

Exists(d) == status[d] \notin {"absent", "deleted"}

-----------------------------------------------------------------------------
(***************************************************************************)
(* routes/knowledge.py and dispatch_ingestion.                             *)
(***************************************************************************)

(* The rows are committed, the request goes on to dispatch the ingest.     *)
NewJob(d, t) ==
    /\ requests < MaxRequests
    /\ requests' = requests + 1
    /\ task[t].phase = "idle"
    /\ task' = [task EXCEPT ![t] = [IdleTask EXCEPT !.phase = "dispatching", !.doc = d]]
    /\ status' = [status EXCEPT ![d] = "pending"]
    /\ jobs' = [jobs EXCEPT ![d] = Append(@, "pending")]
    /\ UNCHANGED <<chunks, pin, keys, topic, event, file, keyChanges, crashes>>

Upload(d, t) == status[d] = "absent" /\ NewJob(d, t)

Reingest(d, t) == Exists(d) /\ NewJob(d, t)

(* The rows of the document, its chunks and its jobs go together.          *)
Delete(d) ==
    /\ Exists(d)
    /\ status' = [status EXCEPT ![d] = "deleted"]
    /\ chunks' = [chunks EXCEPT ![d] = NoChunks]
    /\ jobs' = [jobs EXCEPT ![d] = <<>>]
    /\ UNCHANGED <<pin, keys, task, topic, event, file, counters>>

Published(d, attempt) == topic' = Append(topic, [doc |-> d, attempt |-> attempt])

(* The broker has the event, and the request knows.                        *)
DispatchByEvent(t) ==
    /\ Kafka
    /\ task[t].phase = "dispatching"
    /\ Published(task[t].doc, 0)
    /\ task' = [task EXCEPT ![t] = IdleTask]
    /\ UNCHANGED <<status, chunks, jobs, pin, keys, event, file, counters>>

(* Faulty variant: the failure of the broker is swallowed.                 *)
DispatchNowhere(t) ==
    /\ task[t].phase = "dispatching"
    /\ task' = [task EXCEPT ![t] = IdleTask]
    /\ UNCHANGED <<status, chunks, jobs, pin, keys, topic, event, file, counters>>

(* No broker, or publishing failed or timed out: the request ingests by    *)
(* itself, and the event may be delivered all the same.                    *)
DispatchInProcess(t) ==
    /\ task[t].phase = "dispatching"
    /\ task' = [task EXCEPT ![t].phase = "ready"]
    /\ \/ UNCHANGED topic
       \/ Kafka /\ Published(task[t].doc, 0)
    /\ UNCHANGED <<status, chunks, jobs, pin, keys, event, file, counters>>

-----------------------------------------------------------------------------
(***************************************************************************)
(* ingest_document.                                                        *)
(***************************************************************************)

(* resolve_embedding_provider and embedding_provider_for_kb.               *)
Usable == keys \cup {Local}

Preferred == CHOOSE p \in Usable : \A q \in Usable : Rank[p] <= Rank[q]

ProviderForKb == IF pin \in Usable THEN pin ELSE Preferred

Ended(t) == task' = [task EXCEPT ![t] = IdleTask]

JobSet(d, j, value) ==
    jobs' = IF j \in DOMAIN jobs[d] THEN [jobs EXCEPT ![d][j] = value] ELSE jobs

(* Faulty variant: the job that this ingest began with is marked.          *)
MarkOwnJob(d, t) == JobSet(d, task[t].job, "failed")

(* _fail marks the latest job, be it this ingest's or not.                 *)
MarkFailed(d, t) == JobSet(d, Len(jobs[d]), "failed")

(* Faulty variant: a failed ingest cleans up after itself.                 *)
CleanedUp(d) == chunks' = [chunks EXCEPT ![d] = NoChunks]

(* Nothing was written: what an earlier ingest stored stays.               *)
RolledBack(d) == chunks' = chunks

(* The document and its latest job are marked, if they still exist.        *)
Fail(d, t) ==
    /\ status' = IF Exists(d) THEN [status EXCEPT ![d] = "failed"] ELSE status
    /\ MarkFailed(d, t)
    /\ RolledBack(d)
    /\ Ended(t)
    /\ UNCHANGED pin

(* Faulty variant: rows are inserted for a document that is gone.          *)
StoredAnyway(d, vectors, provider) ==
    /\ chunks' = [chunks EXCEPT ![d] = [vectors |-> vectors, tag |-> provider]]
    /\ pin' = IF pin = NoProvider THEN provider ELSE pin
    /\ status' = IF Exists(d) THEN [status EXCEPT ![d] = "completed"] ELSE status

(* Faulty variant: the tag is that of the keyless encoder.                 *)
StoredAsLocal(d, vectors, provider) ==
    /\ Exists(d)
    /\ chunks' = [chunks EXCEPT ![d] = [vectors |-> vectors, tag |-> Local]]
    /\ pin' = IF pin = NoProvider THEN provider ELSE pin
    /\ status' = [status EXCEPT ![d] = "completed"]

(* One transaction: old chunks out, new ones in, the pin, the status.  The *)
(* foreign key to the document makes it fail if the document is gone.      *)
Stored(d, vectors, provider) ==
    /\ Exists(d)
    /\ chunks' = [chunks EXCEPT ![d] = [vectors |-> vectors, tag |-> provider]]
    /\ pin' = IF pin = NoProvider THEN provider ELSE pin
    /\ status' = [status EXCEPT ![d] = "completed"]

(* The vectors are stored under the tag of the provider of this ingest.    *)
Finish(d, t, job, vectors, provider) ==
    \/ /\ Stored(d, vectors, provider)
       /\ JobSet(d, job, "completed")
       /\ Ended(t)
    \/ ~Exists(d) /\ Fail(d, t)

(* The document vanished before its ingest began.                          *)
BeginVanished(t) ==
    /\ task[t].phase = "ready"
    /\ ~Exists(task[t].doc)
    /\ Ended(t)
    /\ UNCHANGED <<status, chunks, jobs, pin, keys, topic, event, file, counters>>

(* Completed before, and the bytes of a document never change: skipped.    *)
BeginUnchanged(t) ==
    LET d == task[t].doc
    IN  /\ task[t].phase = "ready"
        /\ status[d] = "completed"
        /\ JobSet(d, Len(jobs[d]), "completed")
        /\ Ended(t)
        /\ UNCHANGED <<status, chunks, pin, keys, topic, event, file, counters>>

(* No text can be extracted, or it gives no chunks.                        *)
BeginUnreadable(t) ==
    LET d == task[t].doc
    IN  /\ task[t].phase = "ready"
        /\ Exists(d) /\ status[d] # "completed"
        /\ Fail(d, t)
        /\ UNCHANGED <<keys, topic, event, file, counters>>

(* There are vectors of an earlier ingest: all of them are reused, without *)
(* a look at the model that made them.  No chunk has to be embedded.       *)
BeginReusing(t) ==
    LET d == task[t].doc
    IN  /\ task[t].phase = "ready"
        /\ Exists(d) /\ status[d] # "completed"
        /\ chunks[d] # NoChunks
        /\ Finish(d, t, Len(jobs[d]), chunks[d].vectors, ProviderForKb)
        /\ UNCHANGED <<keys, topic, event, file, counters>>

(* All chunks are to be embedded, by the model that is chosen here.        *)
BeginEmbedding(t) ==
    LET d == task[t].doc
    IN  /\ task[t].phase = "ready"
        /\ Exists(d) /\ status[d] # "completed"
        /\ chunks[d] = NoChunks
        /\ status' = [status EXCEPT ![d] = "processing"]
        /\ JobSet(d, Len(jobs[d]), "embedding")
        /\ task' = [task EXCEPT ![t] = [@ EXCEPT
                       !.phase = "embedding", !.job = Len(jobs[d]),
                       !.provider = ProviderForKb]]
        /\ UNCHANGED <<chunks, pin, keys, topic, event, file, counters>>

(* The last batch has come back.                                           *)
Embedded(t) ==
    LET q == task[t]
    IN  /\ q.phase = "embedding"
        /\ Finish(q.doc, t, q.job, q.provider, q.provider)
        /\ UNCHANGED <<keys, topic, event, file, counters>>

EmbedFails(t) ==
    /\ task[t].phase = "embedding"
    /\ Fail(task[t].doc, t)
    /\ UNCHANGED <<keys, topic, event, file, counters>>

-----------------------------------------------------------------------------
(***************************************************************************)
(* The worker: one event at a time.                                        *)
(***************************************************************************)
Consume ==
    /\ event = NoEvent /\ topic # <<>>
    /\ event' = Head(topic)
    /\ topic' = Tail(topic)
    /\ task' = [task EXCEPT ![Worker] =
                  [IdleTask EXCEPT !.phase = "ready", !.doc = Head(topic).doc]]
    /\ UNCHANGED <<status, chunks, jobs, pin, keys, file, counters>>

(* Faulty variant: one retry too many.                                     *)
RetriesOnceMore(attempt) == attempt + 1 <= Retries

Retried(attempt) == attempt + 1 < Retries

(* After the ingest the status is read anew: a retry is published, and may *)
(* get lost without a word, or the document goes to the dead-letter queue, *)
(* or it is announced as indexed.                                          *)
Report ==
    /\ event # NoEvent /\ task[Worker].phase = "idle"
    /\ event' = NoEvent
    /\ \/ UNCHANGED topic
       \/ /\ status[event.doc] # "completed"
          /\ Retried(event.attempt)
          /\ Published(event.doc, event.attempt + 1)
    /\ UNCHANGED <<status, chunks, jobs, pin, keys, task, file, counters>>

-----------------------------------------------------------------------------
(***************************************************************************)
(* ingest_conversation_document, for a file with readable text.            *)
(***************************************************************************)

(* The row is committed as completed before the chunks are embedded.       *)
Attach(f) ==
    /\ requests < MaxRequests
    /\ requests' = requests + 1
    /\ ~file[f].row
    /\ file' = [file EXCEPT ![f] = [@ EXCEPT !.row = TRUE, !.busy = TRUE]]
    /\ UNCHANGED <<status, chunks, jobs, pin, keys, task, topic, event, keyChanges, crashes>>

(* The same bytes are attached again: there is a row, so nothing is done.  *)
AttachAgain(f) ==
    /\ requests < MaxRequests
    /\ requests' = requests + 1
    /\ file[f].row
    /\ UNCHANGED <<status, chunks, jobs, pin, keys, task, topic, event, file, keyChanges,
                   crashes>>

FileEmbedded(f) ==
    /\ file[f].busy
    /\ file' = [file EXCEPT ![f] = [@ EXCEPT !.chunks = TRUE, !.busy = FALSE]]
    /\ UNCHANGED <<status, chunks, jobs, pin, keys, task, topic, event, counters>>

(* The failure is logged; the rollback does not undo the committed row.    *)
FileFails(f) ==
    /\ file[f].busy
    /\ file' = [file EXCEPT ![f].busy = FALSE]
    /\ UNCHANGED <<status, chunks, jobs, pin, keys, task, topic, event, counters>>

-----------------------------------------------------------------------------
(***************************************************************************)
(* The environment.                                                        *)
(***************************************************************************)

(* A key of p is added, removed, switched, or found bad.                   *)
KeyChanges(p) ==
    /\ keyChanges < MaxKeyChanges
    /\ keyChanges' = keyChanges + 1
    /\ keys' = IF p \in keys THEN keys \ {p} ELSE keys \cup {p}
    /\ UNCHANGED <<status, chunks, jobs, pin, task, topic, event, file, requests, crashes>>

(* The process dies with all its tasks.  The offset of the event that the  *)
(* worker was handling was committed by the timer, or was not.             *)
Crash ==
    /\ crashes < MaxCrashes
    /\ crashes' = crashes + 1
    /\ task' = [t \in Coroutines |-> IdleTask]
    /\ event' = NoEvent
    /\ \/ UNCHANGED topic
       \/ event # NoEvent /\ topic' = <<event>> \o topic
    /\ file' = [f \in Files |-> [file[f] EXCEPT !.busy = FALSE]]
    /\ UNCHANGED <<status, chunks, jobs, pin, keys, requests, keyChanges>>

Embeds(t) == Embedded(t) \/ EmbedFails(t)

Begins(t) ==
    \/ BeginVanished(t) \/ BeginUnchanged(t) \/ BeginUnreadable(t)
    \/ BeginReusing(t) \/ BeginEmbedding(t)

TaskStep(t) == DispatchByEvent(t) \/ DispatchInProcess(t) \/ Begins(t) \/ Embeds(t)

Next ==
    \/ \E d \in Docs : Delete(d) \/ \E t \in Tasks : Upload(d, t) \/ Reingest(d, t)
    \/ \E t \in Coroutines : TaskStep(t)
    \/ Consume \/ Report
    \/ \E f \in Files : Attach(f) \/ AttachAgain(f) \/ FileEmbedded(f) \/ FileFails(f)
    \/ \E p \in Providers \ {Local} : KeyChanges(p)
    \/ Crash

Spec == Init /\ [][Next]_vars

(* Requests, tasks and the worker go on, and calls of providers end: their *)
(* clients have timeouts.                                                  *)
FairSpec ==
    /\ Spec
    /\ \A t \in Coroutines : WF_vars(TaskStep(t))
    /\ WF_vars(Consume) /\ WF_vars(Report)

-----------------------------------------------------------------------------
(***************************************************************************)
(* Properties.                                                             *)
(***************************************************************************)

(* A document that is called completed has chunks, and one that was        *)
(* deleted has neither chunks nor jobs, although ingests of it go on.      *)
RowsAgree ==
    \A d \in Docs :
        /\ status[d] = "completed" => chunks[d] # NoChunks
        /\ status[d] = "deleted" => chunks[d] = NoChunks /\ jobs[d] = <<>>

(* The client polls the latest job.  However ingests of one document       *)
(* overlap, a completed latest job means a completed document.             *)
JobNeverOverstates ==
    \A d \in Docs :
        jobs[d] # <<>> /\ jobs[d][Len(jobs[d])] = "completed" => status[d] = "completed"

(* Ingestion implements DocumentShelf: in particular a failed or repeated  *)
(* ingest never takes a searchable document away.                          *)
Shelf == INSTANCE DocumentShelf WITH
    shelf <- [d \in Docs |-> CASE status[d] = "absent" -> "absent"
                               [] status[d] = "deleted" -> "gone"
                               [] OTHER -> IF chunks[d] = NoChunks THEN "stored"
                                           ELSE "searchable"]

KeepsShelf == Shelf!ShelfSpec

(* A document does not wait for ever, as long as no process crashes: each  *)
(* upload and each re-ingest comes to an end, by whichever way it goes.    *)
EveryIngestSettles ==
    \A d \in Docs :
        status[d] \in {"pending", "processing"} ~>
            status[d] \in {"completed", "failed", "deleted"} \/ crashes > 0

(* As long as no key comes or goes, the vectors of a document are those of *)
(* the model in its tag, and of the one that the knowledge base is pinned  *)
(* to, although ingests choose before the pin is set and take over the     *)
(* vectors of earlier ones whatever their model.                           *)
OneSpaceWhileKeysStay ==
    keyChanges = 0 =>
        \A d \in Docs : chunks[d] # NoChunks => chunks[d].vectors = pin /\ chunks[d].tag = pin

=============================================================================
