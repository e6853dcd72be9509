# A verification project for the Nexus assistant backend

The backend in `src/app` answers chat messages with language models of many
providers, runs tools, researches at length, keeps memories, and retrieves from
documents. It is one asyncio process with a relational database, and optionally
Redis and Kafka. This directory holds TLA+ models of its concurrent core, the
TLC configurations that check them and the TLAPS proofs of what matters most.

Section 1 is the inventory, section 2 the plan. Sections 3 to 10 describe each
module with its runs, section 11 the proofs, section 12 what disagrees with the
documentation, section 13 what is not modelled.

## 1. Inventory

| Component | State | Operations | What is hard |
|---|---|---|---|
| Fallback routing (`services/fallback_router.py`) | the locals of each request: list of models, pass, skip sets, counters, deadline | `route_chat`, `route_stream_chat` | requests interleave at each provider call; skip sets learnt from errors; key rows read before a call and used after it |
| Cooldowns (`services/rate_limit.py`) | `_cooldowns`, `_failure_counts`, for the process | set, test, clear | shared by all requests and never locked |
| Provider health (`services/provider_health.py`) | `status`, `last_error`, `last_checked` of each key row | `record_failure`, `record_success`, `usable_filter` | benching expires by the clock; users edit the rows meanwhile |
| Deep Research relay (same file) | place in the list, rounds, authors, credited models | `_deep_research_relay` and its two entries | several models continue one text; failures in the middle of it |
| WebSocket sessions (`services/ws_manager.py`, `routes/agent.py`) | three dictionaries by session id, a gauge | register, unregister, touch, send, keepalive loop | endpoint, generation and loop interleave; two sockets may share an id |
| Tool executor (`services/tool_executor.py`) | semaphore of a batch, sliding windows of the rate limiter | `execute_batch`, `_execute_one`, HTTP retries | timeouts behind a shield, cancellation, threads that cannot be stopped |
| Chat turn (`services/agent.py`, `services/multimodal_chat.py`, `routes/chat.py`, `routes/agent.py`, `routes/knowledge.py`) | the locals of a turn, the rows it stores | six endpoints that ask, gather, run tools, route, stream and store | many fallbacks; what is stored when a stream fails, is cancelled or timed out; rows that the owner deletes meanwhile |
| Conversations (`routes/conversations.py`, `routes/projects.py`, `models/db_models.py`) | conversations as a tree, their messages | branch, truncate, detach, delete with its branches | requests in threads against turns on the event loop |
| Document ingestion (`services/rag_ingestion.py`, `workers/`, `services/rag_events.py`) | documents, jobs, chunks, embedding pin of a knowledge base | upload, reingest, delete, worker with retries | partial failure, repeated delivery, two ingests of one document |
| Retrieval (`services/rag_retrieval.py`, `services/rag_cache.py`, `providers/reranker.py`) | cached answers per scope | ask, search, fuse, rerank, expand, keep | results computed before and stored after an invalidation; arbitrary replies of a reranker |
| Chunking (`services/rag_chunking.py`) | none | pages, sections, parents, windows | offsets of offsets, boundaries |
| Memory (`memory/`, `services/memory_manager.py`, `rag/knowledge_graph.py`) | episodes, skills, brain entries, edges with support, counters of turns | learn in the background, recall, forget, fade | debounced extraction that waits for a model; look-up before insert; erasure meanwhile |
| Accounts and projects (`routes/auth.py`, `routes/projects.py`, `memory/data_lifecycle.py`) | all rows of an owner | delete, purge, assign, retain | several erasures of different selections; order of deletions; background tasks that still write |
| User data cache (`tools/user_service.py`, `services/redis_cache.py`) | Redis entries with a TTL | read through, create, update | a fill that overtakes an invalidation; late commands; threads that outlive a timeout |
| Configuration and token budget (`services/agent.py`, `services/tool_registry.py`, `services/token_budget.py`) | `_config`, `_token_budget_manager`, the registry | load, reload, apply to tools, check and truncate results | a file of any shape, applied in part; reloads in threads that overlap |
| Working memory (`memory/working.py`) | rings of messages per session | append, evict | limits |
| Agent events (`services/kafka_producer.py`, `services/kafka_consumer.py`) | a bounded buffer | emit, flush | best effort at a limit |
| Provider clients, exports, prompts, domain tools, metrics | none of interest | | I/O and formatting |

Interactions. Chat turns and every helper that needs a model call the router;
router and relay share the cooldowns and the key rows,
and the embeddings read the same rows. A chat turn hands batches of tool
calls to the executor. The WebSocket endpoint runs a turn as a task and sends
its chunks through the session registry, which the keepalive loop prunes.
Uploads reach ingestion through a background task or Kafka; ingestion cuts
documents into chunks and invalidates the cache that retrieval fills. The end of
a turn hands it to memory, whose tasks run on while owners erase what they read
and wrote; the prompt of the next turn recalls what they stored.

## 2. Plan

Done: FallbackRouter with RateLimit and ProviderHealth and their proofs;
DeepResearchRelay with its abstract contract; WsSessions; ToolExecutor;
Ingestion with its abstract specification and their proofs; Conversations and
ChatTurn with their abstract contract and their proofs; MemoryStore and Memory;
the services RetrievalCache, Ranking, Chunking, UserCache, AgentConfig and
TokenBudget. Every safety property that a run checks is proved as well.

To come: `WorkingMemory` (rings and the least recently used session), the buffer
of the event producer, the validation of plans, the order of models and its
synchronisation.

The number of runs is kept small: one run per question, each composed so that
all actions of its module happen in it. The type invariant is a property of
its own, or the first conjunct of an invariant of the run (*FooterTruthful*,
*BookkeepingAgrees*, *PermitsBalance*, *RowsBelong* and those of section 10).

## 3. FallbackRouter, RateLimit, ProviderHealth

`RateLimit` models `services/rate_limit.py`, `ProviderHealth` models
`services/provider_health.py`, both as operators on one entry; `FallbackRouter`
holds the shared maps and the locals of each request. A request is a coroutine:
an action begins when a provider call returns and ends when the next one is
awaited, because the code between two awaits runs alone on the event loop.

| Model | Code |
|---|---|
| `cooldown`, `failures` | `_cooldowns`, `_failure_counts` |
| `keys` | the `api_keys` rows |
| `req[r]` | locals of `route_chat` / `route_stream_chat` |
| `Start` | ordering of models, first choice |
| `Succeed`, `StreamEmpty`, `KeyRefused`, `Throttled`, `ModelMissing`, `Flaky`, `NotRetryable` | the branches after a provider call |
| `Cancel` | cancellation at the await |
| `ToggleKey`, `DeleteKey`, `TestKey` | `routes/keys.py` |

`Places` and `Chances` give the pairs of pass, model and key that are still to
come; `NextKey` finishes the key list that was read before the call, `NextModel`
moves on. The order of models is a constant set of lists: the code sorts them by
size, health and request, and the properties do not depend on which order it
is. Errors are the classes that the two classifiers of the code tell apart.
`Saves` says whether the database update of a health record succeeds: if it
does not, the verdict is lost, as in the code.

Runs. `MCFallbackRouter_Single`: one request, two platforms, three models,
three keys, all errors, both modes. *SkipsHaveCause*, *NeverCalledTwice*,
*LateCallsStayOnModel* and, under fairness, *EveryRequestEnds*.
`MCFallbackRouter_Shared`: two accounts with a shared and a private key, and
edits of the keys. *SkipsRespected*, *BenchedKeyOnlyFromOldList*,
*GivesUpWithReason*. Two models on one platform are needed for platform-wide
skips, two keys for a model that survives a bad key, two passes for the empty
stream, and a clock to 3 for a cooldown or a bench time that expires between
two passes. Fairness: each provider call ends (the HTTP clients have timeouts).

The model takes the synchronous routes of `routes/keys.py`, which run in a
thread pool, as atomic at their commit. It leaves out one corner of SQLAlchemy:
after a failed commit the session's rows are expired, and a row that was deleted
in the meantime raises at `fallback_router.py:377`; every such path but one
leaves the list of keys anyway.

## 4. DeepResearchRelay and RelayContract

A relay lets a model write, and another one continue when it fails, stalls or
is cut off. One action is one segment's end together with the choice of the next
(`Continue`, `Choose`): between them the code does not wait. It does between a
choice and the call when another model was credited last: the generator is
suspended with a hand-off marker (`announcing`, `fallback_router.py:740`) until
whoever takes its events asks for the next (`Resume`), or goes away (`Cancel`).
`Chunk` is text that reaches the client. The text is abstracted to the sequence
of its authors. `live` abstracts the key query of the relay;
`KeyChanges` and `OthersFail` are what users and other requests do to keys and
cooldowns.

`RelayContract` is the abstract promise: a bounded number of calls, each counted
from its choice on, a place in
the list that only moves forward, no return to a model whose segment failed,
credit only for segments that produced text. `KeepsContract` says that the relay
implements it, under a refinement mapping.

Run `MCDeepResearchRelay`: three models on two platforms, lists of one to three
models and the empty one, four rounds, one change from outside, errors with and
without the words of authentication in their text. It also checks
*FooterTruthful*, *SegmentUsesReadyKey* and *EveryRelayEnds*, which needs no
assumption on the clock. *SegmentUsesReadyKey*: each segment is chosen with a
live key of the account whose pair is not cooling down, also when a model merely
goes on after its token cap; and since the code does not look again behind the
marker, a call with a pair that is no longer ready exists, but there only, and
for the pair chosen before it. Its two mutants are a choice that overlooks
cooldowns and a marker in front of each segment. Fairness: a segment ends or is
cut off by the stall timeout of the code, and a suspended generator is resumed:
`route_deep_research` resumes it at once, a stream when its client reads on,
and one whose client does not is a cancelled one in the end. A provider that writes for
ever is excluded, as the code has no guard against it.
`MCDeepResearchRelay_Auth` shows the first finding of section 12.

## 5. WsSessions

`table`, `activity`, `pinged` are `_sessions`, `_last_activity` and
`_ping_sent_at`; `endpoint[s]` is the coroutine of a socket, `chat[s]` the
generation it asked for, `loop` the keepalive loop with its list of ids and the
time since it read the clock. Times are ages capped at a value beyond which the
code sees no difference, so the state space is finite without a bound on time.
A send is two actions, since the coroutine waits in it and the session may
change hands before it returns. An answer that is saved, whole or in part, is
still `storing` memories and events before its "done" goes to whoever has the
session id by then.

Run `MCWsSessions`: two sockets with one session id (a reconnection), a third
with another, two places in the registry, so that a socket may be turned away;
one generation of one chunk; one unit of time may pass within a pass of the
loop. *BookkeepingAgrees* (the dictionaries agree at each await although the
loop works from an old list), *PingMeansSilence* (a pending ping means that
nothing was heard since the idle timeout before it), *SilenceIsNoticed* under
fairness of the loop, the clock and the generations. The loop and its timers
are run by asyncio, and a send is assumed to end because the kernel buffers or
the socket fails: one that hangs for ever would block the loop for all sessions,
and that is not covered. A socket's close handshake
is taken to be immediate; a client asks for one generation per socket.

## 6. ToolExecutor

A call (`call`) and the body of its tool (`body`) are apart: in the first half
of the timeout the call waits behind `asyncio.shield`, in the second for the
task itself, and a sync tool is a thread that no cancellation reaches.
`permits` is the semaphore of a batch; `invocations` is the list that the rate
limiter prunes (`Popped`: from its front, up to the first entry that is inside
the window), `admitted` records all admissions.

Run `MCToolExecutor`: one batch with an HTTP tool and a sync tool and one
permit, another with the same HTTP tool, limited to one call in a window, two
attempts. *PermitsBalance*, *TimeoutStopsTask*, *ResultsTruthful*,
*WindowRespected* and *EveryBatchEnds*. Fairness: the event loop runs what is
ready and timers fire; nothing is assumed of the tools, which may hang. The half
of a timeout fires before the whole, as in the code, without a clock of their
own.

A limit of zero makes `check_and_record` raise an IndexError where the message
is formatted; the result is an error for the call all the same.

## 7. Ingestion and DocumentShelf

| Model | Code |
|---|---|
| `status`, `chunks`, `jobs` | rows of `documents`, `document_chunks`, `ingestion_jobs` |
| `pin`, `keys` | the embedding model of the knowledge base, `api_keys` |
| `task[t]` | a coroutine in `ingest_document`: a background task, or the worker's |
| `topic`, `event` | the Kafka topic, the event that the worker handles |
| `file` | documents attached to a conversation |
| `Upload`, `Reingest`, `Delete` | `routes/knowledge.py` |
| `DispatchByEvent`, `DispatchInProcess` | `dispatch_ingestion`, `publish` |
| `BeginVanished` ... `BeginEmbedding` | `ingest_document` up to its first wait |
| `Embedded`, `EmbedFails`, `Fail` | the end of the wait, `_fail` |
| `Consume`, `Report` | `run_worker`, `_handle` |
| `Attach` ... `FileFails` | `ingest_conversation_document` |

An ingest waits only in `provider.embed`. What it does between two waits runs
alone on the event loop and is one action; the deletion of a document runs in a
thread, but as the code commits in that stretch only what a deletion removes,
its effect is that of one before or after. The bytes of a document and the
settings of the chunker do not change, so either all chunks can be reused or
none; `rag_dedup_by_hash` is on, as by default. One knowledge base is modelled,
and a set of chunks is represented by the model that made its vectors and the
model in its tag. After a crash only the event in progress may be delivered
again. `Report` is apart from the end of the ingest, as a worker that is run as
a process of its own lets others act in between.

`DocumentShelf` is what the user relies on: a document is stored, may become
searchable, and stays so until it is deleted, for good. *KeepsShelf* says that
ingestion implements it, whatever retries, crashes, failures and re-ingests do.
*RowsAgree*: a completed document has chunks, and ingests still under way leave
nothing behind for a deleted one. *JobNeverOverstates*: the job that the client
polls is completed only if the document is. This is not obvious, because an
ingest that succeeds marks the job it began with and one that fails marks the
latest. *OneSpaceWhileKeysStay*: as long as no key comes or goes, the vectors
of every document are of the model they are tagged with and the knowledge base
is pinned to, although ingests choose a model before there is a pin and take
over old vectors whatever their model. With a change of keys this fails, as
section 12 says. *EveryIngestSettles*, up to a crash: the client does not poll for ever.

Run `MCIngestion`: one document, two background tasks and the worker, so that
three ingests of it may overlap; three requests, two attempts of the worker, one
change of keys, one crash and one attached file. One document is enough for the
rows, as documents share only the pin, and the overlapping first ingests that
could pin different models need not be of different documents. Fairness: what
is ready runs, calls of providers end (their clients have timeouts), and the
worker goes on.

## 8. ChatTurn, Conversations and ChatContract

`Conversations` holds the rows that matter (`conv`, with status and parent;
`log`, the messages of each conversation in the order of `created_at`) and what
the owner may do to them: `Delete` with the branches nested under a
conversation (`Family`), `Detach`, `Truncate`, and a branch, which reads its
source (`BranchRead`) before it writes its target (`BranchWrite`). These routes
run in threads, so they happen between any two steps of a turn. `ChatTurn`
extends it with the turns.

| Model | Code |
|---|---|
| path `send` | `POST /api/chat/send`: `agent_chat` |
| path `agent` | `POST /api/agent/chat`: `agent_chat_orchestrated` under a timeout |
| path `sse`, `media` | `POST /api/chat/stream`: `agent_stream_chat`, `multimodal_stream_chat` |
| path `ws` | `_handle_ws_chat` |
| path `kb` | `kb_chat_stream` |
| `turn[t].home`, `answer`, `told` | the conversation, what was committed as the answer, what the client was told |
| `AgentAsk` ... `KbAsk`, `Refuse` | up to the commit of the question, or the error before it |
| `Gather`, `Decide`, `RunTools`, `ToolsFail` | search and prompt, the loop over `max_tool_rounds` |
| `AgentAnswer`, `Reply`, `Timeout` | an answer in one piece; `asyncio.wait_for` |
| `StreamRoute`, `SseChunk`, `Taken`, `SseFinish`, `LastTaken` | the generator: `stream` is its await of the provider, `yield` and `last` are its yields |
| `SseCancel`, `StreamClose`, `KbCancel` | the client leaves: at the await a CancelledError, at a yield the generator is closed |
| `WsChunk`, `WsFinish`, `WsDone`, `SessionTurns` | the loop over the chunks with its look at the session registry |

An action runs from one await to the next. The server sends an event outside
the generator (sse_starlette), which is why only a client that leaves during the
await is seen by the handler `except asyncio.CancelledError`. A commit to a
conversation that is gone fails on the foreign key. Planner, memory and
lifecycle events are single awaits, and they, the web search and the retrieval
for a turn swallow their errors. The prompt is reduced to whether the question
is in it (`sees`); the history that a client may send, which replaces the
stored one, is left out. Each WebSocket turn has a session of its own. A branch
is placed where its transaction commits, whatever the timestamps of its copies,
and a cascade is one step. All conversations belong to one account.

`ChatContract` is what a client sees: a turn is answered at most once, after its
question, and is told one verdict, which is *done* only of an answer that is
kept, and after which nothing more is kept. *KeepsChatContract* says that all
six endpoints implement it. *OneAnswerInPlace* looks into the messages: one
answer per turn besides the copies of branches, in the conversation of the
question. *PartsAreMarked*: a piece of an answer is marked as stopped where it
was stored. *AgentChatAnswers*: whatever fails, `agent_chat` ends with an answer
or an apology.

Run `MCChatTurn`: one turn through any endpoint, another through `kb`, two
conversations (so that a turn may be alone, share one, or lose one), a branch,
two rounds of tools, two chunks (so that nothing, a piece and the whole may
have arrived), two messages of context. Two turns on one conversation are
needed for the interleavings; the second is kept to one path, as turns meet
only in the messages. No deadlock check: turns and conversations are finite.
There is no fairness and no liveness property here: that calls of providers
come to an end is the matter of the router and the relay. `MCChatTurn_Memory`
shows the second finding.

## 9. MemoryStore and Memory

`MemoryStore` holds the rows and what requests and the sweeper do to them;
`Memory` extends it with the turns that end and the background tasks.

| Model | Code |
|---|---|
| `facts` | the rows of `skills`, `project_brain_entries`, `kg_edges`, `memory_edges`, by layer |
| `episodes` | `memory_chunks` |
| `account`, `conv` | accounts; conversations with their project |
| `counts`, `task` | `_turn_counts` and `_bg_tasks` of each layer |
| `TurnEnds`, `TurnStored` | `MemoryManager.auto_store` before and after the episode is stored |
| `Count`, `Due`, `Counted` | `maybe_reflect`, `maybe_extract` with the debounce and the clearing at `_MAX_TRACK` |
| `Load`, `LookUp`, `Commit` | a task: read the conversation and ask the model, find a row that says the same, insert or reinforce |
| `Request` | forget me, deletion of an edge, an entry, an episode, a conversation, a project or the account, assignment to a project |
| `Sweep` | the retention of episodes and the decay of edges in `_start_memory_lifecycle` |

A task waits for the model between `Load` and its first look-up, and whoever
stores skills or entries of a brain also between two facts, for an embedding;
the graphs look up a batch of triples without seeing their own new rows (the
session has autoflush off) and commit them together. The text, the confidence
and the polarity of a fact are left out; that two texts say the same is equality,
with a similarity on top of it as the code has it. The model may name a fact
twice. The call of the model is one step with the reading of the conversation.

*OwnerScoped*: nobody is told what was learned from another. *EpisodesHaveHome*:
episodes go with their conversation, whatever deletes it and whoever stores
one meanwhile. These two and the types are the invariant *RowsBelong*.
*Debounced*: a layer reads a conversation
once in so many of its turns, although the counters are forgotten now and then.
*TwiceOnlyIfOverlapped*: a fact has two rows only if two stores of its layer were
open at a time. *FadesSlowly* and, under fairness, *FadesAway*: a sweep takes one
point from what has not been seen for long and spares the rest, and in the end
what nobody reinforces is gone; the run checks both as *Fades*.

Run `MCMemory`: two conversations of one owner in a project, one of another
owner; each behaviour has one derived layer on, chosen initially, as the layers
share nothing but the rows they are erased with; a conversation is read every
second turn, two turns each (three for the brain, so that a counter starts
anew), two tasks per layer, so that they overlap; the counters are forgotten
when there are two; one request, one flipped switch, and answers of two facts,
equal or not. Time passes at once, for all rows. Fairness: the sweeper is a loop
in the lifespan of the application that catches its errors.
`MCMemory_ForeignKey` shows the third finding.

## 10. The services: RetrievalCache, Ranking, Chunking, UserCache, AgentConfig

These share no state, so one run, `MCServices`, checks them side by side: each
of its behaviours is one of them, chosen by `part`. Each has one invariant, the
conjunction of its types and of the parts named below: `CacheCurrent`,
`RankingSound`, `ChunksFaithful`, `UsersCurrent` and `ConfigEffective`. Every
part has a mutant of its own.

`RetrievalCache` is the pipeline of `retrieve` and
`retrieve_conversation_context` as it interleaves with ingests and deletions:
an action runs from one await to the next. A document's chunks are represented
by their version; the cache keeps entries with an age, of which the code only
sees whether it is beyond the time to live. *InvalidationReaches*: after this
process has ingested a document again, nobody who asks is shown its old chunks,
unless a retrieval held them when it was ingested and kept them afterwards.
*StaleWithinTtl*: for deletions and the standalone worker, which invalidate
nothing here, that holds after the time to live. The type invariant bounds the
cache. Two retrievals, two near queries, one place in the cache, two changes.

`Ranking` has the data of that pipeline: fusion by reciprocal ranks as exact
fractions, the four rerankers, expansion to sections, the budget. A sort is
stated by what it does: an order is a set of pairs, and the place of an element
is the number of those ahead of it (`Sorted`). What a reranker replies is a
bound of the run. *UnanimousFirst* compares the fusion with the two lists,
*NoneDropped* is about the order of every reranker but a hosted one, whose
indices are taken as they come, *ShownOnce* about the expansion, *WithinBudget*
about the cut. All pairs of lists of at most three of four chunks, two of which
share a section. Elements that are picked out of a list in their order are in
`Selections`, which `RetrievalCache` shares.

`Chunking` works on texts of characters, of which only a word, the end of a
sentence, a blank, the line break and the mark of a heading differ; they are
translated with their offsets, since these are what can be wrong. The loops over
pages, windows and headings are recursive functions: the text and the offsets,
which the code adds up beside it, of the first n pages (`Texts`, `Offsets`); the
windows after n rounds (`Starts`); the headings on the stack behind n characters
(`Open`). A section is the text between two headings, which is what the code's
buffer of lines holds when it is flushed. *NothingLost*, *UnderItsHeadings*,
*WithinParents* and *PageNotLate* compare the chunks with the text they come
from. Documents of two and three pages out of seven and three, with headings of
two levels, small sizes and overlaps, so that windows break at each kind of
boundary.

`UserCache` has the three tools on one user's record. A command of the cache is
apart from its caller, which waits 500 ms and goes on; it may still arrive, and
in any order. *FreshIsCurrent*: who asks for fresh data never gets an old
record. *UpdateIsSeen*: after an update that the cache has acknowledged, a read
shows it, unless a read that the update overtook told the cache afterwards. Three
calls and two updates: a read, the update that overtakes it and a later read.

`AgentConfig` and `TokenBudget`: the file is edited and read, by `get_config`
when there is no configuration and by `reload_config`, whose endpoint is a plain
`def` and so runs in a thread of its own, without a lock. Each access to the
global `_config` is an action, since another reload may come between any two:
the file is read (`Begin`), becomes the configuration as it is (`SetConfig`), its
agent section is looked up (`ReadAgent`), completed and stored in whatever is the
configuration by then (`PutAgent`), the tools are looked up there (`ReadTools`)
and set one by one, up to the first that is of another shape (`ApplyEntry`), and
the manager is built (`EndLoad`); an exception in between is `FailLoad`. A
configuration is the file that its tools are from and the one that its agent
section is from, with a mark while that section is raw. A turn looks once, at its
start, and may find it raw. *ToolsAsLoaded*: a load that ran alone, and reloads
that overlapped but all read the same sound file, leave configuration and tools
as that file says, whatever was applied in part or in a tangle before, and
although some of them may give up because another made the configuration raw
again. `latest` is the history that this needs: the file, if the loads since none
was under way agree on one. Reloads of different files that overlap promise
nothing, see section 12. *NewestAppended* compares what a round of tools adds to
the context with the longest run of newest results that the budget in force
allows. Tools are only called with a file that enables them, as in the code.

In `MCServices` these are three parts: files of every shape, edited and read by
one load at a time (`files`); two threads whose loads overlap, with five files,
two of which set the same tools differently, one fails in the middle of its
tools, one is an empty object and one an empty list (`overlaps`); and turns whose results fit, fit in part or do not
(`turns`), with every form of the budget. A load does not look at turns, and only
the configuration that a turn starts with matters to it, so the rounds are in the
last part only. The threads are symmetric. The enabling of a tool and its timeout,
set one after the other in the code, are one step: that a turn sees a tool enabled
with its old timeout is not modelled.

No deadlock check: each of these ends. They have no loops of their own, so there
is no liveness to state.

## 11. Proofs

`FallbackRouterProofs` proves for any constants that satisfy `RouterAssumption`:

- `TypeCorrect`: `Spec => []TypeOK`.
- `SkipsAreRespected`: `Spec => []SkipsRespected`. No call in progress is one
  that the request has learnt to be pointless.
- `NeverRepeats`: `Spec => NeverCalledTwice`. No request calls a pair twice.
- `SkipsAlwaysHaveCause`: `Spec => []SkipsHaveCause`. Models and platforms are
  given up for a cause only.
- `LateCallsStay`, `BenchedKeysAreOld`, `GivingUpHasReason`:
  `Spec => LateCallsStayOnModel`, `Spec => BenchedKeyOnlyFromOldList`,
  `Spec => GivesUpWithReason`, which are about single steps.

None of them is inductive. `IInv` adds: the called pair is not among the
skipped ones and belongs to the list being worked on; a pair that was called is
in the skip set or its model or platform is; and a request that has not started
has empty sets. For the causes, `Justified` adds that the dropped models are a
finite set (their number is compared with a counter), and the argument is that
the call in progress is of a model that is not yet dropped, so every 429 that
counts drops a new one. The step proof has one case per branch after a call, each
reduced to a lemma on `Resume`, which all branches end with; `Moved` says what
that does: it goes on with a key of the list in hand, or one that was just read
within the budget, or it gives up because nothing is left or it is too late. The
three step properties follow from it.

`DeepResearchRelayProofs` proves for any constants that satisfy
`RelayAssumption`, in particular lists without a model twice, which they are as
rows of one query:

- `FooterAlwaysTruthful`: `Spec => []FooterTruthful`.
- `SegmentsUseReadyKeys`: `Spec => SegmentUsesReadyKey`, about the choice and
  about what a call may find behind a marker.
- `ImplementsContract`: `Spec => KeepsContract`, the refinement.

The invariant says where the models credited so far stand in the list: no
further than the relay has got, in the order of their credits (`Footer`), and
that the model of a segment with text is among the authors, so that a credit
keeps this true. `GoesOn` is what the loop does after a segment, whatever ended
it; steps of the contract follow from it.

`WsSessionsProofs` proves for any constants that satisfy `SessionsAssumption`:

- `BookkeepingAlwaysAgrees`: `Spec => []BookkeepingAgrees`.
- `PingsMeanSilence`: `Spec => []PingMeansSilence`.

`IInv` is about the dictionaries (`Books`) and about the coroutines. The gauge
is not determined by the dictionaries, as a reconnection counts twice; that it
does not fall below zero needs `GaugeCovers`, that it is at least the number of
sessions. Each method of the manager has a lemma that it keeps `Books`, and the
steps of endpoints, generations and loop are cases of these.

`ToolExecutorProofs` proves for any constants that satisfy
`ExecutorAssumption`:

- `PermitsAlwaysBalance`, `TimeoutsStopTasks`, `ResultsAlwaysTruthful` and
  `WindowAlwaysRespected`: `Spec => []` of the four invariants.

`Semaphore` counts the calls that hold a permit, by the cardinality of a finite
set; `Tasks` adds that nothing runs for a call that waits for a permit, and that
only a request with an attempt left backs off. For the rate limiter `IsTail`
says that its list is the end of the list of all admissions, and that what was
popped is outside the window for good: a new admission then makes no window of
the whole history too full. What the loop that pops leaves is a lemma by the
least counterexample in a set of numbers.

`IngestionProofs` proves for any constants that satisfy `IngestionAssumption`,
that is for any number of documents, tasks, models, retries and crashes:

- `TypeCorrect`: `Spec => []TypeOK`.
- `RowsAlwaysAgree` and `JobsNeverOverstate`: `Spec => []RowsAgree`,
  `Spec => []JobNeverOverstates`.
- `ImplementsShelf`: `Spec => KeepsShelf`, the refinement of `DocumentShelf`.
- `OneSpace`: `Spec => []OneSpaceWhileKeysStay`.

Its `IInv` adds to the properties that an ingest under way has a document, and a
model while it embeds, and that a document that is not there has neither chunks
nor jobs (*JobNeverOverstates* needs that of deleted documents: the job of an
ingest that ends late must not come to life again). `FailEffect` and
`FinishEffect` say what the two ends of an ingest do to rows and shelf; each
step lemma reduces to them, and proves the invariant and the step of the shelf
together. The assumption that each set of models has a preferred one holds
because the preference is a list. For `OneSpace` the invariant is that every
choice falls on the same model while the keys stay (`FirstChoice`): those of
ingests under way, of the pin, and of all vectors and tags that are stored.

`ChatTurnProofs` proves for any constants that satisfy the assumptions of
`Conversations` and `ChatTurn`, that is for any number of turns, conversations,
branches, rounds and chunks, and any choice of endpoints:

- `TypeCorrect`: `Spec => []TypeOK`.
- `OneAnswer` and `PartsAlwaysMarked`: `Spec => []OneAnswerInPlace`,
  `Spec => []PartsAreMarked`.
- `ImplementsContract`: `Spec => KeepsChatContract`, the refinement.
- `AlwaysAnswers`: `Spec => []AgentChatAnswers`.

`StepEffect` reduces the 25 actions of a turn to three effects: its question is
kept, its answer is kept, or only a verdict is added; the invariant and the
contract are proved of these. `IInv` adds to the properties what the place of a
turn says of it (`StagesOK`: no answer before the end of the stream, one after
it, no verdict in between), and that the messages of a branch in progress are
copies. Operations of the owner are `StoreShape`: each message was there, at
the same place, or is a copy. `AnswersOK` adds for the last theorem that no
deleted conversation comes back and that a turn of `agent_chat` streams nothing.

`MemoryProofs` proves for any constants that satisfy the assumptions of
`MemoryStore` and `Memory`, that is for any number of owners, conversations,
projects, tasks and requests, and any interval of the readings:

- `RowsAlwaysBelong`: `Spec => []RowsBelong`.
- `ReadingsAreDebounced`: `Spec => []Debounced`.
- `OnceUnlessOverlapped`: `Spec => []TwiceOnlyIfOverlapped`.
- `FadesByOnePoint`: `Spec => FadesSlowly`, the first half of the *Fades* that
  the run checks.

Every row is traced to the conversation it was learned from; that is
*OwnerScoped* since what a task carries is of the owner it began with. Steps that
delete or age rows are `FactsKept`. *Debounced* counts what a conversation's
turns have paid for: the readings done, and what its counter has in hand
(`Pending`), never exceed the turns stored. For `OnceUnlessOverlapped` the
invariant (`OnceInv`) is that while no two stores of a layer have overlapped at
most one task of it is open, so that what it saw at its look-up is still all
there is with that fact when it commits.

`ServicesProofs` proves the five services, for any constants that satisfy
their assumptions:

- `UsersAlwaysCurrent`: `UserSpec => []UsersCurrent`.
- `CacheAlwaysCurrent`: `RetrievalSpec => []CacheCurrent`.
- `ConfigAlwaysEffective`: `ConfigSpec => []ConfigEffective`.
- `RankingAlwaysSound`: `RankingSpec => []RankingSound`.
- `ChunksAlwaysFaithful`: `ChunkingSpec => []ChunksFaithful`.

`UserCache`: a kept record that was current when it was kept is not behind an
update whose command has arrived (`Trusted`, `Dropped`); this needs that a call
has at most one command on its way (`OnlyOwn`). `RetrievalCache`: lost chunks
never come back, as versions are not used again (`Gone`); a retrieval holds lost
chunks only if it straddled the loss (`FoundOK`), and what is kept inherits that
(`GoodEntry`), through every reordering of the cache. `AgentConfig`, for any
number of threads: `ConfigEffective` is about moments when no load is under way,
so `ConfigIInv` says what holds in between. While loads agree on a sound file
(`Together`), either all have read it and nothing more (`AllReading`), or the
configuration is from it, with whoever made it raw still to complete it
(`IsFrom`); each entry that the tools do not match is yet to be set by some load
(`IsOrWillBe`); and only reloads overlap, so that one which gives up leaves the
configuration to the one that disturbed it. There is one lemma per step of a load
(`SetConfigKeeps` and so on). A tool is named once, as a key of an object, so
that a later entry does not undo an earlier one. The loop of the truncation has
kept the newest results that fit, or has stopped at the first that does not
(`KeptProperties`).

The last two compute a result in one step; the invariant is that it is the
result, and the work is in what the computation does for every input. `Ranking`:
a complete order on a finite set sorts it, as no two elements have as many ahead
of them (`SortedProperties`). Of two chunks, whoever is ranked higher in each
list that has the other gets more from that list, and adding this keeps him
ahead (`AddedOrder`, over fractions, hence the lemmas on products). Who is left
once stands where he stood first (`OnceProperties`), and so a section stands
where the best of its chunks did. The blocks taken are a first part whose weight
the loop has summed up, until it is full (`AffordableProperties`). `Chunking`:
each loop has an invariant, as `Slides` for the windows (no gap before the next
one; without an overlap none reaches into it) and `StillOpen` for the stack,
where popping from the end is right because the levels on it rise. An offset is
in the section of the heading above its line, or on the line of a heading
(`InSomeSection`, `BelowItsHeading`); the sum of offsets that is taken for the
start of a chunk is never behind its first character, and the offsets of pages
are those of the text (`OffsetsAgree`), so that the page is not too high.

Recursive functions over `0 .. n` are proved about as follows: `LoopExists`
shows that a function which satisfies the recursion exists, so the chosen one
does; `UpToN` carries a fact from 0 to n. Both are by the least counterexample in
a set of natural numbers, `WFMin` of the library. Folds of the community modules
and operators with LAMBDA are not used in these modules, nor are RECURSIVE
operators anywhere.

Assumptions on constants that only proofs need, and why they hold: there is a
session id, as each socket has one; lists of a relay name a model once, as they
are rows of a query; the model's answer names a fact, as a task with an empty one
ends (`Load`); a file names a tool once, as tools are keys of an object; a
search lists a chunk once and never a section, as it excludes parents
(`rag_retrieval.py:156`, `329`). That the numbers of a budget are natural is a
limit of the model, which the code does not check, and so is that the size of a
child is positive.

Only model-checked: liveness, that is all properties with fairness, also the
*FadesAway* in *Fades*; and everything in the small that the runs' bounds fix. The runs also check that the systems do not get stuck where they
should not.

## 12. Where code and documentation differ

Each of these has a run that finds the violation.

1. An authentication error in a relay does not skip the platform
   (`requirements.md:83` of intellectual-routing): the test for it is nested
   under `is_retryable_error`, which a plain 401 does not satisfy. The unit test
   replaces that function by a constant.
2. When memories are found for a question and the client sends no history, the
   model is asked with the memories alone: they become the history of the
   request, which replaces the messages of the conversation, the question among
   them (`services/agent.py:1290`, `682`; `requirements.md:177` of
   full-stack-agent-orchestration has them prepended to the system prompt).
3. The deletion of an account deletes its conversations before its episodes,
   which refer to them, although the list of deletions is said to be ordered "so
   a delete can't trip a foreign key" (`routes/auth.py:114-115`, `156`). Tables
   of the migration have that key without a cascade
   (`migrations/versions/001_add_agent_tables.py:61`); a database created since
   then has one (`db_models.py:192-194`), and is not affected.

Found while modelling, without a run of their own:

- `OVERALL_BUDGET_S` is called a hard cap but only read between models; the
  keys of one model are all tried (`fallback_router.py:353`, `376`).
  *LateCallsStayOnModel* states what does hold.
- A platform is abandoned after repeated 429s although the other platforms have
  no model left (`fallback_router.py:444-447`).
- The footer of a relay leaves out a model that wrote text and then failed, and
  no hand-off marker follows a failed first segment (`fallback_router.py:739`,
  `793`); the relay's budget is not read within a segment (line 700).
- A WebSocket that ends removes whatever socket holds its session id, also the
  one that reconnected (`routes/agent.py:136`; `requirements.md:59` of
  full-stack-agent-orchestration has it remove the closed one).
- A piece of a streamed answer is dropped when the client leaves while an event
  is being sent, although `routes/chat.py:276` means to keep it.
- The copies of a branch lose the mark of a stopped answer
  (`conversations.py:206`), so a piece is offered as a document there.
- An answer in progress is stored after a truncation that was to remove it
  (`conversations.py:149-152`).
- The gauge of active sessions counts a reconnection twice (`ws_manager.py:56`).
- A generation whose client pressed Stop goes on if the session id has been
  taken over by a new socket (`routes/agent.py:201`), and the "done" of one that
  did stop is sent to whoever has the id by then (line 223).
- A knowledge base may hold vectors of several models, against
  `rag_models.py:72-74`: two first ingests may choose different ones before the
  pin is set, and a removed key makes later ingests choose again.
- When ingests overlap, the latest job may say failed of a completed document,
  and an older one may stay pending for ever.
- Cancelling a batch does not reach a tool in the first half of its timeout:
  only its shield is cancelled (`tool_executor.py:410`; `requirements.md:236` of
  agent-real-time-data-access has it reach running tools).
- A re-ingest after a change of keys reuses old vectors and tags them with the
  current model (`rag_ingestion.py:81`; `rag_models.py:169` calls the tag the
  vector's space).
- An attachment whose embedding failed is skipped when it is attached again, as
  one "already ingested" (`rag_ingestion.py:327`).
- The retrieval cache is said to be dropped "when its documents change"
  (`rag_cache.py:68`), but no deletion drops it, the standalone worker drops its
  own, and a retrieval may keep what it found before an invalidation
  (`rag_retrieval.py:273`).
- A chunk whose section vanished before it is expanded is shown with the score 0
  (`rag_retrieval.py:246`, `270`).
- A page number is that of the first page for an offset between pages, where
  `rag_chunking.py:125` says the nearest; offsets of a section begin at the blank
  line after its heading, so a page number may be early; a heading without text
  under it is in no chunk.
- An update of a user that times out commits in its thread and the cache is not
  told (`user_service.py:206`); a read that it overtook fills the cache with the
  old record (line 90).
- `reload_config` rebuilds the budget's manager as a local variable
  (`agent.py:350`; line 303 does not name it `global`), so a new budget has no
  effect until a restart, against its comment "Rebuild token budget manager from
  new config" (line 348). `EndLoad` is faithful to this, so *NewestAppended* is
  about the manager in force, not about the file. JSON of another shape replaces
  the configuration although the log says that the current one is kept (lines
  314, 357).
- Overlapping reloads of different files may leave the agent section of one with
  the tools of another, and the older file may win (`agent.py:314`, `324`, `345`;
  the endpoint is `routes/config.py:104`). *ToolsAsLoaded* leaves them out.
- A turn that starts while a reload is between lines 314 and 324 of `agent.py`
  sees the raw agent section; if that does not say whether tools are called, the
  turn calls them (line 760, 1041), where the completed one says no (line 331).
- A relay calls a pair that was cooled down, or a key that was switched off,
  while it was suspended at a hand-off marker: nothing looks again between
  `fallback_router.py:740` and `747`.
- The truncation leaves out what the context holds already, so that the sum may
  be over the limit (`token_budget.py:160`); a budget of no tokens divides by zero
  (line 123) and loses the results of the round.
- An owner who turned recording off is still learned from by tasks under way;
  "forget me" and the deletion of an account are undone in part by tasks that
  had read their conversation before; "forget me" leaves the project brain.
- Two tasks, or one answer that names a triple twice, make duplicate rows; a
  sweep that deletes a row between a task's look-up and its commit makes the
  whole batch fail.
- A sync tool that timed out runs on while its permit is given to the next, so
  more than `max_concurrent` may run (`tool_executor.py:401`).

## 13. Not modelled

See the components in `PROJECT.json` with their reasons. Prompts, formatting,
vector arithmetic, parsing of files and HTTP clients are data or I/O. Working
memory, events, plans and the order of models are planned (section 2).

Three simplifications inside what is modelled: the history that a client sends
along is left out of what a turn sees (`ChatTurn.Sees`, `agent.py:682`), as it
replaces the stored one by the client's own choice; the semantic and the keyword
query of a retrieval are one step (`rag_retrieval.py:225-231`), so that an ingest
which commits between them is not seen, and *CacheCurrent* says nothing of
retrievals that straddle an ingest anyway; and the models of a relay are
identified with their display names, which the code compares for the marker and
the footer.
