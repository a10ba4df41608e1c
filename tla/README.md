# customer-ai-runtime in TLA+

A verification development of `src/customer_ai_runtime`: TLA+ modules of the
parts of the runtime that keep state and interleave, TLC runs on small
instances, and TLAPS proofs for every size of instance. Paths below are relative
to the repository; `handoff_queue.py:65` without a directory is under
`src/customer_ai_runtime/application/`.

## 1. The system

One FastAPI process runs coroutines on one event loop. Handlers call services;
services keep their state in repositories that hold everything in memory, return
and keep deep copies, and write their whole JSON file at every save
(`repositories/memory.py`). Nothing has a version number, and the only locks are
around the local queue, whose critical sections do not await.

| part | state it keeps | operations that change it | interacts with |
|---|---|---|---|
| sessions (`session.py`, `repositories/memory.py`) | one record per session: state, waiting flag, messages, queue fields, operator, intent stack | create, add message, record route, claim, reply, feedback, close, record timing | everything below |
| chat (`chat.py`) | none of its own; a private copy of the session for as long as a turn lasts | `process_message`: saves before, between and after its awaits | sessions, routing, tools, knowledge, cache, model, handoff |
| handoff rules (`handoff.py`) | none | `create_package`: enqueues, then asks the plugins for a package | queue, plugins |
| local queue (`handoff_queue.py:42`) | none: a view of the sessions whose flag is set | enqueue, claim_next | sessions |
| SQLite queue (`handoff_queue.py:103`) | a table of rows with snapshots, beside the sessions | enqueue, list (marks rows stale), claim_next in a transaction | sessions, other processes |
| voice and rooms (`voice_rtc.py`) | one record per room | create, join, interrupt, request human, end; voice turns | sessions, chat, ASR and TTS providers |
| knowledge (`knowledge.py`) | bases, versions, documents, chunks; vectors in an outside store | create, add document, snapshot, optimise, activate | vector store (awaited) |
| runtime configuration (`runtime.py`) | prompts and their ledger, policies, plugin states, response cache | update, roll back, get and set cached answers, load, flush | chat, plugins, admin |
| routing (`routing.py`) | none; the intent stack of the session | decide, record the decision | plugins, sessions, policies |
| answers (`retrieval.py`, `rag_quality.py`, parts of `plugins.py` and `chat.py`) | none | rerank, check the evidence, enhance, price | chat, policies |
| plugin registry (`plugins.py:104`) | plugins, enabled flags, started flag | register, unregister, enable, disable, startup, shutdown | runtime configuration |
| business context and tools (`business.py`, `tooling.py`, `tool_catalog.py`) | none | build a context, extract and check parameters, execute | plugins, a business system (awaited) |
| agent workflow (`agent_workflow.py`) | the trace of a run | run steps in order | tools |
| rate limiter (`core/rate_limit.py`) | a token bucket per key | decide, collect idle buckets | every request |
| authentication and access (`auth.py`, `access.py`) | none between requests | choose a bridge, check tenant and role | every request |
| diagnostics and cost report (`runtime.py`, `admin.py`, `repositories/memory.py`) | the newest 200 events and their file | add, query, import billing records | chat, administrators |
| metrics, other reports, ingestion, evaluation | none that a decision reads | – | – |

What is hard here:

* **Stale copies.** A handler that awaits works on the copy it read before. When
  it saves, it writes the whole record and undoes what others wrote. That is how
  chat turns, voice turns and knowledge imports all work, so the question is what
  still holds, and exactly which writes can break what.
* **Two encodings of one fact.** `state` and `waiting_human` of a session; the
  state of a room and its `handoff_requested`; the ACTIVE status of a version and
  the `active_version_id` of its base.
* **Exceptions at awaits.** Nothing resets what was saved before the await.
* **Things switched under a request.** Policies, prompts, plugins and the active
  version change while a turn or a workflow is suspended, and it read some of them
  before, others after.
* **Answers that outlive their reasons.** The response cache, the history of an
  intent, a bucket that is forgotten, a log that is cut.
* **Two stores.** SQLite rows and sessions are written one after the other, and
  several processes share the rows but not the sessions: each process has the whole
  session store in memory, reads the file only when it starts, and overwrites it at
  every save.
* **Crashes** between two writes. Every save is flushed, so a restart continues
  from whatever was saved last.

Correctness, per part: the flag and the state of a session agree and no session
waits outside the queue; queue entries are whole and handed out in order; nobody
waits for ever; a history has no answer without its question; a room is shown as
busy only while it is served, is left in a sensible state, and does not forget
what its user asked for; one version of a knowledge base is active; one prompt
revision is active and what an administrator was told stays; an answer rests on
evidence, a human who is announced is called, and a stream carries nothing the final
answer does not; the plugin that runs is the one whose parameters were checked; a
plugin is started once before it is shut down; a key passes the limiter as often
as its bucket allows and no less; and the cost report counts every recorded event
once.

What really suspends: the OpenAI, HTTP, GraphQL, gRPC, Aliyun, Tencent, Qdrant,
Milvus and Pinecone providers, and any plugin of the integrator's that awaits.
The local providers and the built-in plugins return without giving up the loop.
The models let every await suspend, which covers both; only the upsert of no chunks
at all does not, which no vector store awaits (`qdrant_provider.py:24`,
`milvus_provider.py:25`, `pinecone_provider.py:33`). The run that shows a session handed out twice
excludes what needs a host's plugin to suspend.

## 2. Modules

| module | models | kind |
|---|---|---|
| `HandoffRules` | `handoff.py:185-217` | operators: reason and context to skill group and priority |
| `SessionHandoff` | `session.py`, `chat.py` (control), `handoff.py`, the local queue, their routes | state machine; extends `HandoffRules`; `Queue == INSTANCE ClaimQueue` |
| `QueueOrder` | the order of the local queue (`handoff_queue.py:65`, `:338`) against the times of entering it | `SessionHandoff` with a history variable |
| `SessionHandoff_proofs` | – | theorems of `SessionHandoff`, the refinement of `ClaimQueue` among them, and of `QueueOrder` |
| `MCSessionHandoff`, `MCQueueOrder` | – | instances for TLC |
| `RTCRoom` | `voice_rtc.py`, the room repository, the websocket's error path | state machine |
| `RTCRoom_proofs` | – | theorems of `RTCRoom` |
| `MCRTCRoom` | – | instances for TLC |
| `ClaimQueue` | what a handoff queue promises (`handoff_queue.py:15-39`) | abstract state machine |
| `SQLiteQueue` | `SQLiteHandoffQueueBackend`, the session stores of its processes | state machine; `Queue == INSTANCE ClaimQueue` |
| `SQLiteQueue_proofs` | – | theorems of `SQLiteQueue`, the refinement among them, and of `ClaimQueue` |
| `MCSQLiteQueue` | – | instances for TLC |
| `KnowledgeVersions` | `knowledge.py` (what it writes), the knowledge repository, a remote vector store | state machine |
| `KnowledgeVersions_proofs` | – | theorems of `KnowledgeVersions` |
| `MCKnowledgeVersions` | – | instances for TLC |
| `RuntimeConfig` | `RuntimeConfigService` of `runtime.py`, the administrators' calls of it, the cache as knowledge turns use it | state machine |
| `RuntimeConfig_proofs` | – | theorems of `RuntimeConfig` |
| `MCRuntimeConfig` | – | instance for TLC |
| `Plugins` | descriptors, scopes and `PluginRegistry.resolve` (`plugins.py`) | operators |
| `BusinessContexts` | `business.py`, the industry and enricher plugins, the knowledge base of a context | operators; extends `Plugins` |
| `BusinessTools` | `tooling.py`, `tool_catalog.py`, the tool plugins, the local business adapter | operators; extends `BusinessContexts` |
| `PluginRegistry` | the registry and the life of its plugins | state machine; extends `Plugins` |
| `ToolWorkflow` | `agent_workflow.py`, `POST tool-workflow`, `POST business-query` | state machine; composes `PluginRegistry` and `BusinessTools` |
| `ToolWorkflow_proofs` | – | theorems of `ToolWorkflow` and `PluginRegistry` |
| `MCToolWorkflow` | – | instance for TLC |
| `IntentRouting` | `routing.py`, the route plugins | operators; extends `BusinessTools` |
| `Answers` | `retrieval.py`, `rag_quality.py`, handoff plugins and post-processors, choice and price of a model, the stream | operators; extends `IntentRouting` |
| `ChatTurn` | `process_message` and `process_message_stream` | state machine; composes all of the operators above |
| `ChatTurn_proofs` | – | theorems of `ChatTurn` |
| `MCChatTurn` | – | instance for TLC |
| `TokenBucket` | what a rate limiter promises | abstract state machine |
| `RateLimiter` | `core/rate_limit.py` | state machine; `Promised == INSTANCE TokenBucket` |
| `Python` | `None`, one for the modules that are composed | constant; extended by `Plugins`, `RateLimiter` and `Diagnostics` |
| `Diagnostics` | the log of events and the cost report | operators |
| `Gateway` | the middleware of `app.py`, the bridges, the guards, the writers of cost records | state machine; composes `RateLimiter`, `Plugins` and `Diagnostics` |
| `Gateway_proofs` | – | theorems of `RateLimiter`, the refinement among them, and of `Gateway` |
| `MCGateway` | – | instance for TLC |

### SessionHandoff

`sessions` is the store and `created` its keys. A request of a customer is a
coroutine: `pc` is the await it is suspended at, `target` and `copy` the session
it read. The awaits that have no access to the store between them are one. `stale`
is a history variable: the requests whose session was written by someone else
since they read or wrote it. `served` remembers what claim-next handed out.

| action | code | what it does |
|---|---|---|
| `CreateSession` | `POST /sessions` | a new record |
| `BeginChat` | `chat.py:90-93` | reads or creates the session, appends the question, saves, awaits |
| `RecordRoute` | `chat.py:101-125` | saves the copy again with the route |
| `ChatHandoff` | `chat.py:364-370`, `handoff.py:67-74` | enqueues the copy, synchronises it, awaits the package |
| `Answer` | `chat.py:398-473` | appends the answer and saves the copy for the last time |
| `BeginHandoff`, `RequestHuman`, `EnqueueRequest` | `POST /chat/handoff`; feedback `request_human` | before and after the await of the business context |
| `RateMessage` | feedback, voice timing | read, mark, save, without an await |
| `ClaimHuman`, `ClaimNext`, `HumanReply`, `CloseSession` | staff routes | read and save without an await; none looks at the state |
| `Fail` | an exception, a disconnected stream, a restart | the request is gone, what it saved stays |
| `Tick` | `utcnow()` | time |

A restart of the process is `Fail` of every request in flight: each save is
flushed, so the store is the file.

Reasons are sets of the keyword families the rules look for. Messages are named
by their request and kept as a set: every message in it is distinct, and no
property asks for their order. Python's sort is stable, so equal keys keep the
order in which the sessions were created; the model leaves that order open.

`QueueOrder` adds the history variable `since` to all of this: when a session was
first enqueued in its present wait. The stamp that the queue sorts by need not be that
time, as `enqueue` keeps a stamp there is and nothing removes one.

### RTCRoom

`rooms` and `opened` are the store, `pc`, `place` and `copy` the voice turns,
`known` and `queued` what the rest of the system knows of sessions. The chat
service inside a turn is one step seen from outside: it uses the session of the
copy or creates one, and answers, or queues the session with or without a package
(`chat.py:370-377`; there is none when the plugin `handoff.summary` is disabled).
`broken` remembers the rooms a turn of which raised or died.

### SQLiteQueue and ClaimQueue

`ClaimQueue` is a set of waiting sessions and, for each session, the operator it
was last handed to; a step enqueues, hands one out, or discards. Its promise is
`HandedOutOnce`: only an enqueue takes a session away from an operator.

`SQLiteQueue` is several processes. `memory[p]` is the session store of a process
and `file` the JSON file, which is the store of whoever saved last; `turn[p]` is a
handler of `p` that is suspended with a copy of a session; `table` is the committed
table; `call[p]` is the call of the queue that holds process `p`: the statement it
is about to make, its arguments, and, in a transaction, what it wrote but has not
committed. A call of the queue does not await, so within one process nothing runs
beside it; between processes everything interleaves.

| action | code | what it does |
|---|---|---|
| `CreateSession`, `BeginTurn`, `BeginHandoff`, `SaveTurn`, `DropTurn`, `Release` | the handlers of `SessionHandoff`, as far as the queue can tell | read, save and await in one process |
| `Restart` | the process dies and loads the file | its transaction is rolled back |
| `Enqueue`, `InsertRow` | `enqueue` | saves the session as waiting; writes the row |
| `ListRead`, `ListMark` | `list_waiting`, `_mark_rows_stale` | reads and resolves rows; marks the disputed ones stale |
| `ClaimNext`, `BeginImmediate` | `claim_next` | the call; `BEGIN IMMEDIATE`, with the lock |
| `Skip`, `Adopt`, `Take`, `Commit`, `ClaimNone` | the loop of `claim_next` | a disputed row is marked; a good one is saved, claimed and committed; or none is left |
| `Rollback`, `LockTimeout` | the exception handlers; `timeout=10` | the call ends without a commit |

`Waiting` and `Holder` map the table to `ClaimQueue`. A row is *disputed* by a process
(`Disputed`) when that process's own copy of the session, or, if it has none, the
row's snapshot, does not wait in the group asked for. Left out: the time of
enqueueing, so rows of equal priority come in any order; a save that cannot write
its file; readers and writers that wait for each other at the commit itself, which
`Rollback` and `LockTimeout` cover by what they leave behind.

### KnowledgeVersions

`store` is the repository of one base (bases share nothing): the base, its versions,
and the documents and chunks of each version. `vectors` is the namespace of each
version in the vector store. `job[r]` is what request `r` holds while it awaits the
upsert: the version, the chunks, and its copies of the base and, for an import,
of the version. Two history variables: `chosen` is the version activated last, or
`None` once a status or the pointer was written in another way; `halfmade` holds
the versions that a dying process left without all documents.

| action | code | what it does |
|---|---|---|
| `Create` | `create_knowledge_base` | a version and a base, over an existing base, too |
| `Open` | any read of a base of an older release | `_bootstrap_legacy_version`; every other action begins with it |
| `Activate` | `activate_version` | the loop over the statuses, and the base |
| `BeginAdd`, `EndAdd` | `add_document` | document and chunks, await, copies of base and version |
| `BeginSnapshot`, `EndVersion` | `create_version_snapshot` | a draft with all documents, await, copy of the base; without chunks no await |
| `BeginOptimise`, `EndVersion`, `EndOptimise` | `apply_chunk_optimization` | a version, active ahead of time if it is to be activated; await; activation or the copy of the base |
| `Fail`, `Restart` | the upsert raises; the process dies while handlers await | what was saved stays |

`Torn`, a disjunct of each action, is a process that dies between two saves of a
handler. Version 0 is "legacy"; the others are numbered in the order of
their creation. The chunks of a document are one element. The vector store is a
remote one, which awaits, keeps what it has, and adds what is upserted
(`qdrant_provider.py:23`); the local one does not suspend, and is empty after a
restart, which no property here is about.

### RuntimeConfig

`mem` is the memory of the process, `None` while it is down, `file` what
`runtime_config.json` holds, `turn[t]` what a knowledge turn keeps while it awaits.
`promised` is a history variable: the revisions and the switches whose callers
got an answer. A call of an administrator is a sequence of edits; `Call` lets it
complete, fail at any of its writes, or die between two, and an unknown plugin ends
it with what came before in force.

| action | code | what it does |
|---|---|---|
| `UpdatePrompts`, `RollbackPrompts`, `UpdatePolicies`, `SwitchPlugin` | the calls of one part | one edit and its write |
| `UpdateRuntimeConfig` | `PUT runtime-config` (`admin.py:514`) | several edits, each with its write |
| `Start`, `Crash`, `DamageFile` | `_load`; the process dies; somebody edits the file | what is read of a damaged file, part by part |
| `Ask`, `Lookup`, `Generate`, `EndTurn` | `chat.py`, `get_cached_response`, `set_cached_response` | reads the prompt, looks up, stores |
| `Tick` | `time()` | the answers in the cache grow old |

### PluginRegistry, BusinessTools and ToolWorkflow

`registry` holds the registered plugins in order and the enabled ids, `states` what
is persisted, `lifespan` where the application is and whose hooks it still has to
call. `running` and `history` follow the hooks. Every hook is an await, so plugins
are registered, removed and switched between two of them. `run[r]` is a request with
its trace. `Continue` is the code between two awaits: limits, allow list, the check
of the parameters against the schema of one plugin, and the choice of the plugin
that runs. Parameters and objects are ids of a small set, found or not found by the
local adapter; other systems may answer with any status of `RemoteStatus` or raise.

### IntentRouting, Answers and ChatTurn

A message is a record of what the code looks for in it: words of risk, of a wish for
a human, of a question, of a tool, and ids. Confidences and scores are in hundredths.
A text is who speaks in it and whether titles or a telephone number stand in it.

`stack[s]` is the intent stack of the stored session, `cache` the cached answers,
`turn[t]` a turn with its locals; `policies` and `enabled` change under it.
`provider` chooses the local model, whose confidence and overlap are determined, or
a remote one, which may answer with any. `seen` remembers of a session whether the
last decision was of low confidence and whether its stack was overwritten since.

| action | code | what it does |
|---|---|---|
| `Begin` | `chat.py:78-173` | context, decision, snapshot, stack, and the choice of what is awaited first |
| `ToolAnswers`, `Retrieved`, `Generated` | `chat.py:136-216`, `chat.py:262-409` | the end of each await; a cached answer is sent at once |
| `CallRaises`, `Reply` | the error path; the response is sent | the turn is over |
| `PutPolicies`, `SwitchPlugin`, `Expire` | administrators; the lifetime passes | what turns do not await |

`SessionHandoff` and `ChatTurn` are two views of the same coroutine: the first has
its saves of the record and its queue, the second the decision and the answer.

### RateLimiter, Diagnostics and Gateway

`TokenBucket` is a bucket for each key that is refilled at every tick and never
forgotten. `RateLimiter` stores the tokens and the time they were counted, refills
when the next request comes, and drops idle buckets when there are more than
`QuietSize`. A tick brings `RatePerMinute` parts of a token, so that all numbers are
whole. `told` remembers when a denied key may come again. The limiter is one that is
switched on: one that is not (`rate_limit.py:32-33`) lets every request pass and keeps
nothing. A rate of 0 is one of its settings (`rate_limit.py:47-48`,
`tests/test_rate_limit_subject.py`), and there neither promise holds: the 429 names the
ttl although no token comes, and a drained bucket that is forgotten is full again. So
the theorems name what they need, `RatePerMinute > 0` or `IdleBucketsFillUp`.

`Gateway` is what every request passes: the size limit, the limiter keyed by the
credential a request carries (known or not) and its route, the bridge that decides,
and the guards. Its two handlers write the events from which costs are reported:
a turn adds several and awaits between them, an import adds one for each record and
does not await. A write may fail, with the event in memory (`RecordNext`), a turn may
raise (`Raise`), and another process starts from the file with empty buckets
(`Restart`). `log` and `durable` remember what was recorded.

## 3. Runs

| run | instance | shows |
|---|---|---|
| `session_safety` | 2 sessions, 2 requests and a third, 1 operator, 2 contexts, 1 reply, 1 tick; 762k states | the invariants and action properties of sessions, and the order of the queue |
| `session_liveness` | 2 sessions, 2 requests, 1 reply or 1 tick; 453k states | `WaitingIsServed` |
| `queue_duplicate` | the smallest that shows it; built-in plugins do not suspend | a claimed session is handed out again |
| `rtc_turns` | 1 room, 2 sessions, 2 turns; 66k states | the invariants and action properties of rooms, and `ThinkingEnds` |
| `sqlite_safety` | 2 processes, 2 sessions, 2 groups, 2 priorities, 3 calls; 1.28M states | the invariants and action properties of the shared table |
| `sqlite_calls` | 2 processes, 1 session, 1 operator, 4 calls; 65k states | the table implements `ClaimQueue`; `CallsEnd` |
| `knowledge_safety` | 2 requests, 2 documents, 2 configurations, 2 versions besides the legacy one; 1.63M states | the invariants and action properties of versions |
| `knowledge_switch` | the same | an activation is undone by a request that was in flight |
| `runtime_config` | 1 prompt field with 2 texts, 1 plugin, 1 turn, 2 versions, 3 revisions, 1 cached answer; 417k states | ledger, answered calls and cache |
| `tool_workflow` | the built-in plugins and one of a host's, 5 plans, 1 run; 201k states | hooks in turns, workflows that keep to their plan, the catalog |
| `chat_turns` | the built-in plugins, 1 session, 2 turns, 5 messages, 2 finds, 2 policies, 3 messages in all; 397k states | what replies rest on, streams, escalation, risk |
| `gateway` | 3 requests, 2 of one user, 3 keys, rate 25, capacity 1, ttl 3, 4 ticks, 3 events kept of 4; 198k states | the limiter is a token bucket; the cost report |

Bounds. Two suspended handlers are what a lost update takes: one that holds an
old copy, one that overwrites. A third adds another writer, which the staff's
actions already are; the proofs cover any number. Two sessions make the order of
the queue matter, and two contexts give two priorities and two groups. `MaxReplies`
names the human messages; one is enough to be lost. `MaxTime` = 1 tells earlier
from later. The order of the queue takes three requests: two enqueues of one session and
one of another. In `session_safety` two requests do whatever they may; by the state
constraint `TwoOrThreeRequests` a third comes only where at most one of the three is a
turn of the chat (`POST chat/handoff` enqueues as a turn does), at most one is still in
flight, none asks because of a risk and no human replies: the property compares sessions
of one group and priority. The theorem is not bounded. In `session_liveness` a human
replies or the clock ticks, and neither while two requests are in flight
(`ReplyOrTick`); what this cuts off is arrivals, replies and ticks, for which no fairness
is assumed, so every fair behaviour within the bound is complete. The action
constraint `BuiltinPluginsReturnAtOnce` of `queue_duplicate` leaves the traces that need no plugin of a host:
what awaits only plugins goes on before anything else. The staff's calls are not bounded. `MaxCalls` bounds the calls of the
SQLite queue: with three, two sessions are enqueued and claimed, or one is enqueued,
claimed or listed, and enqueued again while another process is in its call; with
four, one session is enqueued and handed out twice. `sqlite_safety` has no operator,
since nothing but the refinement tells one holder from another, and
`sqlite_calls` has one. One room is enough, since turns in different rooms share
nothing but sessions, and two turns overwrite each other in it. Two requests and
two documents make imports into one version overlap; with two versions besides
the legacy one, an activation has something to archive while another version is
being made. Three revisions are two that were superseded, and enough to roll back to
a revision that is not the last. One turn beside the administrators is enough for the
cache, since every turn may serve or store; two versions and two texts make a key go
out of date. Bounds of `tool_workflow`: the hooks of one built-in and one host plugin
for the same tool are followed, which is what makes the plugin behind a tool change;
once a hook raised no requests are followed (`FollowRuns`). Two turns of a session
overwrite each other's stack; three messages are two of low confidence and one that
comes between. Of the policies, one set is milder than the other in every threshold
and the depth of the stack, so an answer may pass the one and not the other. In
`gateway` a token takes three ticks, so a bucket is refilled in part, in full, and
forgotten (`QuietSize` is 1), and four events push one out of three. Symmetry is used
in the runs `session_safety`, `sqlite_safety`, `knowledge_safety`, `runtime_config` and
`chat_turns`, none of which checks liveness; sessions, requests, documents,
processes, versions and turns are interchangeable.

Properties of sessions: `WaitingFlagAgrees`, `QueueEntryIsWhole` and
`AnswersHaveQuestions` speak of every record there is, stored or in a handler's
hands, because a copy in a handler's hands will be stored. `FreshCopyIsStored`
is what `_sync_queue_state` is for. `MessagesLostOnlyByStaleWrite`,
`BackToActiveOnlyByStaleWrite` and `EntersQueueOnlyIfAsked` say that the known
hazard, the write of an old copy, is the only one: with a version check in
`save` they would hold without exception. `PassedOverOnlyForOlder` is what is left of the
order of entering: among those of one group and priority, whoever is handed out was
enqueued, in this wait or an earlier one, before whoever is passed over entered the queue, so
nobody who was never there comes first, and to ask again while one waits costs no
place. `ClaimQueueButForStaleWrite` is the refinement: the view of the store that
is the local queue takes the steps of the `ClaimQueue` that the SQLite table
implements, or the step writes an old copy.

Properties of rooms: `BusyRoomIsServed`, `WaitingRoomWasAsked`,
`EndedRoomIsLeftOnlyByUse`; proved, and not checked again by TLC,
`BoundSessionIsKnown` and `UserMarksAreKept`.

Properties of the SQLite queue: `ImplementsClaimQueue`, `DiscardedOnlyByDisagreement`, `HandedOutInOrder`,
`NullLeavesNobody` and `CallsEnd`; proved only, `TransactionIsCurrent` (what a claim
has read is still what is committed, which is what `BEGIN IMMEDIATE` is for). That no session is handed out twice for one
enqueue is a fact of the table. The sessions need not agree with it: a process
that did not see the claim keeps its old copy and can enqueue the session again.

Properties of knowledge bases: `HitsAreOfTheVersion`, `BaseDescribesItsVersion`,
`OneActiveVersion`, `RepointedOnlyByStaleWrite`, `DocumentsAreKept`. That one version
is active is not an invariant of the code: an old copy brings a status or the
pointer back, an optimisation that fails leaves the version active that it made
ahead of time, and a crash in the loop leaves two. `OneActiveVersion` says that
these are the only ways.

Properties of the configuration: `LedgerIsSound` (and that revisions are unique is
never reported as an issue), `AnsweredIsKept`, `HitsAreCurrent`,
`DisabledCacheIsEmpty`. A write that fails leaves its change in memory, so what was
refused may still be in force; what was answered is never lost, which is what a
client relies on.

Properties of plugins and tools: `LifecycleIsPaired` speaks of the plugins nobody
touched while the application was up, because enabling starts nothing and disabling
shuts nothing down. `StepsFollowThePlan` and `CatalogOffersWhatRuns` have one
exception: where the industry is unknown, the catalog offers a tool bound to an
industry and the registry passes it over.

Properties of turns: `RepliesAreGrounded` (evidence, announced humans, the cache),
`DeliveredIsFinal`, `LowConfidenceEscalates`, `RiskIsHandedOver`. Three exceptions are
facts of the code. An answer from the cache is not gated again. A turn that stores its
older stack makes a session forget. And a business route of confidence 99 is surer
than the 98 of words of risk (below).

Properties of requests: `ImplementsTokenBucket`, `RetryAfterIsEnough` (a second
longer than was said, as the time is rounded down; at the rate of the run and at every
other but 0), `ReportsFollowTheLog`.

Deadlock is checked in every run but `runtime_config`, where a process whose policies
do not pass validation never starts again.

Fairness. Weak fairness of a request's or a turn's steps: the event loop resumes
every suspended coroutine, because every await returns or raises (the HTTP clients
have timeouts). `WaitingIsServed` also assumes weak fairness of claim-next for the
whole queue: staff who keep asking are a duty of the deployment and not of the
code, and without it nothing is served at all. `CallsEnd` assumes weak fairness of
the steps of a call: the calls are synchronous, and the lock is waited for ten
seconds at most (`handoff_queue.py:264`). That a call fails, or a process restarts,
is allowed and never relied on.

Where the code differs from the documents, two runs end in a violation:

* `NoDuplicateClaim` – a turn that began while its session waited, and was suspended at
  the model across a claim, puts the session back and it is handed out again
  (`chat.py:447`, `docs/interview-playbook.md:98-99`).
* `ActivationIsKept` – an import or a snapshot suspended across an activation (in the
  trace a snapshot of a version with a document) writes its copy of the base back, and new documents and hits are those of the old
  version again (`knowledge.py:158`, `knowledge.py:385`, `docs/testing.md:129`).

Others are exceptions that a property of a passing run names, or visible in the
definitions alone:

* A business route that page, objects and words make as sure as 0.99 beats words of risk
  at 0.98, so a complaint may be answered by a tool and reach no human
  (`routing.py:132`, `docs/business-requirements.md:83-88`): `RiskIsHandedOver`, its
  exception.
* The stamp of an earlier wait is kept, so a session that was served and asks again is
  handed out before one that entered the queue in between (`handoff_queue.py:65`; sorted
  by the time of entering, says `docs/testing.md:136`): `PassedOverOnlyForOlder` says what
  the order still keeps.
* Behaviour signals lift a request for a human over a risk session
  (`handoff.py:200`, `docs/interview-playbook.md:255`): `ResolvePriority`; the two
  contexts of `MCSessionHandoff` are such a pair.
* A process that loaded the session before it was enqueued elsewhere disputes the
  row, discards it for every process and answers null (`handoff_queue.py:314`,
  `docs/api.md:470`): `DiscardedOnlyByDisagreement`, `NullLeavesNobody`.
* `request_human` in a room queues nothing (`voice_rtc.py:192`,
  `STAR-HIGHLIGHTS.md:54`): `RequestHuman` of `RTCRoom` leaves `queued` alone.
* A cached answer is sent although no citation of this turn is effective
  (`chat.py:244`, `docs/interview-playbook.md:45`, `docs/api.md:171`):
  `RepliesAreGrounded`, its exception for the cache.
* Without the plugin `handoff.summary` the announcement of a human is cached like an
  answer, and the next turn announces one without queueing anybody (`chat.py:403`,
  `docs/architecture.md:117`): the same.
* No diagnostic event has the level error, so the alert
  `diagnostic.error_threshold` (`admin.py:895-920`) is raised only with a threshold
  that nothing needs to reach (`docs/deployment.md:207`). Not modelled.
* A plugin that raises ends the request, and a bridge that cannot authenticate a request
  it can handle is not followed by another: nothing catches the exceptions of plugins
  (`auth.py:171-180`), although `docs/plugin-system.md:118`, `docs/module-design.md:294` and
  `STAR-HIGHLIGHTS.md:374` have them recorded and fallen back from. `CallRaises` of `ChatTurn`
  and `Fail` of `SessionHandoff` end the turn, and `Authenticate` of `Gateway` takes the
  first bridge that can handle a request.

Worth knowing, and nobody says otherwise: a cached answer keeps the structured
output, the industry and the intent of the turn that stored it; disabling
`auth.api_key` is persisted and may shut administrators out; the 200 diagnostic events
are shared by all tenants, so a busy one pushes the costs of another out of the
report; an import that is sent again is counted again.

Every property of a passing run has a fault in its module (`Fault:` in the
comment), a plausible bug of the code that makes TLC refute it.

## 4. Proofs

The proof modules are for all values of the constants, under the assumptions the
modules state: `HandoffAssumption` (contexts have the type the rules read, the
four built-in groups exist), `SessionAssumption` (bounds are naturals, `None` is
none of the ids, nor the holder that `Queue` names), `RoomAssumption` (`None` is none of the ids), and
`SQLiteAssumption` and `NoneAssumption` (the group of a new session exists, asks are
groups with priorities from 0 to 100, `None` is no id, group, priority or record),
and, of the same names in `KnowledgeVersions`, `KnowledgeAssumption` (finitely many
documents, the default configuration is one) and `NoneAssumption`; and
`RateLimiterAssumption` (rate, ttl and clock are naturals, a rate of 0 included). What a
theorem about the limiter needs beside it stands in its statement:
`RatePerMinute > 0` for Retry-After, and `IdleBucketsFillUp`
(`Ttl * RatePerMinute >= Capacity`) for the token bucket, which the default settings
satisfy (120 a minute, 30 at once, 600 seconds). `GatewayAssumption` says what is
recorded: tokens and costs are whole numbers, the events of a turn are not billing
records, and no provider has billed what they count, as `_record_cost` and
`record_provider_billing` have it. Three more say of what kind the
values are: `RuntimeConfigValues` (`None` and the mark of an invalid record are none of
the values they stand beside, a body is a sequence of the edits the schema allows),
`PluginRegistryAssumption` (the built-in plugins are a finite list in which no id occurs
twice, as `build_builtin_plugins` has it; those of a host are others; priorities are
whole numbers), `ToolWorkflowAssumption` (a request has a tenant, a channel, a
sequence of named steps and a positive limit, which is what the schema of the
route and `auth.py` let through) and `ChatTurnAssumption` (what a host sends is of the
types of the context models; what a store finds has scores that are whole numbers; a
remote model is as sure as a confidence can be, `openai_provider.py:81`; the default price
is in the price table, as `_resolve_model_price` falls back to it; policies are in the
ranges of `schemas.py:187-192`; only built-in plugins are switched). These say what kind
the values are and bound none of them but the depth of the stack, which the schema
bounds.

`SessionHandoff_proofs`. None of the invariants is inductive as it stands,
because a copy may be written back long after it was read. `IInv` therefore says
the same of stored records and of copies (`RecordOK`: well typed, flag agrees,
entry whole, answers have questions, update time not in the future), that a chat
turn in flight holds its own question (`QuestionHeld`, needed when its answer is
appended), and that a fresh copy is the stored record. The handlers write in four
ways (save and keep no copy, read and begin, save and go on, save and end), and
one lemma for each shows that writing a good record keeps `IInv`; what is left per
action is that its record is good. The action properties follow from
`StepOnSession`: a step changes a created session in one of nine ways, or is the
write of an old copy. `QueueStep` says the same of the queue as a whole: one session
enters (or enters again) and is no longer counted as handed out, one waiting session is
handed out, or sessions leave. With `StepIsOfQueue` these are `Enqueue`, `Claim` and
`Discard` of `ClaimQueue`, so `LocalQueueIsAClaimQueue`. `NoDuplicateWithoutStaleWrite`
is the other half of the run `queue_duplicate`: the run shows that the write of an old
copy makes claim-next hand a session out twice, the theorem that nothing else does. Its
hypothesis is that no step of the behaviour is such a write, which is so whenever
requests on one session do not overlap; its invariant is that nobody who was handed out
waits. `QueueKeepsPlaces` is about `QueueOrder`: the stamp of a session that waits by an
enqueue is there and no later than `since` (`SinceOK`), as a step that keeps it waiting keeps
the stamp (`StampIsKept`) and an enqueue sets a missing one to the time it happens
(`EnqueueStamps`), and claim-next hands out the smallest stamp of group and
priority (`HandedOutFirst`).

`RTCRoom_proofs`. `IInv` adds that a copy in flight is "thinking" and of a known
session, that a turn named as a room's last transcript is done, and that unopened
rooms are as created. The action properties follow from `StepOnRoom`.

`SQLiteQueue_proofs`. `TransactionIsCurrent` is not inductive: nothing in it says
that the rows are whole, or what a call outside a transaction carries. `IInv` adds
`RowsOK` (the snapshot of a waiting row waits too, in the row's group) and, for each
process, `CallOK` (what a call carries at the statement it is at, and that
what a transaction has read is current). Two facts carry the proof: a process in a
call changes no session but the one the call is about, and no process writes the
table while another is in a transaction. So a step either leaves the rows and a
process's sessions alone, and `CallOK` of that process with them, or is a step of the
one process it is about. `DisputedIsKnown` is what `DiscardedOnlyByDisagreement` needs:
by `RowsOK` the snapshot never disputes its own row, so whoever disputes has a
copy. `Refinement` maps `InsertRow` to `Enqueue`, `Commit` to `Claim`, `ListMark` and
`ClaimNone` to `Discard`, and everything else to a stutter. `QueueHandsOutOnce` is a
theorem of `ClaimQueue` alone, stated of the instance; with the refinement it gives
`HandedOutOncePerEnqueue`.

`KnowledgeVersions_proofs`. None of the invariants is inductive, because a copy of
the base may be written back long after it was read. What saves it is that the
store only grows: no version goes away or changes its configuration, no document
or chunk is removed (`Later`). So what a copy said of its version stays true enough to
be said again (`BaseLater`, `JobLater`). `IInv` says that the store is good (`StoreOK`:
chunks belong to documents, a version not yet made has none, no version reports
more than it has unless it is half made, the base describes its version), that what
requests hold could be written back (`JobOK`), and `ChosenOK`, which is
`OneActiveVersion` extended to a base that has no version yet. One lemma for each
kind of save shows that it makes a good, later store of a good one; five lemmas for
the kinds of steps (`TornStep`, `TornWhole`, `SavingStep`, `BeginningStep`, `EndingStep`)
carry that over to the rest of the state; then there is one lemma per action, whose
conclusion `GoodStep` is the invariant and both action properties at once.

`Gateway_proofs`, of the limiter. `LimiterIsTokenBucket` needs that buckets are well typed
and were counted in the past (`BucketsOK`). A tick refills every bucket by as much as
`TokenBucket` does (`TickLevels`: what was counted lazily is what would have been
counted at every tick, by the monotony of the product), and to forget buckets that
were left alone for the ttl changes no level (`LongLeftAlone`): where idle buckets fill
up they are full. `RetryAfterSuffices` strengthens to `Waits`: the token is there or the
time that is left brings what it lacks. It does without that hypothesis: to forget a
bucket takes nothing from it (`DecisionLevels`).

`Gateway_proofs`, of the gateway. A step of the gateway is a step of the limiter or leaves it alone
(`StepOfLimiter`), so the theorems of the limiter carry over to the whole, whatever
requests do behind it. `LogIsKept` says that the memory holds the newest events of the
log, newest first, and the file those it has seen.

`Gateway_proofs`, of the cost report. `ReportsFollowTheLog` compares sums over the
memory, which is newest first, with sums over the log, which is oldest first. The sum of
the community modules is a fold, of which the provers know only the definition, so the proof
says what a sum is without it: `Adds` is a function that gives each part of a finite set
its sum when one place after another is taken away. There is such a function
(`SumExists`), and it is the same whichever place is taken away first (`AddsAny`); so a
sum is that of any part and one place more (`SumIs`, `SumOfPart`), is the same when the places
are renamed (`SumRenamed`), counts if all that is summed is one (`SumOfOnes`), and is
made up of the sums of any partition (`SumOfParts`). `Place` is the renaming: place `i` of
the memory is place `Len(log) + 1 - i` of the log, so a query finds the same events in
both (`QueryTold`), and sums and counts agree (`SumTold`, `CountTold`). `PartsMakeUp` is
the partition: a breakdown sorts the events by the value of a field, and each figure is
the sum of what each event weighs in it. `UnmatchedIs` is that two keys agree exactly if the events
match. All that is needed of the events is that they are what the two handlers record: the log
consists of such events by the invariant, and `EventFacts` draws from `GatewayAssumption`
what their fields are.

`RuntimeConfig_proofs`. A client relies on what was answered, but a call is a sequence
of edits of which any prefix may be in memory, another on the disk. `IInv` says of the
memory that it honours what was promised (`UpOK`) and of the file that the next process
will (`FileOK`): an undamaged file holds a sound ledger and every revision and switch
that was answered; of a damaged one, what is left of the ledger still has its numbers in
order; where there is no file, or one that cannot be read, nothing was promised.
`TurnsOK` is `HitsAreCurrent` with the types it needs, and an empty cache while it is off
is part of a good memory (`MemoryOK`). The proof follows a call edit by edit: what one
edit does (`EditEffect`), what the first `i` come to (`CallEffect`), what any outcome of
the writes leaves in memory and file (`CallStep`); and a start record by record of the
ledger it reads (`ReadsNext`, `StartStep`).

`ToolWorkflow_proofs`. `LifecycleIsPaired` speaks of the application at rest, so
`RegistryInv` adds which plugins run while it comes up and goes down (`Followed`): on the
way up one runs if its hook was called already, on the way down if it is still to be
called. `RunInv` says of each run how it stands by the results of its steps (`Stands`):
only the last step of a trace may have failed, a run is final just when every step
succeeded, and the plugin of a call under way is the one that was checked, or one
bound to an industry was passed over (`Fits`). `CatalogAgrees` and `Fits` rest on the
order of priority: it is a strict total order of the places of the registry, so each
place comes after a number of others that no other place has (`BeforeCount`), a set
of places has one list in that order (`OrderIsUnique`), and to filter a sorted list
is to sort what is left (`FilteredLists`). The catalog filters after sorting, the
registry before, and yet both offer the same plugins in the same order.

`ChatTurn_proofs`. `IInv` follows what a turn reads before an await and relies on
after it. `TurnIs`: a turn waits with a session, a request, a context and a plausible
decision (one that asks for a human goes to one), and its key names the very chunks it
found (`Keyed`), or it has ended as the properties ask (`Finished`). `Cached`: an answer in
the cache was not refused, carries no package, passed the check on effective
citations, and carries the chunks its key names; so a turn that finds its own key
there may send it (`CachedEnds`). `Remembers`: a stored stack is bounded, and unless an
overlapping turn overwrote it, its top frame counts low confidence just when the last
decision was of low confidence (`Alarmed`). The last is `LowConfidenceEscalates` seen from
the state: `RecordIs` shows that the frame of a new decision is on top however the stack
was cut, `StrategyIs` that a count there escalates. `AnsweredIs` takes an answer through
the gate, the handover and the plugins in one statement, `EnhanceIs` through any sequence
of post-processors.

`RiskReachesAHuman` has two hypotheses, and neither is decoration. `route.risk` is not
switched off, as nothing sees a risk without it. And no policy sets
`route_fallback_confidence_threshold` to 1.0: the schema allows it (`schemas.py:190`), and
then a tool as sure as 0.99 falls back instead of being called. The invariant is
`RiskInv`: no frame, stored or held, is of a question or a fallback as sure as 0.99
(`Humble`), so what a user returns to cannot outdo a risk unless it is a tool or a human.

Induction. The theorems of the library that take an operator cannot be used, so an
induction over a number is a least counterexample: `LeastNatural` gives the least
element of the set of numbers that violate the claim, and over finite sets it is an
induction over how many elements they have (`SubsetInduction`). The recursive functions of the
model (`After`, `Valid`, `Sorted`, `Those`, `Enhance`) obey their defining equations by the
same argument, carried out in `RuntimeConfig_proofs`, `ToolWorkflow_proofs` and, for any
such function, in `UpTo` and `Recursion` of `ChatTurn_proofs`.

Only model-checked: `WaitingIsServed`, `ThinkingEnds` and `CallsEnd` (liveness, which
is out of the prover's reach). Every other property of a passing run is proved. The runs
that end in a violation (`NoDuplicateClaim`, `ActivationIsKept`) are counterexamples;
`NoDuplicateWithoutStaleWrite` and `RepointedOnlyByStaleWrite` say that what they show is
the only way to it.

## 5. Not modelled, and the plan

Not modelled, and why:

* the text of messages, answers, packages, prompts and documents, and how words are
  found in it: no property depends on more than the flags of a message;
* the parsing and the signatures of tokens, and the validation of payloads: the
  actions are what comes after them;
* metrics, alerts and the reports besides the cost summary: they read and change
  nothing;
* the remote providers: each call is an await that returns something or raises;
* `ingestion.py` and `evaluation.py`: they keep no state;
* wiring, settings, logging, examples and scripts;
* the eviction of the cache at 500 entries, which the bound of one entry does not
  reach: what it may drop, `Expire` may drop as well;
* floating point: confidences, scores and tokens are whole numbers of small parts.

What is left to do, in this order:

1. Rooms over `SessionHandoff` and `ChatTurn` in place of `known` and `queued`.
2. `SessionHandoff` and `ChatTurn` as one module, once the product of their states is
   small enough for TLC; today each abstracts what the other has.
3. The reading side of `knowledge.py` (`search`, comparison of versions).
