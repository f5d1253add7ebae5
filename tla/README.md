# Verification of the agent system

TLA+ models of the concurrent core of this repository, the TLC instances that
check them, and TLAPS proofs of the results that matter most. The code is the
reference: `PROJECT.json` (`map`) names, for each definition, the lines it
models. Paths below are relative to the repository root.

## 1. The system

A Python service (`app/`) offers chat with tool-like *agents* over HTTP, keeps
conversations in PostgreSQL, runs long jobs (tender documents) as *tasks* in
separate worker processes, and answers from a knowledge base.

| Component | State | Operations | Talks to |
|---|---|---|---|
| task domain `app/platform/task/domain` | a Task with attempts, events, result | create, claim, renew, request/confirm cancel, complete, fail, requeue, manual retry, recover | called by the lifecycle service |
| lifecycle service and repository `app/platform/task/application/lifecycle_service.py`, `.../repositories/task_repository.py` | task, attempt, event and receipt tables | one command = one transaction under the row lock | routes, worker, schedulers |
| schedulers `.../recovery.py` | none between runs | scan for expired leases and due retries, then one command per candidate | lifecycle service |
| worker process `.../worker.py`, `runner.py` | the current execution | recovery stage, retry stage, poll; heartbeat, commit | schedulers, executor |
| tender execution `app/business/agents/tender` | result files of a task | read input, render, store, report | worker, attachment storage, model provider |
| turn coordinator `app/platform/dialogue/application/conversation_turn_coordinator.py` | registry of lock objects with counts | acquire, cancel while waiting, release | chat and agent turns |
| streamed chat `.../streaming_conversation.py`, `interaction/application/chat_stream.py` | one turn | resolve, take lease, store message, read window, stream, store answer, release | coordinator, database threads, provider, client |
| agent calls `.../agent_invocation.py`, `agent_turn.py`, `agent_continuation.py`, `pending_invocation.py` | one-shot proposal and pending entry per call | prepare, confirm, cancel, run, record, continue | gateway, coordinator, agents |
| interaction gateway `app/platform/interaction` | candidate index, proposals; the capability catalogue in the database | recognise, propose, confirm, dispatch, bridge to a task | chat, agents, tasks, MCP |
| conversation store and services `app/platform/conversation` | conversations, messages, events | create, append, list, page, pin, name, delete, build a context | dialogue |
| workflow `app/platform/workflow` | a run, its nodes, event log and receipts | create, execute, complete, fail, skip, cancel, confirm | node executors |
| attachments `app/infrastructure/filesystem/attachment_storage.py` | a directory per attachment, and in each store instance the records it knows | stage, read, list, discard, clean up, restore at start | uploads, agents, MCP calls, task results |
| ingestion `app/platform/ingestion`, `.../upload_service.py` | staged and promoted files; the text on its way to chunks | stage, promote, parse, read images, clean, split, chunk, save, retry | file system, OCR, database |
| knowledge `app/platform/knowledge` | documents, versions with a status | publish; recall twice, merge, rank, filter | database, embeddings |
| model access `app/infrastructure/llm` | slots, token bucket | invoke, stream, retry, cancel | everything that calls a model |
| tender analysis `app/business/agents/tender/application` | one job: plan, partial results, merged analysis | plan, analyse chunks, merge, verify, render | model access |
| the rest | none over time | HTTP routes, composition, configuration, OCR, frontend, tools | |

What is hard here:

* **Leases and late callers.** A worker whose lease ran out goes on working and
  calls at any time. Schedulers act on candidates read in an earlier
  transaction: the first commit of a batch gives up the locks of the whole batch.
* **Two stores.** Result files are written outside the transaction that commits
  the result; the process may die in between, and the model does not give the
  same answer twice.
* **Threads that cannot be cancelled.** Database work runs in threads that
  outlive the request that started them.
* **One-shot state in memory beside facts in the database**, with expiry times
  of its own, two racing requests and restarts.
* **A lock whose object comes and goes** with the turns that use it.
* **A copy that outlives its lock.** A workflow node is executed between two
  transactions, and the second saves the whole run as the first left it.
* **Several instances over one directory**, each of which removes what it does
  not know.
* **A catalogue that changes between two reads** of one request, and an index of
  it that is never refreshed.
* **READ COMMITTED transactions** that read before they commit: version numbers,
  active versions, pinned conversations, the owner of a row.
* **A blocking wait on the event loop** for a slot that streams of the same loop
  may hold.

What makes each part correct is stated as the properties of section 3; what
threatens it is listed, line by line, under `hazards` in `PROJECT.json`.

## 2. Modules

| Module | Models | Role |
|---|---|---|
| `TaskDomain` | `Task`, `TaskAttempt` | records; `Can...` is the condition under which a method does not raise, the operator named after the method its effect |
| `TaskLifecycle` | service, repository, schedulers | an action per command and per scan; clock and stale candidates explicit |
| `TaskPromise` | – | what the owner of a task is promised, without attempts, leases or clocks |
| `TaskWorkerPool` | worker processes, tender executor, result store | stages, execution steps, crashes, files; relative time, so it is finite and liveness can be checked |
| `TurnCoordinator` | the coordinator on one event loop | registry, counts, waiters |
| `TurnLock` | – | the plain lock turns rely on |
| `ConversationFacts` | message and event tables | the log of a conversation and an instance of `TurnLock` |
| `ChatTurns` | a streamed chat | an action per await |
| `AgentTurns` | preparation, confirmation and run of an agent call | an action per await, thread step or lock region |
| `Dialogue` | both in one process that restarts | composition, fairness, properties |
| `WorkflowDomain` | `WorkflowRun`, `WorkflowNodeRun`, `WorkflowVersion` | records, guards and effects, like `TaskDomain` |
| `WorkflowRuns` | `WorkflowApplication`, its repository and tables | an action per command; `execute_node` in two, with the copy it holds |
| `CapabilityCatalog` | catalogue records | bindings, permission test, validation, input check |
| `InteractionGateway` | recognition, proposals, dispatch, call policy, task bridge, MCP | an action per read of the catalogue, lock region or call |
| `AttachmentStorage` | the stores over one directory and those who use them | a staging is several steps, other calls one |
| `KnowledgeBase` | uploads, ingestion transaction, publication, the queries of a search | an action per file operation, statement that reads, and commit |
| `PolicyText` | the ingestion pipeline | an action per stage over texts of symbols |
| `Retrieval` | a search, on what `PolicyText` stored | an action per stage; scores in millionths |
| `LlmAccess` | slots, bucket, retries, streams of one process | an action per step of a call, and time |
| `TenderAnalysis` | the tender agent; composes `LlmAccess` | every thread of `LlmAccess` runs one job |
| `ConversationBook` | conversation services and repositories | an action per statement or short transaction |
| `TaskLifecycleProofs`, `DialogueProofs`, `WorkflowRunsProofs`, `InteractionGatewayProofs` | – | theorems about the module each is named after |
| `ConversationProofs` | – | theorems about `ConversationBook` and `TurnCoordinator` |
| `StorageProofs` | – | theorems about `AttachmentStorage` and `TaskWorkerPool` |
| `LlmAccessProofs` | – | theorems about `LlmAccess` and `TenderAnalysis` |
| `KnowledgeBaseProofs` | – | theorems about `KnowledgeBase`, and about the windows of `PolicyText` |
| `MC...` | – | instances for TLC |

State and actions:

* **TaskLifecycle.** `tasks` is the three task tables, `receipts` the receipt
  table. A command reads the row `FOR UPDATE` and commits once, so it is one
  step. `expired` and `due` collect every candidate a scan ever read: any of
  them may be acted on at any later time, which covers all batches of all
  scheduler processes. A holder of attempt *n* (the token names the attempt)
  may call any operation at any time. A lease may lose part of its length
  before the claim commits, and `retry_at` may be computed at any moment since
  the claim. A command that raises changes nothing and is not a step.
* **TaskWorkerPool.** Reuses the operators of `TaskDomain`. `pc` is where a
  process is; `work` what its execution remembers. `WorkerDies` may happen between
  any two steps of an execution. Files are `manifest` (resource list) and
  `document`; the fingerprint stands for the result they were made from.
  `ArtifactsOf` says which artifacts a result has: the fingerprint also hashes
  the analysis, the model and the prompt version (`task_execution.py:182-197`),
  while a manifest that is there is compared by its artifacts only
  (`task_port.py:247-250`) and a document is kept unread (`:195-199`).
  `overlap` (history) says that an execution entered
  `FilesystemTenderTaskResultStore.save` while another was in it; executions that
  merely live at the same time do not set it.
* **TurnCoordinator.** A lock object is named after the turn that created it.
  `asyncio.Lock` (external) wakes waiters in order and stays free until the
  woken one has run. A task that is cancelled after it was woken hands the
  wake-up on; in the model it is still in the queue and leaves it.
* **ChatTurns.** `pc` names the await a turn is at. `unwinding` says that the
  turn has been given up while a thread is at work; the thread's step then
  leads to `closing`. A turn is given up in two ways. Where the generator of
  `_stream_with_heartbeats` ends by itself (a timer, a client found gone, a
  cancelled await), its `finally` waits for a save that runs (`ChatUnwind`).
  Where the consumer leaves at a heartbeat, the generator is suspended in its
  `yield` (`chat_stream.py:686`): closing it does not wait, the inner stream
  cannot be closed because it runs, and the lease is released (`ChatLeave`); the
  save goes on. Timers and the client are nondeterministic.
* **AgentTurns.** A worker is a call in preparation or a confirmation request.
  `proposal` and `pending` are the two in-memory stores; `txn` is the worker in
  `pending.transaction()`, which also keeps out reads of the store. A client
  that leaves is seen only by a request that waits for the lock; later the
  supervisor goes on.
* **Dialogue.** `Restart` loses the lock and the in-memory entries and ends
  every request; the log stays.

* **WorkflowRuns.** One run of one Version. `run` is its row, nodes and events;
  `call` holds, for every `execute_node` between its commits, the copy that the
  second commit will write. `EventsFit` is the unique constraints of the event
  table: new events of a copy are numbered from the copy's length, so a copy
  that is behind the table cannot add any. `executor` (external) is what the
  node executors have been asked. Callers are assumed to use
  an id for one command only (`IdsFor`, and disjoint ids per command type); the
  same id for the same command may come any number of times.
* **InteractionGateway.** A request moves through `phase`, from the refresh of
  the candidate index over model, attachments and approval-free path to the
  proposal, or from consuming a proposal over the dispatcher, the call policy and
  the second read of the catalogue to the runtime or the task bridge. Every read
  of the catalogue is two SELECTs (`catalog.py:62-64`), each with its own snapshot
  under READ COMMITTED: `CheckCatalog` is the validation of all records, and the
  action that needs a record then sees it as it is by that time. `checked`
  remembers that the first SELECT was made and of which catalogue. A proposal is
  `torn` (history) when the catalogue changed in between. The candidates of a
  search are read one by one in the code and by one step here.
  `ChangeCatalog` stores another record at any time, `Restart` empties the
  memory, `Tick` lets proposals run out. History: `shown` (what each proposal
  said), `ran` (handlers executed); `tasks` is what each call id stands for.
* **AttachmentStorage.** `dirs` says how far each directory got (none, part,
  file, full), `records` what each store instance knows. A job is an upload, a
  read, an agent call with artifacts, an MCP call, the staging of a task result
  or the listing of one. Requests of the API use its instance; a confirmed agent
  call (`root.py:906-910`, `869-874`), an MCP call and a poll of the task worker
  each build one of their own, which starts by restoring what it finds and
  removing the rest (`AgentBegin`, `McpBegin`, `PollBegin`). `Crash` ends a
  process with all of its instances at any step and `OpenApi` starts the API
  again with what it restores. History: `served`, `wiped` (removed by an
  instance that did not know it). Ids are random, so content never changes.
* **KnowledgeBase.** `staged` and `promoted` are the two directories of an
  upload, `documents` and `versions` the tables. Promotion is `MakeDirectory`,
  `Move`, `RemoveStaging`, with crashes in between; the transaction is
  `ReadDocument`, `ReadVersions`, `Commit`, where unique keys decide. History:
  `answer`, `resubmitted`, `overlapped`.
* **PolicyText and Retrieval.** A symbol stands for what some rule of the code
  looks at: parts of a heading number, digits, letters, punctuation, line ends.
  The lengths of the code are parameters. OCR and the vector index (external)
  choose any reading and any similarity. A question keeps the words that are long
  enough, no noise and not one symbol repeated; `NoiseTerms` has one such word.
* **LlmAccess and TenderAnalysis.** `call` is where each call is; `ideal`
  (history) a bucket refilled at every tick, `heard` (history) the attempts whose
  chunks a consumer saw. There are threads, streams on the loop, and
  `/retrieval/ask`, which blocks the loop; `LoopStuck` is the state in which it
  waits for a slot that streams of the loop hold. What the model
  answers is any member of a set of analyses, right and wrong ones.
* **ConversationBook.** A request is a session (`ses`): who asks, what for, and
  the statement it is at. `ownerLock` and `rowLock` are held between statements
  by `update_pinned` only. `Die` ends a session anywhere, which gives up its
  locks. History: `touched`, the conversations changed while a client lists.

Definitions that begin with "Mutation:" in their comment are not part of the
models: each is a plausible bug in the definition that follows, and the run
named in `PROJECT.json` finds the property violated when it is put in its place.

## 3. Runs

Each run checks one or two conjunctions of named parts (the parts are defined and
explained beside each other in the module) and the properties that stand alone.

| Run | Instance | Properties |
|---|---|---|
| `task_lifecycle` | 1 task, 3 attempts, 2 commands, 2 fingerprints, time 0..4 | `TasksConsistent` (type, `OneActiveAttempt`, `WaitingIsClaimable`, `CancelSticks`, `EventsTellStatus`), `ResultIsTheWinners`, `SchedulerCommandIsFresh`, `AttemptsHonoured` (`LeaseHonoured`, `HistoryIsAppendOnly`), `PromiseKept`: refinement of `TaskPromise` |
| `worker_pool` | 2 workers, 2 attempts, 3 results of which 2 have the same artifacts | `PoolConsistent` (type, `OneCommitter`, `DeliverableExists`), `DeliveredIsCommitted`, `Terminates` |
| `turn_coordinator` | 4 turns, 2 conversations | `CoordinatorConsistent` (type, `MutualExclusion`, `RegistryIsExact`), `NobodyStarves`, `LockKept`: refinement of `TurnLock` |
| `dialogue` | 2 chats, 1 call, 1 confirmation, 1 conversation | `TurnsDoNotInterleave`, `ContextConsistent` (type, `ContextIsSettled`, `ContextEndsWithOwnMessage`) |
| `agent_turns` | 1 chat, 1 call, 2 confirmations | `AgentRunsAsDecided` (`AgentRunsOnce`, `CancelledNeverRuns`), `CallsConsistent` (`SuccessIsStored`, `OneShotStateIsClosed`, `WithdrawnLeavesNothing`, `ApprovalIsNotLost`), `EveryTurnEnds` |
| `workflow` | 3 nodes (2 after 1, 3 alone), 2 calls under way, 2 results, 9 command ids | `RunConsistent` (type, `ToldIsCancelling`, `DependenciesHonoured`, `StatusTellsNodes`, `LogTellsNodes`), `CancellationKept`, `ResultIsFinal` |
| `interaction` | 3 requests of 2 subjects, 4 capabilities, 2 changes of the catalogue or restarts, searches with 1 hit, proposals live 1 tick | `RunsAsConfirmed` (`ConfirmedIsWhatRuns`, `ProposalRunsOnce`), `CatalogHonoured` (type, `IndexRespectsScope`, `AgentsNeedDialogue`, `AgentKeyIsApproved`, `AcceptedIsTask`), `ConsentHonoured` (`UnapprovedNeedsNever`, `ConsentInTime`) |
| `attachments` | the store of the API and one of a call or poll, 3 jobs, 3 ids, retention 1 tick, 1 crash | `StoresConsistent` (type, `ServedToOwner`, `ListedUnlessLost`), `AcknowledgedSurvives`, `NothingLeftBehind` |
| `knowledge_base` | 2 processes, 3 uploads of which 1 is a document already and 2 have the same name | `VersionsConsistent` (type, `LatestIsNewest`, `RevisionsGoBack`, `OneActiveVersion`), `FilesFollowRows` (`SourceIsKept`, `RefusedLeavesNothing`), `SearchIsCoherent`, `HiddenOnlyByRollback` |
| `document_text` | every Word file of up to 4 text or 2 image paragraphs and PDF of up to 3 pages from small sets; 10 questions | `TextSound` (`TextInReadingOrder`, `MethodTellsSource`, `PersistedHasText`, `SectionsPartition`, `PathsNest`, `ChunksCover`), `HitsSound` (type, `VerbatimIsFound`, `WeakHitsHaveEvidence`, `EvidenceRanksFirst`) |
| `model_access` | a tender job, a stream and an ask; 1 slot, burst 1, 2 attempts; 22 documents | `LimitsKept` (`SlotsAreExact`, `RateHonoured`, `RetryWithinBudget`, `HeardOnce`, `EndedIsClosed`), `AnalysisSound` (type, `VolumesDisjoint`, `CompletedSawAll`), `PlanCovers`, `CallsAndJobsEnd` (`EveryCallEnds`, `JobEnds`) |
| `conversations` | 2 sessions of 2 owners, 3 conversations, pin limit 1, pages of 1 | `PinLimitKept`, `ReadsSound` (type, `ListIsComplete`, `HistoryIsComplete`, `ContextIsLongest`), `OwnerActsAlone`, `GivenNameStays`, `RequestsEnd` |

Where the code breaks what its documents promise (listed below), the properties
are stated so that they say exactly what is left: `TurnsDoNotInterleave` and
`ContextIsSettled` except only the late answer of a chat that was left,
`AgentsNeedDialogue` only proposals that are torn, and `AcknowledgedSurvives` says
of the files of an agent call that they stay on disk until an instance that does
not know them removes them.

The largest instances have 3.4 million (`knowledge_base`), 2.6 million
(`interaction`), 2.3 million (`task_lifecycle`) and one million distinct states
(`dialogue`); the others have 660,000 or fewer.

**Bounds.** Tasks do not share anything but the clock, so one is enough for the
properties of a task. Three attempts give an attempt
that is neither first nor last; with two commands a task can be reopened twice
and so reach its third attempt and its expiry within the clock's bound
(`MaxTime`, `MaxRenewals` bound the clock and renewal numbers). The proofs have
no such bounds. In `TaskWorkerPool` time is relative and needs no bound. Two
workers show every race for a task, as at most one holds a lease; three results
let an execution find the files of another, with the same artifacts under another
fingerprint or with other artifacts. Four turns on one lock object give
an owner, a woken waiter, a waiter behind it and a newcomer. In the dialogue,
two confirmations race for a call, two chats around a call exhaust the ways
three authors can mix in one conversation, and conversations meet only in the
coordinator, which is checked with two. `MaxMessages` is 3, so the window is
cut off. In the workflow three nodes give a predecessor, its successor and a
bystander; two calls suffice for one to save an old copy over the other, node 1
may be tried twice, and three execute ids allow a retry with the same id and
one with another. Runs share nothing.

In the gateway three requests are one that proposes, one that confirms and a
third that confirms again or builds the same index; two changes (`MaxChanges`)
put another record between the two SELECTs of a read and take it back, or fall
between any two reads. A search has one hit (`TopK`), since each candidate is
checked by itself, and the document of a request is named by the extracted inputs:
one that the client sends along takes the same way afterwards. In the attachment storage three jobs are a
writer of the API, a reader and a call or poll with a store of its own (one at a
time: a second such store would only be another stranger to the first); `MaxIds` lets
an agent call stage its source and two artifacts, `MaxCrashes` is 1 because a
crash leaves nothing but directories. In the knowledge base two processes show
every pair of transactions, and three uploads a document with three versions. In
the pipeline a window is 6 symbols with an overlap of 1, so that four blocks fill
several windows; only documents of up to `MaxSearched` blocks are searched, with
one or two hits asked for and three similarities, on either side of the
thresholds. In `model_access` a chunk has 6 characters,
3 chunks at most, a merge 3 characters and 2 items, a job 6 calls: documents
cover splits at separators and without, tables with and without rows that fit,
and headings that nest; the stream and the ask run beside the smallest one
(`Crowded`). In the conversations the owner has a pinned, an unpinned and an
unborn conversation, with a history longer than a page, than the message limit
and than the budget. Chats are symmetric in `dialogue`, processes and the two
uploads in `knowledge_base`, fingerprints in `task_lifecycle` (no liveness there).

**Fairness.** *TaskWorkerPool*: time passes, and a worker takes its next step;
`run_forever` loops, and the calls it makes have timeouts. Crashes, owners and
the choice of outcome are free. *TurnCoordinator*: the event loop runs a woken
waiter; a turn that holds the lock releases it, which `EveryTurnEnds` shows of
the turns. *Dialogue*: threads and awaits return, because the stream has idle
and total timers, and database and agent calls return. Nothing is assumed of
clients. *TenderAnalysis*: threads and the loop are scheduled, requests and
streams have timeouts, time passes; cancellations are free. *ConversationBook*:
the database executes the statement of a session that is not blocked; a session
is one request, so nobody competes for a lock for ever. All fairness is weak: an
enabled step of a process or thread stays
enabled until it is taken, with the exception of waiting for a lock or a slot, where the
instance has too few competitors for anyone to be overtaken for ever and
`NobodyStarves` shows the order of the real lock.

**Deadlock** is checked in the worker pool, the dialogue and model access, where
time, restarts or polls are always possible. It is not checked where the
observation simply ends: bounded clocks, ids and changes (task lifecycle,
workflow, gateway, attachments, knowledge base), or every request answered
(coordinator, pipeline, conversations). That nobody waits for ever is what
`Terminates`, `NobodyStarves`, `EveryTurnEnds`, `CallsAndJobsEnd` and
`RequestsEnd` say.

### Where the documents and the code differ

Met while modelling; the models do what the code does, and the properties leave
these cases out or are stated so that they hold in spite of them.

Tasks and dialogue:

* `openspec/specs/task-result-resources/spec.md:29,40-42` wants a manifest with
  other metadata refused. `save_resources` (`task_port.py:234`) checks for one
  and replaces it later without looking again, so two executions of one task can
  replace each other's manifest (`DeliveredIsCommitted` excludes `overlap`).
  A manifest with the same artifacts is kept, and so is any document that exists:
  after a crash between store and commit the analysis, model and prompt version in
  the document may be those of the dead execution, while the fingerprint is that
  of the next. `DeliveredIsCommitted` therefore speaks about artifacts. Without a
  conversation there is no manifest, and nothing is compared at all.
* `openspec/specs/streaming-chat-multiturn-context/spec.md:125` keeps the lease
  until a started operation has ended. A consumer that leaves at a heartbeat
  gives it back at once (`ChatLeave`): the answer may be stored inside the
  next turn, and a window that was read in between does not show it.
* `openspec/specs/dialogue-agent-invocation/spec.md:29` wants an `agent_call`
  event with status `accepted`; `agent_turn.py:115` invokes with
  `persist_call_event=False`.
* `openspec/specs/conversation-context-window/spec.md:35` relies on the lease to
  keep later turns out; the user message of an agent call is stored without it
  (`agent_invocation.py:138`). `ContextConsistent` holds because the window is
  cut off at the turn's own sequence number.
* `openspec/specs/streaming-conversation-persistence/spec.md:25` wants no
  assistant message after a cancellation, but the write runs in a thread that is
  waited for and commits; that wait is what keeps turns apart.

Workflow (the registered Version has a single node; all of this needs more):

* `openspec/specs/workflow-run-and-node-contracts/spec.md` calls the failure of a
  run stable. `_refresh_status` (`models.py:937`) makes a failed run accepted as
  soon as another node is skipped or completes while a third is accepted.
* The same specification limits the attempts of a node. A start under a repeated
  command id adds no event (`service.py:180`), so a stale copy is not stopped and
  the executor runs once more than allowed.
* Any event committed while the executor works makes the second commit of
  `execute_node` fail, and the outcome is dropped.

Gateway and attachments:

* `app/composition/root.py:390` registers the task profile as
  `agent.tender.generate_bid_skeleton`, `sql/005_platform_capability.sql:72,83`
  names the capability `tender.generate_bid_skeleton`: in this configuration the
  task route of `ARCHITECTURE.md` is never taken. The model has the intended
  configuration.
* The candidate index is never refreshed, and the key may change between the
  policy's read of a record and the runtime's.
* `gateway.py:530` refuses to confirm an agent outside the dialogue, by the type in
  the proposal. Two SELECTs of one read may see two catalogues, so a proposal may
  have another type and the key of an agent; `dispatch.py` compares the key only
  and calls the agent. In the model that is a change, `CreateProposal`, the change
  back, `Confirm` and `ControlledDispatch`; without `shown[x.pid].torn` TLC finds
  `AgentsNeedDialogue` violated.
* `openspec/specs/agent-artifact-download/spec.md:44-46` lets the subject download
  what an agent made. A confirmed call stages it in a store of its own; the store
  of the API does not find it and removes it at its next clean-up (`AcknowledgedSurvives`
  says nothing of `wiped` files). Only a restart of the API before that would adopt it.
* An output that is no JSON is refused after its artifacts were staged, and
  nobody discards them; `_project_artifacts` stops at the first unreadable one.
* A store of the API that was built before a worker staged its result does not
  know the files and removes them when it cleans up, although
  `task-result-resources/spec.md` wants them available.

Knowledge base:

* A repeated `ingest-upload` does not find the upload and deletes the durable
  file of the first. A pipeline that stops or raises something unexpected leaves
  the promoted file. A crash between creating and filling the target directory
  makes every later ingestion of that upload fail.
* A retry of an ingestion always violates `UNIQUE (policy_id, file_hash)`
  (`sql/001_kb_policy_schema.sql:82`) and is answered with 500.
* Activation takes no lock, so that two may leave two active versions. Nothing
  makes name and category of a document unique.
* Searches look at `latest_version_id` and accept drafts: a new draft replaces the
  published version in the results, and publishing an older one hides the
  document.
* `rebuild_path` cuts the path by its length, so after a skipped level an article
  becomes the parent of the next (`sql/001_kb_policy_schema.sql:182` says
  otherwise). A window cut short at a break leaves up to 479 characters in no
  chunk. The guard looks at the text before the cleaner does, so a document of
  page numbers is stored without chunks; the cleaner also removes a short heading
  that occurs three times, although its note says headings are kept.
* Pages of images in a PDF with enough text are never read, nor are the images
  of pages with text in a suspected scan; a half-written `.docx` of a crashed
  conversion is used again.

Model access and tender:

* `/retrieval/ask` waits for a slot on the event loop (`request_governance.py:64`).
  If streams of that loop hold all slots it never gets one (`LoopStuck`).
* A slot is released before the upstream stream is closed
  (`openspec/specs/llm-request-governance/spec.md:39-41`).
* Chunking is decided by the size of the file and not of its text
  (`openspec/specs/tender-agent-chunked-analysis/spec.md:8`), and evidence
  prefixes may exceed the budget (`:14`). Two results too long to share a batch
  are never merged, and all calls of the job are spent on them.
* Chunked analyses reach the renderer without the boundary checks; an uncertain
  analysis without outputs fails there
  (`openspec/specs/tender-agent-skeleton/spec.md:70-73`).

Conversations:

* The routes for pin, rename and delete do not catch `ConversationNotFoundError`.
* A crash between the first message and its title leaves the conversation without
  a name. A conversation that changes while it is listed may be missed or listed
  twice.

## 4. Proofs

Checked with TLAPS for every value of the constants that satisfies the named
assumptions.

**Task lifecycle** (`TaskLifecycleProofs`; `MaxAttemptsAssumption`,
`NoFingerprintAssumption`, `AllowManualRetryAssumption`, `TimingAssumption`).
The inductive invariant is `TypeOK /\ TasksOK`, where `TasksOK` is `TaskInv` of
every task: attempts, waiting, cancellation, winner and event log together.
None of them is inductive alone: that a claim adds the only active attempt
needs "executing exactly when the last attempt is active", that a fresh task
has no attempts needs the log. One lemma per method of the aggregate shows that
the method keeps `TaskInv` and that its history `Evolves`; `SaveStep` lifts this
to the table, `StepKeepsTypeAndTasks` goes through the actions. From it:
`TypeCorrect`, `ExecutionExclusive`, `WaitingClaimable`, `CancellationSticks`,
`ResultBelongsToWinner`, `EventLogTruthful`, `LeasesHonoured`, `HistoryKept`, and
together `TasksStayConsistent` and `AttemptsStayHonoured`.

`SchedulerCommandsFresh` needs a second invariant, `ReceiptsInv`: the id of a
requeue receipt is a time that has passed, lies no later than the start of the
attempt that runs, and is not the `available_at` a task waits for. It holds
because `retry_at` is at least `RetryDelay > 0` after the claim and a recovery
backoff lies in the future; with a zero retry delay the command id could repeat
and the requeue would be swallowed by the receipt of the previous one.

`LifecycleImplementsPromise`, the last part of the module: each method moves one task
along an edge of the owner's view (`OwnerStep`), and each edge is an action of
`TaskPromise` or a stutter.

**Worker pool** (second part of `StorageProofs`; `PoolAssumption`,
`NoFingerprintAssumption`). `PoolInv` ties four things together: the row of the
task, where only the last attempt may be active (`RowOK`); the attempt that each
execution alive works for (`AttemptOf`), no two for the same one (`Apart`); what
an execution has stored when it is about to store or report the next (`Storing`);
and what one that never met another knows of the files (`Alone`). A crash takes
an execution out of `Alive` but leaves its files, so `FilesOK` speaks about the
artifacts in the files and not about their author. An execution whose attempt was closed still
writes; it cannot commit, because that attempt is not the active one any more. From it `PoolStaysConsistent` and
`DeliveredStaysCommitted`.

**Turn coordinator** (last part of `ConversationProofs`; `CoordinatorAssumption`).
`CoordinatorIInv` adds to the properties: an object belongs to one conversation, its owner
is the turn that runs, the queue holds exactly the waiting turns, each once, and
an object that was not created has no users. Counting uses
`FiniteSetTheorems`. From it `CoordinatorTyped`, `TurnsExclude`, `RegistryExact`, together
`CoordinatorStaysConsistent`, and the refinement `CoordinatorImplementsLock`, which justifies the use of
`TurnLock` in `ConversationFacts`.

**Conversations** (`ConversationProofs`; `BookAssumption`, `BooksAssumption`).
`PinLimitKept` is not inductive: that a commit stays within the limit depends on
a count made statements ago. `IInv` says in addition what makes that count still
true: who is between the lock and the commit of `update_pinned` holds the lock of
its owner, from the count on the row as well, and found fewer pinned
conversations than the limit (`Holder`); and that a session past `resolve` acts
on a conversation of its own principal (`Target`), which holds for ever because
owners do not change and ids are not used again. Steps fall into those that leave
the tables alone (`QuietStep`), write one row without pinning (`RowStep`,
`OwnRowStep`), release locks (`ReleaseStep`) or go on reading (`ReadOnStep`).
From it `PinLimitHolds`; `OwnersActAlone` and `GivenNamesStay` follow from
`Target` by looking at who writes.

What a session reads over several statements has an invariant of its own,
`ReadsInv`. It says how far a session has come: of the conversations that nobody
changed meanwhile a list has shown exactly those before its cursor, in the order
of the list (`Listing`); a history has the messages up to its mark (`Paging`); a
context is the longest run of messages within the limits that ends with the
turn's own (`Turning`). A page is a set of lines cut off by their rank, so the
lines it leaves out all lie behind its last one. From it `ReadsStaySound`. The costs of a context are prefix sums, a recursive function of sequence
numbers; that the function exists, grows and does not depend on later messages
is proved at the least number it could fail at (`SumsExist`, `SumsAgree`).

**Dialogue** (`DialogueProofs`; `FactsAssumption`, `ChatAssumption`,
`AgentAssumption`, `DialogueAssumption`). The invariant has two halves. `Control`
says how positions, the lock, the two one-shot stores, the transaction and what
the clients were told go together, without the log; `Told` says what the log may
hold at the present positions. A step that adds a fact is then judged by
`Control` alone: who appends holds the turn, so the last facts of the
conversation are its own. The one exception is a save whose consumer left at a
heartbeat; its answer is a fact outside the lease (`UnderLease`), after a question
that the chat asked under it. From it, for any number of chats, calls and
confirmations and across restarts: `TurnsStayApart`, `ContextStaysConsistent`,
`AgentRunsOnlyAsDecided` (a run needs the entry that its confirmation took out,
and an entry is never put back once its call ran or was cancelled) and
`CallsStayConsistent`. The context of a turn is kept as positions in the log, so
that `window` is a set of numbers and not a recursively built sequence.

**Workflow** (`WorkflowRunsProofs`; `VersionAssumption`: predecessors are nodes
that come earlier, attempts are positive, ids belong to one command). A call
holds a copy that may be older than the run, and saves it whole. The invariant
says of run and copies alike that the log tells where every node is, and of each
copy that the log of the run extends its log; a command logged in between has
added nothing but starts, because of the running node. An outcome always adds an
event, so by the unique keys of the event table a copy is saved only when the log
has not grown; then it agrees with the run wherever the log speaks. From it
`RunStaysConsistent`, and the action properties `CancellationIsKept` and
`ResultStaysFinal`.

**Interaction gateway** (`InteractionGatewayProofs`; `GatewayAssumption`: the
types of the catalogue and of the inputs). A proposal that was saved is in the
store or gone for ever (`Once`, `Entries`), so whoever took it out is the only
request that acts on it; from there the request carries what was shown (`Backs`);
the number of the catalogue change a request remembers tells whether the record
its policy was checked against is still the one that is read (`Records`); what
the first SELECT of a read saw was the valid catalogue of its time, so a proposal
whose catalogue did not change has a key that is bound to its type (`Checks`). From it
`ConfirmationsRunAsShown`, `CatalogIsHonoured` and the action property
`ConsentIsHonoured`, for any number of requests, changes and restarts.

**Attachment storage** (first part of `StorageProofs`; `StorageAssumption`).
`StoresConsistent` is far from inductive, for a file is touched by its call, by
the clean-up of every instance and by no-one else, at any distance in time. The
invariant follows the ids of each call: what it has staged and not discarded
(`Kept`) carries its name and owner, is on disk and known to the store of the
call, unless it has expired or was removed by an instance that does not know it
(`Lost`); nothing else that the call staged is left (`Tracked`); what a listing
holds belongs to a published result (`ListOK`); and two calls never write the same
id (`IdsApart`). A step touches its own ids only and is `Gentle` to the rest, which
`OtherCall` turns into the invariant of every other call. From it
`StoresStayConsistent`, `AcknowledgedFilesSurvive` and `FailuresLeaveNothing`, for
any number of calls, stores, ids, clean-ups and crashes. What
`AcknowledgedFilesSurvive` says about an agent call is that its files stay on disk
until a stranger removes them, and about an upload that the API knows it too.

**Knowledge base** (`KnowledgeBaseProofs`; `EarlierAssumption`). An ingestion
reads the highest number, and later commits one above it without a lock. The
invariant says of every ingestion under way that its number is above that of the
version it revises and at most one above the highest that is stored; so the
unique key lets it commit only if it is exactly the next one (`NextNumber`), and
numbers stay without gaps and the chain descends. That one version is active is
proved of documents whose activations did not overlap; for the others it is false
(section 3). An activation or a search that
nothing raced still knows the rows as they are. An upload that was sent once has
at most one request, whose place tells where the file is (`FileOK`). From it
`VersionsStayConsistent`, `FilesStayWithRows`, `SearchStaysCoherent` and the
action property `OnlyRollbackHides`. `UniqueLabelIsNew` shows with the pigeonhole
principle that the search for a free suffix of a label ends in a new label.

**Windows of a section** (end of `KnowledgeBaseProofs`; `ChunkAssumption`, which the
constructor of `PolicyChunkingPolicy` enforces). `WindowsCover` is about
`split_section_text` for every text and every length and overlap: the windows
begin with the first character and end with the last, none is empty or too long,
each starts later than the one before, and a gap between two is shorter than the
step less half a window and lies behind a break. The gap is what the code really
leaves out; with 1200 and 120 characters these are the 479 above. The recursion is over
the place in the text: `WindowsExist` shows that the function exists, and the
theorem takes the last place it could fail at. That the windows which are blank
are then dropped is `SelectSeq`, and stays with TLC.

**Model access** (`LlmAccessProofs`; `LlmAssumption`). `LInv` adds to
`SlotsAreExact` and the budgets that an attempt under way has waited no longer
than the budget, that tokens never exceed those of a bucket filled at every tick
(`Bucket`), that an open stream belongs to a busy call and that a consumer heard
one attempt. Slots are counted with `FiniteSetTheorems`. From it `LimitsAreKept`,
for the specification of `TenderAnalysis`, where jobs, chats and questions compete.

**Tender analysis** (second half of `LlmAccessProofs`; `TenderAssumption`: documents
and answers are what their types say). `AInv` is `LInv`, the bucket's upper bound
and `JobOK` of every job: its fields at each step (`Basic`), which results it has
staged (`Staged`), disjoint files while the document is small, and no gaps in a
merged analysis that is completed. `VolumesApart` is the algorithm behind
`VolumesDisjoint`: the answer's ranges do not overlap when each ends before its
successor in the order of the first blocks begins, positions in a document count
its blocks (`PositionsCount`), and a file spans one range from its first block to
its last (`FileOfVolume`). The overlap test compares neighbours after a sort; the
module states it as "the next range in the order", which needs no sequence, and
`FollowerExists` finds the neighbour. From it `AnalysisStaysSound`, which says
nothing about the volumes of a chunked document: the code does not check them.

**Only model-checked:**

* liveness (`Terminates`, `NobodyStarves`, `EveryTurnEnds`, `CallsAndJobsEnd`,
  `RequestsEnd`), which is out of the prover's reach;
* `TextSound` (assembly, cleaning, sections and paths of a text), `HitsSound`
  (terms and scores of a question) and `PlanCovers` (what the chunks of a document
  contain): they speak about folds, `SelectSeq` and `FlattenSeq` over sequences of
  any length, whose definitions recurse inside the community modules and whose
  induction theorems take an operator that no prover here can instantiate.

Where the recursion is over numbers and the function is the model's own, the
least number at which a statement fails does the work of induction (`LeastNumber`,
from the well-foundedness of `<` on the naturals). That is how prefix sums, ranks
and windows are proved.

## 5. Not modelled, and plan

Left out of the modelled parts:

* read-only queries and listings without a property of their own, message texts,
  projection of payloads, logging. A denied request is one of the failures.
* `recovery.run_once` as one database session with its row locks is abstracted to
  "candidates may be stale"; what it does with the transaction of a candidate
  that raised is not modelled.
* attachments: `consume()` (it has no caller), failures of `rmtree`.
* ingestion: the route that ingests a path on the server, the scan for
  candidates; years in questions.
* tender: `verify_extraction_boundary` (it changes nothing), `_execute_legacy`
  (never called), titles of added sections, collapsing file names; a second
  cancellation while a stream closes.
* conversations: `ConversationBook` appends messages of users only; the log with
  all kinds of facts is in `ConversationFacts`.

Not modelled at all: synchronous chat (`BasicDialogueRuntime` is not wired), the
online policy agent (a fixed sequence of a search and a model call, both
modelled), security (stateless checks of tokens), configuration and logging, the
frontend, OCR transport and document formats, tools, scripts and SQL beyond the
constraints the models use. They keep no state over time or only pass calls on.

What is next, in this order:

1. An abstract workflow run that `WorkflowRuns` refines: "a copy that fits is
   the run itself" is proved, so the second commit of `execute_node` maps to one
   step of the run.
2. The scheduler batch as one session with the row locks of its scan.
3. `PlanCovers` and the sections of `TextSound`, with the splitting written as a
   function of places like `WindowsFrom`.
