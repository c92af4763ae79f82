# A TLA+ model of the finance assistant

This directory specifies and checks the server under `internal/`: the queue in
front of the agent graph, the gate in front of the language model and the
streams behind it, the agent loop and its tools, the stores of conversations,
memories, documents, prices and approvals, and the services around them.  Every
definition follows the source code; `PROJECT.json` maps each to the lines it
stands for.  Paths below are relative to `internal/` unless they begin with
`web/`, `cmd/`, `configs/` or `docs/`.

- [1. The system](#1-the-system)
- [2. Modules](#2-modules)
- [3. Runs and what they show](#3-runs-and-what-they-show)
- [4. Bounds](#4-bounds)
- [5. Fairness](#5-fairness)
- [6. Proofs](#6-proofs)
- [7. Disagreements between code and documentation](#7-disagreements-between-code-and-documentation)
- [8. What is not modelled](#8-what-is-not-modelled)
- [9. Plan](#9-plan)

To repeat the work: `tlc -config X.cfg M.tla` for a run of the table in
section 3, `tlapm XProofs.tla` for the proofs.

## 1. The system

A Gin server answers questions about stocks.  A question takes one of two ways.

*Plain chat* (`handler/chat.go` handleInvoke, handleStream; `service/chat.go`
Chat, ChatStream): save the question, look into the semantic cache, otherwise
run the retrieval chain, which calls the model; save the answer.

*Agent* (handleAgent): save the question, trim the history to the model's
budget, submit a request to the **request queue**, and wait as an SSE handler on
the request's channel.  One dispatcher serves the queue.  It starts the **agent
graph**, a loop of model, tools and **retry gate**, and hands the stream of its
answer to the handler.  Each model call passes the **LLM gate** (limiter,
semaphore, circuit breaker), and its tokens come back through a chain of
goroutines, the **model stream**.  Each tool call passes the **tool wrapper**
(time-out, recover, breaker), and a callback notes it in the **tool results
bag**, from which the handler takes the sources it shows.  After the answer a
goroutine extracts **long-term memories** from it, which later prompts show.
Non-streaming agent requests, cron jobs and batch tasks invoke the same graph
next to the queue.  Cron jobs turn findings into **approvals**, which people decide.

| Component | State | Operations | Hard behaviours | What makes it correct |
|---|---|---|---|---|
| Request queue, agent handler (`service/request_queue.go`, `handler/chat.go`) | pending slice, dedup map, one-slot wake-up channel, per request two channels and two contexts | Submit, DrainAndDispatch, processNext, the handler's loop, ExecDoneSignal | lost wake-ups, coalescing against dispatch, close and send on one channel, a blocked dispatcher | one at a time by priority and age, nobody waits on a channel nobody closes, one reader per stream |
| LLM gate (`component/modelmanager/highconcurrency.go`) | semaphore, two counters, breaker | admit, Generate, Stream with a pump, release | slots over many exits, panics, half-open probes | each slot belongs to one call and comes back |
| Model stream (`component/openaimodel`, pump, `graph/agent.go`) | three bounded pipes | scan, pump, parse, read, close from either end | back-pressure, early close, errors in mid-stream | nothing lost or reordered; tool calls once and last; no goroutine is left |
| Agent graph, retry gate (`graph/`) | node and step count of each run; one counter for all | nodes, Intercept | concurrent runs, a model that never stops | only a run's own errors stop it; every run ends |
| Tool wrapper (`component/tool/wrapper.go`) | a breaker per tool, a channel per call | InvokableRun, invokeWithTimeout | late answers, panics, hung probes | callers return, goroutines do not pile up |
| Tool results bag (`callback/tool_collector.go`) | Records, Results | OnStart, OnEnd | results without id, two critical sections | one record a call, no result lost |
| Local tools (`component/tool/fs.go`, `bash.go`, `workspace.go`) | files, the workspace root | read, write, edit, delete, execute | abandoned goroutines go on, the workspace changes, a write truncates first | a file is what the answered calls made of it |
| Semantic cache, plain chat (`service/semantic_cache.go`, `service/chat.go`) | map and LRU list, conversation | Get, Put, Chat | the embedding is outside the lock; expiry; eviction | hits are fresh and similar; the history is complete |
| Conversations (`store/*conv*.go`, `service/conversation.go`) | messages, metadata with a count | Ensure, Create, Save, Load, Delete | calls of Elasticsearch interleave, check-then-create | the count follows the messages |
| History trimming (`service/chat.go`) | summary cache | TrimHistory, summarizeSync | stale summaries | a summary stands for what was dropped |
| Long-term memory (`service/memory.go`, `store/*memory.go`) | memories with status and replacement | ExtractAndStore, Supersede, InjectIntoPrompt | concurrent extractions, two-step replace, expiry | nothing leaves the prompt but for its replacement; the best fit is shown |
| Document ingestion (`service/document.go`, `pipeline/document.go`, indexers) | chunks, metadata | Ingest, Delete | two stores, refresh of Elasticsearch | what is listed can be found, what is not is gone |
| Retrieval chain (`pipeline/rag.go`, retrievers, reranker) | candidates, scores | Retrieve, Rerank | goroutines over a semaphore, retries, cancellation | the best candidates reach the prompt |
| Stock prices (`stock/collector.go`, `cache`, `storage`, `api`) | quote and bar cache, files | FetchRealtime, FetchKLine, merge, rename | stale levels, crash between write and rename | no bar is lost; quotes are fresh |
| Stock list (`stock/db`) | SQLite table, its count | fetchAllStocks, Refresh, start-up retries | paging a moving ranking, failing pages | the table is the whole market or empty |
| Approvals, cron (`service/approval.go`, `scheduler/cron.go`) | list, one JSON file | Add, Decide, purge, load | crashes within a write, two deciders, a full store | one decision wins and is kept; nothing pending disappears |
| Start-up (`server/fx.go`) | back ends, registry of tools, graphs | providers, invokes | back ends that do not answer, implicit order | reads and writes meet; graphs have their tools |
| Settings (`modelmanager/manager.go`, `service/modelstore.go`, `skillstore.go`, `mcp_store.go`) | current model and name; three lists with files | Switch; add, edit, remove | two-step switch, truncate-then-write | models have tools; what was saved is found again |
| MCP servers (`handler/mcp_handler.go`, `component/mcp/connector.go`) | server list, directories, clients | import, edit, remove, connect | overlapping imports of one name | an entry runs what its archive held |
| Batch (`pipeline/batch.go`) | channel of events | Execute, trySend | cancellation, a reader that leaves | the report is true of the tasks that ran |
| Rate limiter (`server/middleware/ratelimit.go`) | a bucket per address | allow, clean-up | refill rounding, dropped buckets | no stretch of time is too busy |
| Backtest (`backtest/`, `component/tool/backtest.go`) | cash, position, trades | RunBacktest, Evaluate | belief and ledger differ | the books balance |
| Checkpoints, confidence and sources, HTTP surface, web client, observability | | | | not modelled, section 8 |

`PROJECT.json` lists every component with what is modelled of it, and under
`hazards` the places where this code can go wrong in a way a test would hardly
reach, with the property that would notice.

## 2. Modules

```
ServeOnce    <=implements=  RequestQueue  <- RequestQueueProofs, MCRequestQueue
DecideOnce   <=implements=  ApprovalStore
ClosablePipe <=implements=  ModelStream  --+
CircuitBreaker <- HighConcurrencyManager --+- MCLlm, LlmProofs
CircuitBreaker <- ToolWrapper  --+
AgentLoop, ToolResultsBag  ------+- MCTools
SemanticCache  <- MCSemanticCache
Conversations, Memory, Prompts, Documents, Retrieval,
  StockPrices, StockList, ApprovalStore  <- MCStores
Startup, Settings, McpServers, FileTools, BatchPipeline,
  RateLimiter, Backtest  <- MCServices;  FileTools <- MCFileTools
Loops  <- ModelStream, ApprovalStore, SemanticCache, Prompts, Backtest

ToolsProofs     -> MCTools: ToolResultsBag, AgentLoop, ToolWrapper
LlmProofs       -> MCLlm: HighConcurrencyManager, ModelStream
MemoryProofs    -> Memory, SemanticCache, Retrieval, Prompts
StockProofs     -> StockPrices, StockList
StoresProofs    -> MCStores: Documents, ApprovalStore, Conversations,
                   and the theorems of MemoryProofs and StockProofs
ServicesProofs  -> MCServices: all of its parts
SequenceLemmas  <- all of them but RequestQueueProofs and StockProofs
```

An operator named `F_X` is a plausible faulty version of the definition `X`
that follows it; `PROJECT.json` (`mutants`) says which property refutes it.

MCLlm, MCTools, MCStores and MCServices check several components that share no
state in one run: a variable `part`, chosen at the start, names the one that
moves, and the others rest in an initial state.  The state space is the sum of
theirs, not the product, and each specification (`Spec`, `ConvSpec`, ...)
remains one of its own.

**RequestQueue** has two kinds of actors.  The dispatcher (`dpc`) follows
DrainAndDispatch and processNext: `TakeToken`, `Claim` (sort by priority and
age, take, forget the key, announce positions; one step, as it is one critical
section), `GraphStreams/GraphFails/GraphPanics`, the blocking sends
`OfferError/OfferStream`, the closes, `AwaitExecDone`.  A handler (`hpc`)
submits (`Coalesce` or `Enqueue`), ranges over its channel
(`ReceivePosition/ReceiveError/ReceiveStream`, `StreamEnds`), and leaves with
ExecDoneSignal (`LeaveLoop`); it may unwind while it reads (`Abort`).  `ctx` is
the execution context: cut by the client or the time limit (`CutShort`),
released by the dispatcher's cancel().  `resultCh[h]` is the channel a handler
ranges over, which for a coalesced one is another request's.
**ServeOnce** is the queue without mechanism: a request is new, joined, queued,
running or served; one runs at a time, the most urgent first.

**CircuitBreaker** is gobreaker (external) as the program uses it.
**HighConcurrencyManager** follows a call through admit (`PassLimiter`,
`TakeSlot`, `Queue`, `TimeOut`, `Cancelled`, `CountIn`), `Execute`
(`BreakerRefuses`, `CallModel`, `GenerateReturns`, `StreamOpens`, `CallFails`,
`CallPanics`), the pump (`PumpStops`, and `PipeIsFull` and `PumpSendsOn` around a
Send that waits), its reader (`ReaderCloses`, `ReaderUnwinds`) and release
(`ReturnSlot`, `CountOut`).
**ToolWrapper** has, per call, its caller and the goroutine that runs the tool,
and one shared breaker.  **ModelStream** is one answer on its way through three
goroutines and three pipes; `ReaderCloses` is a reader that goes away early.
**ClosablePipe** is what the chain promises.

**AgentLoop** is the graph: a run executes nodes and counts steps against the
graph's limit; `Intercept` folds the retry gate over the results of a turn.
`own` and `streak` are history, what the gate would count were it not shared.
**ToolResultsBag** splits the end of a call as the code does: `OnEnd` appends to
Results, `FillResult` later fills a record.

**SemanticCache** splits Get and Put where the lock is not held: `GetEmbeds`,
then `Hit` or `NoHit`; `PutEmbeds`, then `Store`; around them `Ask`,
`ChainAnswers/ChainFails`, `SaveAnswer`.

**Conversations** follows a chat request from its Ensure or Create over the load
and the trimming to the two saves.  MySQL and memory do an operation at once;
Elasticsearch is split between its calls (`BulkIndex`, `CountMessages`,
`WriteCount`, `DeleteMessages`), each of which may fail.  `lone` and `steady` are
history: saves and conversations that nothing overlapped.
**Memory** has the goroutines of several turns (`Extract`, `FindConflict`, then
`IndexMemory` or `Supersede`, in Elasticsearch `WriteNew` and `MarkOld`), failing
calls and `ProcessStops`.  **Prompts** has what one turn stores (its layer,
confidence and life, `ValidMemory`) and what a prompt shows of it (`Orders`,
`Kept`), in units of 90 days, the first window of expiry.
**Documents** has an upload (`Ingest`, `StoreChunks`, `SaveMeta`), a delete
(`DeleteChunks`, `DeleteMeta`) and the `Refresh` that makes chunks visible.
**Retrieval** has the caller and one goroutine per candidate.
**StockPrices** has readers that go through cache, sources and files; quotes and
bars have their own caches, and the lock of a bar file is held from the read to
the rename.  **StockList** reads pages of a ranking that may move and replaces
the table in one transaction.  **ApprovalStore** splits a save into `Truncate`,
`Write` and `Return`, each of which a `Crash` may precede.
**DecideOnce** is the store without lock, file and process: an item is new, coming,
pending, decided or gone, and goes one way; a request asks, is refused or settles its
item in one step, and is told afterwards.  The mapping takes its list from the file
(`Book`), or from what is about to be written when the old file has been cut: cutting
it is the step that decides, since a death before it undoes the decision (the request
is then never told) and nothing but a torn file undoes it afterwards.  `intact` ends
the promise with the first write that fails or is torn.

**Startup** has every setting and every set of services that answer: the
providers without effects are functions of those, the others (`Build`) and the
invokes are steps in any order that fx may choose.  **Settings** has the switch
of a model in its steps and three lists with their files.  **McpServers** has
overlapping requests about one project: `BeginImport` to `RegisterTools`, edits,
removals, reconnects.  **FileTools** has the calls of the tools, split between
their system calls, and goes on with those whose caller has left; `should` is
what the answers promised.  **BatchPipeline** has the goroutine of a batch, its
channel and a reader.  **RateLimiter** counts tokens in the units that a tick
refills.  **Backtest** runs the tool's strategy over prices in exact arithmetic
with a unit of money and a commission that make both sides visible.

## 3. Runs and what they show

| Run | Instance | Distinct states | Shows |
|---|---|---|---|
| `rq_safety` | 4 requests, 3 of them one question, one urgent; channels of 1; handlers may unwind; symmetric | 544 k | in every interleaving slice, map, channels, contexts and shown positions agree and a handler that waits has a producer (`QueueInv`, the invariant of the proofs, with `WaiterHasProducer` in it) |
| `rq_live` | 3 requests, two of one question with different priority; fair | 69 k | the owner's context is not released while it reads (`OwnerReadsToTheEnd`); priority and age order the claims, and the number that a client was shown is enough for those of its own priority ahead of it, and only falls (`TurnsAreKept`: `ClaimOrder`, `ShownIsEnough`, `ShownNeverGrows`); the dispatcher returns to its loop and whoever shares a claimed request finishes (`ServiceGoesOn`); the queue implements ServeOnce |
| `llm` | gate: 2 streams and a call of Generate over 2 slots, a breaker of 1 failure and 2 probes, readers that read on, close or unwind; stream: up to 5 pieces through pipes of 2, 1, 1, cut or closed anywhere; fair | 73 k | slots and counters add up over all exits and no more calls than slots are under way (`SlotsAreKept`); a half-open breaker waits only for calls under way (`ProbesAreUnderWay`); queued calls leave the queue, and slots come back unless Stream panics or the reader leaves without closing while the pipe is full (`SlotsGoRound`); nothing of a stream is lost, reordered or repeated (`StreamIsSound`, `RefinesPipe`); its goroutines end (`StreamFinishes`) |
| `tools` | loop: 2 runs, 2 calls a turn, gate limit 1, 16 steps; bag: 3 calls and then 2, empty results; wrapper: 3 calls of a tool that may hang, 2 probes; fair | 138 k | the gate stops a run after exactly its own errors until another run begins (`GateIsExact`); one record a call, results stay in their round until one is empty (`RecordsAreRight`); runs end; no probe of a half-open breaker is lost and a goroutine always finds room for its outcome (`NothingIsHeld`); callers return, finished goroutines end, probing is decided (`NothingHangs`) |
| `sc` | 3 requests, 4 questions (two alike, one about live prices); cache of 2; 2 ticks; symmetric | 3.1 M | a hit is fresh, similar, not about live prices and never a degraded notice (`HitsAreSound`); the conversation has what was answered, map and LRU list agree (`ChatIsSound`) |
| `stores` | see section 4; symmetric | 0.86 M | below |
| `services` | see section 4; symmetric | 1.1 M | below |
| `rq_lost_wakeup`, `ms_truncation`, `al_leak`, `ft_workdir`, `st_subagents` | | | violations, section 7 |

What `stores` shows, wherever a call fails or the process stops:

- `CountsAreRight`: MySQL and memory keep the count of a conversation equal to
  its messages; in Elasticsearch a save that nothing overlaps and that does not
  fail leaves the count right, whatever went wrong before.
- `SummariesFit`: a summary stands for exactly the messages that were dropped,
  as long as the conversation was not deleted or used twice at once.
- `NothingForgotten`: a memory leaves the prompt only for one that replaces it
  and whose keywords find it, as the store matches them (MySQL inside words,
  Elasticsearch by tokens); in MySQL the two are never active together.
- `PromptIsRight`: the memories shown are the best that fit, and only what the
  user said of himself is shown as his portrait.
- `ChunksFollowTheList`: a document at rest is listed with all of its chunks or
  has none, except after a failed write that no transaction covers.
- `RerankKeepsTheBest`: a scored candidate is left out only for a better one.
- `HistoryGrows`, `QuotesAreFresh`: no bar of a file is lost by readers that save
  at one time, a failed write or a crash; a quote is at most an hour old unless
  every source failed within the last hour.
- `ListIsWhole`: the table of stocks is empty or lacks only what the exchange
  withheld: stocks at or behind a page that came empty, or that moved past the
  reader.  None is missing for a failure, of whichever page, host or statement.
- `ApprovalsHold`, `PendingStays`: one decision wins and is kept over restarts;
  nothing pending disappears but the oldest of a full store.
- `RefinesDecideOnce`: over deaths and restarts the items and the requests go through
  the steps of DecideOnce and no others, until a write fails or is torn.

What `services` shows:

- `StartIsConsistent`: whatever is configured and whatever is down, a server that
  runs searches documents where it writes them and its agent has every local
  tool, though only an unused parameter makes the registry come before the graph.
- `CurrentHasTools`: also between two switches a request meets a model with tools.
- `SettingsAreSaved`: while nothing is being written, file and memory agree but
  for lists of which a write failed or was torn.
- `EntriesRunTheirUpload`: requests one after the other, in any order, leave
  nothing of an earlier archive behind.
- `FilesAreTrue`: a file is what the answered calls made of it, in whatever
  workspace the user is by then, and a script that runs is the one written.
- `BatchReportIsTrue`: events are in order, and the summary and the report of a
  cancelled batch are true of the tasks that ran, wherever it is cancelled.
- `NoStretchIsTooBusy`: in no stretch of time does an address pass more often
  than burst and rate allow, also when its bucket was dropped in it.
- `LedgerIsSound`: every position is closed in full before the next, and the final
  equity is explained by the trades and the commission that the report shows, for
  every series of prices up to the bound.

`TypesHold` is the type invariant of each of these two runs; RequestQueue's and the
gate's are parts of `IInv`.

Where a property is guarded, the guard is what the code's promise rests on.
`GateIsExact` says "until another run begins" because the gate is shared
(`al_leak`).  The approvals, but for `PendingStays`, and `SettingsAreSaved` hold
only while writes succeed and no death falls into one, as the code truncates a
file before it writes.  `RecordsAreRight` stops at the first empty result,
because FillResult cannot tell it from a missing one.  `StreamFinishes` promises
the goroutines' return only when the reader reads on; `SlotsGoRound` has the two
exceptions that the code has.  `ListIsWhole` allows for what `withheld` names, which the
reader cannot notice.  `CountsAreRight` and
`SummariesFit` exempt overlaps, which the code does not exclude (`lone`,
`steady`); `EntriesRunTheirUpload` and `FilesAreTrue` exempt the projects and
files that two requests changed at once (`muddled`, `tangled`), as nothing
locks them; `ChunksFollowTheList` exempts documents hurt by a half-done write
(`hurt`); `HistoryGrows` a file that could not be read (`misread`).  Every guard
is history or state of the model, and the steps that set it are in the runs.

Deadlock is not checked, as every instance ends: once all requests are served or
the bound of the time is reached nothing is left to do.  Where stopping early would
be a fault a liveness property says so.  Symmetry is used only in runs without
liveness properties.

## 4. Bounds

Counters that grow without bound in the code are bounded by the number of calls,
turns or requests, or by a constant named `Max...` or `Last...` in its module.

*Queue*: three requests are the least for the races of one being served, one
queued and one joining or lost; the fourth adds a second copy in the queue.
Channels of 1 instead of 16 make every blocking send and every dropped position
happen.  *Gate*: a third call is the least that queues behind two slots; one
failure opens the breaker, so that outcomes of an earlier generation meet the two
probes of a half-open one (failures that add up are left to the proof).
*Stream*: five pieces fill pipes of total capacity four and leave one in a
goroutine's hand.  *Loop*: 16 steps are three turns of five nodes, enough to pass
the limit of errors within a turn and over turns.  *Cache*: two entries and three
requests are the least for an eviction between another's embedding and its lock.

*Conversations*: two requests of one fixed conversation or of new ones, messages
that were there before (in MySQL; the other stores begin empty), one delete of any set of conversations; a budget of one message makes every history
be trimmed.  *Memory*: two turns of up to two memories over three keywords, `go`, `go-zero` and
`news`: two goroutines find the same conflict, a memory can be in conflict through
either of its words, and a word finds one that it is only a part of.  *Prompts*: two memories, of a doubtful and a good
confidence (one that the model leaves out is left to the proof), in every order and a room of 3 for lines that take 2
or 4, so that the first fills it or does not fit while a shorter one behind it does; four
windows let a memory expire, which it does after three; time counts from the first one.  *Documents*: two uploads, two
deletes, two chunks.  *Retrieval*: four candidates of relevance
0, 3, 3 and 5, two slots, two places.  *Prices*: two readers, two days and three hours
for a lifetime of one.  *List*: three stocks in pages of two, three pages at most, any
page of which may come empty, one change of their order, two hosts and two attempts.  *Approvals*: three items, one of them old and decided, over a
store of two, two ticks of a lifetime of one, one crash.

*Start*: all 1152 settings and all sets of services that answer.  *Settings*: two
switches among two listed models and a custom one, three changes or restarts.
*MCP*: two requests about one project, archives with every set of manifests.
*Files*: two calls over a drive and a folder below it, two texts of which one begins with the
other, one change of the workspace.  *Batch*: up to three tasks and a channel
with room for their eight events, as that of the code has room for the 22 of ten tasks.  *Limiter*: a burst of 2, a token in 2
ticks, buckets dropped after 4, seven ticks.  *Backtest*: all series of up to 8
prices from 1 to 3, averages over 1 and 2 bars, a capital that affords a share
and one that does not.

## 5. Fairness

Weak fairness of an actor that can go on: a goroutine of the Go scheduler that
is not blocked runs.  In particular

- `WF(Dispatcher)`: the graph's call returns since its context has a deadline
  (120 s, set by processNext).  `WF(HandlerStep(h))`: the handler reads its
  channel, and the stream ends with the same context.  No fairness for
  Submit, CutShort or Abort: no user has to do anything, and `rq_live` assumes that
  handlers do not unwind, since one that does blocks the dispatcher (section 7).
- `WF(Admission(c))`: the 30 s timer of admit fires.  `WF(Execution(c))`,
  `WF(UpstreamEnds(c))`: calls of the model and its streams end with their
  context.  A pump that waits in Send goes on when its reader, still there, reads;
  no reader is assumed to stay.  Passing the limiter is not assumed.
- `WF(ContextEnds)`, `WF(Scanner)`, `WF(Pump)`, `WF(Parser)`, `WF(Reader)`:
  same; a reader is not assumed to close.
- `WF(Run(r))`: a run goes on, but nothing says that the model ever stops
  calling tools.
- `WF(Caller(c))`: the wrapper's timer fires.  `WF(WorkerSends(c))`: a goroutine
  whose tool has returned runs on.  No tool is assumed to return.

Strong fairness is not used.  With it a stranded request would look served.  The
stores and services are checked for safety only: what they promise is about the
state they leave when something fails, and nothing in them waits for another actor.

## 6. Proofs

Every invariant, every action property and every refinement that a run checks is a
theorem, for all values of the constants their assumptions allow.  Every module with
proofs EXTENDS the modules it is about; `SequenceLemmas` has what they share.

The theorems are about each component's own specification.  `EachStore`,
`EachService` and `EachPart` carry them over to what TLC runs: a behaviour of a
composed module is one of every component in it, since a step of one is a stutter of
the others.  So `StoresTyped` and `ServicesTyped` are the `TypesHold` of the two runs,
and `StoresSafe`, `ServicesSafe`, `ToolsSafe` and `LlmSafe` say that the safety a run
checks on its instance holds for any constants.

The argument is nearly always of one form: an invariant `XInv` holds in the initial
states, every action keeps it (one lemma or step per action), and it implies the
property.  `XInv` says what the code relies on between two steps.  What follows is
that content, and why it is needed.

*Sequences.*  The models write the loops of the code as recursive functions
(`Loops`: one that keeps elements of a slice, one that adds up).  `SequenceLemmas`
proves what they compute from `AllNumbers`, induction over a set of numbers: the
function exists (`KeptIs`, `SofarIs`), what it has after n elements depends on those
alone, `Filter` has exactly the elements asked for, in their order, none twice that
was not (`FilterTyped`, `FilterRange`), sums are monotone and grow with each
element.

**RequestQueueProofs**, for every set of requests, keys, priorities and channel
capacity, with handlers that unwind or not.

- `IInv` is TypeOK, DedupMatchesPending, WaiterHasProducer, NoSendOnClosed and
  StreamHasOneReader with two more conjuncts.  `Ownership` (a queued or claimed
  request has been submitted and owns its channel) is needed because a close or a
  send is justified through the owner of a channel; `DeliveredStreams` (a stream is
  out only on a channel that is closed or about to be) because otherwise a second
  delivery could not be excluded.  Theorems `Inductive`, `TypeCorrect`,
  `DedupCorrect`, `NoOrphanedWaiter`, `ChannelSafety`, `SingleReader`;
  `NoEmptyClaim`: a token comes with a request.
- `OwnerKeepsItsContext` (`OwnerReadsToTheEnd`) needs `ContextInv`: a context is
  released after its owner left the loop, or on a channel that has no stream and
  will get none (`Dry`), because the graph failed.
- `TurnsKept` (`TurnsAreKept`) is about three places: the queue, the
  channel and what a client saw.  `PositionInv`: the positions in a channel descend
  to the place its request has now, and nobody was shown less.  A claim takes an
  element out of the slice and renumbers those behind it, so all of them descend or
  stay (`ShownOnlyFalls`).  The others of its priority that are served before a request
  came earlier, so they are no more than that place (`ShownCounts`).  Nothing is said of
  the more urgent ones, which may overtake a client that was shown 0 (section 7).
  `FullyInductive` is `QueueInv`, which `rq_safety` checks.
- `ServedInOrder` (`ClaimOrder`) needs no invariant but the types: only a claim
  removes from the slice, and takes the first of the sorted one.
- `Refinement`: `Spec => RefinesServeOnce`, one lemma per abstract step and
  `RefinesStutter` for the others.

**LlmProofs**.  *Gate*, for every finite set of calls, slots and setting of the
breaker: TypeOK, SlotsMatchCalls and ProbesAreUnderWay are inductive as they stand.
`CountMoves` says what moving one call does to the number of calls in a set of
places; `SlotsStep` and `ProbeBegins`/`ProbeEnds` apply it.  Theorems `TypeCorrect`,
`SlotsCorrect`, `ProbesCorrect`.  *Stream*, for answers of any length and pipes of
any capacity:

- `Stages` ties each goroutine's place to what it holds, to the end of its pipe and
  to that of the one it reads.  What is under way is the concatenation of three
  pipes and three hands; each step leaves it, adds the next piece behind, gives the
  first to the reader, or drops from it once the reader has closed (`TextStep`).
  Hence `InOrder`: until then received and under way are the pieces 1 to n.
- `CallsKnown`, `CallsLast`, `CallsThere` follow the one message with the tool
  calls: not passed on unless scanned, last in whatever it is in, there when
  parse_tool_calls has ended.  `StreamSound` is `StreamIsSound`.
- `StreamRefines`: the same four kinds of steps are the steps of ClosablePipe, or
  stutter; `Ends` says which step may end a side.

**ToolsProofs**.  *Collector*, for any calls and rounds: `OneRecordEach`,
`OneResultEach` and `RoundsInTurn` (a round begins when those before it are done).
That a result goes to its own round is a count: as many records as calls of the
round have started, fewer filled ones than calls that returned, so a slot is free
and the last free one belongs to the round (`SlotFree`, `SlotOfTheRound`).
`RecordsComplete` is `RecordsAreRight`.  *Gate of retries*, for any runs and limit:
while a run is alone the shared count is its own (`GateCounts`), and by induction
over the results of a turn every judgement is what its own count asks for
(`JudgedUpTo`). `GateExact` is `GateIsExact`.  *Wrapper*, for any finite set of calls:
`ProbesAreCounted` is about a set, the calls the breaker still waits for (`Awaited`).
A call enters it with its start (`InvokeCounts`) and leaves it when it is counted
(`OutcomeCounts`), and a breaker that changes its state empties it
(`GenerationIsNew`), which is why the late answer of an earlier generation must not
count.  `SendsOnce`: a channel is empty until its goroutine has sent, so the one slot
is room enough.  `NothingHeld` is `NothingIsHeld`; with the timer of every caller it
is why `NothingHangs` holds on the instance.

**StoresProofs**.  *Documents*: `Unwritten` and `ChunksComplete` say for each stage
of an upload and a delete which chunks there are.  Theorems `DocumentsWhole`,
`DocumentsTyped`.  *Approvals*, for any store limit, lifetime and number of crashes:
`InSave` and `Asking` tie the list and each user's request to the one save that can
be under way, `OnDisk` says what the file has while no write failed and no death
tore it, `Parses` what may be loaded.  The one assumption beyond types is that a
file found at the start is one of a store of the same limit. `DecisionsHold` is
`ApprovalsHold`; `PendingNeverLeaves` (`PendingStays`) needs of the list that it
names nothing twice.  `PromiseIsKept` is `RefinesDecideOnce`.  It needs what
`ApprovalInv` does not say: between two saves file and memory have the
same items (`SameAsFile`), and a save that is about to cut the file differs from it in
the one item added (`SaveOfNew`) or the one decided (`SaveOfDecision`).  `Underway`
has these, and then there is a lemma for each step (`AddSubmits`, `TakenAsks`,
`RefusedRefuses`, `CutEnters`, `CutSettles`, `ReturnTells`, `CrashDies`) and one for
those that stutter (`OthersStutter`).  *Conversations*: `Stamped` (no two messages share a time) is
what makes "the oldest n" a function of the set; `Counted` for the stores that do an
operation at once; `Alone` for the split ones: between the count and its write
nobody else saved.  For the summaries a conversation that one request uses has
messages that only grow behind (`Steady`, `Undisturbed`), so what the cache holds
under a number of messages is still the beginning of the conversation (`Cached`,
`First`).  Theorems `CountsRight`, `SummariesAreRight`, `ConversationsTyped`.

**MemoryProofs**.  *Memories*: that a mark on an old one is right depends on what
the goroutine found steps before.  `ConflictFound`: the keywords in hand find the
memory that is about to be replaced, and when only the mark is missing the
replacement is already written. The order of the two writes is what the proof needs:
with the mark first `MarkKeeps` does not apply.  Theorems `MemoryTyped`,
`MemoryKept`.  *Prompt*, for any lengths and room and every order that the sort may
produce: the room used after each line is the sum of the lines kept so far
(`UsedIsKept`), so what a line that was left out found taken is taken by lines
before it, which have no lower rank; `PromptsInv` carries the origin of a portrait
from the extraction to the store.  Theorems `PromptRight`, `PromptsTypeCorrect`.
*Semantic cache*: `Listing` (list and map name the same queries, each once),
`Genuine` (an entry was put by a run of the chain for its own question, and expires
a lifetime later), `Holding` and `Telling` (what a request has in hand, and what its
conversation has of it).  Theorems `ChatSound`, `HitsSound`. *Retrieval*: `Scored`
(a slot of the scores belongs to its goroutine), `Best` (the cut of a sorted list).
Theorems `BestKept`, `RetrievalTypeCorrect`.

**StockProofs**.  *Prices*: a reader between the read of a bar file and its rename
holds the lock, and the file still has only what it read (`FileGuarded`); what holds
of a quote given to a reader holds of the cached one until its expiry
(`QuotesYoung`). *List*: what a host has yet to give stands in the order from the
next page on, but for what is `withheld` (`PagesFollow`); a page takes its stocks from that
part, and one that comes empty, or a stock that moves to a page read before, is
what `withheld` has.  The transaction shows all or nothing.  Theorems `HistoryKept`, `QuotesFresh`,
`ListWhole` and two of types.

**ServicesProofs**.  *Start*: what fx has built has all its parameters, so the graph
comes after the provider that fills the registry (`BuiltInOrder`).  *Settings*: a
request about to store a model has found one; a truncated file is read as no list.
*MCP*: an import that met no other has its directory for itself (`ImportSound`), and
the entry stays true until the next one begins (`EntrySound`).  *Batch*: what was
read and what is in the channel are one sequence, of which event 2k is the k-th
outcome and the one before the start of its task (`Paired`); a summary stands behind
them all (`Summed`), and the report of a cancelled batch is the last event (`Cut`).  *File tools*: one call at a time changes a file that is not
`tangled` (`Single`), such a file is as it should be unless a call is in the middle of
it (`Settled`), and a script that is about to run is on the path it was written to
(`OnItsPath`, `Ready`).  A step either leaves the disk or changes the one file of its
call (`Inside`, `Outside`).  *Limiter*: the potential argument.  Since any request that
passed, the cost of the requests and the tokens left are no more than a full bucket
and the time that went by (`Fair`); a bucket may be dropped since it is full again
by then, which the assumption Stale >= Burst * PerToken says: ten minutes against
the two seconds in which a bucket of `rps*2` fills (`server/fx.go:809`). *Backtest*:
the cash is the capital and what the trades gained less the fees (`CashExplained`),
purchases and sales alternate with equal quantities (`InPairs`); the sums are those
of `Loops`.  Theorems `ConsistentStart`, `SettingsSaved`, `ModelsHaveTools`,
`EntriesSound`, `BatchToldTrue`, `FilesTrue`, `StretchesAreFair`, `LedgerSound`, and
one of types for each.

All proofs use SMT, Zenon and PTL and rest only on the constants' named assumptions,
which TLC evaluates on its instances.  Only model-checked:

- the liveness properties `ServiceGoesOn`, `SlotsGoRound`, `StreamFinishes`,
  `RunsEnd` and `NothingHangs`: fairness and ENABLED are beyond the prover.  The safety
  each rests on is proved: a waiter has a producer, slots and probes belong to calls
  under way, a goroutine finds room;
- the five statements of section 7 that the code does not keep.

The guards of section 3 are in the theorems as they are in the properties: a theorem
says nothing more of a conversation used by two requests at once, or of a file torn
by a crash, than the run does.

## 7. Disagreements between code and documentation

Five have a run that exhibits them (`findings` in `PROJECT.json`):

1. **Lost wake-up** (`rq_lost_wakeup`, `service/request_queue.go:89`).  Submit
   drops its token when the slot is full and the dispatcher serves one request per
   token.  Two requests submitted while it is busy leave one token; the second waits
   until somebody else submits, although line 71 says that the caller reads its result.
2. **Silent truncation** (`ms_truncation`, `component/modelmanager/highconcurrency.go:119`).
   Each stage turns an error into the end of the stream, so a cut answer ends with
   EOF; `handler/chat.go:303` says an interrupted stream is no longer silent.
3. **Leaking retry count** (`al_leak`, `graph/retry_gate.go:64`).  Nothing calls
   Reset, which "every new conversation" is said to call, and all runs share the gate.
4. **Sub-agents without tools** (`st_subagents`, `server/fx.go:557`).  They are
   built before the tools they name are registered, as the registry of tools needs
   the delegate tool, which needs them; `config/types.go:57` calls the list what a
   sub-agent sees.
5. **Commands in a directory that is not there** (`ft_workdir`,
   `component/tool/bash.go:193`).  On Linux, where the server runs in Docker, the
   default directory of a command is the workspace written `D:\...`.

Others have no run of their own; a definition in the module states those marked
with its name, and TLC refutes it on the instance of the run named before.

- *queue*: a coalesced handler that takes the stream loses its context when the owner
  signals ExecDone (`service/request_queue.go:79` against `:32` and `:181`), and
  the sharers that do not get the stream finish with an empty answer (`:200` against `:71`);
  a reported position counts the requests that arrived earlier, not those that
  will be served earlier (`:95` against `:41`);
  a handler that unwinds before ExecDoneSignal blocks the dispatcher for ever
  (`:207`, `service/chat.go:71`).
- *gate, stream*: the pump returns its slot without closing the stream behind it, so requests to
  the model can exceed the limit (`component/modelmanager/highconcurrency.go:123`
  against `:36`); the priority chooses only the text of the error (`:159` against `:38`);
  a panic within Stream keeps a slot, and so does a handler that unwinds while it reads
  and so never closes (`handler/chat.go:300`, without defer), when the pump has more for
  it than the 64 messages of the pipe and waits in Send for ever
  (`component/modelmanager/highconcurrency.go:122` against `:112`); the scanner stays in Send on a full pipe after its
  reader closed (`component/openaimodel/openai_chat_model.go:280` against `:195`).
- *loop, tools*: a success of one run resets the count of another (`graph/retry_gate.go:57`
  against `:16`); built-in tools return parameter errors as Go errors, which the
  gate never sees (`component/tool/stock.go:55` against `graph/retry_gate.go:15`);
  an open breaker or a time-out ends the run, while its message says to skip the
  tool (`component/tool/wrapper.go:89`); the breaker's BreakerTimeout becomes its
  Interval (`:65` against `:19`); an empty tool result leaves its slot to a result of
  the next round (`callback/tool_collector.go:46` against `:26`); the wrapper gives
  execute_command 15 s, its parameter promises up to 120 s (`component/tool/bash.go:167`).
- *stores*: two goroutines replace one memory (`OneReplacement`): Elasticsearch does not look at
  the version that the comment on Supersede speaks of (`store/memory.go:222`), and as
  no code changes a version the check of MySQL never fails; a memory is replaced by one
  that shares no keyword with it (`SharesAKeyword`), as MySQL looks for `go` inside
  `go-zero` (`store/mysql_memory.go:99`) and Elasticsearch for any of its tokens
  (`store/memory.go:272`); a page of the stock list without data is taken for the end,
  and the partial list replaces the table (`ListIsComplete`, `stock/db/sync.go:69` and `:131`
  against `:75`), which also lacks what moved to a page read before; the reranker cannot
  tell a score of 0 from a document whose scoring failed (`component/reranker/reranker.go:89` against `:117`);
  what the model is only half
  sure of can be stored as the user's portrait (`PortraitIsCertain`, `service/memory.go:493`
  against `store/memory.go:29`); memories in Elasticsearch lose layer, confidence
  and expiry (`store/memory.go:138`, `:364`); Load of a long conversation returns its
  oldest messages; a document deleted before Elasticsearch has refreshed keeps its
  chunks (`hurt`); the retriever's search looks at parents too, which a comment denies
  (`OnlyChildren`); get_stock_kline answers from a cache that a shorter question filled
  (`AsManyAsAsked`, `component/tool/stock.go:109`); a bar file that cannot be read is
  replaced by the new bars alone (`stock/storage/file.go:80`); an unknown
  storage type, the default "elasticsearch" among them, keeps conversations in memory
  (`server/fx.go:710`).
- *services*: the agent never calls the tools of MCP servers, as they are registered
  after its graph was compiled (`McpToolsReachTheAgent`, `server/fx.go:893` against
  `docs/mcp-connector-plan.md:5`); with vectors in MySQL mode and no database, documents go to
  Elasticsearch with the vectors of a stub (`VectorsMatch`); sub-agents and a model
  that is not in the list keep the server from starting (`server/fx.go:553`); two
  switches can leave the name of one model and the client of the other
  (`NameIsCurrent`, `component/modelmanager/manager.go:90`), and the budget of the chat stays that of the first
  model (`BudgetFits`, `server/fx.go:698`); guessed entry files are made absolute only
  for some projects (`EntryIsAbsolute`); imported servers are not connected again
  after a restart; clients are appended without a lock (`component/mcp/connector.go:162`);
  SetCurrent of the workspace handler ignores HOST_MNT_PREFIX (`handler/workspace.go:112`);
  run_batch may give a task the id of another (`pipeline/batch.go:56`); the strategy of
  a backtest believes it has bought when the capital was too small
  (`component/tool/backtest.go:130`).

Hazards without a property: a steady arrival of stock requests starves normal ones
(`service/request_queue.go:149`); the SSE loop reads the length of the bag's records
without the mutex (`handler/chat.go:321`); run_batch runs up to ten graphs within the
wrapper's 15 s (`server/fx.go:537`); a slow request puts its older answer over the newer one of a
request that overtook it (`service/semantic_cache.go:117`); the watchlist of the
stock handler is changed without a lock (`handler/stock_handler.go`).

## 8. What is not modelled

Wording, SSE framing, logging, tracing and HTTP routing; what prompts, models and
tools compute; how a text is cut into chunks; floating-point indicators, ratios and
scores; the eino library but for its pipes, callbacks and step limit; the limiter
of `golang.org/x/time/rate`, which is a free choice.  Of the modelled components:
textual tool calls in a `<tool_code>` block, the non-streaming path of the OpenAI
client, the branches of the bag for messages with ids, titles of conversations,
financial reports and news, tools that only read.  Not modelled at all:

- the checkpoint store: when the graph writes and reads it is decided in eino;
- confidence, sources and feedback: functions of one finished answer, without state
  that outlives it but for an append;
- the HTTP surface: handlers that call one service and encode its result;
- the web client: the state of one page in another language, whose input is the
  stream of events that RequestQueue's handler ends;
- observability, logging and evaluation.

## 9. Plan

Next, in this order:

1. a composition of RequestQueue, AgentLoop and ModelStream for one request, to
   follow a cut from the client's context to the end of the last goroutine;
2. the watchlist of the stock handler and the checkpoint store, once the graph's use
   of the latter is decided in this repository.
