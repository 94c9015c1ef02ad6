# Formal model of nft-indexer

TLA+ specifications of the nft-indexer services, the TLC configurations that
check them on small instances, and theorems about them checked by TLAPS.

    tlc -config <run>.cfg MC<module>.tla     # the runs are listed in section 4
    tlapm <module>Proofs.tla                 # the proofs

## 1. The system

A pipeline of processes around one MongoDB and a message bus (RabbitMQ or SQS),
and programs an operator runs by hand.

| component | state | operations | talks to |
|---|---|---|---|
| **app-events-reader** | `events`, `blocks_queue`, `events_reader_state_log`; in memory: the loop's cursor, one `AbortController` | `runLoop`, `read`, `reread`; HTTP `reader-start`, `reader-stop` | the node; emits `INDEX_BLOCK_RANGE` |
| **app-indexer** | `contracts`, `tokens`; in memory: the set of contracts seen | `process(range)` | consumes `INDEX_BLOCK_RANGE`, emits `READ_CONTRACT`, `READ_TOKEN` |
| **app-contract-reader** | `contracts.name`, `tokens.tokenUri`; one wait group for all handlers | `processContract`, `processToken` | consumes both, emits `READ_METADATA` |
| **app-metadata-reader** (TypeScript) | metadata repository (MongoDB or S3), token status; in memory: a cursor over creation dates | `readOne` (queue) or `read` (polling) | gateways |
| **metadata-reader** (Go) | metadata in MongoDB, OpenSearch index | workers on a queue, HTTP reader with retries | consumes `READ_METADATA` |
| **wait group** (`shared/wg`) | map of running promises | `go`, `wait` | used by all TypeScript workers |
| **SQS transport** (`shared/microservices/sqs`) | poll timers, wait group | poll, handle a batch, delete it, stop | in place of RabbitMQ |
| **API refresh, app-refresh, tokens-reader** | none | send messages of the pipeline again | bus |
| **app-lazy-mint-indexer** | `lazyMintBlocksQueue`, `events` | reads a span again for what is missing | node, token processor |
| **app-pre-contracts** | `events`, `contracts`, `tokens` | imports the contracts older than the standards | node; emits `READ_METADATA` |
| **app-opensearch-indexer**, **tokens-reader** | cursors | page over a collection | OpenSearch, bus |
| **API wallet** | none; the explorers' events | balances of a wallet | explorers API |

Components without steps that anything could come between (read-only requests,
scripts, deployment) are listed in `PROJECT.json` with the reason they are left out.

### What is hard

* Everything awaits: between any two awaits the process may crash, a request may
  run, the chain may grow or reorganise. There are no transactions; a range takes
  three writes (`events`, `blocks_queue`, the message) and a re-read five.
* Recovery is implicit: after a restart a loop deletes what it believes is a
  partial write and resumes after the last recorded range.
* Reorganisations are found only by comparing a parent hash with the hash recorded
  for the range below, and repaired from the top down.
* The task of the events reader lives in MongoDB, its abort signal in memory, and a
  stop changes the two in separate steps.
* Messages are acknowledged before they are worked on (TypeScript readers), after,
  whatever happened (Go, indexer), or batch by batch (SQS); queues are not durable.
* A token is announced only by the upsert that inserts it: what comes between the
  two is not repeated by a redelivery.
* Pages are cut by a cursor over collections that grow in front of it and behind it.

### What makes each component correct

* events reader: recorded ranges are mined, gapless and complete; a hash vouches
  for the events under it; every recorded range is announced; after
  reorganisations `events` is the canonical chain.
* reader tasks: one task in progress at most, and visible; it is worked on; an
  ended one is not; it ends only for a reason.
* wait group: the limit, every call returns, `wait` covers what its caller started.
* pipeline: a token is announced once; an acknowledged range is stored; no token is
  dropped unless a fault was met; "available" means stored; the collections take a
  token through its stages in order; every token is settled in the end.
* metadata workers and SQS: a message is dropped only after it was handled, and is
  never lost or doubled; the index follows the database.
* polling and scans: nothing is read twice, and what is passed over has a reason.
* batch jobs: they end, and what they were for is done or was reported.
* wallet: what is shown is what is owned.

The hazards, each with its line and the properties aimed at it, are in
`PROJECT.json`.

## 2. Modules

| module | models | checked by | proved in |
|---|---|---|---|
| `EventsReader` | the data path of app-events-reader | `MCEventsReader` | `EventsReaderProofs` |
| `ReaderTasks` | task control of app-events-reader | `MCReaderTasks` | `ReaderTasksProofs` |
| `WaitGroup` | `src/shared/wg` | `MCWaitGroup` | `WaitGroupProofs` |
| `Stores` | collections, queues and repository operations of the pipeline | through `Pipeline` | |
| `TokenProcessor` | app-indexer | through `Pipeline` | |
| `ContractReader` | app-contract-reader | through `Pipeline` | |
| `MetadataFetch` | readers and fallbacks of the TypeScript metadata reader | through its users | |
| `MetadataReader` | `readOne` | through `Pipeline` | |
| `Producers` | refresh API, app-refresh, tokens-reader as senders | through `Pipeline` | |
| `Pipeline` | the composition of these six | `MCPipeline` | `PipelineProofs` |
| `TokenLifecycle` | what the pipeline promises of a token (abstract) | as `ImplementsLifecycle` | as `PipelineImplementsLifecycle` |
| `MetadataPolling` | `read`, the polling loop | `MCMetadataPolling` | `MetadataPollingProofs` |
| `MetadataWorkers` | the Go program | `MCMetadataWorkers` | `MetadataWorkersProofs` |
| `SqsConsumer` | the SQS transport's consumer | `MCSqsConsumer` | `SqsConsumerProofs` |
| `LazyMint`, `PreContracts`, `Scans` | the programs run by hand | through `BatchJobs` | |
| `BatchJobs` | the operator who runs one of them | `MCBatchJobs` | `BatchJobsProofs` |
| `WalletNFTs` | `getNFTs` of the wallet API | `MCWalletNFTs` | - |

Modules carry, directly before some definitions, a variant with the bug one
would plausibly write there (`LogsShort` before `LogsOf`, `AlwaysEmit` before
`EmitEvent`, ...). No specification uses them; put in the place of the definition
they show that the property which guards against that bug really fails.

Observation variables and definitions (marked as such where they are declared) are
used by properties only: no guard looks at them, except where a bound does.

### EventsReader

`pc` is the await at which `runLoop` is suspended; one action per await:

| pc | code |
|---|---|
| idle | `runLoop`: no task, or between tasks |
| head, latest, clean | start of `liveProcessing` / `blockRangeProcessing`: `getLatestBlock`, `blockRepo.getLatest`, `deleteWhereBlockNumberGreaterThan` |
| loop | top of either loop: abort check, end, next range |
| poll, wait | live loop: `getLatestBlock`, then the wait for new blocks |
| fetch, store | `read`: `getEthNodeTransferEvents`, `bulkSave` or `bulkUpsert` |
| blocks | the `Promise.all` of `getBlock(from)`, `getBlock(to)`, `getLatest` |
| record, emit | `blockQueue.save`, `emit` and the parent-hash check |
| delete, softDelete | `reread`: `deleteByBlockRange`, `softDelete`, and `read` again |
| down | no process |

`Crash` empties the memory and leaves the collections; so does an exception that
nothing catches (a duplicate `_id` in `bulkSave`, an aborted wait), through the
`uncaughtException` handler. `Restart` is the supervisor.

Abstractions. A block is its number and the fork it belongs to; its hash is that
pair, which identifies the whole chain below it because every reorganisation
makes a new fork. An event's `_id` is `blockNumber:txHash:logIndex`; `events`
holds versioned blocks, all logs of a block together, and a transaction mined
again at the same place in a new fork is not told from a new one. The requests
that make up `getLogs`, with their retries and splits, are one step. The requests
of an operator name blocks that exist (`ConstantsAssumption`). A task is started
and stopped in one step, and only started when the loop is idle (`ReaderTasks`
opens both up). `emit` is not awaited by the code; the message is taken as
delivered to the bus in the step that emits it. The chain never gets shorter than a
reader has seen it.

### ReaderTasks

A handler is three or four steps: the request arrives (a stop aborts the controller
here), its query is evaluated, its continuation acts, its write lands. The loop is
the same `runLoop`, with reading a range as one step. `log` orders the documents by
`startAt`; a document is `pending` between the insert's issue and its landing, and
an insert in flight when the process dies lands or is lost. Controllers are numbers;
`aborted` is the set of those whose signal is aborted. `busy` and `stamp` are the
locals of a handler. A query or a write of a handler may fail (`QueryFails`,
`StartWriteFails`, `StopWriteFails`), the write having landed or not: the answer is
500 and the process lives on, after a stop with the controller aborted. A query of the
loop that fails ends the process (`Crash`). `astray` is an observation: the task was ended and another one
started before the loop had read the controller, so that it has the other one's.

### WaitGroup

`tasks` is the key set of the map. A caller that finds the group full is suspended
with the promises it saw (`snap`) and starts its task when one of them is gone,
without another look at the size. That `tasks.delete` runs before a racing caller
resumes is JavaScript's order of reactions on one promise: the `finally` of `go` is
registered first. The actions given to `go` catch their errors, so a task does not
reject. A limit of 0 is excluded (`Promise.race` of nothing never settles).
`overlapped` records that `go` was called while another call waited in it; the users
that run one loop never do so, concurrent handlers do.

### The pipeline

`Stores` holds what the processes share: `contracts`, `tokens`, the metadata
repository and the queues, with the repository operations as operators
(`InsertIfNone`, `Upsert`, `UpdateUri`, `Save`, ...). Each process adds the tasks it
is running: a task is a token or contract and the step it is at, so that any other
process, a failing call (`TaskFails`, `SaveFails`, ...) or a crash may come between
the write and the message. `Pipeline` interleaves the processes and adds what is outside of
them: a broker restart that empties the non-durable queues, and a URI that
serves something new (`Republish`).

| action | code |
|---|---|
| `ReceiveRange` .. `FinishRange` | `eventHandler`, `processBlockRange`, the loop of `process`, `upsertToken` and `insertContract` up to the ack |
| `RangeFails` | `getByBlockRange` rejects: Nest swallows the exception of the handler, nothing acknowledges the message, and with prefetch 1 none follows (`stuck`) until the indexer or the broker is restarted |
| `IndexerCrash` | the unacknowledged range is delivered again, `known` is empty |
| `CRDeliver`, `ReadName`, `ReadUri`, `EmitReadMetadata` | `readContract`/`readToken` (acknowledged when the task has started), `processContract`, `processToken` |
| `MRDeliver`, `Fetch`, `SaveMetadata`, `SetStatus` | `readMetadata`, `readOne` with the fallbacks of `MetadataFetch` |
| `RefreshContract`, `RefreshTokens`, `RefreshToken` | `refresh.controller`, app-refresh |
| `RefreshFails` | some of the messages are sent, the request ends with an error |
| `FillContractQueue`, `FillMetadataQueue` | one token of a page of tokens-reader |

`lost` is an observation: what a fault (each of which the code logs, or a crash) has
taken out of the pipeline. `dropped` names the tokens whose fetched metadata was not
stored although their status says available. `refreshed` is what a token's URI served
when it was last refreshed.

Abstractions. A message is a token or contract id with the form its address is
written in; copies of a message that wait in one queue are merged. The contract call
and the update it leads to are one step, since what a contract answers does not
change. Metadata is a version number. A URI is its kind. How many tasks run at once is
left to `WaitGroup`. Prefetch 1 of the indexer is `range`; the other consumers
acknowledge at once, so that it does not bound them.

`TokenLifecycle` says that a token goes from unknown to indexed to located to
read and never back; `StageOf` maps the collections to that stage.

### MetadataPolling and MetadataWorkers

`MetadataPolling` is the loop with `cursor` (`dateOfLastCheckedToken`, in memory, from
`Date(0)`), a page (a snapshot of rows with or without a URI) and the tasks of its wait
group, beside an indexer whose `DateToken` and `InsertToken` are two steps (the date is an
argument of the upsert) and a contract reader. Dates are ticks of a clock,
so equal dates occur. The observations start anew with the process.

`MetadataWorkers` has one action per step of a Go worker: delivery (`Qos(1)`), the
requests with their retries on 429, the MongoDB and OpenSearch writes, the `Ack`. A closed
channel returns its unacknowledged message to the queue while the handler goes on; the
`Ack` of that handler then fails. `Cancel` is the interrupt, or an error other than
`errClosed`, after which every request and write fails and the message is all the
same acknowledged. A worker may take another delivery after it: `select` chooses at random
between a context that is done and a message that is ready.

### SqsConsumer

`poll` → `wg.go` → a task that first sets the timer of the next poll, then receives, handles
and deletes: `timers` and `waiting` count the timers that are set and the calls that
wait in `wg.go`, `task[s]` is what the task in a slot is at. A handler that throws has
returned as far as the consumer can see: Nest's RPC proxy resolves with an observable of the error,
and the batch is deleted. What rejects `Promise.all` is `JSON.parse`, for a body that is no JSON
(`Malformed`), on every delivery: the batch is given up, the other handlers run on (`stray`).
A message not deleted becomes visible again, in time or (a fault) while a task still
works on it. `afterStop` and `late` count the tasks started and the batches received after `stop()`.

### LazyMint, PreContracts, Scans, BatchJobs

One action per await of each program. In `LazyMint` the event of a block is the
block, and an events reader of another process stores events meanwhile; the command
is run again with the same arguments. In `PreContracts` a mint is its
position in the logs; the ranges share their boundary blocks as in the code. In
`Scans` a row is its place in the order of the scan's key, which no two rows share;
other processes insert rows anywhere. Its five commands differ in what they do with a row
and in the reaction to errors. An indexer finds the documents of an earlier run (`stale`), removes
them, or goes on with them after `removeIndex` has failed; what the other
indexer, which runs in the same process, throws ends it as its own errors do (`ScanDies`).
`BatchJobs` lets an operator choose one of the programs.

### WalletNFTs

The code's fold over the concatenation of the three answers is written as a fold
(`ApplyEvent`, `Cache`), the reference is the balance over the history (`Balance`). A
client walks over the pages, each computed anew, while transfers go on.

## 3. Bounds and preconditions

`Max...` constants (`MaxBlock`, `MaxRequests`, `MaxCrashes`, `MaxReorgs`, `MaxTasks`,
`MaxFaults`, `MaxResends`, `MaxVersion`, `MaxTime`, `MaxRuns`, `MaxPreFaults`,
`MaxScanFaults`, `MaxEvents`, `MaxValue`) only cut the length of a behaviour or the
size of a value.

* Events reader: ranges of two blocks (`ProcessingLimit = 1`) have a first, a last
  and, with an odd head, a truncated range; four to five blocks give a range below and one
  above the range in question; two crashes allow one during the recovery from the other;
  two reorganisations one over the repair of the other; one reorganisation beside two
  crashes falls before, between and after them. Block 0 holds no transfer (`AllButFirst`).
* Reader tasks: three requests are every start and stop after any other two; two faults are a
  stop that fails and a crash, or a start that fails beside the retry.
* Pipeline: one token of one contract in two ranges: the second range meets a token that
  is there, in any state of the work on it; one fault falls at every step, and one request
  sends messages again after or beside it. A second form of addresses
  (`Forms = {"checksum", "lower"}`) more than doubles the states; it was checked once and holds. What several tokens share is only their contract
  and the range; the theorems of section 5 hold for any number.
* Polling: three tokens with pages of two on two ticks: equal dates within and across a page.
* Go workers: two workers and a message of each kind, two for the same token; two faults.
* SQS: three messages, one of them malformed, batches of two, two workers: a batch, and another
  beside it, with or without the malformed one; one failing call or early timeout.
* Lazy mint: four blocks in ranges of two and three, so that the limit divides the span or
  does not, a block beyond the span, three runs.
* Import: four mints in three blocks, ranges that overlap, two contracts, two faults.
* Scans: four rows, pages of two: a full page, a second, an empty one; a row of each kind,
  and two failing calls: both attempts of a bulk request, or `removeIndex` and one of them; every
  set of old documents.
* Wallet: three events over an ERC-721 and two ERC-1155 tokens, which is a batch beside a
  single transfer; one token to a page.

Preconditions of the passing runs, and what happens without them. Where no run is
listed, the change to a cfg that is named gives the counterexample.

* `EventsReader_crash` forbids a crash or stop while a recovery is under way
  (`InterruptRecovery = FALSE`). With TRUE, `RecordedRangesComplete` and `CaughtUpComplete` fail: a
  restart deletes below the range it resumes at, or a crash after `deleteByBlockRange`
  leaves a hole, and nobody looks for either.
* It has no bounded NEW_ONLY task. Such a task deletes all events above its last range,
  and live indexing resumes above them.
* `EventsReader_reorg` has reorganisations only while the reader waits. With
  `ReorgAnytime = TRUE`, `HashVouchesForEvents` fails: logs and hash come from
  separate requests. So has `EventsReader_crash`, although its other properties do not need it.
  `EventsReader_reorg` has no crash, which would lose announcements (`EventsReader_lost_announce`).
* In `EventsReader_crash` a first range ends below the head (`ProcessingLimit` below `InitialHead`).
  Otherwise `HashVouchesForEvents` fails after a restart: in the cfg of `EventsReader_reorg` with
  `MaxCrashes = 1`, `InitialHead = 2`, `ProcessingLimit = 2` and logs in blocks 2 and 5 only, the
  process dies after the first range has reached the head and the chain has reorganised;
  `getLatest`, strictly below the head, finds no range, nothing is deleted, and the new events are
  stored and vouched for beside the orphaned ones.
* With a crash in the first range, before anything is recorded, `EventuallyAllSaved` fails too
  (in the cfg of `EventsReader_lost_announce`): there is no document to delete above of, and
  every reading of the range ends at the duplicate `_id`.
* In `ReaderTasks_sequential` an operator waits for an answer before sending the next
  request. With `Sequential = FALSE` two starts may both find no task in progress
  (`RunningTaskVisible`), and a stop beside a start may abort the new task's controller
  before its document lands, after which the loop leaves the task at its abort check
  for ever (`RunningTaskServed`). Even in turn, a stop whose query or write fails after `abort()` leaves
  the task in progress under an aborted controller: the loop takes the task and leaves it, again and again,
  until another stop or a restart. `RunningTaskServed` excepts just that (`Halted`).
  `StopTakesEffect` fails even in turn: a stop during the wait for
  blocks rejects that wait, the process exits before the stop is recorded, and goes on with the task
  after its restart.
* A stop and a start, even in turn, while the loop prepares a task hand it the controller of the
  new one: it goes on with the task that was stopped (`EndedTaskReadsNoMore`, in the cfg of
  `ReaderTasks_sequential`), and at its end stops the new task. The properties of `ReaderTasks_sequential` except such a loop (`astray`);
  `TaskEndedForAReason` allows it to end the new task.
* `EventuallySettled` excepts tokens that are not stored while the indexer is stuck with a range
  whose events it could not query. Nothing in the code ends that; the model may restart it, but is not made to.
* `AvailableIsStored` excepts the tokens whose metadata a fallback gateway has answered (`dropped`).
* `Throttled` speaks of groups on which no `go` is called while another waits. Two callers
  that wake up together both start, and a pool beyond its limit is never found full again.
* `BeyondSpanKept` speaks of limits that divide the span. Otherwise a resumed
  lazy mint run deletes events above its last block and does not store them again.
* `PassedForAReason` and `EventuallyRead` except tokens that share a creation date with
  another: the strict comparison passes over one of them at the end of a page. A token that
  appears behind the cursor, since its date was taken before its insert, is one of the reasons
  of `PassedForAReason`.
* `LazySpanComplete` excepts the events that a run has saved or recorded, but not processed, when it was cut
  short (`cut`), where the next one resumes above them.
* `EventuallyDeleted` excepts messages that keep coming in one batch with a malformed one. It
  holds as well when the consumer has been stopped.
* `EventuallyAcked` assumes more workers than undecodable messages: each of these is neither
  acknowledged nor rejected, and with prefetch 1 stops its worker.
* `WalkShowsOwned` speaks of tokens whose events are of one kind (kinds are not
  merged by time) and not of transfers to oneself (which only add).

Deadlock is not checked where the system may stop: an operator without requests left, all
messages done, a job that has ended.

### Fairness

Weak fairness, but for one strong condition on SQS: Node's event loop runs a continuation once its await
completes, Go's scheduler runs every goroutine, and calls to the node,
MongoDB, the broker and the gateways end, with an answer or an error.

* `EventsReader`: the reader's steps; `Restart` (the container restarts a process that
  exits); `Mine`, up to the bound; `StartTask`, since what the reader does in the end
  means nothing if nobody ever starts it.
* `ReaderTasks`: handlers, loop, restart. `WaitGroup`: `Settle` (tasks' requests have timeouts).
* `Pipeline`: one condition per process, on all its steps that are not faults together: it
  works on, at one thing or another. Each of its queues and task sets can only be emptied by
  these steps, and finitely many messages are sent, so that this is enough.
* `MetadataPolling`: the loop, and each token's task. Nothing is asked of those who write.
* `MetadataWorkers`: each worker, and the restart. The HTTP reader may or may not answer.
* `SqsConsumer`: timers, slots, visibility timeouts, stray handlers; and `SF(Delivers(m))`: a message that
  SQS could give out again and again is given out. Without it SQS might answer every request with the
  malformed one.
* `BatchJobs`: a command that runs goes on; the lazy mint command is run again when it has
  ended early (that is how an operator completes a span), as is the import when it has died.

No crash, stop, failing call or reorganisation is ever forced.

## 4. Runs

| run | question | instance | result |
|---|---|---|---|
| `EventsReader_crash` | ranges stay mined, gapless, without holes; hashes vouch for events | 3 to 5 blocks, ranges of 2, live and REINDEX tasks, 3 requests, 2 crashes, 1 reorganisation | holds |
| `EventsReader_reorg` | hashes vouch through chains of re-reads; eventually canonical and announced | 4 to 6 blocks, live task, 2 reorganisations of any depth while the reader waits | holds |
| `EventsReader_lost_announce` | all ranges announced in the end? | a crash before `emit` | violated |
| `ReaderTasks_sequential` | one visible task; worked on, an ended one not, ended for a reason | 3 requests in turn, both kinds, 2 faults | holds |
| `WaitGroup` | the limit; calls return; `wait` is complete | 2 callers, limit 2, 5 tasks | holds |
| `Pipeline` | announced once, stored when acknowledged, nothing stranded, available is stored, `TokenLifecycle`, settled in the end | 1 token of 2 ranges, 1 fault, 1 request | holds |
| `Pipeline_refresh` | does a refresh take effect? | the URI serves something new | violated |
| `MetadataPolling` | read once, passed for a reason, read in the end | 3 tokens, pages of 2, 2 ticks, 1 crash | holds |
| `MetadataWorkers` | nothing lost or doubled, handled before acknowledged, index follows store, acknowledged in the end | 2 workers, 4 messages, 2 faults | holds |
| `SqsConsumer` | one chain of polls, handled before deleted, stop stops, deleted in the end | 3 messages, 1 malformed, batches of 2, 2 workers, 1 fault | holds |
| `BatchJobs` | complete, kept, sent once, exact, reported, ends | one of three programs, 3 runs or 2 faults | holds |
| `WalletNFTs` | shown is owned | 3 tokens, 3 events, pages of 1 | holds |

The exact constants are in the cfg of the same name. The larger runs have from some hundred
thousand to one and a half million states and take a minute or two.

The two violated runs are the findings in `PROJECT.json`: a range recorded but never
announced (`blockQueue.save` before `emit`), and a refresh that changes nothing
because the metadata repository inserts.

Other behaviour of the code that the models contain and the properties are
stated around, since nothing in the repository says it should be otherwise:

* The token processor, the contract reader and both metadata readers acknowledge
  whatever happened: after a failing call or a crash a token waits for a refresh or for
  tokens-reader. The TypeScript consumers lose what they were working on, since they acknowledge
  first; an interrupt of the Go program makes every write in progress fail and acknowledges its message.
* A refresh that has failed has sent some of its messages.
* A token a rate limit has left "receivable" is not tried again. With a fallback gateway
  that answered it is "available" although its data is dropped.
* A refresh with an address in lower case finds the contract, and its messages update
  nothing. fill-contract-queue ends at the first token without a contract.
* stop() of the SQS consumer lets one more task start, and the requests under way and that
  task's own still receive and handle a batch each. A message whose handler has thrown is deleted;
  one whose body is no JSON is never, and takes its batch with it each time.
* An indexer whose query for the events of a range has failed receives nothing more until it
  is restarted.
* The contracts indexer throws when it has no index to remove, the metadata indexer goes on;
  but both run in one process, and what either throws ends both. An index that could not be
  removed keeps its old documents, and the pages that meet them are reported.
* A bulk request tried again after a partial success fails at the documents of the
  first attempt: a page is reported although it is indexed.

## 5. Theorems

All hold for every value of the constants that the named assumptions of the modules
allow. The type invariants are proved rather than run, except two: `EventsReader`'s, which says more
than types (what is recorded lies on the chain), is both; `WalletNFTs`', which depends on folds,
is neither and only documents the variables.

| theorem | says |
|---|---|
| `EventsReaderProofs!TypeCorrect` | `Spec => []TypeOK` |
| `EventsReaderProofs!RangesAreMined` | `Spec => []RangesMined` |
| `EventsReaderProofs!RangesStayComplete` | `Benign => (Spec => []RecordedRangesComplete)` |
| `EventsReaderProofs!NothingIsSkipped` | `FromStart => (Spec => []NoBlockSkipped)` |
| `EventsReaderProofs!HashesVouch` | `Recoverable => (Spec => []HashVouchesForEvents)` |
| `EventsReaderProofs!UndisturbedVouches` | `Undisturbed => (Spec => []WholeRangesVouch)` |
| `ReaderTasksProofs!TypeCorrect` | `Sequential => (Spec => []TypeOK)` |
| `ReaderTasksProofs!OneVisibleTask` | `Sequential => (Spec => []RunningTaskVisible)` |
| `ReaderTasksProofs!EndedTaskIsLeft` | `Sequential => (Spec => EndedTaskReadsNoMoreUnlessAstray)` |
| `ReaderTasksProofs!EndsHaveReasons` | `Sequential => (Spec => TaskEndedForAReason)` |
| `WaitGroupProofs!TypeCorrect`, `LimitKept` | `Spec => []TypeOK`, `Spec => []Throttled` |
| `WaitGroupProofs!WaitIsComplete` | `Spec => WaitCoversOwnTasks` |
| `PipelineProofs!TypeCorrect` | `Spec => []TypeOK` |
| `PipelineProofs!AnnouncedOnce` | `Spec => []NotAnnouncedTwice` |
| `PipelineProofs!AcknowledgedIsStored` | `Spec => []DoneRangesStored` |
| `PipelineProofs!AvailableHasMetadata` | `Spec => []AvailableIsStored` |
| `PipelineProofs!NoTokenStranded` | `Spec => []NothingStranded` |
| `PipelineProofs!PipelineImplementsLifecycle` | `Spec => ImplementsLifecycle` |
| `MetadataPollingProofs!TypeCorrect` | `Spec => []TypeOK` |
| `MetadataPollingProofs!PagesDoNotOverlap`, `MissedForAReason` | `Spec => []ReadOnce`, `Spec => []PassedForAReason` |
| `MetadataWorkersProofs!TypeCorrect` | `Spec => []TypeOK` |
| `MetadataWorkersProofs!AcknowledgedWasHandled`, `IndexFollowsStore` | `Spec => []AckedIsHandled`, `Spec => []IndexedIsStored` |
| `MetadataWorkersProofs!EveryMessageAtOnePlace` | `Spec => []NothingLostOrDoubled` |
| `SqsConsumerProofs!TypeCorrect` | `Spec => []TypeOK` |
| `SqsConsumerProofs!OnePollChain`, `StopIsFinal` | `Spec => []OneChain`, `Spec => []StopStops` |
| `SqsConsumerProofs!HandledBeforeDeleted` | `Spec => []DeletedIsHandled` |
| `BatchJobsProofs!TypeCorrect` | `Spec => []TypeOK` |
| `BatchJobsProofs!ImportSendsOnce` | `Spec => []SentOnce` |
| `BatchJobsProofs!ScanVisitsEveryRowOnce` | `Spec => []ScanExact` |
| `BatchJobsProofs!WhatIsMissingWasReported` | `Spec => []IndexedOrReported` |
| `BatchJobsProofs!ImportLeavesNothingOut` | `Spec => []ImportComplete` |
| `BatchJobsProofs!LazyLeavesNothingOut`, `LazyKeepsBeyondTheSpan` | `Spec => []LazySpanComplete`, `Spec => []BeyondSpanKept` |

The inductive invariants, and why they are needed:

*RangesAreMined.* A range is recorded some awaits after it was computed. `RangesInv` also
says that the cursor, the call's range and the head the loop has read are in order and
mined at each `pc` where they are used, that `latest` points at a document, and that a
task in progress names blocks that exist. Reorganisations and crashes are all allowed.

*RangesStayComplete* (`DataInv`). `Benign`: no bounded NEW_ONLY task, no crash or stop during a
recovery; section 3 says what happens without either. Reorganisations come at any moment: what
is stored is then of one fork or another, and the theorem says that no transfer block of a live
range is without events; `HashVouchesForEvents` says which. The invariant relates the cursor to `blocks_queue` and
`events`: below the cursor every live range has its events; above it `events` has been cut off as
a whole, so that what is missing there is what the loop is about to store again (`Lost`). `LogsInv`: the logs a
read holds leave out no block of its range. `AbortInv`: a task that has been
stopped leaves nothing cut off behind.

*NothingIsSkipped* (`CoverInv`). `FromStart`: every task begins at block 0, and no crash or stop
cuts a recovery short. Reorganisations may come at any moment. Not only the cursor has
everything below it covered, every live document has: a restart resumes above *some* latest document, and
a chain of re-reads makes documents dead before it records the range again
(`BeingReread`). A dead document never lies below a live one that does not cover its range.

*HashesVouch* (`ForkInv`, on top of `DataInv`). `Recoverable` is `Benign`, with reorganisations of any number and
depth while the reader waits, and first ranges that end below the head; section 3 has the counterexamples
without these. Crashes, stops and REINDEX tasks are allowed. Two halves: a block of a
live range has events (`DataInv`), and under a current hash none is of an abandoned fork
(`NoStaleEvent`). For the second, a reorganisation makes hashes no document has, so a hash that
still matches was recorded after the last one that reached it (`HashInv`), and what a live read is about to
record holds events of the chain only (`CanonInv`). Behind it is that above a live loop's cursor
there are no events at all, or the chain has never reorganised: a restart finds a live document below the
head to delete above (`AnchorInv`), unless nothing is recorded yet, when the reader is
still at a task's first range and has not waited for blocks (`StartInv`).

*UndisturbedVouches* (`VouchInv`). `Undisturbed`: one live task, no crash or stop, reorganisations as before, but
a first range that may end at the head; and it speaks of each range as a whole, not block by block.
What a read deletes and stores lies in its own range, and the ranges of documents
are the same or lie apart (`RangeInv`). That takes that the reader never starts
over: everything stored lies below the cursor (`BoundInv`), hence no store ends at a duplicate.

*OneVisibleTask*, *EndedTaskIsLeft*, *EndsHaveReasons* (`TasksInv`), for any number of requests sent
in turn. An insert in flight is the last document, and no task is in progress while there is one;
a stop has aborted the provider's controller before it ends a task, and one that fails leaves it aborted. Hence the controller of a loop on a
task in progress is the provider's, and that of a loop on an ended task is aborted, unless it was
taken too late (`astray`). `Sequential` is needed: section 3.

*LimitKept.* While a caller waits in `go` and no other call comes, tasks only settle, so
`tasks` is a subset of the snapshot of size `Limit`, a proper one when the caller resumes.
*WaitIsComplete.* What a caller started and still runs is in its snapshot.

*AnnouncedOnce* (`AnnounceInv`). A token waiting to be announced was inserted just now and has not
been announced; a token that was announced is stored, and stored ones are not inserted again.
*AcknowledgedIsStored* (`RangeInv`). Every token of the range being processed is stored, lost or
a task, unless the indexer is stuck and has none. *AvailableHasMetadata* (`SaveInv`). A task that is going to set "available" has
its metadata stored, or dropped.

*NoTokenStranded* (`StrandedInv`) is the other direction: of every stored token one of these carriers
exists, or it is settled, or a fault has lost it. Each process gets a lemma on where its steps put a
token it takes from a queue or a task; `NoTaskBetween` (no task outlives its range) and
`StatusKnown` (a task beyond the fetch knows its outcome) make the steps' guards cover every case.

*PipelineImplementsLifecycle* (`StageInv`). Whatever carries a token (a message in either queue, a
task of either reader) shows that the token has reached the stage that carrier belongs
to: what is announced is stored, what waits for metadata has its URI. So no step skips a stage;
`TokenSteps` says that rows and metadata are only ever completed, and
`OneStageMoves` that a step changes the stage of one token.

*MissedForAReason*, *PagesDoNotOverlap* (`PageInv`, `ReadInv`, `PassInv`). What was read lies within the horizon
(the cursor, or the last row of the open page) and in no open page; what lies within it
is accounted for or still in the page.

*EveryMessageAtOnePlace* (`PlaceInv`). Workers on open channels hold different messages, none of which is ready or
acknowledged, and every other message is ready or acknowledged. `EffectInv` adds what the
worker's step says about its message: handled before the `Ack`, stored before indexed.

*OnePollChain*, *StopIsFinal* (`PollInv`). Calls in `wg.go` come from timers, and timers from tasks that have left
it; after `stop()` only the call that already waits is left, and a batch received then has used up a request
under way at `stop()` or that call's. *HandledBeforeDeleted* (`DeleteInv`). What a task
is about to delete, and what is deleted, was handled, and no batch with a malformed body is deleted.

*ImportSendsOnce* (`SentInv`). The mint about to be announced is the current one, just inserted. *ScanVisitsEveryRowOnce*
(`ScanInv`). Every row there was at the start is beyond the cursor, or was in one page and is
still in the batch or done with; none beyond it was in a page. *WhatIsMissingWasReported*
(`IndexInv`). The same for documents, with the count bounded by the size of the index.
*ImportLeavesNothingOut* (`ImportInv`). Every mint in the blocks behind the loop is imported, failed or
in the page; the contract a mint waits for was visited, and what was visited is stored.

*LazyLeavesNothingOut* (`LazyInv`), *LazyKeepsBeyondTheSpan* (`BeyondInv`). Where the next run would resume
(`Resume`) is a function of the recorded ranges; below it all events are stored, and an event no run has
accounted for lies in the one window the resuming run deletes (`Doomed`) or is in its hands.
`Resume` advances by the limit, so with a limit that divides the span that window ends with the span.

Only model-checked: all liveness (`EventuallyAnnounced`, `EventuallyCanonical`, `RunningTaskServed`,
`CallsReturn`, `EventuallySettled`, `EventuallyRead`, `EventuallyAcked`, `EventuallyDeleted`, `JobsEnd`: TLAPS has
none here), and `WalkShowsOwned`, a statement
about a fold, which would take induction over data.

## 6. Not modelled

* API owner, metadata, collection, search, internal, tokens, contracts: a request is
  one read-only query; nothing comes between its steps.
* The client side of the SQS transport, the choice of transport at bootstrap.
* How getLogs splits a range the node refuses, and the decoding of logs and data URIs.
* Statistics, cryptopunks import, queue-sender, test helpers, deployment: scripts
  without state of their own.
* Metrics, health and status endpoints, logging, configuration.

## 7. Plan

Done: the inventory; the models of section 2; the abstract `TokenLifecycle` and its
refinement; the theorems of section 5.

Next, in this order:

1. A Go consumer in the place of the TypeScript one in `Pipeline`.
2. How the client of the SQS transport and the bootstrap choose a transport, and what
   of the pipeline's properties survives at-least-once delivery.
