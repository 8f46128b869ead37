# Models and proofs of the crawler

These TLA+ modules describe the crawler's own control: how a job batch is fed to
workers and collected, what happens to one task between the worker that takes it
and the result it reports, and how the workers of a process share the clients of
the rate-limited product APIs. Every definition is a translation of code under
`src/`; `PROJECT.json` names the lines of each one. TLC checks small instances of
each module, and TLAPS proves the safety properties that matter most for every
value of the constants.

## The system

A job server sends *batches*: a job type, the job's parameters and a map from
urls to tasks. A batch arrives from a queue, over REST or from a file, and
`CrawlJobBatchExecute` answers it with one *workflow* per task.

| Component | State it keeps | Operations | Talks to |
|---|---|---|---|
| Queue consumer (`service/helper/consumer.go`, `dbs/consumer.go`) | the messages its calls hold, the pool of each site | take a message, run its batch in its site's pool, publish it again when the site is busy, answer | RabbitMQ, wrapper-service, the job batch |
| REST service (`service/`, `main.go`) | none | one request, one batch; job mode, test mode and SIGINT | the job batch |
| Job batch (`service/helper/job.go`) | two channels, the map of tasks, the map of results, up to twelve workers | start, feed, crawl, collect, return | the executor; the statistics updater |
| Pipeline executor (`pipeline/executor.go`) and seven pipelines (`pipeline/*.go`) | the workflow: parameters, DomainInfo, Data, Status, FailureType | stages 1 to 14, each with an early failure; the hooks PreCrawlOps, ValidateDomainInfo, ValidateWebResponse, ValidateExtractionResponse, PostCrawlOps, TransformError | the cascade, wrapper-service, rdstore |
| Cascade (`merge/merge.go`) | the loop over the sources, Data shared by all of them | Request and Extract of each source, in turn or all at once (MERGE_ALL) | the sources |
| Sources (`sources/*`) | per process: the queues and batches of the M101 and Amazon actors | Request, Extract, Normalize; the fan-out of ajax requests | HTTP, RPC, PA API, redis (rate limit) |
| Actions after a crawl (`data/*.go`) | rdstore, ETL and Mongo records | merge with the stored product, publish, resend old variations, publish the ondemand outcome | rdstore, ETL, RabbitMQ |
| Feedback links (`discovery/*.go`) | the metadata of the tasks of a batch | filter, classify and look up links, under `discoveryMutex` | rdstore, Mongo, wrapper-service |
| Web pages (`request/`, `utils/cache.go`) | the page cache | visit with retries, cache, read back | HTTP, S3 |
| Translation statistics (`UpdateJobTranslationStats`) | the job's counters in redis, its record in the job server | wait, read, patch | job server, redis |
| Statistics, publishers, types (`stats/`, `dbs/`, `types/`, `utils/`) | counters, connections | count, connect | datadog, RabbitMQ, databases |

What makes the code hard:

- **Concurrency inside a batch.** Workers share two Go maps with each other and
  with goroutines that outlive the call; a Go map accessed during a write aborts
  the process. Channels have to be long enough that nobody who is needed waits.
- **A goroutine beside its worker.** The ondemand publication reads the workflow
  that its worker goes on changing.
- **A failure path that calls back.** `FailWorkflow` runs PostCrawlOps, is entered
  twice for a failed task, and shares Status and FailureType with three other
  writers.
- **Data shared by sources.** A source that fails leaves something in Data; the
  next one adds to it, and the loop decides by it.
- **One actor for all workers.** A request that is lost, answered twice or answered
  with another one's product hurts a worker of another job; an actor that blocks
  stops all of them.
- **Rate limits, retries, timeouts** that are shared with other processes.
- **A queue that redelivers.** A message is settled when its call returns; the process
  may end after the batch was executed or pushed back, and before that.
- **Check, then act, over the network.** The statistics of a job are read, judged and
  written by the goroutines of many processes.

Per component, what makes it correct: a batch answers every task once and leaves
nothing behind; a workflow's status, reason, publication and attribution agree
with what happened on its way; a source behind an actor answers each worker once,
with its own product, and in order; and goroutines that share a map or a list meet on
it only where the models say. `PROJECT.json` lists the single hazards, each at its line, and the
properties that cover them.

## Modules

| Module | Models | Checked by | Proved in |
|---|---|---|---|
| `BatchSpec` | what the callers of `CrawlJobBatchExecute` rely on | `KeepsPromise` of `CrawlBatch` | |
| `CrawlBatch` | the batch, its workers, its collector, the shared maps | `MCCrawlBatch` | `CrawlBatchProofs` |
| `Workflow` | one task, from ParseJobParams to the report, with the cascade and the ondemand goroutine | `MCWorkflow` | `WorkflowProofs` |
| `Visits` | the supervised source: cache, visit with retries, rounds of ajax requests | through `MergeAll` | `MergeAllProofs` |
| `MergeAll` | `Visits` beside another source of MERGE_ALL, and the merge | `MCMergeAll` | `MergeAllProofs` |
| `Recrawl` | `RecrawlActions` and `RealtimeActions`: rdstore, raw db, processing pipeline | `MCRecrawl` | `RecrawlProofs` |
| `FeedbackLinks` | the links of a page that are fed back, as operators | through `Discovery` | `RecrawlProofs` |
| `Discovery` | the discovery of a page, on top of `Recrawl` and `FeedbackLinks` | `MCDiscovery` | `RecrawlProofs` |
| `SourceSpec` | what `Source.Request` promises the workers about an API behind an actor | `KeepsPromise` of the two actors | |
| `AmazonActor` | `Amazon.Request`, `requestToBatch`, `spawn`, the answers of PA API | `MCAmazonActor` | `AmazonActorProofs` |
| `M101Actor` | `M101.Request` and its actor | `MCM101Actor` | `M101ActorProofs` |
| `Consumer` | the queue consumer, the site pools, the end of the process and redelivery | `MCConsumer` | `ConsumerProofs` |
| `TranslationStats` | `UpdateJobTranslationStats` for all batches of a job | `MCTranslationStats` | `TranslationStatsProofs` |

`CrawlBatch` treats one task's crawl as a step with any outcome; `Workflow` shows
how that step comes to its outcome. `Workflow` treats a call of a source as a step
that always answers; `AmazonActor`, `M101Actor` and `Visits` show when it does, and
`MergeAll` opens its step MERGE_ALL. What `Workflow` has as the outcome of
PostCrawlOps is a run of `Recrawl` for the recrawl pipeline and of `Discovery` for the
discovery pipeline. `Consumer` is the caller of `CrawlJobBatchExecute`: its
`Executed` is the return that `BatchReturns` shows to come, and its `Die` is any of
the crashes of `CrawlBatch`. `TranslationStats` is what the goroutine does that
`CrawlBatch` starts when a task was translated.

### CrawlBatch

`mainPc` is the position of `CrawlJobBatchExecute`, `workerPc` that of each
`CrawlJobWorker`; `inputCh` and `outputCh` are the two channels, `received` the
counter of the collection loop. One action is one statement that another
goroutine can observe: a send, a receive, the close, the begin and the end of a
write to a shared map. `Feed`, `CloseInput`, `Collect` and `Return` are the main
goroutine; `Receive`, `ParseParams`, `BeginStore`, `EndStore`, `Crawl`, `Send` and
`Quit` a worker; `BeginWriteParams`, `EndWriteParams` and `RecrawlActions` the
goroutine of `sendOldVariatonsToRecrawl`. The actions named `...MeetsWrite` are the
accesses to a map that is being written: the runtime may abort the process, so
each of them may, and need not, set `crash` to "fatal". The actions that panic
(`NilPipeline`, `NilDomainInfo`, `NoSampleWorkflow`) set it to "panic". `CrawlDies` is
every other end of the process that a crawl may bring about, whatever the job type: a
source name that is not known is a nil pointer (`merge.go:48`, `106`), AMAZON indexes an
empty answer (`amazon.go:54`), the answer of an rpc has another shape than the code
asserts (`sources/utils.go:29`), a visit calls `log.Fatalln` (`get.go:73`), two goroutines
of an ajax round write to one map (`wrapper.go:148`), a merge indexes an empty list
(`merge.go:177`).

### Workflow

`pc` is the stage of `PipelineExecutor`; `source` is the index of the loop of
`InitiateSeq`; `data`, `status`, `failureType`, `preCrawlOpsFailed` and
`postCrawlOpsCalled` are the workflow's fields of these names; `actions` and
`published` are the goroutine of `OnDemandCrawlActions` and what it published.
`Requests(name)` and `Extracts(name)` are sets: everything that one call of a
source's Request or Extract may leave behind, given the workflow it finds.
Services answer anything: a page is one of four kinds, an RPC fails or returns
any of the codes the code tells apart, a database operation may fail.
Products are known by the source they come from, which is what the attribution
properties need. MERGE_ALL is one step with any data and no error, and names no source;
its steps are in `MergeAll`. `SourceDies` is the end of the process in a source or a
merge, for the reasons of `CrawlDies`, at any of their stages.

### Visits and MergeAll

`pc` is the goroutine of the supervised source: `Request`, `CacheMiss`, `ReadCache`,
`VisitThePage` and `PageVisited` are `Supervised.Request`, the rest is `Extract`.
Slot 0 of `at` is the visit of the page and slot n the goroutine of the n-th request
of a round; `Attempt`, `Answer`, `BeginCount` and `EndCount` are one turn of the loop of
`VisitPage`. The update of the metrics is a read and a write, since the mutex around
it is local to the call; the write to `AjaxFailedStatusMap` has a begin and an end,
since nothing protects it. A round is `EnterCycle`, `Spawn`, `Collect` and
`CloseRound`; `CallReturns` counts the cycle. `data` is the workflow's Data as far as
the control reads it: the requests left, and how many products there are.

`MergeAll` adds the other goroutine. `UnsupervisedRequest` clears Data in the middle
of a round of the first, `M101Request` replaces the products, and each goroutine
records what its own copy of the workflow holds (`Recorded`), then `Merge` waits for
both. `LaunchWrapper` and `LaunchRival` are the loop that starts the goroutines, in the order
of the sources (`first`). It makes each copy just before its goroutine is started
(`copied`), when the goroutine started before may already have left products in the
workflow. Only the first copy is surely empty; where the second is not,
`TransformProductsAndMerge` indexes the products of the first and ends the process.
`MergeSpec` with `Rivals` everywhere {"none"} is the source in a cascade.

### Recrawl, FeedbackLinks and Discovery

`Recrawl` has several tasks on one page. `ReadRdstore` is the executor's stage before
the crawl, `RealtimeReads` the lookup of `RealtimeActions`, which comes after it;
`Prepare` is `PrepareDataForRecrawlETL` with `GetNewOldVariations`; `WriteRdstore`,
`PublishRaw` and `PublishPp` are the calls of `RecrawlActions`, each with a failure on
either side of its effect. `Taken` selects from a list by rank, where the code appends in
a loop: a recursion could not be reasoned about. `rdstore` and `rawDb` are the two stores, `Discover`
another actor that adds to the first, `Die` the end of a process.

`FeedbackLinks` has no state. `Batch`, `Named`, `Refused` and `Found` are sets of positions
in the list of links; `LookUpBatch` is one call of the function that `BatchProcessItems`
is given, and `LookUps` the recursive function over the batches that carries the
counter which the Go closure shares, and the links kept. `Verified` is what it should
yield.

`Discovery` adds the tasks that discover. `SplitVariations` starts the goroutine of
`sendOldVariatonsToRecrawl`, which is a task of `Recrawl` (one of `Sent`) that continues
after `Answer`; `WriteMongo` writes the new ones, `Index` is the worker that brings them
from there to rdstore, which is how `Discover` happens here.

### AmazonActor and M101Actor

A caller waits for its answer, so its name identifies its one open request, and a
queue is a sequence of callers. In `AmazonActor`, `Request`, `RequestActor` and the
operators `GotVariations`, `GotMissing` and `GotItems` are `Amazon.Request`;
`RefuseUrl`, `BatchVariations`, `BatchItems`, `TakeTick`, `Flush` and `FlushSingle` are
`requestToBatch`, whose blocking sends to `batchQueue` are steps of their own;
`TakeBatch`, `RateLimited`, `GetResults` and `HandOut` are `spawn` and `getResults`.
An answer is handed over on an unbuffered channel, so the receiver's next
statements, which touch nothing shared, belong to the same step. The rate limit
is shared with other processes and therefore answers anything. A batch is charged
to the limit of its first request's job type; since either limit answers anything
the model does not tell them apart. `Line` numbers the places that a request for items
passes through, the batch in hand first; `FirstComeFirstServed` compares the positions
of two requests there before and after each step.

### Consumer

One call of the function of `ConsumerCrawlFn` is a handler `h`: `pc` is its position,
`msg` the message it holds, `todo` and `url` the range over the tasks. `Deliver` decodes
the message; `LookUp` is one iteration up to the decision that the length of the
pool makes; `Enter` is `pool.Process`, so that the length is stale by then;
`PoolStart` and `Executed` are the pool's worker. `PushBack`, `PushFails` and `PushPanics`
are `publishToQueue` with its outcomes, and `Settle` is the answer as the consume
library treats it. `queue` counts the copies of each message in the broker. The
histories `executions`, `redelivered` and `fate` record what was done with it. The
broker, the consume library and tunny are external: they are modelled by what the
code relies on, redelivery of unsettled messages, one call for each prefetched
message, and a pool that serves its callers in turn.

### TranslationStats

`batch` is where each batch of one job is, `total` the counter in redis, `stats` the
record in the job server. `pc`, `i` and `ts` are an updater's variables. A
request is one step; between two requests everything else may happen. An updater's
end is its last position, so that `Recorded` can tell why it wrote nothing. The
batches run in processes of their own, as `ListenForBatches` runs one at a time.

## Runs

| Run | Shows |
|---|---|
| `batch` | In every interleaving of up to three tasks on two workers no task is lost or repeated, nobody waits for room in a channel, results are complete, and a concurrent access to a map takes two tasks at work, or the range that still feeds the workers (`MapDeathsNeedTwo`). Each step takes something from what is ahead (`OnlyForward`), the batch returns, its workers end, and it implements `BatchSpec`. |
| `batch_parallel` | (violation) Tasks of a discovery batch meet on a shared map and the runtime ends the process. |
| `workflow` | For every job type, list of sources and kind of site: status and reason agree, PostCrawlOps runs at most once, SUCCESS is published only of a success and, after a cascade, only of products of the wrapper, products are attributed to the source they came from, a verdict ends the cascade and is the reason, and each pipeline keeps its promise (`PipelinePromises`: products of a product page, no links of a recrawl, a publication of an ondemand task). No step but the report ends a workflow, as TLC finds no deadlock. |
| `visits` | Nothing of a round of ajax requests is left when the extraction runs again, requests are never counted twice, old pages are not served, the merge comes last, what ends the process beside `log.Fatalln` takes two goroutines at work (`RacesNeedTwo`), each step takes something from what is left (`WindsDown`), and everything ends. |
| `recrawl` | Two recrawls of a page, writes and publications that fail before or after their effect, processes that end: each sku known is reported once, after the write; the stores agree if nobody interfered. |
| `discovery` | A variation is inserted as new or recrawled as old, never both and never neither; failed lookups cost their own links and no others' number. |
| `feedback` | (violation) Which links are kept is wrong as soon as a domain or a lookup is missing. |
| `amazon` | No request is lost, doubled or overtaken, every call to the API is well formed, and `AmazonActor` implements `SourceSpec`. |
| `amazon_live` | Every request is answered, however the queues fill up. |
| `m101` | The same for M101, and every request is answered if the limit leaves room now and then. |
| `consumer` | No message is lost unaccounted for, a batch is executed once and once more for each redelivery, a site's pool limits it, and every message is settled unless the process stays down. |
| `stats` | The recorded calls are out by no more than what the tolerated pending batches make, and the updaters never all leave the work to each other. |

Every property of a passing run has a mutant in `PROJECT.json`: a plausible bug in
the code, written beside the definition it changes, under which TLC finds the
property violated.

### Bounds, and why they are enough

- `batch`: three tasks and two workers. A worker then takes a second task while the
  other is still busy, the feeding loop is not done when the first result is
  collected, and there are fewer and more tasks than workers; a batch may be
  empty, of an unknown type, ondemand or discovery. Two writers and a reader of a
  map suffice for every collision the code has. The three outcomes are those the
  batch tells apart.
- `workflow`: all lists of one or two different sources, a list of three, an
  unknown source, the empty list; all pipelines; nine sites, which differ from a
  plain product page in one attribute or two. What a source finds in the workflow
  is what the one before it left, so that two sources show every interference,
  and the third one that it is not passed on.
- `amazon`: three callers, two locales, two products, batches of two, queues of two
  requests and of one batch, one retry. A batch then fills up, is flushed by the
  ticker before it is full, and waits for room while another forms; two requests
  of a batch may be for one product. Callers are symmetric.
- `m101`: three callers, two urls, a queue of two.
- `consumer`: three messages of one site whose pool executes one at a time, one of a
  site without a pool; the queue's name known, unknown, no publisher. Three calls
  (`prefetch`) are what it takes for one to execute, one to wait and one to be
  pushed back, which can repeat for ever and is what `EverythingSettles` must
  survive; that process ends once, at any moment, for good. The one that is started
  again has one call: what it finds in the queue is what any end leaves there.
  The theorems of `ConsumerProofs` are for any number of calls and restarts.
- `visits`: rounds of at most two requests (2 for 20), three cycles (3 for 20), one
  product, a cache with entries on both sides of a ttl of 5 and of the default (8
  for 3600 seconds), two attempts, or the default three for the page. Two goroutines
  show every collision on the map, the metrics and the channel; the third cycle is
  the first that the limit ends after one that it does not. The metrics start at zero with each round, since what
  was counted before only shifts them. The other source meets a job that does not
  retry, and UNSUPERVISED, which clears the list of requests, rounds of one. Two sources in
  either order show what a copy made late may hold; a third would be another rival.
- `recrawl`: two tasks, one of them realtime, two skus of which one is marked
  skus_only, four crawls (nothing; one product; one twice and one without an id;
  both). One sku is then crawled and the other missed or discovered meanwhile.
- `discovery`: one discovery beside one recrawl, pages with three product links, a
  category, a sitemap and a malformed url, batches of two (2 for 25, or 50 from
  1500 links on) and a load limit of two (2 for 200): one full and one partial batch, of
  which either may fail, with links before and behind the one without a domain.
- `stats`: three batches of at most two calls each, of which at most one may be pending, two
  attempts for a request. One batch then is judged crowded by another, two updaters
  overlap and the third comes late; batches may be found by the job itself. Five
  pending batches and three attempts in the code.

In the code the bounds are 12 workers, queues of 100 requests and 10 batches of 10
(Amazon) and 25 requests (M101), and 10 retries: constants of the modules, over
which the proofs quantify.

### Fairness

Goroutines that can run are scheduled, hence weak fairness of each of them. HTTP
and RPC calls carry timeouts and therefore return. `AmazonActor` and `M101Actor`
need more: `select` picks at random among what is ready and the goroutines that
wait for a channel are served in their order, so that a request or a tick that is
ready again and again is taken (strong fairness of `TakeTick`, of taking a
request, and of `RequestActor`). Two things are assumed, not justified by the
code. PA API answers: `SetTimeout` is never called and its http client has no
timeout. And `m101` assumes with `LimitedSpec` that the rate limit is not
exceeded whenever the actor looks: `getResults` compares `req.retry` and never
increments it, so that without that assumption a request may wait for ever.

`MergeFairSpec`: while a goroutine can run, one of them does, which is less than what the
scheduler gives each of them, and enough; every call they wait for has a timeout (`client.Timeout` in `fetchPage` and `PostRequest`, the timeout of the rpc
client), after which the code goes on.

`Consumer`: the process is started again by its deployment, calls and pool workers
are goroutines, the library takes what the broker delivers, and a batch returns,
which `batch` shows. Nothing is assumed of who gets a free pool: it is the length
of the pool that lets a call in sooner or later. `TranslationStats` needs
no fairness: its properties say what holds when the job and its updaters are done.

## Proofs

All from the named assumptions on the constants and nothing else; they hold for
any number of tasks, workers, sources and sites.

- `CrawlBatchProofs`. The inductive invariant `IInv` is the type invariant with the
  states of the workers (`Base`), `Ledger` and `StoresExclude`.
  `EachTaskInOnePlace` is not inductive alone: it needs to know that a worker holds
  a url exactly while it is busy, and that nothing moves before the start. `Ledger`
  adds that `received` counts the tasks that are answered. `NoSenderWaits` follows
  by counting: the tasks in a channel are pairwise different members of the
  batch, and the one about to be sent is not among them, so the channel is
  shorter than the batch (`ShorterThan`). `ReturnsEverything` follows from
  `received` having reached the size of the batch. `Implements` is the refinement
  of `BatchSpec`: `Collect` is `Answer`, `Return` is `Return`, every crash is `Die`,
  and the rest stutters.
  `Advances` and `NoDeadlock` are what can be proved here of `BatchReturns` and
  `WorkersQuit`. `Ahead` is a record of finite sets: for each step of a task, the
  tasks that have still to take it, and the stages, workers and life of the process
  that are left. `Advances` shows that every step makes one of them smaller and none
  larger, so that a batch takes finitely many; it needs that a task resends its old
  variations after its crawl, hence once (`Resent`). `MapDeaths` rests on the same fact:
  when its goroutine writes, a task is past its own accesses to the maps, so that
  whoever meets the write is another task. `NoDeadlock` shows that somebody
  can move until all is done: it needs that no sender waits, and that a worker quits
  only when the channel is closed and drained (`Staffed`). `CanMove` spells out who can
  move, since ENABLED cannot be reasoned about; on the instance of `batch` TLC finds it
  equal to ENABLED of the next-state relation.
- `WorkflowProofs`. `IInv` says what each variable is at each stage: `Stage` (where
  there is a DomainInfo and a source), `Flow` (what has failed, whether
  PostCrawlOps was called, what was published) and `Found` (what the cascade has
  found). The lemmas named `...Type` show that every outcome of every source is
  well typed, which is most of the work; then there is one lemma per action.
  `Publication` needs whose products Data holds in between (`Owned`): what no source is
  named for is the wrapper's, or carries the mark of another engine, or is on its way
  from Request to Extract of the source that is asked; so after a cascade SUCCESS means
  products of the wrapper. It cannot be said of MERGE_ALL, which names no source. `Promises` is
  proved in three parts, each with a strengthening of its own: `NoLinks` needs that the
  pipelines of `Supervised` never have another kind of site; `Tried` follows an ondemand task through its two
  ways into PostCrawlOps, so that an action was started and has published when it is done; `Stocked`
  follows the products of the only source from its Request to the hook that counts
  them: an extraction without products on a product page is an error, and with an
  error the task does not come there.
- `M101ActorProofs`. `IInv` adds to `EachRequestInOnePlace` that the response in hand
  is an answer to the request in hand (`Responds`); with it each `Reply` is an `End`
  of `SourceSpec`. `InOrder` follows from what `Append` and `Tail` do to the line.
- `ConsumerProofs`. `IInv` is `Base` (types; which calls hold a message and a url,
  and which of them wait for a pool), `PoolLimit` (how many execute in it), `Traced` (a
  message without a copy in the queue has a fate, or a call that has still to
  decide on it) and `Counted`: the executions of a batch of one url, its copies in the
  queue and the calls that still may start it are together at most one more than the
  redeliveries, from which `ExecutedOnce` follows.

- `MergeAllProofs`. `Types` are the types with what each position of the source and of a
  visit implies. `Fresh` needs where the age of the page came from, `Counted` that
  for each counter there is a true number of requests made that it does not exceed,
  and that what a goroutine has read of it does not either: updates get lost, so
  the sum is no invariant, the existence of such numbers is (`CountInv`).
  `SeesRound` counts: the answers received and in the channel are as many as the
  goroutines that are done (`RoundInv`), so that `received >= round` leaves none
  running; and a goroutine past the map has its key there (`FailInv`). `Races` needs
  that the requests of a round are still in Data unless UNSUPERVISED has cleared it
  (`IndexInv`), and that the goroutine started first was given a copy without products
  (`CopyInv`), so that a list with products is the other's. `Final` needs that the merge has
  waited (`MergeInv`).
  `Finite` and `NoDeadlock` are the same two halves of `MergeEnds`. What is left is
  counted in numbers: `SourceLeft` (cycles, and stages of the one under way), and below it,
  since a round starts its visits anew, `VisitLeft` of each visit (attempts, and stages of the one
  under way), `AnswersLeft` and `AroundLeft`. They are numbers only because a visit
  that turns has at most used up its attempts and has no result but a temporary
  error, and no more answers are taken than requests were made (`Tries`). The same
  facts, with the count of `RoundInv`, show that the collector never waits in vain:
  either all are done, and their answers taken or in the channel, or the channel has room.
- `RecrawlProofs`, for any number of tasks, skus and variations of a page, rests on one
  invariant for each thing said. `Kept`: before its write a task has published nothing,
  and one that goes on has written or has nothing to write, hence `Announced`.
  `Published`: how much of the messages is in either stream at each position.
  `Prepared`: the messages are those of a list that names every sku that the task read,
  each once (`Enumerates`). That the list is one is what the operators have to show:
  `FirstOfSku` (every sku has one first product), `TakenProperties` (taking by rank is a
  bijection, since ranks are counted) and `OldVariationsProperties` (the crawled ones and
  the missed ones are disjoint and together everything that was read). `Reported` follows by counting.
  `Agree` needs `Agreed`: while nobody else has acted (`alone`), what a task has written
  and published is still there; `alone` is given up by the step of another task, so each
  step either leaves the stores alone or ends the others' claim.
  For `Discovery` the same invariant is shown to survive the discoveries, whose
  goroutines are tasks that begin in the middle (`ReportedBesideDiscoveries`), and with
  `Divided` (from the split on, what is found and what is handed over divide the crawl
  and what was read) `Divides` follows.
  `CountsFeedback` is about `FilterProductLinks` for any list and batches of any size.
  The shared counter never passes the end of the batch that has been handled, and where nothing
  has failed it stands there; within a batch it gives each link found a position of its
  own, behind those of all batches before. So the links kept are as many as the
  links verified, and the same ones if nothing fails. The induction over the batches is
  by the least number (`Least`): the smallest batch at which the claim fails would have
  one before it at which it holds.
- `AmazonActorProofs`. The requests in the five kinds of places are pairwise apart and are
  together those of the waiting (`Placed`), no place has one twice (`NoneTwice`), a forming
  batch is of one locale and is flushed as soon as it is full (`Formed`), and each response fits the request
  at its position (`Responds`), with what a caller has when it asks for the missing
  product (`Asking`): without variations the actor would index an empty list.
  `Callable` and `OnePlace` follow, the latter by counting; for `Implements` each
  answer that is handed out is an `End` of `SourceSpec`. `InOrder` is shown for each action
  by telling where it moves a request that stays in line (`Here`) and that the move keeps
  the order of any two of them; that the request that is answered has nobody ahead needs
  `Placed` and `NoneTwice`.
- `TranslationStatsProofs`. `MissesBounded` is inductive once it counts what running
  batches may still call: the calls missed by a counter and the calls ahead
  (`CallsAhead`) are together at most what is tolerated (`MissesFew`), from the moment an
  updater judges the pending batches until its PATCH, however late. `LastRecords` needs that an
  updater leaves the job to another one only while there is another batch to come
  (`LastUpdates`).

`PROJECT.json` lists the theorems. Only model-checked are

- the liveness properties, `BatchReturns`, `WorkersQuit`, `RequestsEnd` of both actors,
  `EverythingSettles` and `MergeEnds`: fairness is about ENABLED, which is out of the prover's
  reach. Of `BatchReturns`, `WorkersQuit` and `MergeEnds` the theorems show the safety part: no
  infinite sequence of steps, and no state in which everybody waits;
- that `CanMove` and `CanProgress`, on which the theorems `NoDeadlock` rest, are ENABLED of the
  steps while the process runs: evaluated by TLC on the instances of `batch` and `visits`, but no
  run of its own, since both runs already find no deadlock.

## Findings

- `batch_parallel`: the range over the tasks, and the marshalling of the batch by
  the extraction calls, are not protected from the writes to the same maps.
- `feedback`: `filterProductLinks` walks the links of all batches with one index. A url
  without a domain moves it before the others of its batch are handled, and a batch
  whose lookup fails does not move it at all; the links kept are then not the
  ones rdstore was asked about.

Seen while modelling, part of the models where they matter, and not runs of their own:

- `Diffbot.Request` delivers products and returns `canExtract = false`
  (`sources/diffbot/diffbot.go:41`, `merge/merge.go:142`), so the cascade asks the next source.
- A realtime queue with a name that `publishToQueue` does not know, as in
  `config/staging-consumer.json:36`, loses the tasks of busy sites without an error
  (`service/helper/consumer.go:94`); `NothingLost` takes that for a fate of its own.
- The limit of cycles fails a task whose last cycle left nothing to ask for
  (`sources/supervised/wrapper.go:187`).
- `CrawlTime` stays unset after a cache miss (`supervised.go:57-61`, `utils/cache.go:69-73`).
- The mutex around `CollectProductMetrics` is created by each call, so visits of a
  round lose counts (`request/request.go:76`, `wrapper.go:106`). An entry of
  `AjaxFailedStatusMap` is not cleared when its request succeeds in a later round.
- What MERGE_ALL merges are products of copies made before their own source was asked
  (`merge/merge.go:78`, `82`): those that a source started earlier has left by then, if
  any. When there are none the result is what the last writer left in Data; when there
  are some, the list of the source started first is shorter and `merge.go:177` indexes it. What
  the sources returned is lost in shadowed variables.
- After MERGE_ALL nothing names the source (`merge.go:141` is in the cascade only), so that an
  ondemand customer may be told SUCCESS of the products of M101 or AMAZON.
- A product without stock (`is_active` 0) is active for rdstore and not for the raw db
  (`data/recrawl.go:176` and `214`); `StoresAgree` excepts it. The comment at
  `recrawl.go:271` is about the opposite of its condition.
- Realtime tasks look rdstore up by the sku of the redirect, recrawls by the parent sku.
- `PostCrawlOps` of realtimeapi returns early for every job type that contains "webhooks"
  (`pipeline/realtimeapi.go`), so that the new variations of a webhook are never
  omitted, which the comment further down says they are. The goroutine that it starts
  for the others replaces `workflow.Data.Products` while the REST handler may be
  encoding them: the answer has the crawled products, or the known variations with
  those that were missed as discontinued ones.
- The comment at `data/discovery.go:42` names a condition the code tests only in part
  (ForceDiscover).
- The goroutine with the old variations is lost if the process ends after the answer;
  nothing repeats it.

`TranslationStats` also shows what the code does not promise. The statistics are
written when up to five batches may still run (`MissesAtMost` bounds what that
misses), and may be written twice: two updaters that read the job's parameters
before the first PATCH both write, the later one perhaps with the older counter.
The comment in `job.go` counts on different sleeping times to prevent that, but
`GetMD5Sum` (`utils/general.go`) never writes its argument into the digest, so that
all of them sleep equally long; sleeping times are not part of the model.

The other ends of the process are steps of the models and stay in the passing runs because
no line of the repository says otherwise: an empty batch, a job type without a pipeline, an
ondemand task that fails before its DomainInfo is known, and what `CrawlDies` and
`SourceDies` stand for. No property lists them: of those where two goroutines meet,
`MapDeathsNeedTwo` and `RacesNeedTwo` say what it takes.

## Not modelled

Formatting, parsing, field mapping (which field of which source wins in `mergeData`,
what the clients make of an answer), translation of texts, signing of requests, and
logging: they compute data no property is about. Counters sent to Datadog, which
nothing reads back. Writing to the page cache, and the test wrapper's reading of it.
`CrawlURL`, kept in the repository for compatibility. `Delete` of the two actors and
`UpdateRdstoreData` of `discovery/rdstore.go`, which nothing calls. Connection setup of
the databases.

Hazards without a property, each with its note in `PROJECT.json`: the rate limit that
several processes check and then use (`sources/utils.go:77`), for which there is no
common clock; the http client of PA API without a timeout, which the fairness of
`AmazonActor` assumes away; the product map that two requests for one asin share
(`getItems.go:139`), whose use is field mapping; and the REST handler that serialises a
workflow while `RealtimeActions` may still change it (`crawlurlcontroller.go:44`). Four more
are steps of a model of which a property would say no more than the step does, or
which the code does not claim to prevent: the mutex around the tasks
(`links.go:48`, theorem `Exclusion`), the empty batch (`job.go:170`), the publication without a
DomainInfo (`data/ondemand_crawl.go:55`), and a recrawl and a realtime task that write to the stores
what they read before the other's write (`data/recrawl.go:175`; `StoresAgree` is about tasks
that ran alone).

Left in the plan:

- The REST handler as a caller of `CrawlBatch`, beside the goroutines of `Recrawl` that
  outlive their task.
