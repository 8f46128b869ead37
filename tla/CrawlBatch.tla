----------------------------- MODULE CrawlBatch -----------------------------
(***************************************************************************)
(* One job batch: CrawlJobBatchExecute, its workers CrawlJobWorker and the *)
(* collector CollectResultsAndAnalyze (service/helper/job.go), with the    *)
(* accesses that the tasks of a batch make to the two maps they share: the *)
(* Tasks map, rewritten by PrepareDiscoveryCrawlInput, and the JobParams   *)
(* map, rewritten by the goroutine of sendOldVariatonsToRecrawl.           *)
(*                                                                         *)
(* Everything PipelineExecutor does between these accesses is one step     *)
(* (Crawl) with any outcome.  A Go map is not safe for concurrent use: the *)
(* runtime may abort the process when an access meets a write in progress. *)
(* A write is therefore two steps, begin and end, and an access that meets *)
(* one either goes through or ends the process (crash = "fatal").          *)
(***************************************************************************)
EXTENDS Integers, Sequences, FiniteSets

CONSTANTS Urls,        \* the tasks a batch may hold
          MaxWorkers,  \* 12 in the code
          JobTypes,    \* the job types a batch may come with
          Outcomes,    \* what PipelineExecutor may leave in a workflow
          NoUrl, NoOutcome

ASSUME UrlsAssumption == IsFiniteSet(Urls) /\ NoUrl \notin Urls

ASSUME WorkersAssumption == MaxWorkers \in Nat \ {0}

ASSUME OutcomesAssumption ==
  /\ Outcomes \subseteq [status : {0, 1}, translated : BOOLEAN,
                         oldVariations : BOOLEAN]
  /\ NoOutcome \notin Outcomes

(* The job types for which CrawlJobWorker finds a pipeline; every other    *)
(* one leaves pipelineObj nil.                                             *)
KnownJobTypes ==
  {"testwrapper", "crawl", "recrawl", "realtimeapi", "webhooks_daily",
   "webhooks_hourly", "wrapperqa", "ondemand_crawl", "ondemand_slow_crawl",
   "discovery_crawl"}

VARIABLES
  jobInput,      \* the batch: its job type and the keys of its Tasks map
  mainPc,        \* where CrawlJobBatchExecute is
  toFeed,        \* the keys the range over Tasks has not produced yet
  inputCh,       \* the task channel
  inputClosed,   \* whether it has been closed
  workerPc,      \* where each CrawlJobWorker is
  url,           \* the task a worker holds
  workflow,      \* the workflow of that task once it is crawled
  outputCh,      \* the channel of crawlResults
  received,      \* the counter of the collection loop
  crawlResults,  \* the outcome collected for each task
  recrawler,     \* the goroutine a task spawned to resend old variations
  updater,       \* whether UpdateJobTranslationStats was started
  crash          \* "none", "panic" or "fatal" (concurrent map access)

batchVars == << jobInput, mainPc, toFeed, inputCh, inputClosed, received,
                crawlResults, updater >>

vars == << jobInput, mainPc, toFeed, inputCh, inputClosed, workerPc, url,
           workflow, outputCh, received, crawlResults, recrawler, updater,
           crash >>

Workers == 1..MaxWorkers

BatchSize == Cardinality(jobInput.tasks)

(* numWorkers: 12, or one per task when the batch is smaller.              *)
NumWorkers == IF BatchSize < MaxWorkers THEN BatchSize ELSE MaxWorkers

(* Mutant of ChannelCap: one place short.                                  *)
ChannelCapShort == BatchSize - 1

(* Both channels are made with room for the whole batch.                   *)
ChannelCap == BatchSize

HasPipeline == jobInput.jobType \in KnownJobTypes

IsDiscovery == jobInput.jobType = "discovery_crawl"

IsOnDemand == jobInput.jobType \in {"ondemand_crawl", "ondemand_slow_crawl"}

Answered == {u \in Urls : crawlResults[u] # NoOutcome}

(* A write to the Tasks map or to the JobParams map is in progress.        *)
StoringTask == {w \in Workers : workerPc[w] = "store"}

WritingParams == {u \in Urls : recrawler[u] = "write"}

Goto(w, from, to) ==
  /\ workerPc[w] = from
  /\ workerPc' = [workerPc EXCEPT ![w] = to]

Running == crash = "none"

Abort(how) ==
  /\ crash' = how
  /\ UNCHANGED << jobInput, mainPc, toFeed, inputCh, inputClosed, workerPc,
                  url, workflow, outputCh, received, crawlResults, recrawler,
                  updater >>

-----------------------------------------------------------------------------
Init ==
  /\ jobInput \in [jobType : JobTypes, tasks : SUBSET Urls]
  /\ mainPc = "start"
  /\ toFeed = {}
  /\ inputCh = << >>
  /\ inputClosed = FALSE
  /\ workerPc = [w \in Workers |-> "unborn"]
  /\ url = [w \in Workers |-> NoUrl]
  /\ workflow = [w \in Workers |-> NoOutcome]
  /\ outputCh = << >>
  /\ received = 0
  /\ crawlResults = [u \in Urls |-> NoOutcome]
  /\ recrawler = [u \in Urls |-> "none"]
  /\ updater = FALSE
  /\ crash = "none"

(* CrawlJobBatchExecute makes the channels and starts the workers.         *)
StartWorkers ==
  /\ Running
  /\ mainPc = "start"
  /\ mainPc' = "feed"
  /\ toFeed' = jobInput.tasks
  /\ workerPc' = [w \in Workers |-> IF w <= NumWorkers THEN "recv" ELSE "unborn"]
  /\ UNCHANGED << jobInput, inputCh, inputClosed, url, workflow, outputCh,
                  received, crawlResults, recrawler, updater, crash >>

(* Mutant of Feed: the range produces a key again.                         *)
FeedAgain(u) ==
  /\ Running
  /\ mainPc = "feed"
  /\ u \in toFeed
  /\ Len(inputCh) < ChannelCap
  /\ UNCHANGED toFeed
  /\ inputCh' = Append(inputCh, u)
  /\ UNCHANGED << jobInput, mainPc, inputClosed, workerPc, url, workflow,
                  outputCh, received, crawlResults, recrawler, updater, crash >>

(* One iteration of the range over Tasks, in any order, without the lock.  *)
Feed(u) ==
  /\ Running
  /\ mainPc = "feed"
  /\ u \in toFeed
  /\ Len(inputCh) < ChannelCap
  /\ toFeed' = toFeed \ {u}
  /\ inputCh' = Append(inputCh, u)
  /\ UNCHANGED << jobInput, mainPc, inputClosed, workerPc, url, workflow,
                  outputCh, received, crawlResults, recrawler, updater, crash >>

(* The range over Tasks meets a worker that is writing to the map.         *)
FeedMeetsWrite ==
  /\ Running
  /\ mainPc = "feed"
  /\ StoringTask # {}
  /\ Abort("fatal")

(* Mutant of CloseInput: the channel stays open.                           *)
LeaveInputOpen ==
  /\ Running
  /\ mainPc = "feed"
  /\ toFeed = {}
  /\ mainPc' = "collect"
  /\ UNCHANGED << jobInput, toFeed, inputCh, inputClosed, workerPc, url, workflow,
                  outputCh, received, crawlResults, recrawler, updater, crash >>

CloseInput ==
  /\ Running
  /\ mainPc = "feed"
  /\ toFeed = {}
  /\ mainPc' = "collect"
  /\ inputClosed' = TRUE
  /\ UNCHANGED << jobInput, toFeed, inputCh, workerPc, url, workflow, outputCh,
                  received, crawlResults, recrawler, updater, crash >>

-----------------------------------------------------------------------------
(* A worker takes the next task from inputCh.                              *)
Receive(w) ==
  /\ Running
  /\ inputCh # << >>
  /\ Goto(w, "recv", "parse")
  /\ url' = [url EXCEPT ![w] = Head(inputCh)]
  /\ inputCh' = Tail(inputCh)
  /\ UNCHANGED << jobInput, mainPc, toFeed, inputClosed, workflow, outputCh,
                  received, crawlResults, recrawler, updater, crash >>

(* The range over a closed and drained channel ends the worker.            *)
Quit(w) ==
  /\ Running
  /\ inputClosed
  /\ inputCh = << >>
  /\ Goto(w, "recv", "quit")
  /\ UNCHANGED << jobInput, mainPc, toFeed, inputCh, inputClosed, url, workflow,
                  outputCh, received, crawlResults, recrawler, updater, crash >>

(* ParseJobParams marshals the JobParams map shared by the whole batch.    *)
(* The first call on a nil pipeline comes right after it, PreCrawlOps or,  *)
(* when the parameters cannot be read, FailWorkflow: both panic.           *)
ParseParams(w) ==
  /\ Running
  /\ HasPipeline
  /\ Goto(w, "parse", IF IsDiscovery THEN "prepare" ELSE "crawl")
  /\ UNCHANGED << batchVars, url, workflow, outputCh, recrawler, crash >>

NilPipeline(w) ==
  /\ Running
  /\ workerPc[w] = "parse"
  /\ ~HasPipeline
  /\ Abort("panic")

ParseMeetsWrite(w) ==
  /\ Running
  /\ workerPc[w] = "parse"
  /\ WritingParams # {}
  /\ Abort("fatal")

(* JOBPARAMS_READERR: the task fails before PreCrawlOps.  On an ondemand   *)
(* job FailWorkflow still runs PostCrawlOps, whose goroutine reads the     *)
(* DomainInfo that was never fetched: nothing recovers its panic.          *)
ParamsUnreadable(w) ==
  /\ Running
  /\ HasPipeline
  /\ ~IsOnDemand
  /\ Goto(w, "parse", "send")
  /\ \E o \in Outcomes :
       /\ o.status = 0
       /\ ~o.translated /\ ~o.oldVariations
       /\ workflow' = [workflow EXCEPT ![w] = o]
  /\ UNCHANGED << batchVars, url, outputCh, recrawler, crash >>

NilDomainInfo(w) ==
  /\ Running
  /\ workerPc[w] = "parse"
  /\ IsOnDemand
  /\ Abort("panic")

(* PrepareDiscoveryCrawlInput writes the task's metadata back into Tasks   *)
(* under discoveryMutex, which excludes the other workers only.            *)
BeginStore(w) ==
  /\ Running
  /\ StoringTask = {}
  /\ Goto(w, "prepare", "store")
  /\ UNCHANGED << batchVars, url, workflow, outputCh, recrawler, crash >>

EndStore(w) ==
  /\ Running
  /\ Goto(w, "store", "crawl")
  /\ UNCHANGED << batchVars, url, workflow, outputCh, recrawler, crash >>

(* The extraction RPCs marshal the workflow, and with it the whole batch:  *)
(* the Tasks and the JobParams of every other task.                        *)
CrawlMeetsWrite(w) ==
  /\ Running
  /\ workerPc[w] = "crawl"
  /\ StoringTask # {} \/ WritingParams # {}
  /\ Abort("fatal")

(* A crawl may end the process on its own, whatever the job type: a source *)
(* that is not known is a nil pointer, AMAZON indexes an empty answer, the *)
(* answer of an rpc has another shape than the code asserts, log.Fatalln   *)
(* is called in a visit, the goroutines of one ajax round write to the     *)
(* same map, or a merge indexes an empty list.                             *)
CrawlDies(w) ==
  /\ Running
  /\ workerPc[w] = "crawl"
  /\ Abort("crawl")

(* Mutant of Crawl: the goroutine that resends is started before the rest  *)
(* of the crawl.                                                           *)
CrawlSpawningFirst(w) ==
  /\ Running
  /\ IsDiscovery /\ workerPc[w] = "crawl" /\ recrawler[url[w]] = "none"
  /\ recrawler' = [recrawler EXCEPT ![url[w]] = "spawned"]
  /\ UNCHANGED << batchVars, workerPc, url, workflow, outputCh, crash >>

(* The rest of PipelineExecutor, and TransformError on a failed workflow.  *)
(* DiscoveryActions starts a goroutine when a product page is known.       *)
Crawl(w) ==
  /\ Running
  /\ Goto(w, "crawl", "send")
  /\ \E o \in Outcomes :
       /\ workflow' = [workflow EXCEPT ![w] = o]
       /\ recrawler' = IF IsDiscovery /\ o.oldVariations
                         THEN [recrawler EXCEPT ![url[w]] = "spawned"]
                         ELSE recrawler
  /\ UNCHANGED << batchVars, url, outputCh, crash >>

(* Mutant of Send: a failed workflow is not sent.                          *)
SendSuccess(w) ==
  /\ Running
  /\ Len(outputCh) < ChannelCap
  /\ Goto(w, "send", "recv")
  /\ outputCh' = IF workflow[w].status = 1
                   THEN Append(outputCh, [url |-> url[w], workflow |-> workflow[w]])
                   ELSE outputCh
  /\ url' = [url EXCEPT ![w] = NoUrl]
  /\ workflow' = [workflow EXCEPT ![w] = NoOutcome]
  /\ UNCHANGED << batchVars, recrawler, crash >>

Send(w) ==
  /\ Running
  /\ Len(outputCh) < ChannelCap
  /\ Goto(w, "send", "recv")
  /\ outputCh' = Append(outputCh, [url |-> url[w], workflow |-> workflow[w]])
  /\ url' = [url EXCEPT ![w] = NoUrl]
  /\ workflow' = [workflow EXCEPT ![w] = NoOutcome]
  /\ UNCHANGED << batchVars, recrawler, crash >>

-----------------------------------------------------------------------------
(* The goroutine of sendOldVariatonsToRecrawl sets JobParams["frequency"]  *)
(* in the map that the copied Batch still shares with the running one, and *)
(* RecrawlActions then reads that map.                                     *)
BeginWriteParams(u) ==
  /\ Running
  /\ recrawler[u] = "spawned"
  /\ recrawler' = [recrawler EXCEPT ![u] = "write"]
  /\ UNCHANGED << batchVars, workerPc, url, workflow, outputCh, crash >>

EndWriteParams(u) ==
  /\ Running
  /\ recrawler[u] = "write"
  /\ recrawler' = [recrawler EXCEPT ![u] = "recrawl"]
  /\ UNCHANGED << batchVars, workerPc, url, workflow, outputCh, crash >>

(* Mutant of RecrawlActions: it starts all over again.                     *)
RecrawlActionsAgain(u) ==
  /\ Running
  /\ recrawler[u] = "recrawl"
  /\ recrawler' = [recrawler EXCEPT ![u] = "spawned"]
  /\ UNCHANGED << batchVars, workerPc, url, workflow, outputCh, crash >>

RecrawlActions(u) ==
  /\ Running
  /\ recrawler[u] = "recrawl"
  /\ recrawler' = [recrawler EXCEPT ![u] = "done"]
  /\ UNCHANGED << batchVars, workerPc, url, workflow, outputCh, crash >>

RecrawlMeetsWrite(u) ==
  /\ Running
  /\ recrawler[u] \in {"spawned", "recrawl"}
  /\ WritingParams # {}
  /\ Abort("fatal")

-----------------------------------------------------------------------------
(* One iteration of the collection loop.                                   *)
Collect ==
  /\ Running
  /\ mainPc = "collect"
  /\ received < BatchSize
  /\ outputCh # << >>
  /\ LET result == Head(outputCh)
     IN crawlResults' = [crawlResults EXCEPT ![result.url] = result.workflow]
  /\ outputCh' = Tail(outputCh)
  /\ received' = received + 1
  /\ UNCHANGED << jobInput, mainPc, toFeed, inputCh, inputClosed, workerPc, url,
                  workflow, recrawler, updater, crash >>

(* UpdateJobServerBatchStats reads the sample workflow, the last received: *)
(* there is none when the batch is empty.                                  *)
NoSampleWorkflow ==
  /\ Running
  /\ mainPc = "collect"
  /\ received = BatchSize
  /\ received = 0
  /\ Abort("panic")

(* Mutant of IsTranslateCrawl: every workflow has to be translated.        *)
IsTranslateCrawlOfAll == \A u \in Answered : crawlResults[u].translated

IsTranslateCrawl == \E u \in Answered : crawlResults[u].translated

(* Mutant of Return: one result short.                                     *)
ReturnEarly ==
  /\ Running
  /\ mainPc = "collect"
  /\ received >= BatchSize - 1
  /\ received > 0
  /\ mainPc' = "returned"
  /\ updater' = IsTranslateCrawl
  /\ UNCHANGED << jobInput, toFeed, inputCh, inputClosed, workerPc, url,
                  workflow, outputCh, received, crawlResults, recrawler, crash >>

Return ==
  /\ Running
  /\ mainPc = "collect"
  /\ received = BatchSize
  /\ received > 0
  /\ mainPc' = "returned"
  /\ updater' = IsTranslateCrawl
  /\ UNCHANGED << jobInput, toFeed, inputCh, inputClosed, workerPc, url,
                  workflow, outputCh, received, crawlResults, recrawler, crash >>

-----------------------------------------------------------------------------
Main ==
  \/ StartWorkers
  \/ \E u \in Urls : Feed(u)
  \/ FeedMeetsWrite
  \/ CloseInput
  \/ Collect
  \/ NoSampleWorkflow
  \/ Return

Worker(w) ==
  \/ Receive(w)
  \/ Quit(w)
  \/ ParseParams(w)
  \/ NilPipeline(w)
  \/ ParseMeetsWrite(w)
  \/ ParamsUnreadable(w)
  \/ NilDomainInfo(w)
  \/ BeginStore(w)
  \/ EndStore(w)
  \/ Crawl(w)
  \/ CrawlDies(w)
  \/ CrawlMeetsWrite(w)
  \/ Send(w)

Recrawler(u) ==
  \/ BeginWriteParams(u)
  \/ EndWriteParams(u)
  \/ RecrawlActions(u)
  \/ RecrawlMeetsWrite(u)

(* Nothing is left to run: the process died, or the batch has returned and *)
(* all of its goroutines have ended.                                       *)
Terminated ==
  /\ \/ ~Running
     \/ /\ mainPc = "returned"
        /\ \A w \in Workers : workerPc[w] \in {"unborn", "quit"}
        /\ \A u \in Urls : recrawler[u] \in {"none", "done"}
  /\ UNCHANGED vars

Next ==
  \/ Main
  \/ \E w \in Workers : Worker(w)
  \/ \E u \in Urls : Recrawler(u)
  \/ Terminated

Spec == Init /\ [][Next]_vars

(* Every goroutine that can run is eventually scheduled.  No RPC in Crawl  *)
(* blocks forever: HTTP and RPC calls carry timeouts.  (The M101 and Amazon *)
(* actors, whose callers wait without one, are assumed to answer.)         *)
Fairness ==
  /\ WF_vars(Main)
  /\ \A w \in Workers : WF_vars(Worker(w))
  /\ \A u \in Urls : WF_vars(Recrawler(u))

FairSpec == Spec /\ Fairness

-----------------------------------------------------------------------------
TypeOK ==
  /\ jobInput \in [jobType : JobTypes, tasks : SUBSET Urls]
  /\ mainPc \in {"start", "feed", "collect", "returned"}
  /\ toFeed \in SUBSET Urls
  /\ inputCh \in Seq(Urls)
  /\ inputClosed \in BOOLEAN
  /\ workerPc \in [Workers -> {"unborn", "recv", "parse", "prepare", "store",
                               "crawl", "send", "quit"}]
  /\ url \in [Workers -> Urls \cup {NoUrl}]
  /\ workflow \in [Workers -> Outcomes \cup {NoOutcome}]
  /\ outputCh \in Seq([url : Urls, workflow : Outcomes])
  /\ received \in Nat
  /\ crawlResults \in [Urls -> Outcomes \cup {NoOutcome}]
  /\ recrawler \in [Urls -> {"none", "spawned", "write", "recrawl", "done"}]
  /\ updater \in BOOLEAN
  /\ crash \in {"none", "panic", "fatal", "crawl"}

Queued == {inputCh[i] : i \in DOMAIN inputCh}

Held == {u \in Urls : \E w \in Workers : url[w] = u}

Sent == {outputCh[i].url : i \in DOMAIN outputCh}

(* Once the batch is running a task is in exactly one place, and there     *)
(* once: it waits for the range of CrawlJobBatchExecute, is in inputCh, is *)
(* held by a worker, is in outputCh or has been collected.  No task is     *)
(* crawled twice or lost between the two channels.                         *)
EachTaskInOnePlace ==
  mainPc # "start" =>
    /\ jobInput.tasks = toFeed \cup Queued \cup Held \cup Sent \cup Answered
    /\ toFeed \cap (Queued \cup Held \cup Sent \cup Answered) = {}
    /\ Queued \cap (Held \cup Sent \cup Answered) = {}
    /\ Held \cap (Sent \cup Answered) = {}
    /\ Sent \cap Answered = {}
    /\ \A i, j \in DOMAIN inputCh : inputCh[i] = inputCh[j] => i = j
    /\ \A v, w \in Workers : url[v] = url[w] /\ url[v] # NoUrl => v = w
    /\ \A i, j \in DOMAIN outputCh : outputCh[i].url = outputCh[j].url => i = j

(* Both channels are as long as the batch, so that neither the range that  *)
(* feeds the workers nor a worker that answers ever waits for room: a      *)
(* worker cannot outlive its batch on a full channel.                      *)
NoSenderWaits ==
  /\ mainPc = "feed" /\ toFeed # {} => Len(inputCh) < ChannelCap
  /\ (\E w \in Workers : workerPc[w] = "send") => Len(outputCh) < ChannelCap

(* When CrawlJobBatchExecute returns every task has its result, and the    *)
(* statistics of the job are refreshed when one of them was translated.    *)
ReturnsEverything ==
  mainPc = "returned" =>
    /\ Answered = jobInput.tasks
    /\ updater <=> \E u \in jobInput.tasks : crawlResults[u].translated

(* discoveryMutex: two workers never write to Tasks at the same time.      *)
StoresExclude == \A v, w \in StoringTask : v = w

(* A result, once collected, is never replaced by another one.             *)
ResultsAreFinal ==
  [][\A u \in Answered : crawlResults'[u] = crawlResults[u]]_vars

(* The tasks that a worker holds at one of these places, and all that have *)
(* still to get past them.                                                 *)
HeldAt(places) == {url[w] : w \in {v \in Workers : workerPc[v] \in places}}

Unfed == IF mainPc = "start" THEN jobInput.tasks ELSE toFeed

Before(places) == Unfed \cup Queued \cup HeldAt(places)

Resending(places) == {u \in Urls : recrawler[u] \in places}

(* The tasks whose worker, or the goroutine that resends their products,   *)
(* may touch the maps of the batch.                                        *)
AtWork ==
  HeldAt({"parse", "prepare", "store", "crawl"})
    \cup Resending({"spawned", "write", "recrawl"})

(* The accesses of one task to the maps of the batch never meet: the       *)
(* goroutine it leaves behind starts after its last access.  So a          *)
(* concurrent access takes two tasks at work, or the range that still      *)
(* feeds the workers; a batch of one task is safe once it is fed.          *)
MapDeathsNeedTwo ==
  crash = "fatal" => mainPc = "feed" \/ \E u, v \in AtWork : u # v

StagesAhead ==
  {"start", "feed", "collect"} \ [start |-> {}, feed |-> {"start"}, collect |-> {"start", "feed"},
                                   returned |-> {"start", "feed", "collect"}][mainPc]

Places == [parse |-> {"parse"},
           prepare |-> {"parse", "prepare"},
           store |-> {"parse", "prepare", "store"},
           crawl |-> {"parse", "prepare", "store", "crawl"},
           send |-> {"parse", "prepare", "store", "crawl", "send"}]

(* What is ahead of the batch: for each step the tasks that have still to  *)
(* take it or to pass it by, then the stages of CrawlJobBatchExecute, the  *)
(* workers that have not quit, and the process that has not died.          *)
Ahead ==
  [feed |-> Unfed,
   receive |-> Before({}),
   parse |-> Before(Places.parse),
   prepare |-> Before(Places.prepare),
   store |-> Before(Places.store),
   crawl |-> Before(Places.crawl),
   send |-> Before(Places.send),
   collect |-> Before(Places.send) \cup Sent,
   begin |-> Before(Places.crawl) \cup Resending({"spawned"}),
   end |-> Before(Places.crawl) \cup Resending({"spawned", "write"}),
   recrawl |-> Before(Places.crawl) \cup Resending({"spawned", "write", "recrawl"}),
   stages |-> StagesAhead,
   quit |-> {w \in Workers : workerPc[w] # "quit"},
   alive |-> {crash} \cap {"none"}]

Shrinks(now, then) ==
  /\ \A step \in DOMAIN now : then[step] \subseteq now[step]
  /\ then # now

(* No goroutine ever gives back work that was done, and none takes a step  *)
(* for nothing: each step leaves less ahead.  Since what is ahead of a     *)
(* batch is finite, its goroutines come to rest, however they are          *)
(* scheduled.                                                              *)
OnlyForward == [][Shrinks(Ahead, Ahead')]_vars

(* Whoever can take a step: CrawlJobBatchExecute unless it waits for a     *)
(* channel, a worker unless it waits for one or for discoveryMutex, and a  *)
(* goroutine that resends.                                                 *)
CanMove ==
  \/ mainPc = "start"
  \/ mainPc = "feed" /\ (toFeed = {} \/ Len(inputCh) < ChannelCap)
  \/ mainPc = "collect" /\ (outputCh # << >> \/ received = BatchSize)
  \/ \E w \in Workers :
       \/ workerPc[w] = "recv" /\ (inputCh # << >> \/ inputClosed)
       \/ workerPc[w] = "prepare" /\ StoringTask = {}
       \/ workerPc[w] = "send" /\ Len(outputCh) < ChannelCap
       \/ workerPc[w] \in {"parse", "store", "crawl"}
  \/ \E u \in Urls : recrawler[u] \in {"spawned", "write", "recrawl"}

(* The goroutines of a batch never all wait for one another: as long as    *)
(* one of them has not ended somebody can go on.                           *)
NeverStuck ==
  Running =>
    \/ CanMove
    \/ /\ mainPc = "returned"
       /\ \A w \in Workers : workerPc[w] \in {"unborn", "quit"}
       /\ \A u \in Urls : recrawler[u] \in {"none", "done"}

(* Unless the process dies, the batch returns ...                          *)
BatchReturns == <>(mainPc = "returned" \/ crash # "none")

(* ... and no worker stays behind for good.                                *)
WorkersQuit ==
  <>[](\/ crash # "none"
       \/ \A w \in Workers : workerPc[w] \in {"unborn", "quit"})

(* The promise of CrawlJobBatchExecute, stated in BatchSpec: an answer for *)
(* each task, in any order, and then the return, or the end of the process. *)
Promise == INSTANCE BatchSpec WITH
  tasks <- jobInput.tasks,
  answers <- crawlResults,
  state <- IF crash # "none" THEN "dead"
           ELSE IF mainPc = "returned" THEN "returned" ELSE "open",
  refreshed <- updater

KeepsPromise == Promise!Spec

(* A batch of tasks is executed in parallel: no access of one task to the  *)
(* maps of the batch ever meets the write of another.                      *)
ParallelTasksAreSafe == crash # "fatal"
=============================================================================
