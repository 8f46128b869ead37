------------------------------- MODULE Visits -------------------------------
(***************************************************************************)
(* The supervised source on one task: Supervised.Request and Extract       *)
(* (sources/supervised), the page cache in front of the visit              *)
(* (utils/cache.go), VisitPage with its retries and its metrics            *)
(* (request/request.go, get.go), and the rounds in which                   *)
(* ExtractDataForAjaxRequests visits what the extraction still asks for,   *)
(* one goroutine for each request.                                         *)
(*                                                                         *)
(* Proxycloud, the cache service and the extraction service answer         *)
(* anything the code tells apart; products are abstracted to their number. *)
(* Slot 0 is the visit of the page, slot n the goroutine of the n-th       *)
(* request of a round.                                                     *)
(***************************************************************************)
EXTENDS Integers, Sequences, FiniteSets

CONSTANTS
  Jobs,        \* the parameters of the task
  Urls,        \* what the extraction may ask for, by its cache key
  Unresolved,  \* the answers it may give for a task: sequences of urls
  MaxAjax,     \* bound: the requests of one round
  MaxProducts, \* bound: the products of one answer
  Overrides,   \* the kinds it may override the status of the page with
  Entries,     \* what the cache may hold under the key of the page
  DefaultTtl,  \* the ttl of a job that sets none: 3600 seconds
  MaxCycles,   \* the limit of cycles: 20
  NoUrl, NoTime

Params == [maxAttempts : Nat, dontRetry : {0, 1}]

ASSUME JobsAssumption ==
  Jobs \subseteq [page : Params, ajax : Params, cache : {0, 1}, cacheTtl : Int,
                  extractData : {0, 1}, sitedetail : BOOLEAN]

ASSUME UrlsAssumption ==
  /\ MaxAjax \in Nat /\ MaxProducts \in Nat /\ NoUrl \notin Urls
  /\ \A j \in Jobs : \A s \in Unresolved[j] : s \in Seq(Urls) /\ Len(s) <= MaxAjax

(* What the code tells apart of a status.  A visit whose kind is "none"    *)
(* has status 0.                                                           *)
Kinds == {"success", "temp", "perm", "other"}

(* An ajax request only tells success and temporary errors apart; a POST   *)
(* that cannot be made leaves status 0, one of the others.                 *)
AjaxKinds == {"success", "temp", "other"}

ASSUME OverridesAssumption == Overrides \subseteq Kinds

(* age: the seconds since the page was crawled; full: its content is there.*)
ASSUME EntriesAssumption ==
  /\ Entries \subseteq [age : Nat, full : BOOLEAN, page : Kinds]
  /\ DefaultTtl \in Nat \ {0} /\ MaxCycles \in Nat \ {0, 1} /\ NoTime \notin Nat

Ajax == 1..MaxAjax

Slots == 0..MaxAjax

VARIABLES
  job,
  pc,         \* where the goroutine of the source is
  fromCache,  \* WebResponse.FromCache
  page,       \* the kind of WebResponse.Status
  crawlTime,  \* CrawlTime, as an age; NoTime while it is not set
  data,       \* workflow.Data: UnresolvedAjaxURLs, the number of Products
  iteration,  \* 0 before ExtractDataForAjaxRequests
  code,       \* what Request or Extract returns with an error
  round,      \* numAjaxRequests
  received,   \* the answers taken from the channel
  channel,    \* the number of answers that wait in ajaxResponseChan
  at,         \* where each visit is
  url,        \* its ajaxConfig
  attempt,    \* curAttempt
  status,     \* the kind of webResponse.Status
  seen,       \* the counter its CollectProductMetrics has read
  metrics,    \* UrlCount and RetryCount of ProductMetrics
  failed,     \* the keys of AjaxFailedStatusMap
  sent,       \* history: the requests made
  clash,      \* history: two writes to AjaxFailedStatusMap have met
  crash       \* what ended the process: "none" while it runs

pageVars == << fromCache, page, crawlTime >>
extractVars == << data, iteration, code >>
roundVars == << round, received, channel >>
visitVars == << at, url, attempt, status, seen >>
shared == << metrics, failed, sent, clash >>
vars == << job, pc, pageVars, extractVars, roundVars, visitVars, shared, crash >>

(* A result without a code.                                                *)
NoCode == ""

EmptyData == [unresolved |-> << >>, products |-> 0]

NoMetrics == [url |-> 0, retry |-> 0]

Init ==
  /\ job \in Jobs
  /\ pc = "request"
  /\ fromCache = FALSE /\ page = "none" /\ crawlTime = NoTime
  /\ data = EmptyData /\ iteration = 0 /\ code = NoCode
  /\ round = 0 /\ received = 0 /\ channel = 0
  /\ at = [i \in Slots |-> "none"]
  /\ url = [i \in Slots |-> NoUrl]
  /\ attempt = [i \in Slots |-> 1]
  /\ status = [i \in Slots |-> "none"]
  /\ seen = [i \in Slots |-> 0]
  /\ metrics = NoMetrics
  /\ failed = {}
  /\ sent = 0 /\ clash = FALSE /\ crash = "none"

Running == crash = "none"

Goto(from, to) == Running /\ pc = from /\ pc' = to

(* Request or Extract returns an error, or that there is nothing to do.    *)
End(from, c) == Goto(from, "ended") /\ code' = c

-----------------------------------------------------------------------------
(* Supervised.Request up to the cache.                                     *)
Refuse ==
  /\ End("request", IF job.sitedetail THEN "CONTENT_ID_GENERATION_FAILED"
                                      ELSE "DOMAIN_NOT_SUPPORTED")
  /\ UNCHANGED << job, pageVars, data, iteration, roundVars, visitVars, shared,
                  crash >>

Request ==
  /\ job.sitedetail
  /\ \/ job.cache = 1 /\ Goto("request", "cache") /\ UNCHANGED crawlTime
     \/ job.cache = 0 /\ Goto("request", "visit") /\ crawlTime' = 0
  /\ UNCHANGED << job, fromCache, page, extractVars, roundVars,
                  visitVars, shared, crash >>

Ttl == IF job.cacheTtl = 0 THEN DefaultTtl ELSE job.cacheTtl

(* Mutant of Expired: a job without a ttl takes any entry.                 *)
ExpiredByJobOnly(e) == job.cacheTtl > 0 /\ e.age >= job.cacheTtl

(* A negative ttl lets entries of any age through.                         *)
Expired(e) == Ttl > 0 /\ e.age >= Ttl

(* ReadDataFromCache: a lookup that fails or finds an entry that is too    *)
(* old leaves CrawlTime as it is; an empty entry sets it to now.           *)
CacheMiss ==
  /\ Goto("cache", "visit")
  /\ UNCHANGED << job, pageVars, extractVars, roundVars, visitVars, shared,
                  crash >>

ReadCache(e) ==
  /\ ~Expired(e)
  /\ IF e.full
       THEN /\ Goto("cache", "extract")
            /\ fromCache' = TRUE /\ page' = e.page /\ crawlTime' = e.age
       ELSE /\ Goto("cache", "visit")
            /\ crawlTime' = 0
            /\ UNCHANGED << fromCache, page >>
  /\ UNCHANGED << job, extractVars, roundVars, visitVars, shared, crash >>

(* VisitPage starts in each of the slots.                                  *)
StartVisits(slots, where) ==
  /\ at' = [i \in Slots |-> IF i \in slots THEN where ELSE "none"]
  /\ url' = [i \in Slots |-> NoUrl]
  /\ attempt' = [i \in Slots |-> 1]
  /\ status' = [i \in Slots |-> "none"]
  /\ seen' = [i \in Slots |-> 0]

VisitThePage ==
  /\ Goto("visit", "visiting")
  /\ StartVisits({0}, "test")
  /\ UNCHANGED << job, pageVars, extractVars, roundVars, shared, crash >>

(* DefaultValidateWebResponse of what VisitPage returned.                  *)
Readable == status[0] = "success" \/ (status[0] = "perm" /\ job.extractData = 1)

PageVisited ==
  /\ at[0] = "done"
  /\ page' = status[0]
  /\ IF Readable
       THEN Goto("visiting", "extract") /\ UNCHANGED code
       ELSE End("visiting", IF status[0] = "temp" THEN "HTTP_500_ERROR" ELSE NoCode)
  /\ UNCHANGED << job, fromCache, crawlTime, data, iteration, roundVars,
                  visitVars, shared, crash >>

-----------------------------------------------------------------------------
(* A goroutine of a round reads its request from the workflow: another     *)
(* source may have replaced Data since the round was counted.              *)
TakeUrl(i) ==
  /\ Running /\ at[i] = "spawned"
  /\ IF i <= Len(data.unresolved)
       THEN /\ at' = [at EXCEPT ![i] = "test"]
            /\ url' = [url EXCEPT ![i] = data.unresolved[i]]
            /\ UNCHANGED crash
       ELSE crash' = "index" /\ UNCHANGED << at, url >>
  /\ UNCHANGED << job, pc, pageVars, extractVars, roundVars, attempt, status,
                  seen, shared >>

ParamsOf(i) == IF i = 0 THEN job.page ELSE job.ajax

MaxAttempts(i) == IF ParamsOf(i).maxAttempts > 0 THEN ParamsOf(i).maxAttempts ELSE 3

(* Mutant of WhenVisited: a request that failed sends no answer.           *)
WhenVisitedSilent(i) ==
  IF i # 0 /\ status[i] = "success" THEN "answer" ELSE "done"

(* VisitPage returns: the goroutine of an ajax request goes on to the map  *)
(* of failures or to the channel.                                          *)
WhenVisited(i) ==
  CASE i = 0 -> "done"
    [] i # 0 /\ status[i] = "success" -> "answer"
    [] OTHER -> "mapping"

(* A request to Proxycloud is made on the first attempt, and after a       *)
(* temporary error unless the job says otherwise; then the loop only runs  *)
(* out of attempts.                                                        *)
Attempt(i) ==
  /\ Running /\ at[i] = "test"
  /\ \/ /\ attempt[i] > MaxAttempts(i)
        /\ at' = [at EXCEPT ![i] = WhenVisited(i)]
        /\ UNCHANGED << attempt, sent >>
     \/ /\ attempt[i] <= MaxAttempts(i)
        /\ \/ status[i] = "none"
           \/ status[i] = "temp" /\ ParamsOf(i).dontRetry = 0
        /\ at' = [at EXCEPT ![i] = "waiting"]
        /\ sent' = sent + 1
        /\ UNCHANGED attempt
     \/ /\ attempt[i] <= MaxAttempts(i)
        /\ status[i] = "temp" /\ ParamsOf(i).dontRetry = 1
        /\ attempt' = [attempt EXCEPT ![i] = @ + 1]
        /\ UNCHANGED << at, sent >>
  /\ UNCHANGED << job, pc, pageVars, extractVars, roundVars, url, status, seen,
                  metrics, failed, clash, crash >>

(* log.Fatalln: the domain of a page or of an ajax request that comes      *)
(* without one cannot be looked up, no request can be made of the payload, *)
(* or the size of the content it answers is no number.                     *)
LogFatal(i) ==
  /\ Running /\ at[i] = "waiting"
  /\ crash' = "exit"
  /\ UNCHANGED << job, pc, pageVars, extractVars, roundVars, visitVars, shared >>

(* fetchPage returns: an error and a timeout of the client are statuses.   *)
Answer(i) ==
  /\ Running /\ at[i] = "waiting"
  /\ \E s \in (IF i = 0 THEN Kinds ELSE AjaxKinds) : status' = [status EXCEPT ![i] = s]
  /\ at' = [at EXCEPT ![i] = "count"]
  /\ UNCHANGED << job, pc, pageVars, extractVars, roundVars, url, attempt, seen,
                  shared, crash >>

Counter(i) == IF attempt[i] = 1 THEN "url" ELSE "retry"

(* CollectProductMetrics on the metrics of the workflow, which the visits  *)
(* of a round share: the mutex around it is local to the call.             *)
BeginCount(i) ==
  /\ Running /\ at[i] = "count"
  /\ at' = [at EXCEPT ![i] = "counting"]
  /\ seen' = [seen EXCEPT ![i] = metrics[Counter(i)]]
  /\ UNCHANGED << job, pc, pageVars, extractVars, roundVars, url, attempt,
                  status, shared, crash >>

(* Mutant of Count: the first attempt is a retry as well.                  *)
CountTwice(i) == [metrics EXCEPT ![Counter(i)] = seen[i] + 1, !.retry = @ + 1]

Count(i) == [metrics EXCEPT ![Counter(i)] = seen[i] + 1]

(* Mutant of EndCount: the attempt that failed is not counted.              *)
EndCountUncounted(i) ==
  /\ Running /\ at[i] = "counting"
  /\ metrics' = Count(i)
  /\ seen' = [seen EXCEPT ![i] = 0]
  /\ at' = [at EXCEPT ![i] = IF status[i] = "temp" THEN "test" ELSE WhenVisited(i)]
  /\ UNCHANGED << job, pc, pageVars, extractVars, roundVars, url, attempt, status,
                  failed, sent, clash, crash >>

EndCount(i) ==
  /\ Running /\ at[i] = "counting"
  /\ metrics' = Count(i)
  /\ seen' = [seen EXCEPT ![i] = 0]
  /\ IF status[i] = "temp"
       THEN /\ attempt' = [attempt EXCEPT ![i] = @ + 1]
            /\ at' = [at EXCEPT ![i] = "test"]
       ELSE /\ at' = [at EXCEPT ![i] = WhenVisited(i)]
            /\ UNCHANGED attempt
  /\ UNCHANGED << job, pc, pageVars, extractVars, roundVars, url, status,
                  failed, sent, clash, crash >>

Writing == {i \in Ajax : at[i] = "inmap"}

(* The write of a failure to AjaxFailedStatusMap.  One that meets another  *)
(* ends the process if the runtime notices, and may lose an entry if not.  *)
BeginMap(i) ==
  /\ Running /\ at[i] = "mapping"
  /\ \/ /\ at' = [at EXCEPT ![i] = "inmap"]
        /\ clash' = (clash \/ Writing # {})
        /\ UNCHANGED crash
     \/ Writing # {} /\ crash' = "fatal" /\ UNCHANGED << at, clash >>
  /\ UNCHANGED << job, pc, pageVars, extractVars, roundVars, url, attempt, status,
                  seen, metrics, failed, sent >>

EndMap(i) ==
  /\ Running /\ at[i] = "inmap"
  /\ at' = [at EXCEPT ![i] = "answer"]
  /\ \/ failed' = failed \cup {url[i]}
     \/ clash /\ UNCHANGED failed
  /\ UNCHANGED << job, pc, pageVars, extractVars, roundVars, url, attempt, status,
                  seen, metrics, sent, clash, crash >>

(* The channel has room for every answer of the round.                     *)
SendAnswer(i) ==
  /\ Running /\ at[i] = "answer" /\ channel < round
  /\ channel' = channel + 1
  /\ at' = [at EXCEPT ![i] = "done"]
  /\ attempt' = [attempt EXCEPT ![i] = 1]
  /\ UNCHANGED << job, pc, pageVars, extractVars, round, received, url, status,
                  seen, shared, crash >>

Visit(i) ==
  \/ TakeUrl(i) \/ Attempt(i) \/ LogFatal(i) \/ Answer(i) \/ BeginCount(i)
  \/ EndCount(i) \/ BeginMap(i) \/ EndMap(i) \/ SendAnswer(i)

-----------------------------------------------------------------------------
(* The site, which does not change, forbids the extraction.                *)
Forbid ==
  /\ End("extract", "EXTRACTION_REFUSED") /\ iteration = 0
  /\ UNCHANGED << job, pageVars, data, iteration, roundVars, visitVars, shared,
                  crash >>

(* extractDataUsingWrapper up to its call.                                 *)
CallExtraction ==
  /\ Goto("extract", "calling")
  /\ data' = EmptyData
  /\ UNCHANGED << job, pageVars, iteration, code, roundVars, visitVars, shared,
                  crash >>

(* The answer is decoded into workflow.Data.                               *)
Decode ==
  \E s \in Unresolved[job], n \in 0..MaxProducts :
    data' = [unresolved |-> s, products |-> n]

CallFails ==
  /\ End("calling", IF iteration = 0 THEN "EXTRACTION_FAILED"
                                     ELSE "EXTRACTION_AJAX_FAILED")
  /\ Decode \/ UNCHANGED data
  /\ UNCHANGED << job, pageVars, iteration, roundVars, visitVars, shared, crash >>

LimitReached(n) == n >= MaxCycles

(* The answer may override the status of the page.  The first one starts   *)
(* the cycles with an empty map; each other one counts, even one that      *)
(* leaves nothing unresolved.                                              *)
CallReturns ==
  /\ IF iteration > 0 /\ LimitReached(iteration + 1)
       THEN End("calling", "EXTRACTION_MAX_CYCLES_EXCEEDED")
       ELSE Goto("calling", "cycle") /\ UNCHANGED code
  /\ Decode
  /\ page' \in {page} \cup Overrides
  /\ iteration' = iteration + 1
  /\ failed' = IF iteration = 0 THEN {} ELSE failed
  /\ UNCHANGED << job, fromCache, crawlTime, roundVars, visitVars,
                  metrics, sent, clash, crash >>

(* The loop ends: DefaultValidateExtractionResponse, then the validations  *)
(* of the pipeline, which may refuse the answer.                           *)
LeaveCycles ==
  /\ data.unresolved = << >>
  /\ \/ page = "temp" /\ End("cycle", "HTTP_500_ERROR") /\ UNCHANGED data
     \/ /\ page # "temp"
        /\ End("cycle", "VALIDATION_FAILED")
           \/ (Goto("cycle", "extracted") /\ UNCHANGED code)
        /\ data' = IF page = "perm" /\ job.extractData = 0
                     THEN [data EXCEPT !.products = 0] ELSE data
  /\ UNCHANGED << job, pageVars, iteration, roundVars, visitVars, shared, crash >>

EnterCycle ==
  /\ Goto("cycle", "spawn") /\ data.unresolved # << >>
  /\ UNCHANGED << job, pageVars, extractVars, roundVars, visitVars, shared, crash >>

(* The requests are counted, their channel made and a goroutine started    *)
(* for each.  Bound: the metrics are kept from the start of a round; what  *)
(* has been counted before only shifts them.                               *)
Spawn ==
  /\ Goto("spawn", "collect")
  /\ round' = Len(data.unresolved) /\ received' = 0 /\ channel' = 0
  /\ StartVisits(1..Len(data.unresolved), "spawned")
  /\ metrics' = NoMetrics /\ sent' = 0
  /\ UNCHANGED << job, pageVars, extractVars, failed, clash, crash >>

Collect ==
  /\ Goto("collect", "collect") /\ received < round /\ channel > 0
  /\ channel' = channel - 1 /\ received' = received + 1
  /\ UNCHANGED << job, pageVars, extractVars, round, visitVars, shared, crash >>

(* Mutant of CloseRound: one answer is not waited for.                     *)
CloseRoundEarly ==
  /\ Goto("collect", "extract") /\ received + 1 >= round
  /\ UNCHANGED << job, pageVars, extractVars, roundVars, visitVars, shared, crash >>

(* Every answer is there: the channel is closed.                           *)
CloseRound ==
  /\ Goto("collect", "extract") /\ received >= round
  /\ UNCHANGED << job, pageVars, extractVars, roundVars, visitVars, shared, crash >>

Source ==
  \/ Refuse \/ Request \/ CacheMiss \/ VisitThePage \/ PageVisited
  \/ Forbid \/ CallExtraction \/ CallFails \/ CallReturns \/ LeaveCycles
  \/ EnterCycle \/ Spawn \/ Collect \/ CloseRound
  \/ \E e \in Entries : ReadCache(e)

Step == Source \/ \E i \in Slots : Visit(i)

(* The source has its result, or the process has ended.                    *)
Finished == pc \in {"ended", "extracted"} \/ ~Running

Next == Step \/ (Finished /\ UNCHANGED vars)

Spec == Init /\ [][Next]_vars

-----------------------------------------------------------------------------
Lists == {<< >>} \cup (UNION {Unresolved[j] : j \in Jobs})

(* Every variable of the visits keeps its type.                            *)
TypeOK ==
  /\ job \in Jobs
  /\ pc \in {"request", "cache", "visit", "visiting", "extract", "calling", "cycle",
             "spawn", "collect", "extracted", "ended"}
  /\ fromCache \in BOOLEAN /\ clash \in BOOLEAN
  /\ page \in Kinds \cup {"none"}
  /\ crawlTime \in Nat \cup {NoTime}
  /\ data \in [unresolved : Lists, products : 0..MaxProducts]
  /\ iteration \in 0..MaxCycles
  /\ code \in {NoCode, "CONTENT_ID_GENERATION_FAILED", "DOMAIN_NOT_SUPPORTED",
               "HTTP_500_ERROR", "EXTRACTION_REFUSED", "EXTRACTION_FAILED",
               "EXTRACTION_AJAX_FAILED", "EXTRACTION_MAX_CYCLES_EXCEEDED",
               "VALIDATION_FAILED"}
  /\ round \in 0..MaxAjax /\ received \in 0..MaxAjax /\ channel \in 0..MaxAjax
  /\ at \in [Slots -> {"none", "spawned", "test", "waiting", "count", "counting",
                       "mapping", "inmap", "answer", "done"}]
  /\ url \in [Slots -> Urls \cup {NoUrl}]
  /\ attempt \in [Slots -> Nat \ {0}]
  /\ status \in [Slots -> Kinds \cup {"none"}]
  /\ seen \in [Slots -> Nat]
  /\ metrics \in [url : Nat, retry : Nat]
  /\ failed \subseteq Urls
  /\ sent \in Nat
  /\ crash \in {"none", "exit", "fatal", "index", "merge"}

(* "To make sure all responses are collected before proceeding to          *)
(* extraction" (wrapper.go:107): while the extraction runs again no        *)
(* goroutine of the round is left, no answer waits in its channel, and     *)
(* every request that failed is in AjaxFailedStatusMap, which the call     *)
(* carries, unless two writes to the map have met.                         *)
ExtractionSeesRound ==
  (pc \in {"extract", "calling"} /\ iteration > 0) =>
    /\ \A i \in Ajax : at[i] \in {"none", "done"}
    /\ channel = 0
    /\ clash \/ \A i \in Ajax :
         (at[i] = "done" /\ status[i] # "success") => url[i] \in failed

(* The visits of a round share the counters and lose updates, but never    *)
(* invent one: UrlCount and RetryCount, which the job statistics add up,   *)
(* are at most the requests made, although the loop of VisitPage also      *)
(* turns without one.                                                      *)
CountedAtMost == metrics.url + metrics.retry <= sent

(* A page served from the cache is younger than the ttl that applies and   *)
(* carries the time it was crawled at; any other has been visited by this  *)
(* task and does not pass for an older one.                                *)
ServesFreshPages ==
  /\ (fromCache /\ job.cacheTtl >= 0) =>
       crawlTime < (IF job.cacheTtl > 0 THEN job.cacheTtl ELSE DefaultTtl)
  /\ fromCache => crawlTime \in {e.age : e \in {f \in Entries : f.full}}
  /\ ~fromCache => crawlTime \in {0, NoTime}
  /\ (pc = "extract" /\ iteration = 0) => (fromCache <=> at[0] = "none")
=============================================================================
