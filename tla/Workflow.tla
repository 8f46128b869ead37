------------------------------ MODULE Workflow ------------------------------
(***************************************************************************)
(* One task from CrawlJobWorker through PipelineExecutor                   *)
(* (pipeline/executor.go): the stages of the executor, the hooks of the    *)
(* seven pipelines, the cascade over the data sources (merge.InitiateSeq), *)
(* FailWorkflow, TransformError and the goroutine with which an ondemand   *)
(* job publishes its outcome.                                              *)
(*                                                                         *)
(* Services are nondeterministic: a page, an RPC answer or a database      *)
(* error is any of the kinds the code tells apart.  Products are known by  *)
(* the source they come from.  The concurrent mode MERGE_ALL is one step   *)
(* here, with the products of any source and no error.                     *)
(***************************************************************************)
EXTENDS Integers, Sequences

CONSTANTS
  Jobs,     \* the jobs a task may belong to, with the task's parameters
  Sites     \* what wrapper-service may answer about the url of the task

Pipelines == {"testwrapper", "crawl", "recrawl", "realtimeapi", "webhooks",
              "wrapperqa", "ondemand", "discovery"}

SourceNames == {"WRAPPER", "UNSUPERVISED", "DIFFBOT", "M101", "AMAZON"}

(* A name that is none of these leaves the cascade without a source.       *)
Names == SourceNames \cup {"UNKNOWN"}

(* None of these is ever sent data_sources or a merge_mode.                *)
SupervisedOnly == {"recrawl", "discovery", "testwrapper", "wrapperqa"}

(* The realtime pipeline serves both realtimeapi and webhooks jobs.        *)
Realtime == {"realtimeapi", "webhooks"}

ASSUME JobsAssumption ==
  /\ Jobs \subseteq [pipeline : Pipelines, dataSources : Seq(Names),
                     mergeMode : {"CASCADE", "MERGE_ALL"},
                     extractData : {0, 1}, useSearchWrapper : {0, 1},
                     asRecrawl : BOOLEAN, badTask : BOOLEAN]
  /\ \A job \in Jobs : job.pipeline \in SupervisedOnly =>
       job.dataSources = << >> /\ job.mergeMode = "CASCADE"

SiteType == [sitedetail : BOOLEAN, allowedStatus : BOOLEAN, wrapper : BOOLEAN,
             isProductUrl : BOOLEAN, isSearchUrl : BOOLEAN,
             searchWrapper : BOOLEAN, parentSku : BOOLEAN, isAmazon : BOOLEAN]

ASSUME SitesAssumption == Sites \subseteq SiteType

VARIABLES
  job,                 \* the job and its parameters
  pc,                  \* the stage of the executor
  domainInfo,          \* a set: empty while DomainInfo is nil
  dataSources,         \* JobParams.DataSources
  source,              \* the index of the cascade's loop
  result,              \* the code and the error the loop leaves
  webResponse,         \* the kind of the page's status
  data,                \* workflow.Data
  status,
  failureType,         \* << >>, or the reason in a sequence of one
  preCrawlOpsFailed,
  postCrawlOpsCalled,
  postCalls,           \* how often PostCrawlOps was called
  actions,             \* the goroutine OnDemandCrawlActions
  published,           \* the status it published: << >> or one
  crash

vars == << job, pc, domainInfo, dataSources, source, result, webResponse, data,
           status, failureType, preCrawlOpsFailed, postCrawlOpsCalled,
           postCalls, actions, published, crash >>

(* What FailWorkflow and PostCrawlOps may change, and what only the        *)
(* cascade does.                                                           *)
outcome == << status, failureType, postCrawlOpsCalled, postCalls, actions >>

cascade == << source, result, webResponse, data >>

Site == CHOOSE site \in domainInfo : TRUE

(* products: the source they come from; links: whether there are any.      *)
EmptyData == [status |-> 0, code |-> "", products |-> "none", engine |-> "",
              links |-> FALSE, extractionDataSource |-> ""]

Ok == [code |-> "", err |-> FALSE]

Error(code) == [code |-> code, err |-> TRUE]

(* The codes that end the cascade.                                         *)
Verdicts == {"NOT_PRODUCT_PAGE", "DOES_NOT_EXIST"}

(* GetExtractionMode: the sources joined, WRAPPER when there is none.      *)
IsSupervised == dataSources \in {<< >>, << "WRAPPER" >>}

At(stage) == crash = "none" /\ pc = stage

-----------------------------------------------------------------------------
Init ==
  /\ job \in Jobs
  /\ pc = "params"
  /\ domainInfo = {}
  /\ dataSources = job.dataSources
  /\ source = 1
  /\ result = Ok
  /\ webResponse = "none"
  /\ data = EmptyData
  /\ status = 0
  /\ failureType = << >>
  /\ preCrawlOpsFailed = FALSE
  /\ postCrawlOpsCalled = FALSE
  /\ postCalls = 0
  /\ actions = "none"
  /\ published = << >>
  /\ crash = "none"

(* Data of a source other than the wrapper takes no part in the actions    *)
(* that follow the crawl.                                                  *)
SkipsActions == data.extractionDataSource \notin {"WRAPPER", ""}

(* PostCrawlOps of the ondemand pipeline: only data of the wrapper, or of  *)
(* no source, is handed to OnDemandCrawlActions.                           *)
StartActions ==
  actions' = IF SkipsActions THEN actions ELSE "spawned"

(* Mutant of FailWorkflow: PostCrawlOpsCalled is not looked at.            *)
FailCallingAgain(reason, preFailed) ==
  /\ status' = 0
  /\ failureType' = reason
  /\ IF job.pipeline = "ondemand" /\ ~preFailed
       THEN /\ StartActions
            /\ postCalls' = postCalls + 1
            /\ postCrawlOpsCalled' = TRUE
       ELSE UNCHANGED << postCrawlOpsCalled, postCalls, actions >>

(* FailWorkflow.  Only the ondemand pipeline has its PostCrawlOps called   *)
(* on a failure; there it never fails itself.                              *)
FailWorkflow(reason, preFailed) ==
  /\ status' = 0
  /\ failureType' = reason
  /\ IF job.pipeline = "ondemand" /\ ~postCrawlOpsCalled /\ ~preFailed
       THEN /\ StartActions
            /\ postCalls' = postCalls + 1
            /\ postCrawlOpsCalled' = TRUE
       ELSE UNCHANGED << postCrawlOpsCalled, postCalls, actions >>

Fail(code) ==
  /\ FailWorkflow(<< code >>, preCrawlOpsFailed)
  /\ pc' = "report"

Continue(stage) ==
  /\ pc' = stage
  /\ UNCHANGED outcome

-----------------------------------------------------------------------------
(* 2. ParseJobParams                                                       *)
ParseJobParams ==
  /\ At("params")
  /\ Continue("preops") \/ Fail("JOBPARAMS_READERR")
  /\ UNCHANGED << job, domainInfo, dataSources, cascade, preCrawlOpsFailed,
                  published, crash >>

(* 3. PreCrawlOps: an ondemand task may carry a line number out of range.  *)
PreCrawlOps ==
  /\ At("preops")
  /\ IF job.pipeline = "ondemand" /\ job.badTask
       THEN /\ preCrawlOpsFailed' = TRUE
            /\ FailWorkflow(<< "BAD_INPUT" >>, TRUE)
            /\ pc' = "report"
       ELSE Continue("domaininfo") /\ UNCHANGED preCrawlOpsFailed
  /\ UNCHANGED << job, domainInfo, dataSources, cascade, published, crash >>

(* The data source map that redis keeps for realtimeapi and webhooks.      *)
SourcesInRedis == {<< "WRAPPER" >>, << "M101" >>, << "WRAPPER", "AMAZON" >>}

(* 4, 5. GetCompleteDomainInfo, which returns an empty DomainInfo with its *)
(* error, and handleMissingKeysFromInput.                                  *)
RetrieveDomainInfo ==
  /\ At("domaininfo")
  /\ \E site \in Sites : domainInfo' = {site}
  /\ \/ Fail("RETRIEVE_DOMAIN_INFO_FAIL") /\ UNCHANGED dataSources
     \/ /\ Continue("validate")
        /\ IF dataSources # << >>
             THEN UNCHANGED dataSources
             ELSE dataSources' \in IF job.pipeline \in Realtime
                                     THEN SourcesInRedis
                                     ELSE {<< "WRAPPER" >>}
  /\ UNCHANGED << job, cascade, preCrawlOpsFailed, published, crash >>

(* ValidateDomainInfoForSupervised                                         *)
SupervisedCode ==
  IF ~IsSupervised THEN ""
  ELSE IF ~Site.sitedetail THEN "NO_SITEDETAIL"
  ELSE IF ~Site.allowedStatus THEN "SITE_STATUS_CHECK_FAILED"
  ELSE ""

(* ValidateDomainInfo of the realtime pipeline.                            *)
RealtimeCode ==
  IF ~Site.sitedetail THEN ""
  ELSE IF IsSupervised /\ job.useSearchWrapper = 1
    THEN CASE ~Site.isProductUrl /\ Site.searchWrapper /\ ~Site.isSearchUrl ->
                "NOT_SEARCH_PAGE"
           [] Site.isSearchUrl /\ ~Site.searchWrapper ->
                "DOMAININFO_SEARCH_WRAPPERID_EMPTY"
           [] OTHER -> ""
    ELSE IF Site.isProductUrl THEN "" ELSE "NOT_PRODUCT_PAGE"

(* 6. ValidateDomainInfo                                                   *)
ValidateDomainInfo ==
  /\ At("validate")
  /\ LET code == IF job.pipeline \in Realtime THEN RealtimeCode
                                              ELSE SupervisedCode
     IN IF code = "" THEN Continue("rdstore") ELSE Fail(code)
  /\ UNCHANGED << job, domainInfo, dataSources, cascade, preCrawlOpsFailed,
                  published, crash >>

ShouldReadFromRdstore ==
  \/ job.pipeline \in {"recrawl", "discovery", "wrapperqa"}
  \/ job.pipeline = "testwrapper" /\ job.asRecrawl

(* 9. The rdstore read, and then the choice of the merge mode.             *)
ReadRdstore ==
  /\ At("rdstore")
  /\ \/ Continue(IF job.mergeMode = "MERGE_ALL" THEN "merge_all" ELSE "request")
     \/ /\ ShouldReadFromRdstore
        /\ Site.isProductUrl /\ Site.parentSku
        /\ \/ Fail("RDSTORE_READ_FAIL")
           \/ job.pipeline = "recrawl" /\ Fail("RDSTORE_DATA_MISSING_EARLY")
  /\ UNCHANGED << job, domainInfo, dataSources, cascade, preCrawlOpsFailed,
                  published, crash >>
-----------------------------------------------------------------------------
(* The kinds of http status the code tells apart: a page that was found, a *)
(* temporary error, a permanent one, and any other.                        *)
Pages == {"success", "temp", "perm", "other"}

(* What one call of Request or Extract may leave behind.                   *)
Now == [canExtract |-> FALSE, result |-> Ok, data |-> data, page |-> webResponse,
        status |-> status, isProductUrl |-> Site.isProductUrl]

Failed(code) == [Now EXCEPT !.result = Error(code)]

(* ValidateWebResponse of the pipelines, on a page that VisitPage fetched. *)
Visited(page) ==
  LET visit == [Now EXCEPT !.page = page]
  IN CASE page = "success" -> [visit EXCEPT !.canExtract = TRUE]
       [] page = "temp"    -> [visit EXCEPT !.result = Error("HTTP_500_ERROR")]
       [] page = "perm" /\ job.extractData = 1 ->
            [visit EXCEPT !.canExtract = TRUE]
       [] /\ page = "perm" /\ job.extractData = 0
          /\ job.pipeline \in Realtime \cup {"ondemand"} ->
            [visit EXCEPT !.result = Error("DOES_NOT_EXIST")]
       [] OTHER -> visit

(* A sitemap's links are the result; one that cannot be parsed fails       *)
(* without a code.                                                         *)
ReadablePages == {page \in Pages : Visited(page).canExtract}

SitemapRead(page, some) ==
  [Visited(page) EXCEPT !.canExtract = FALSE, !.status = 1,
     !.data = [data EXCEPT !.status = 1, !.links = some]]

SitemapsRead ==
  {SitemapRead(page, some) : page \in ReadablePages, some \in BOOLEAN}

SitemapsBroken ==
  {[Visited(page) EXCEPT !.result = Error("")] : page \in ReadablePages}

Sitemaps ==
  IF job.pipeline = "discovery" THEN SitemapsRead \cup SitemapsBroken ELSE {}

(* Supervised.Request: the page comes from the cache or is visited.        *)
CachedPages == {[Now EXCEPT !.canExtract = TRUE, !.page = page] : page \in Pages}

VisitedPages == {Visited(page) : page \in Pages}

WrapperRequests ==
  IF ~Site.sitedetail
    THEN {Failed("DOMAIN_NOT_SUPPORTED")}
    ELSE {Failed("CONTENT_ID_GENERATION_FAILED")}
         \cup CachedPages \cup VisitedPages \cup Sitemaps

(* Unsupervised.Request, which clears Data before its call.                *)
UnsupervisedRequests ==
  {Failed("CONTENT_ID_GENERATION_FAILED"),
   [Failed("UNSUPERVISED_REQUEST_FAILED") EXCEPT !.data = EmptyData],
   [Now EXCEPT !.canExtract = TRUE, !.data = EmptyData]}

(* Diffbot.Request: Data is filled, but canExtract stays false.            *)
DiffbotCodes == {"", "DIFFBOT_EXTRACTION_FAILED"}

DiffbotAnswer(s, p, r) ==
  [Now EXCEPT !.data = [data EXCEPT !.status = s, !.products = p,
                                    !.engine = "DIFFBOT"],
              !.result = r]

DiffbotRefusals ==
  {DiffbotAnswer(0, p, Error(code)) : p \in {data.products, "DIFFBOT"}, code \in DiffbotCodes}

DiffbotAnswers ==
  DiffbotRefusals \cup {DiffbotAnswer(1, p, Ok) : p \in {data.products, "DIFFBOT"}}

DiffbotRequests == {Failed(code) : code \in DiffbotCodes} \cup DiffbotAnswers

(* M101.Request and Amazon.Request: products, none, or an error.           *)
ApiRequests(name, emptyCode) ==
  {Failed("API_REQUEST_FAILED"),
   [Now EXCEPT !.canExtract = TRUE, !.data.products = name, !.data.status = 1],
   [Failed(emptyCode) EXCEPT !.data.products = "none", !.data.status = 0,
                             !.data.code = emptyCode]}

Requests(name) ==
  CASE name = "WRAPPER"      -> WrapperRequests
    [] name = "UNSUPERVISED" -> UnsupervisedRequests
    [] name = "DIFFBOT"      -> DiffbotRequests
    [] name = "M101"         -> ApiRequests("M101", "NO_PRODUCT_FROM_SOURCE")
    [] name = "AMAZON"       -> ApiRequests("AMAZON", "AMAZON_NO_PRODUCTS_ERR")
    [] OTHER                 -> {}

-----------------------------------------------------------------------------
(* The checks of extractDataUsingWrapper that come before it clears Data:  *)
(* the code returned is one that an earlier source left there, if any.     *)
WrapperRefusal ==
  Failed(IF data.status = 0 /\ data.code # "" THEN data.code
         ELSE IF Site.wrapper THEN "EXTRACTION_SITE_STATUS_CHECK_FAILED"
         ELSE "EXTRACTION_WRAPPER_EMPTY")

WrapperErrors ==
  {[Failed(IF code = "" THEN "EXTRACTION_FAILED" ELSE code)
      EXCEPT !.data = [EmptyData EXCEPT !.code = code]] :
     code \in {"", "NOT_PRODUCT_PAGE", "WRAPPER_CODE"}}

(* Mutant of WrapperAnswers: Data is not cleared before the call.          *)
WrapperAnswersOnTop ==
  {[Now EXCEPT !.page = page, !.isProductUrl = isProduct,
               !.data = [data EXCEPT !.status = 1, !.products = p,
                                     !.engine = "WRAPPER", !.links = some]] :
     page \in Pages, isProduct \in BOOLEAN, p \in {data.products, "WRAPPER"},
     some \in BOOLEAN}

(* extractWithWrapper answered, perhaps with another status for the page   *)
(* and with another opinion on whether the url is a product's.             *)
WrapperAnswer(page, isProduct, p, some) ==
  [Now EXCEPT !.page = page, !.isProductUrl = isProduct,
              !.data = [EmptyData EXCEPT !.status = 1, !.products = p,
                                         !.engine = "WRAPPER", !.links = some]]

WrapperAnswers ==
  {WrapperAnswer(page, isProduct, p, some) :
     page \in Pages, isProduct \in BOOLEAN, p \in {"none", "WRAPPER"},
     some \in BOOLEAN}

(* Products may all be discontinued: then none of them is active.          *)
NoActiveProds(a) ==
  IF a.isProductUrl /\ a.page = "success" /\ ~Site.isAmazon
    THEN IF a.data.products = "none" THEN {TRUE} ELSE {TRUE, FALSE}
    ELSE {FALSE}

But(a, code) == [a EXCEPT !.result = Error(code)]

WithoutProducts(a) == [a EXCEPT !.data.products = "none"]

ProdsChecked(a) ==
  {IF none THEN But(a, "EXTRACTION_FAILED_NOPRODS") ELSE a : none \in NoActiveProds(a)}

(* ValidateExtractionResponse of the pipelines.                            *)
Validated(a) ==
  CASE job.pipeline = "recrawl" /\ a.page = "success" ->
         {WithoutProducts(But(a, "REDIRECT_SKU_ERROR"))} \cup ProdsChecked(a)
    [] job.pipeline \in {"crawl", "testwrapper", "discovery"} -> ProdsChecked(a)
    [] job.pipeline \in Realtime ->
         {CASE a.page = "perm" -> But(a, "DOES_NOT_EXIST")
            [] a.page # "perm" /\ a.data.products = "none" /\ ~Site.isSearchUrl ->
                 But(a, "NOT_PRODUCT_PAGE")
            [] OTHER -> [a EXCEPT !.status = 1]}
    [] OTHER -> {a}

(* ExtractDataForAjaxRequests may fail, with Data cleared again or not;    *)
(* then DefaultValidateExtractionResponse.                                 *)
WrapperOutcomes(a) ==
  {[But(a, "EXTRACTION_AJAX_FAILED") EXCEPT !.data = EmptyData],
   But(a, "EXTRACTION_MAX_CYCLES_EXCEEDED")}
  \cup (CASE a.page = "temp" -> {But(a, "HTTP_500_ERROR")}
          [] a.page = "perm" /\ job.extractData = 0 -> Validated(WithoutProducts(a))
          [] OTHER -> Validated(a))

WrapperExtracts ==
  {WrapperRefusal}
  \cup (IF Site.wrapper
          THEN WrapperErrors \cup UNION {WrapperOutcomes(a) : a \in WrapperAnswers}
          ELSE {})

(* Unsupervised.Extract: nothing looks at whether there are any products.  *)
UnsupervisedData(s, code, p) ==
  [EmptyData EXCEPT !.status = s, !.code = code, !.products = p,
                    !.engine = "UNSUPERVISED"]

UnsupervisedError(code, p) ==
  [Failed(code) EXCEPT !.data = UnsupervisedData(0, code, p)]

UnsupervisedCodes == {"", "NOT_PRODUCT_PAGE"}

UnsupervisedErrors ==
  {UnsupervisedError(code, p) :
     code \in UnsupervisedCodes, p \in {"none", "UNSUPERVISED"}}

UnsupervisedAnswer(p) == [Now EXCEPT !.data = UnsupervisedData(1, "", p)]

UnsupervisedAnswers ==
  {UnsupervisedAnswer(p) : p \in {"none", "UNSUPERVISED"}}

UnsupervisedExtracts ==
  {[Failed("UNSUPERVISED_RPC_ERR")
      EXCEPT !.data = [EmptyData EXCEPT !.code = "UNSUPERVISED_RPC_ERR"]]}
  \cup UnsupervisedErrors \cup UnsupervisedAnswers

Extracts(name) ==
  CASE name = "WRAPPER"      -> WrapperExtracts
    [] name = "UNSUPERVISED" -> UnsupervisedExtracts
    [] OTHER                 -> {Now}

-----------------------------------------------------------------------------
IsVerdict(r) == r.err /\ r.code \in Verdicts

Assign(o) ==
  /\ result' = o.result
  /\ webResponse' = o.page
  /\ status' = o.status
  /\ domainInfo' = {[Site EXCEPT !.isProductUrl = o.isProductUrl]}

(* Mutant of EndWithVerdict: Data keeps what the source left there.        *)
EndWithoutCode(o) ==
  /\ IsVerdict(o.result)
  /\ data' = o.data
  /\ pc' = "merged"
  /\ UNCHANGED source

(* The code of a verdict is copied to Data, and the cascade ends.          *)
EndWithVerdict(o) ==
  /\ IsVerdict(o.result)
  /\ data' = [o.data EXCEPT !.code = o.result.code, !.status = 0]
  /\ pc' = "merged"
  /\ UNCHANGED source

NextSource(o) ==
  /\ data' = o.data
  /\ source' = source + 1
  /\ pc' = IF source < Len(dataSources) THEN "request" ELSE "merged"

(* InitiateSeq: one call of Request.                                       *)
Request ==
  /\ At("request")
  /\ \E o \in Requests(dataSources[source]) :
       /\ Assign(o)
       /\ \/ EndWithVerdict(o)
          \/ /\ ~o.result.err /\ o.canExtract
             /\ data' = o.data
             /\ pc' = "extract"
             /\ UNCHANGED source
          \/ /\ ~IsVerdict(o.result)
             /\ o.result.err \/ ~o.canExtract
             /\ NextSource(o)
  /\ UNCHANGED << job, dataSources, failureType, preCrawlOpsFailed,
                  postCrawlOpsCalled, postCalls, actions, published, crash >>

(* InitiateSeq: one call of Extract.  The first products end the cascade.  *)
Extract ==
  /\ At("extract")
  /\ LET name == dataSources[source]
     IN \E o \in Extracts(name) :
          /\ Assign(o)
          /\ \/ EndWithVerdict(o)
             \/ /\ ~o.result.err /\ o.data.products # "none"
                /\ data' = [o.data EXCEPT !.extractionDataSource = name]
                /\ pc' = "merged"
                /\ UNCHANGED source
             \/ /\ ~IsVerdict(o.result)
                /\ o.result.err \/ o.data.products = "none"
                /\ NextSource(o)
  /\ UNCHANGED << job, dataSources, failureType, preCrawlOpsFailed,
                  postCrawlOpsCalled, postCalls, actions, published, crash >>

(* A source may end the process while it is asked: a name that is none of  *)
(* the sources is a nil pointer, Amazon.Request indexes an empty answer,   *)
(* VisitPage calls log.Fatalln, the answer of an rpc has another shape     *)
(* than the code asserts, the goroutines of an ajax round write to one map *)
(* and those of MERGE_ALL to one workflow.                                 *)
SourceDies ==
  /\ crash = "none"
  /\ pc \in {"request", "extract", "merge_all"}
  /\ crash' = "source"
  /\ UNCHANGED << job, pc, domainInfo, dataSources, cascade, outcome,
                  preCrawlOpsFailed, published >>

(* InitiateConcurrently returns neither a code nor an error, and names no  *)
(* source.  Nothing after it reads the code that a source left in Data.    *)
MergeAll ==
  /\ At("merge_all")
  /\ data' \in [status : {0, 1}, code : {""},
                products : {"none"} \cup {dataSources[i] : i \in DOMAIN dataSources},
                engine : {"", "WRAPPER", "UNSUPERVISED", "DIFFBOT"}, links : BOOLEAN,
                extractionDataSource : {""}]
  /\ webResponse' \in Pages \cup {"none"}
  /\ Continue("merged")
  /\ UNCHANGED << job, domainInfo, dataSources, source, result,
                  preCrawlOpsFailed, published, crash >>

(* Mutant of EndMerge: the failed task goes on.                            *)
EndMergeGoingOn ==
  /\ At("merged")
  /\ status' = 1
  /\ pc' = "postops"
  /\ failureType' = IF result.err THEN << result.code >> ELSE failureType
  /\ UNCHANGED << job, domainInfo, dataSources, cascade, preCrawlOpsFailed,
                  postCrawlOpsCalled, postCalls, actions, published, crash >>

(* 10. The cascade's last error, or the success it ended with.             *)
EndMerge ==
  /\ At("merged")
  /\ \/ result.err /\ Fail(result.code)
     \/ /\ ~result.err
        /\ status' = 1
        /\ pc' = "postops"
        /\ UNCHANGED << failureType, postCrawlOpsCalled, postCalls, actions >>
  /\ UNCHANGED << job, domainInfo, dataSources, cascade, preCrawlOpsFailed,
                  published, crash >>

-----------------------------------------------------------------------------
(* The actions after the crawl: the codes they may fail with, "" for none, *)
(* and what they may leave in Data.                                        *)
ActionCodes ==
  CASE job.pipeline = "recrawl" /\ ~SkipsActions ->
         {"", "RDSTORE_DATA_MISSING", "RDSTORE_WRITE_FAILED", "ETL_PUBLISH_FAILED"}
    [] job.pipeline = "testwrapper" /\ ~SkipsActions /\ data.products # "none" ->
         {"", "VALIDATE_DATA_FAIL"}
    [] job.pipeline = "discovery" /\ ~SkipsActions /\ data.products # "none" ->
         {"", "MONGO_CONNECTION_MISSING", "MONGO_WRITE_FAILED"}
    [] OTHER -> {""}

KeepsOldVariations ==
  /\ ~SkipsActions
  /\ job.pipeline = "recrawl" \/ (job.pipeline = "testwrapper" /\ job.asRecrawl)

(* recrawl keeps the old variations, and so may testwrapper; discovery     *)
(* keeps the new ones.                                                     *)
ActionProducts ==
  {data.products}
  \cup (IF KeepsOldVariations THEN {"none", "rdstore"} ELSE {})
  \cup (IF job.pipeline = "discovery" /\ ~SkipsActions THEN {"none"} ELSE {})

(* Mutant of ActionLinks: a recrawl keeps its links.                       *)
ActionLinksKept == {data.links}

(* recrawl drops every link, discovery filters them.                       *)
ActionLinks ==
  CASE job.pipeline = "recrawl" /\ ~SkipsActions   -> {FALSE}
    [] job.pipeline = "discovery" /\ ~SkipsActions -> BOOLEAN
    [] OTHER -> {data.links}

Left(p, some) == [data EXCEPT !.products = p, !.links = some]

ActionData == {Left(p, some) : p \in ActionProducts, some \in ActionLinks}

(* testwrapper reads the page again, from the cache, for its report.       *)
PagesLeft ==
  {webResponse} \cup (IF job.pipeline = "testwrapper" /\ ~SkipsActions THEN Pages ELSE {})

(* 14. PostCrawlOps, called before PostCrawlOpsCalled is set.              *)
PostCrawlOps ==
  /\ At("postops")
  /\ postCalls' = postCalls + 1
  /\ postCrawlOpsCalled' = TRUE
  /\ IF job.pipeline = "ondemand" THEN StartActions ELSE UNCHANGED actions
  /\ data' \in ActionData
  /\ webResponse' \in PagesLeft
  /\ pc' = "report"
  /\ \E code \in ActionCodes :
       IF code = "" THEN UNCHANGED << status, failureType >>
                    ELSE status' = 0 /\ failureType' = << code >>
  /\ UNCHANGED << job, domainInfo, dataSources, source, result,
                  preCrawlOpsFailed, published, crash >>

RealtimeReason(reason) ==
  CASE reason = << "HTTP_500_ERROR" >>           -> << "UNREACHABLE" >>
    [] reason = << "EXTRACTION_WRAPPER_EMPTY" >> -> << "DOMAIN_NOT_SUPPORTED" >>
    [] OTHER -> reason

RdstoreTimeout(reason) ==
  CASE reason = << "RDSTORE_READ_FAIL" >>    -> << "RDSTORE_READ_TIMEOUT" >>
    [] reason = << "RDSTORE_WRITE_FAILED" >> -> << "RDSTORE_WRITE_TIMEOUT" >>
    [] OTHER -> reason

(* TransformError: the reasons a job is told for a code of the crawler.    *)
TransformError(reason) ==
  CASE job.pipeline \in Realtime ->
         {<< "REALTIME" >> \o RealtimeReason(reason)}
    [] job.pipeline = "crawl" -> {reason}
    [] OTHER ->
         {reason, << "EXTRACTION_RPC_TIMEOUT" >>, << "SITE_STATUS_CHECK_FAILED" >>,
          IF job.pipeline = "recrawl" THEN RdstoreTimeout(reason) ELSE reason}

(* CrawlJobWorker: the reason is transformed, and FailWorkflow is called   *)
(* once more with the new one.                                             *)
Report ==
  /\ At("report")
  /\ IF failureType = << >>
       THEN UNCHANGED outcome
       ELSE \E reason \in TransformError(failureType) :
              FailWorkflow(reason, preCrawlOpsFailed)
  /\ pc' = "sent"
  /\ UNCHANGED << job, domainInfo, dataSources, cascade, preCrawlOpsFailed,
                  published, crash >>

-----------------------------------------------------------------------------
(* Mutant of PublishedStatus: the products of any engine are a success.    *)
PublishedStatusAnyEngine ==
  IF data.products = "none" THEN << "EXTRACTION FAILED" >>
    ELSE IF status = 1 THEN << "SUCCESS" >> ELSE failureType

PublishedStatus ==
  IF data.engine \notin {"", "WRAPPER"} \/ data.products = "none"
    THEN << "EXTRACTION FAILED" >>
    ELSE IF status = 1 THEN << "SUCCESS" >> ELSE failureType

(* OnDemandCrawlActions reads the workflow while its worker goes on.  The  *)
(* publication may fail; without a DomainInfo the goroutine panics, unless *)
(* the task's line number stops it first.                                  *)
OnDemandCrawlActions ==
  /\ crash = "none"
  /\ actions = "spawned"
  /\ \/ /\ domainInfo = {} /\ ~job.badTask
        /\ crash' = "panic"
        /\ UNCHANGED << actions, published >>
     \/ /\ domainInfo = {} /\ job.badTask
        /\ actions' = "done"
        /\ UNCHANGED << published, crash >>
     \/ /\ domainInfo # {}
        /\ actions' = "done"
        /\ published' \in {PublishedStatus, << "LOST" >>}
        /\ UNCHANGED crash
  /\ UNCHANGED << job, pc, domainInfo, dataSources, cascade, status, failureType,
                  postCrawlOpsCalled, postCalls, preCrawlOpsFailed >>

Executor ==
  \/ ParseJobParams
  \/ PreCrawlOps
  \/ RetrieveDomainInfo
  \/ ValidateDomainInfo
  \/ ReadRdstore
  \/ Request
  \/ SourceDies
  \/ Extract
  \/ MergeAll
  \/ EndMerge
  \/ PostCrawlOps
  \/ Report

(* The workflow is sent and its goroutine, if any, has ended.              *)
Terminated ==
  /\ crash # "none" \/ (pc = "sent" /\ actions # "spawned")
  /\ UNCHANGED vars

Next == Executor \/ OnDemandCrawlActions \/ Terminated

Spec == Init /\ [][Next]_vars

-----------------------------------------------------------------------------
ExecutorCodes ==
  {"JOBPARAMS_READERR", "BAD_INPUT", "RETRIEVE_DOMAIN_INFO_FAIL", "NO_SITEDETAIL",
   "SITE_STATUS_CHECK_FAILED", "NOT_SEARCH_PAGE",
   "DOMAININFO_SEARCH_WRAPPERID_EMPTY", "RDSTORE_READ_FAIL",
   "RDSTORE_DATA_MISSING_EARLY", "RDSTORE_DATA_MISSING", "RDSTORE_WRITE_FAILED",
   "ETL_PUBLISH_FAILED", "VALIDATE_DATA_FAIL", "MONGO_CONNECTION_MISSING",
   "MONGO_WRITE_FAILED"}

SourceCodes ==
  {"", "DOMAIN_NOT_SUPPORTED", "CONTENT_ID_GENERATION_FAILED", "HTTP_500_ERROR",
   "DOES_NOT_EXIST", "NOT_PRODUCT_PAGE", "UNSUPERVISED_REQUEST_FAILED",
   "UNSUPERVISED_RPC_ERR", "DIFFBOT_EXTRACTION_FAILED", "API_REQUEST_FAILED",
   "NO_PRODUCT_FROM_SOURCE", "AMAZON_NO_PRODUCTS_ERR", "WRAPPER_CODE",
   "EXTRACTION_FAILED", "EXTRACTION_WRAPPER_EMPTY",
   "EXTRACTION_SITE_STATUS_CHECK_FAILED", "EXTRACTION_AJAX_FAILED",
   "EXTRACTION_MAX_CYCLES_EXCEEDED", "EXTRACTION_FAILED_NOPRODS",
   "REDIRECT_SKU_ERROR"}

(* The reasons that only TransformError gives.                             *)
TransformedCodes ==
  {"REALTIME", "UNREACHABLE", "EXTRACTION_RPC_TIMEOUT", "RDSTORE_READ_TIMEOUT",
   "RDSTORE_WRITE_TIMEOUT"}

Codes == ExecutorCodes \cup SourceCodes \cup TransformedCodes

DataType ==
  [status : {0, 1}, code : SourceCodes,
   products : Names \cup {"none", "rdstore"},
   engine : {"", "WRAPPER", "UNSUPERVISED", "DIFFBOT"}, links : BOOLEAN,
   extractionDataSource : Names \cup {""}]

TypeOK ==
  /\ job \in Jobs
  /\ pc \in {"params", "preops", "domaininfo", "validate", "rdstore", "request",
             "extract", "merge_all", "merged", "postops", "report", "sent"}
  /\ domainInfo = {} \/ \E site \in SiteType : domainInfo = {site}
  /\ dataSources \in Seq(Names)
  /\ source \in 1..(Len(dataSources) + 1)
  /\ result \in [code : SourceCodes, err : BOOLEAN]
  /\ webResponse \in Pages \cup {"none"}
  /\ data \in DataType
  /\ status \in {0, 1}
  /\ failureType \in Seq(Codes)
  /\ preCrawlOpsFailed \in BOOLEAN
  /\ postCrawlOpsCalled \in BOOLEAN
  /\ postCalls \in Nat
  /\ actions \in {"none", "spawned", "done"}
  /\ published \in Seq(Codes \cup {"SUCCESS", "EXTRACTION FAILED", "LOST"})
  /\ crash \in {"none", "panic", "source"}

(* What a worker sends has succeeded or carries a reason, never both and   *)
(* never neither: four functions write Status, two write FailureType.      *)
StatusMatchesReason ==
  pc \in {"report", "sent"} => (status = 1 <=> failureType = << >>)

(* PostCrawlOps is called at most once for a task, although FailWorkflow   *)
(* is entered up to twice; and exactly once when the task succeeds.        *)
PostOpsOnce ==
  /\ postCalls <= 1
  /\ pc \in {"report", "sent"} /\ status = 1 => postCalls = 1

(* An ondemand customer is told SUCCESS only of a task whose report to the *)
(* job server is a success too, although the goroutine that publishes runs *)
(* beside the worker that reports; and after a cascade, whatever its       *)
(* sources left in Data, only of products of the wrapper.  (MERGE_ALL      *)
(* names no source: there the products may be those of any.)               *)
PublishedTrue ==
  published = << "SUCCESS" >> =>
    /\ pc \in {"report", "sent"}
    /\ status = 1
    /\ failureType = << >>
    /\ data.products # "none"
    /\ job.mergeMode = "CASCADE" => data.products = "WRAPPER"

(* The data source reported for products is the one they came from, after  *)
(* any number of sources that left something in Data and then failed.      *)
ProductsOfNamedSource ==
  pc \in {"merged", "postops"} /\ data.extractionDataSource # "" =>
    /\ data.products = data.extractionDataSource
    /\ ~result.err

(* Once a source has said NOT_PRODUCT_PAGE or DOES_NOT_EXIST no other is   *)
(* asked, and the task fails with that code.                               *)
VerdictIsFinal ==
  IsVerdict(result) =>
    /\ pc \notin {"request", "extract", "postops"}
    /\ pc = "merged" => data.status = 0 /\ data.code = result.code
    /\ pc = "report" => failureType = << result.code >>

(* A task that succeeded on the wrapper alone, on a product page of a site *)
(* other than Amazon, has products, whatever its pipeline checks.          *)
ProductPageHasProducts ==
  /\ pc = "postops" /\ dataSources = << "WRAPPER" >> /\ job.mergeMode = "CASCADE"
  /\ job.pipeline \in {"recrawl", "crawl", "testwrapper"}
  /\ webResponse = "success" /\ Site.isProductUrl /\ ~Site.isAmazon
  => data.products # "none"

(* A recrawl that succeeds feeds no links back to the job server.          *)
RecrawlSendsNoLinks ==
  pc \in {"report", "sent"} /\ job.pipeline = "recrawl" /\ status = 1
    => ~data.links

(* An ondemand task whose line number can be read and whose data is the    *)
(* wrapper's or nobody's has been published, or its publication has been   *)
(* tried, when its worker and its goroutine are done.                      *)
OnDemandPublishes ==
  /\ pc = "sent" /\ actions # "spawned" /\ crash = "none"
  /\ job.pipeline = "ondemand" /\ ~job.badTask /\ ~SkipsActions
  => published # << >>

(* What the hooks of the pipelines promise whoever sent the task, at the   *)
(* three places where a task leaves them.                                  *)
PipelinePromises ==
  /\ ProductPageHasProducts
  /\ RecrawlSendsNoLinks
  /\ OnDemandPublishes
=============================================================================
