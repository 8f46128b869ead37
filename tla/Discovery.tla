----------------------------- MODULE Discovery ------------------------------
(***************************************************************************)
(* The discovery of a page: PostCrawlOps of the discovery pipeline, with   *)
(* the links it feeds back (FeedbackLinks), DiscoveryActions               *)
(* (data/discovery.go) and the goroutine that sends the old variations of  *)
(* a product page through RecrawlActions (Recrawl), beside recrawls of the *)
(* same page.  New variations are written to mongo, from where the skus    *)
(* workers bring them to rdstore.                                          *)
(***************************************************************************)
EXTENDS Recrawl, FeedbackLinks

CONSTANT Discovered    \* the pages, each with what its extraction delivers

ASSUME DiscoveredAssumption ==
  Discovered \subseteq [page : Pages, crawl : Crawls]

VARIABLES
  input,      \* the page of each discovery
  at,         \* where it is
  found,      \* its workflow.Data.Products
  links,      \* its workflow.Data.Links, and what has been fed back of them
  fault,      \* the code it fails with
  queue,      \* the links the job server has been given
  mongo,      \* the skus in the crawl's collection
  inserted,   \* history: those that each discovery has written
  lookup      \* history: the products just kept, and those just verified

discoveryVars == << input, at, found, links, fault, queue, mongo, inserted, lookup >>
allVars == << vars, discoveryVars >>

NoLookup == [kept |-> {}, verified |-> {}, complete |-> FALSE]

DiscoveryInit ==
  /\ Init
  /\ input \in [Sent -> Discovered]
  /\ at = [d \in Sent |-> "read"]
  /\ found = [d \in Sent |-> << >>]
  /\ links = [d \in Sent |-> {}]
  /\ fault = [d \in Sent |-> ""]
  /\ queue = {} /\ mongo = {}
  /\ inserted = [d \in Sent |-> {}]
  /\ lookup = [d \in Sent |-> NoLookup]

Page(d) == input[d].page

GoesTo(d, from, to) == at[d] = from /\ at' = Set(at, d, to)

(* The executor reads rdstore for a product page only; a product that is   *)
(* not there is no failure.                                                *)
ReadProduct(d) ==
  /\ GoesTo(d, "read", "crawl")
  /\ IF Page(d).kind = "product" THEN FindVariations(d) ELSE UNCHANGED << read, alone >>
  /\ UNCHANGED << job, pc, products, status, request, messages, next, code, known,
                  rdstore, streams, written, input, found, links, fault, queue, mongo,
                  inserted, lookup >>

(* What is read of the page: a sitemap has no products, and of a page that *)
(* is gone they are extracted if the job says so.                          *)
CrawlPage(d) ==
  /\ GoesTo(d, "crawl", "filter")
  /\ \E s \in {"success", "perm"} : status' = Set(status, d, s)
  /\ found' = Set(found, d, IF Page(d).kind = "sitemap" THEN << >> ELSE input[d].crawl)
  /\ UNCHANGED << job, pc, read, products, request, messages, next, code, known,
                  rdstore, streams, written, alone, input, links, fault, queue, mongo,
                  inserted, lookup >>

(* The product links that are fed back, in whatever order the map yields   *)
(* them and whatever fails.                                                *)
LookUpProducts(d, ls, noDomain, failed) ==
  IF Page(d).force
    THEN [kept |-> Range(ls), verified |-> {}, complete |-> FALSE]
    ELSE [kept |-> FilterProductLinks(ls, Page(d), noDomain, failed),
          verified |-> Verified(ls, Page(d), noDomain, failed),
          complete |-> noDomain = {} /\ failed = {}]

(* LoadTasksToJobServer loads by batches; one that fails is only logged.   *)
Load(d, feedback) ==
  /\ \E loaded \in SUBSET feedback : queue' = queue \cup loaded
  /\ links' = Set(links, d, {})

Keep(d, feedback) == links' = Set(links, d, feedback) /\ UNCHANGED queue

(* FilterJobServerFeedbackLinks.                                           *)
FilterLinks(d) ==
  /\ GoesTo(d, "filter", "split")
  /\ \E ls \in SetToSeqs(ProductsOf(Page(d))), noDomain \in SUBSET ProductsOf(Page(d)) :
       \E failed \in SUBSET (1..NumBatches(ls)) :
         LET result == LookUpProducts(d, ls, noDomain, failed)
             feedback == Feedback(Page(d), result.kept)
         IN /\ lookup' = Set(lookup, d, result)
            /\ IF LoadsDirectly(Page(d), feedback) THEN Load(d, feedback)
                                                   ELSE Keep(d, feedback)
  /\ UNCHANGED << vars, input, found, fault, mongo, inserted >>

Splits(page) == page.kind = "product" /\ ~page.force

(* Without rdstore data every variation is new, and kept as it came.       *)
New(d) == IF read[d] = {} THEN found[d] ELSE NewVariations(found[d], read[d])

Old(d) == IF read[d] = {} THEN << >> ELSE OldVariations(found[d], read[d])

(* Mutant of LeaveNew: the old variations are sent and kept.               *)
LeaveNewAndOld(d) == UNCHANGED found

LeaveNew(d) == found' = Set(found, d, New(d))

(* The history of the lookup ends with FilterJobServerFeedbackLinks.        *)
Forget(d) == lookup' = Set(lookup, d, NoLookup)

(* sendOldVariatonsToRecrawl: the goroutine takes a copy of the workflow.  *)
SplitVariations(d) ==
  /\ found[d] # << >> /\ Splits(Page(d))
  /\ GoesTo(d, "split", "mongo") /\ Forget(d)
  /\ IF Old(d) = << >> THEN UNCHANGED << pc, products >>
     ELSE Goto(d, "idle", "prepare") /\ products' = Set(products, d, Old(d))
  /\ LeaveNew(d)
  /\ UNCHANGED << job, read, status, request, messages, next, code, known, rdstore,
                  streams, written, alone, input, links, fault, queue, mongo, inserted >>

KeepTogether(d) ==
  /\ found[d] # << >> /\ ~Splits(Page(d))
  /\ GoesTo(d, "split", "mongo") /\ Forget(d)
  /\ UNCHANGED << vars, input, found, links, fault, queue, mongo, inserted >>

NothingFound(d) ==
  /\ found[d] = << >>
  /\ GoesTo(d, "split", "answer") /\ Forget(d)
  /\ UNCHANGED << vars, input, found, links, fault, queue, mongo, inserted >>

(* WriteCrawlDataToMongo: a record that cannot be written is counted.      *)
WriteMongo(d) ==
  /\ GoesTo(d, "mongo", "answer")
  /\ \E done \in SUBSET (Ids(found[d]) \ {NoSku}) :
       /\ mongo' = mongo \cup done
       /\ inserted' = Set(inserted, d, done)
  /\ UNCHANGED << vars, input, found, links, fault, queue, lookup >>

(* There is no connection, or the job server does not tell the job.        *)
MongoFails(d) ==
  /\ GoesTo(d, "mongo", "answer")
  /\ \E c \in {"MONGO_CONNECTION_MISSING", "MONGO_WRITE_FAILED"} :
       fault' = Set(fault, d, c)
  /\ UNCHANGED << vars, input, found, links, queue, mongo, inserted, lookup >>

(* The batch feeds back the links of a task that has not failed.           *)
Answer(d) ==
  /\ GoesTo(d, "answer", "done")
  /\ queue' = IF fault[d] = "" THEN queue \cup links[d] ELSE queue
  /\ UNCHANGED << vars, input, found, links, fault, mongo, inserted, lookup >>

InDiscovery(d) == at[d] \notin {"read", "done", "dead"}

(* The process ends with the discovery and the goroutine it has started,   *)
(* or with the goroutine alone when the discovery has been answered.       *)
Kill(d) ==
  /\ InDiscovery(d) /\ at' = Set(at, d, "dead")
  /\ pc' = IF InProgress(d) THEN Set(pc, d, "dead") ELSE pc
  /\ UNCHANGED << taskVars, code, known, rdstore, streams, written, alone, input,
                  found, links, fault, queue, mongo, inserted, lookup >>

KillRecrawl(t) ==
  /\ t \in Sent => at[t] = "done"
  /\ Die(t) /\ UNCHANGED discoveryVars

(* The skus workers bring to rdstore what is in mongo.                     *)
Index(s) == s \in mongo /\ Discover(s) /\ UNCHANGED discoveryVars

DiscoveryStep(d) ==
  \/ ReadProduct(d) \/ CrawlPage(d) \/ FilterLinks(d) \/ SplitVariations(d)
  \/ KeepTogether(d) \/ NothingFound(d) \/ WriteMongo(d) \/ MongoFails(d) \/ Answer(d)
  \/ Kill(d)

DiscoveryTerminated ==
  /\ \A d \in Sent : at[d] \in {"done", "dead"}
  /\ Terminated /\ UNCHANGED discoveryVars

DiscoveryNext ==
  \/ \E d \in Sent : DiscoveryStep(d)
  \/ \E t \in Tasks : (Step(t) /\ UNCHANGED discoveryVars) \/ KillRecrawl(t)
  \/ \E s \in Skus : Index(s)
  \/ DiscoveryTerminated

DiscoverySpec == DiscoveryInit /\ [][DiscoveryNext]_allVars

-----------------------------------------------------------------------------
(* A variation that rdstore held when the discovery of its product page    *)
(* read it is never inserted as a new one, and only such variations are    *)
(* announced by the recrawl that the discovery starts, whatever fails and  *)
(* whatever happens to rdstore meanwhile; an answer without a fault leaves *)
(* no variation, crawled or held, to neither of the two.                   *)
OldOrNew ==
  \A d \in {e \in Sent : Splits(Page(e))} :
    /\ inserted[d] \cap read[d] = {}
    /\ {raw[d][k].sku : k \in DOMAIN raw[d]} \subseteq read[d]
    /\ at[d] = "done" /\ fault[d] = "" /\ input[d].crawl # << >> =>
         (Ids(found[d]) \cup Ids(products[d])) \ {NoSku}
           = (Ids(input[d].crawl) \cup read[d]) \ {NoSku}

(* However lookups and domains fail, as many products are fed back as were *)
(* verified to be eligible; when nothing fails they are the eligible ones. *)
FeedbackCounted ==
  \A d \in Sent : at[d] = "split" /\ ~Page(d).force =>
    /\ Cardinality(lookup[d].kept) = Cardinality(lookup[d].verified)
    /\ lookup[d].complete =>
         lookup[d].kept = {l \in ProductsOf(Page(d)) : Eligible(Page(d), l)}

(* What links.go says: a product is fed back when the lookup in rdstore    *)
(* has verified that it is eligible.                                       *)
FeedbackIsEligible ==
  \A d \in Sent : ~Page(d).force => lookup[d].kept \subseteq lookup[d].verified
=============================================================================
