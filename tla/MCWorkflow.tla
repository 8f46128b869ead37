----------------------------- MODULE MCWorkflow -----------------------------
(* Small instances of Workflow for TLC.                                    *)
EXTENDS Workflow

Job(pipeline, lists, modes, flags) ==
  [pipeline : {pipeline}, dataSources : lists, mergeMode : modes,
   extractData : {0, 1}, useSearchWrapper : {0},
   asRecrawl : flags, badTask : {FALSE}]

(* Every list of one source or two, a list of three and one unknown.       *)
MCLists ==
  {<< s >> : s \in SourceNames}
  \cup {l \in {<< s, t >> : s, t \in SourceNames} : l[1] # l[2]}
  \cup {<< >>, << "UNKNOWN" >>, << "M101", "DIFFBOT", "WRAPPER" >>}

Modes == {"CASCADE", "MERGE_ALL"}

SupervisedJobs ==
  UNION {Job(p, {<< >>}, {"CASCADE"}, BOOLEAN) : p \in SupervisedOnly}

OpenJobs ==
  UNION {Job(p, MCLists, {"CASCADE"}, {FALSE})
         \cup Job(p, {<< "WRAPPER", "UNSUPERVISED" >>, << "WRAPPER", "M101" >>},
                  {"MERGE_ALL"}, {FALSE}) :
           p \in {"crawl", "ondemand"}}

RealtimeJobs ==
  Job("realtimeapi", MCLists, {"CASCADE"}, {FALSE})
  \cup Job("webhooks", {<< >>, << "AMAZON", "WRAPPER" >>}, Modes, {FALSE})

BadTasks ==
  {[j EXCEPT !.badTask = TRUE] : j \in Job("ondemand", {<< >>}, {"CASCADE"}, {FALSE})}

SearchJobs ==
  {[j EXCEPT !.useSearchWrapper = 1] :
     j \in Job("realtimeapi", {<< >>, << "WRAPPER", "M101" >>}, Modes, {FALSE})}

MCJobs ==
  SupervisedJobs \cup OpenJobs \cup RealtimeJobs \cup SearchJobs \cup BadTasks

Product == [sitedetail |-> TRUE, allowedStatus |-> TRUE, wrapper |-> TRUE,
            isProductUrl |-> TRUE, isSearchUrl |-> FALSE, searchWrapper |-> FALSE,
            parentSku |-> TRUE, isAmazon |-> FALSE]

(* A product page and what may differ from it, one attribute or two.       *)
MCSites ==
  {Product,
   [Product EXCEPT !.sitedetail = FALSE],
   [Product EXCEPT !.allowedStatus = FALSE],
   [Product EXCEPT !.wrapper = FALSE],
   [Product EXCEPT !.isProductUrl = FALSE],
   [Product EXCEPT !.isProductUrl = FALSE, !.searchWrapper = TRUE],
   [Product EXCEPT !.isProductUrl = FALSE, !.isSearchUrl = TRUE],
   [Product EXCEPT !.parentSku = FALSE],
   [Product EXCEPT !.isAmazon = TRUE]}

=============================================================================
