--------------------------- MODULE FeedbackLinks ----------------------------
(***************************************************************************)
(* The links of a page that a discovery feeds back to the job server       *)
(* (discovery/links.go).  Products are looked up in rdstore by batches: a  *)
(* url whose domain the wrapper service does not tell is left out of its   *)
(* batch, and a batch whose lookup fails is left out.  One counter, index, *)
(* runs through the list of links beside the two loops over a batch.       *)
(***************************************************************************)
EXTENDS Integers, Sequences, FiniteSets, SequencesExt

CONSTANTS
  Links,         \* the urls that a page may link to
  BadUrls,       \* those that are no urls
  SitemapLinks,  \* the sitemaps
  ProductLinks,  \* the pages of products; the others are categories
  BatchSize,     \* 25 urls, 50 from 1500 links on
  LoadLimit      \* 200 links

ASSUME LinksAssumption ==
  /\ IsFiniteSet(Links)
  /\ BadUrls \subseteq Links
  /\ SitemapLinks \subseteq Links \ BadUrls
  /\ ProductLinks \subseteq Links \ (BadUrls \cup SitemapLinks)
  /\ BatchSize \in Nat \ {0} /\ LoadLimit \in Nat

(* What rdstore answers of a product: nothing, or one of its flags.        *)
Verdicts == {"missing", "discontinued", "discoverable", "indexed"}

(* The task's page, forcediscover and dont_crawl_categories.               *)
Pages ==
  [kind : {"product", "category", "sitemap"}, force : BOOLEAN,
   noCategories : BOOLEAN, links : SUBSET Links,
   verdict : [ProductLinks -> Verdicts]]

Categories == Links \ (BadUrls \cup SitemapLinks \cup ProductLinks)

(* classifyURL: a category is skipped on a sitemap or by the job's wish.   *)
Skipped(page) ==
  IF page.kind = "sitemap" \/ page.noCategories THEN Categories ELSE {}

Eligible(page, l) == page.verdict[l] # "indexed"

-----------------------------------------------------------------------------
NumBatches(ls) == (Len(ls) \div BatchSize) + 1

(* The positions in the list of the links of a batch, of those of a known  *)
(* domain, and of those whose products are to be fed back.                 *)
Batch(ls, i) == {p \in DOMAIN ls : (i - 1) * BatchSize < p /\ p <= i * BatchSize}

Named(ls, i, noDomain) == {p \in Batch(ls, i) : ls[p] \notin noDomain}

Refused(ls, i, noDomain) == Batch(ls, i) \ Named(ls, i, noDomain)

Found(ls, i, page, noDomain) == {p \in Named(ls, i, noDomain) : Eligible(page, ls[p])}

(* The lookup of an empty list is an error too.                            *)
Answered(ls, i, noDomain, failed) == Named(ls, i, noDomain) # {} /\ i \notin failed

(* The position that index stands at when the link at p is handled, which  *)
(* is after all refusals of the batch and its earlier links.               *)
Position(index, ls, i, noDomain, p) ==
  index + Cardinality(Refused(ls, i, noDomain))
        + Cardinality({q \in Named(ls, i, noDomain) : q <= p})

(* Mutant of LinkKept: index stays where the batch began.                  *)
LinkKeptFirst(index, ls, i, noDomain, p) ==
  ls[index + Cardinality(Refused(ls, i, noDomain)) + 1]

LinkKept(index, ls, i, noDomain, p) == ls[Position(index, ls, i, noDomain, p)]

(* One call of the function that BatchProcessItems is given.               *)
LookUpBatch(acc, ls, i, page, noDomain, failed) ==
  IF Answered(ls, i, noDomain, failed)
    THEN [index |-> acc.index + Cardinality(Batch(ls, i)),
          kept |-> acc.kept \cup {LinkKept(acc.index, ls, i, noDomain, p) :
                                     p \in Found(ls, i, page, noDomain)}]
    ELSE [acc EXCEPT !.index = @ + Cardinality(Refused(ls, i, noDomain))]

(* index, and the links kept, after each batch.                            *)
LookUps(ls, page, noDomain, failed) ==
  LET after[i \in 0..NumBatches(ls)] ==
        IF i = 0 THEN [index |-> 0, kept |-> {}]
        ELSE LookUpBatch(after[i - 1], ls, i, page, noDomain, failed)
  IN after

FilterProductLinks(ls, page, noDomain, failed) ==
  LookUps(ls, page, noDomain, failed)[NumBatches(ls)].kept

(* The links for which a lookup has answered that they are eligible.       *)
Verified(ls, page, noDomain, failed) ==
  {ls[p] : p \in UNION {Found(ls, i, page, noDomain) :
                          i \in {j \in 1..NumBatches(ls) : Answered(ls, j, noDomain, failed)}}}

ProductsOf(page) == page.links \cap ProductLinks

(* Sitemaps, categories that are not skipped, and products.                *)
Feedback(page, products) ==
  products \cup (page.links \ (BadUrls \cup ProductLinks \cup Skipped(page)))

(* Many links of a sitemap go to the job server without the task's answer. *)
LoadsDirectly(page, feedback) ==
  page.kind = "sitemap" /\ Cardinality(feedback) > LoadLimit
=============================================================================
