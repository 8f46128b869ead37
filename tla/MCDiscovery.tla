---------------------------- MODULE MCDiscovery -----------------------------
(* Small instances of Discovery for TLC, beside a recrawl of the page.     *)
EXTENDS Discovery, TLC

CONSTANTS t1, d1, s1, s2, p1, p2, p3, cat, map, bad

MCSkus == {s1, s2}

P(s, a) == [id |-> s, active |-> a]

Doubtful == << P(s1, "zero"), P(NoSku, "positive"), P(s1, "positive") >>

Both == << P(s2, "positive"), P(s1, "none") >>

MCCrawls == {Doubtful, Both}

MCLinks == {p1, p2, p3, cat, map, bad}

MCProductLinks == {p1, p2, p3}

APage(kind, force, ls) ==
  [kind |-> kind, force |-> force, noCategories |-> FALSE, links |-> ls,
   verdict |-> (p1 :> "indexed" @@ p2 :> "missing" @@ p3 :> "discontinued")]

(* A product page, discovered by force or not, a category page and a       *)
(* sitemap with links of every kind.  rdstore may hold what is crawled of  *)
(* the product, the other sku, both or none; the recrawl finds either.     *)
MCDiscovered ==
  [page : {APage("product", FALSE, {}), APage("product", TRUE, {p1}),
           APage("category", FALSE, {p1, p2, p3, cat, bad}),
           [APage("sitemap", FALSE, {p1, p3, cat, map}) EXCEPT !.noCategories = TRUE]},
   crawl : {Doubtful}]
=============================================================================
