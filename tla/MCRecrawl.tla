----------------------------- MODULE MCRecrawl ------------------------------
(* Small instances of Recrawl for TLC: a recrawl and a realtime task.      *)
EXTENDS Recrawl

CONSTANTS t1, t2, s1, s2

MCTasks == {t1, t2}

MCSkus == {s1, s2}

P(s, a) == [id |-> s, active |-> a]

(* Nothing, one product, one twice and one without an _id, both.           *)
MCCrawls ==
  {<< >>, << P(s1, "positive") >>,
   << P(s1, "negative"), P(NoSku, "positive"), P(s1, "positive") >>,
   << P(s2, "zero"), P(s1, "none") >>}
=============================================================================
