---------------------------- MODULE MCCrawlBatch ----------------------------
(* Small instances of CrawlBatch for TLC.                                  *)
EXTENDS CrawlBatch

CONSTANTS u1, u2, u3

MCUrls == {u1, u2, u3}

Outcome(status, translated, old) ==
  [status |-> status, translated |-> translated, oldVariations |-> old]

MCOutcomes ==
  {Outcome(1, TRUE, FALSE), Outcome(1, FALSE, TRUE), Outcome(0, FALSE, FALSE)}
=============================================================================
