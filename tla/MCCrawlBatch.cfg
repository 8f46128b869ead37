SPECIFICATION FairSpec
CONSTANTS
  u1 = u1
  u2 = u2
  u3 = u3
  Urls <- MCUrls
  MaxWorkers = 2
  JobTypes = {"recrawl", "ondemand_crawl", "discovery_crawl", "unheard_of"}
  Outcomes <- MCOutcomes
  NoUrl = NoUrl
  NoOutcome = NoOutcome
INVARIANTS
  EachTaskInOnePlace
  NoSenderWaits
  ReturnsEverything
  MapDeathsNeedTwo
PROPERTIES
  BatchReturns
  WorkersQuit
  OnlyForward
  KeepsPromise
