SPECIFICATION MergeFairSpec
CONSTANTS
  u1 = u1
  u2 = u2
  Urls <- MCUrls
  Unresolved <- MCUnresolved
  MaxAjax = 2
  MaxProducts = 1
  Overrides = {"temp"}
  Jobs <- MCJobs
  Entries <- MCEntries
  DefaultTtl = 8
  MaxCycles = 3
  NoUrl = NoUrl
  NoTime = NoTime
  Rivals <- MCRivals
INVARIANTS
  ExtractionSeesRound
  CountedAtMost
  ServesFreshPages
  RacesNeedTwo
PROPERTIES
  MergedIsFinal
  MergeEnds
  WindsDown
