SPECIFICATION Spec
CONSTANTS
  u1 = u1
  u2 = u2
  u3 = u3
  Urls <- MCUrls
  MaxWorkers = 2
  JobTypes = {"discovery_crawl"}
  Outcomes <- MCOutcomes
  NoUrl = NoUrl
  NoOutcome = NoOutcome
INVARIANTS
  ParallelTasksAreSafe
