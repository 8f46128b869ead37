SPECIFICATION Spec
CONSTANTS
  Jobs <- MCJobs
  Sites <- MCSites
INVARIANTS
  StatusMatchesReason
  PostOpsOnce
  PublishedTrue
  ProductsOfNamedSource
  VerdictIsFinal
  PipelinePromises
