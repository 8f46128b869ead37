SPECIFICATION Spec
CONSTANTS
  c1 = c1
  c2 = c2
  c3 = c3
  a1 = a1
  a2 = a2
  Callers <- MCCallers
  Locales = {"us", "uk"}
  Asins <- MCAsins
  Tasks <- MCTasks
  MaxItems = 2
  ReqCap = 2
  BatchCap = 1
  MaxRetry = 1
  Unsupported = "none"
SYMMETRY CallerSymmetry
INVARIANTS
  EachRequestInOnePlace
  BatchesAreCallable
PROPERTIES
  FirstComeFirstServed
  KeepsPromise
