SPECIFICATION LimitedSpec
CONSTANTS
  c1 = c1
  c2 = c2
  c3 = c3
  u1 = u1
  u2 = u2
  Callers <- MCCallers
  Urls <- MCUrls
  ReqCap = 2
  MaxRetry = 2
  Nobody = Nobody
INVARIANTS
  EachRequestInOnePlace
PROPERTIES
  KeepsPromise
  RequestsEnd
