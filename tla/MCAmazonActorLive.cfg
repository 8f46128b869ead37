SPECIFICATION FairSpec
CONSTANTS
  c1 = c1
  c2 = c2
  c3 = c3
  a1 = a1
  a2 = a2
  Callers <- LiveCallers
  Locales = {"us", "uk"}
  Asins <- MCAsins
  Tasks <- LiveTasks
  MaxItems = 2
  ReqCap = 1
  BatchCap = 1
  MaxRetry = 1
  Unsupported = "none"
PROPERTIES
  RequestsEnd
