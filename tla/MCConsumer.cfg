SPECIFICATION FairSpec
CONSTANTS
  m1 = m1
  m2 = m2
  m3 = m3
  m4 = m4
  h1 = h1
  h2 = h2
  h3 = h3
  busy = busy
  Messages <- MCMessages
  Tasks <- MCTasks
  Malformed = {}
  Handlers <- MCHandlers
  Sites = {busy}
  Site <- MCSite
  PoolSize <- MCPoolSize
  Deployments <- MCDeployments
  NoMessage = NoMessage
  NoUrl = NoUrl
  NoSite = NoSite
INVARIANTS
  NothingLost
  ExecutedOnce
  SiteLimit
PROPERTIES
  EverythingSettles
