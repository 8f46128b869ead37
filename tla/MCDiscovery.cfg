SPECIFICATION DiscoverySpec
CONSTANTS
  t1 = t1
  d1 = d1
  s1 = s1
  s2 = s2
  p1 = p1
  p2 = p2
  p3 = p3
  cat = cat
  map = map
  bad = bad
  Tasks = {t1, d1}
  Realtime = {}
  Sent = {d1}
  Skus <- MCSkus
  NoSku = NoSku
  Marked = {s2}
  Crawls <- MCCrawls
  Links <- MCLinks
  BadUrls = {bad}
  SitemapLinks = {map}
  ProductLinks <- MCProductLinks
  BatchSize = 2
  LoadLimit = 2
  Discovered <- MCDiscovered
INVARIANTS
  OldOrNew
  FeedbackCounted
