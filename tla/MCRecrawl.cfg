SPECIFICATION Spec
CONSTANTS
  t1 = t1
  t2 = t2
  s1 = s1
  s2 = s2
  Tasks <- MCTasks
  Realtime = {t2}
  Sent = {}
  Skus <- MCSkus
  NoSku = NoSku
  Marked = {s2}
  Crawls <- MCCrawls
INVARIANTS
  EverySkuReported
  AnnouncedAfterWrite
  StoresAgree
