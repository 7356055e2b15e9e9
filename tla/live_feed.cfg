\* One feed, a publisher that changes its document, vanishes and comes back.
CONSTANTS
  FeedIds = {f1}
  Rpcs = {}
  Spawned = {s1}
  Urls = {u1}
  Documents = {{g1}, {g2}}
  MaxErrors = 2
  ErrorCap = 2
  Concurrency = 1
  Flakes = {}
  DbMayFail = FALSE
  NoVal = NoVal
SPECIFICATION FairSpec
INVARIANT CachedDocumentAccountedFor
PROPERTIES
  DeadFeedsDoNotLinger
  ArticlesArrive
