\* One feed; statements may fail.
CONSTANTS
  FeedIds = {f1}
  Rpcs = {}
  Spawned = {s1}
  Urls = {u1}
  Documents = {{g1}}
  MaxErrors = 2
  ErrorCap = 2
  Concurrency = 1
  Flakes = {}
  DbMayFail = TRUE
  NoVal = NoVal
SPECIFICATION Spec
INVARIANT NotModifiedMeansStored
