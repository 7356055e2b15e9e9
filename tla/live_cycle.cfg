\* Two feeds share one slot; publishers may answer 403 and 429.  What a document
\* contains does not matter to who waits for whom.
CONSTANTS
  FeedIds = {f1, f2}
  Rpcs = {}
  Spawned = {}
  Urls = {u1, u2}
  Documents = {{}}
  MaxErrors = 1
  ErrorCap = 1
  Concurrency = 1
  Flakes = {"backoff"}
  DbMayFail = FALSE
  NoVal = NoVal
SPECIFICATION FairSubscribedSpec
INVARIANT SlotsHeldByRunners
PROPERTIES
  StopDrains
  DueFeedGetsItsTurn
