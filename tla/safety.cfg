\* The cycle, a manual and a background refresh race over one feed.
CONSTANTS
  FeedIds = {f1}
  Rpcs = {r1}
  Spawned = {s1}
  Urls = {u1}
  Documents = {{g1}}
  MaxErrors = 2
  ErrorCap = 2
  Concurrency = 1
  Flakes = {"permanent", "backoff", "transient"}
  DbMayFail = FALSE
  NoVal = NoVal
SPECIFICATION Spec
INVARIANTS
  TypeOK
  RemovalNeedsMaxErrors
  TransientNeverRemoves
PROPERTY ImplementsSubscription
VIEW SafetyView
