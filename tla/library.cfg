\* One item that may be deleted and inserted again, two clients, a limit of 0
\* (taken for 1) or 2 days.
CONSTANTS
  Ids = {i1, i2}
  Guids = {g1}
  Clients = {c1, c2}
  Bookmarks = {"starred"}
  Limits = {0, 2}
  DefaultDays = 1
  MaxAge = 3
  NoVal = NoVal
SPECIFICATION FairSpec
INVARIANTS
  TypeOK
  PromisesKept
PROPERTIES
  SweepObeysALimit
  ImplementsShelf
  ExpiredArticlesGo
