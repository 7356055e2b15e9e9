\* One folder and one feed.
CONSTANTS
  n1 = n1
  u1 = u1
  u2 = u2
  FolderIds = {g1}
  FeedIds = {1}
  Names = {n1}
  Urls = {u1, u2}
  Titles = {0}
  Handlers = {h1}
  Documents <- MCDocuments
  PageSize = 1
  DbMayFail = FALSE
  Root = Root
  Blank = Blank
  NoVal = NoVal
SPECIFICATION Spec
INVARIANT NoFeedInDeletedFolder
