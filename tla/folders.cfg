\* Fewer folders than a name could get, more feeds than a page; one request of
\* many statements among those of one.
CONSTANTS
  n1 = n1
  u1 = u1
  u2 = u2
  FolderIds = {g1, g2}
  FeedIds = {1, 2}
  Names = {n1}
  Urls = {u1, u2}
  Titles = {0, 1}
  Handlers = {h1}
  Documents <- MCDocuments
  PageSize = 1
  DbMayFail = TRUE
  Root = Root
  Blank = Blank
  NoVal = NoVal
SPECIFICATION FairSpec
INVARIANTS
  TypeOK
  EveryEntryAccountedFor
  ImportMakesNoDuplicateFolders
  OnlyLateWritesDangle
  ExportFaithful
  ExportReadsBack
PROPERTIES
  FeedsAreSubscriptions
  RequestsEnd
