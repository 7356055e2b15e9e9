\* Two articles, one to a page; a list of two rows.
CONSTANTS
  Ids = {1, 2}
  PageSize = 1
  MaxRows = 2
  NoVal = NoVal
SPECIFICATION Spec
INVARIANT NoArticleTwice
