\* A list of one page and a half.
CONSTANTS
  Ids = {1, 2}
  PageSize = 1
  MaxRows = 2
  NoVal = NoVal
SPECIFICATION Spec
INVARIANTS
  TypeOK
  LoadingIsReal
  UnreadNotHidden
  ReadRowsExplained
