\* A feed with one article.
CONSTANTS
  Ids = {i1}
  NoVal = NoVal
SPECIFICATION FairSpec
INVARIANT TypeOK
PROPERTY CountHeals
