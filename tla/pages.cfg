\* Three days, one of which may have two articles: they fill a page of two, not
\* one of three.
CONSTANTS
  Ids = {0, 3, 4, 6}
  Day <- MCDay
  Requested = {0, 9}
  DefaultPageSize = 2
  MaxPageSize = 3
  NoToken = NoToken
SPECIFICATION FairSpec
INVARIANTS
  TypeOK
  NewestSkipsNothing
  OldestRepeatsNothing
  OldestSkipsOnlyOfADay
PROPERTIES
  PagesMoveOn
  ScrollEnds
