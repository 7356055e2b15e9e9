\* One article, one client; a limit of 0 or 2 days.
CONSTANTS
  Ids = {i1}
  Guids = {g1}
  Clients = {c1}
  Bookmarks = {"starred"}
  Limits = {0, 2}
  DefaultDays = 1
  MaxAge = 3
  NoVal = NoVal
SPECIFICATION Spec
PROPERTY ZeroKeepsForever
