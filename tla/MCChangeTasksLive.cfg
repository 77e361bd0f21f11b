\* Progress: one change, two workers, one request in flight; nobody else applies.
SPECIFICATION FairSpec
CONSTANTS
  Orders = {o1}
  Changes = {c1}
  Actors = {a1}
  UserKeys = {}
  Clients = {w1, w2}
  Calls = {i1}
  None = None
  MaxVersion = 2
PROPERTIES
  ClaimsEnd
  DecidedTasksSettle
