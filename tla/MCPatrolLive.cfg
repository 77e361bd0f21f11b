SPECIFICATION FairSpec
CONSTANTS
  Objects = {o1}
  Scopes = {{}, {o9}}
  Issues = {k1}
  Members = {m1}
  MutationKeys = {x1}
  Workers = {w1}
  None = None
  MaxSource = 2
  MaxDay = 1
  Threshold = 1
  MaxPolicy = 2
PROPERTIES OrdersNoticed UnresolvedEscalate
