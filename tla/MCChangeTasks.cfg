\* One change, two workers whose claims can overlap, two requests in flight.
SPECIFICATION Spec
CONSTANTS
  Orders = {o1}
  Changes = {c1}
  Actors = {a1}
  UserKeys = {k1}
  Clients = {w1, w2}
  Calls = {i1, i2}
  None = None
  MaxVersion = 2
SYMMETRY Symmetry
INVARIANTS
  AuditAgrees
  AwaitingIsUntried
PROPERTIES
  AttemptsMonotone
  KeepsOutcome
