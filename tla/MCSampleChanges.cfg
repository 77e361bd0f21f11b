\* Two plans for one order, two managers, two keys, two concurrent requests.
SPECIFICATION ChangesSpec
CONSTANTS
  Orders = {o1}
  Changes = {c1, c2}
  Actors = {a1, a2}
  UserKeys = {k1, k2}
  Clients = {}
  Calls = {i1, i2}
  None = None
  MaxVersion = 2
SYMMETRY Symmetry
INVARIANTS
  LedgerAgrees
  KeysNameOneExecution
  OutboxComplete
