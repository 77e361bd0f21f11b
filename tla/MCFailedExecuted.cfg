\* A failed task whose change was executed: the answer of the apply is lost, and the
\* retry is refused before the receipt of the first execution is read.
SPECIFICATION Spec
CONSTANTS
  Orders = {o1}
  Changes = {c1}
  Actors = {a1}
  UserKeys = {}
  Clients = {w1}
  Calls = {i1}
  None = None
  MaxVersion = 1
INVARIANTS
  FailedDidNotExecute
