\* Two workers overlap after a lost lock connection; two managers retry.
SPECIFICATION FairSpec
CONSTANTS
  Workers = {w1, w2}
  None = None
  Jobs = {j1}
  Managers = {m1, m2}
  MaxRetries = 2
INVARIANTS
  RunsAccounted
  AnswerIsLast
PROPERTIES
  KeepsPromise
  JobsSettle
