\* Two workers overlap after a lost lock connection; calls outlive their callers.
SPECIFICATION FairSpec
CONSTANTS
  Workers = {w1, w2}
  None = None
  Notes = {n1}
INVARIANTS
  DeliveredOnce
  StatusTellsTruth
  AuditBalanced
PROPERTIES
  NotesSettle
