\* Two orders of two nodes, one template, four writes.
SPECIFICATION Spec
CONSTANTS
  Nodes = {n1, n2}
  None = None
  OrderIds = {o1, o2}
  Templates = {t1}
  MaxKeys = 4
  Projects <- MCProjects
  Reports <- MCReports
  Days = {1, 3}
  Dues = {2, 12}
  FileLimit = 1
  MaxVersion = 5
SYMMETRY Symmetry
INVARIANTS
  EveryWriteHasItsKey
  AcceptanceEarned
  RecoveryEvidenceFresh
  ForecastFeasible
  RiskHonest
CHECK_DEADLOCK FALSE
