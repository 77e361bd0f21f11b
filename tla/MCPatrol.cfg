SPECIFICATION Spec
CONSTANTS
  Objects = {o1}
  Scopes = {{}, {o9}}
  Issues = {k1}
  Members = {m1}
  MutationKeys = {x1, x2}
  Workers = {w1, w2}
  None = None
  MaxSource = 2
  MaxDay = 1
  Threshold = 1
  MaxPolicy = 1
SYMMETRY Symmetry
INVARIANTS EvidenceTrue ClosedOnEvidence EscalationsEarned
PROPERTIES SourceAdvances DecisionsAsSeen
