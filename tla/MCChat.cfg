\* Two workers overlap after a lost lock connection; two tool calls outlive their run.
SPECIFICATION FairSpec
CONSTANTS
  Workers = {w1, w2}
  None = None
  Owners = {o1}
  Questions = {q1}
  MaxCalls = 2
INVARIANTS
  AnswersShowEvidence
PROPERTIES
  KeepsPromise
  QuestionsEnd
