\* The same pool and disk, without purge: nothing makes a decision end.
SPECIFICATION FairSpec
CONSTANTS
  r1 = r1
  r2 = r2
  a1 = a1
  a2 = a2
  None = None
  NaN = NaN
  Raised = Raised
  Requests = {r1, r2}
  Policies <- Opened
  Artefacts = {a1}
  Stage1 <- OneDecision
  Raw2 = {90}
  Usual = {80}
  Workers = 1
  MaxDeploys = 1
  MaxPurges = 0
PROPERTIES
  NeverBlocked
\* Every request may be answered and the operator idle.
CHECK_DEADLOCK FALSE
