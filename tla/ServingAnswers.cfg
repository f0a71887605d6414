\* Two requests of any organisation, one worker, one promotion and one purge under
\* traffic.
SPECIFICATION Spec
CONSTANTS
  r1 = r1
  r2 = r2
  a1 = a1
  a2 = a2
  None = None
  NaN = NaN
  Raised = Raised
  Requests = {r1, r2}
  Policies <- AllPolicies
  Artefacts = {a1}
  Stage1 <- Decisions
  Raw2 = {50, 90}
  Usual = {80}
  Workers = 1
  MaxDeploys = 1
  MaxPurges = 1
INVARIANTS
  AnswersAreValid
  SecondNeverSwitches
  TextIsConsented
  PurgeTakesEffect
\* Every request may be answered and the operator idle.
CHECK_DEADLOCK FALSE
