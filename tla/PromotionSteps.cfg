\* Every mix of trainings, promotions, rollbacks and interruptions.
SPECIFICATION Spec
CONSTANTS
  far = far
  fair = fair
  good = good
  None = None
  Versions <- ThreeVersions
  Measures <- Reports
  Baseline <- Heuristic
INVARIANTS
  OnlyApproved
  SafeToInterrupt
  NoRegression
  NoDrift
  ReportsDescribe
