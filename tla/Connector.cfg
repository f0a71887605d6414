\* Two processes, two runs, one correction before, between or while they read.
SPECIFICATION Spec
CONSTANTS
  LastDay = 3
  Window = 1
  ApiKeys = {"key1", "key2"}
  Users = {"user"}
  WorkspaceOf <- MCWorkspaceOf
  Names = {"now", "before", "mystery"}
  ModelOf <- MCModelOf
  Unknown = Unknown
  Price <- MCPrice
  Modes = {TRUE, FALSE}
  Initials <- FewInitials
  Amounts = {0, 3}
  s1 = s1
  s2 = s2
  Syncs = {s1, s2}
  MaxStarts = 2
  MaxChanges = 1
SYMMETRY Twins
INVARIANTS
  LatestIsTruth
  BillIsShared
  TraceIsTrue
PROPERTIES
  Idempotent
\* Every run may have ended.
CHECK_DEADLOCK FALSE
