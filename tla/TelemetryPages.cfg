\* Two events on one tab, loaded three times, over a storage that may reject
\* calls: two enqueues and the flush of the startup overlap in every way.
SPECIFICATION Spec
CONSTANTS
  e1 = e1
  e2 = e2
  tab1 = tab1
  tab2 = tab2
  Events <- TwoEvents
  Strict <- TwoEvents
  Tabs <- OneTab
  MaxAttempts = 3
  MaxBoots = 3
  Faulty = TRUE
SYMMETRY Symmetry
INVARIANTS
  NoDuplicateEntry
  KeptWithoutRace
  AtMostMaxAttempts
  SentNeverOverstated
\* The bound on pages ends every run.
CHECK_DEADLOCK FALSE
