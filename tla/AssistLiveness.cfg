\* Automatic mode, a conversation with a thread id and one without, History never avoided.
SPECIFICATION FairSpec
CONSTANTS
  chat = chat
  home = home
  NoThread = NoThread
  MaxFlows = 2
  NumModels = 2
  Threads <- BothThreads
  Anonymous <- HomeOnly
  Modes <- AutoOnly
  MaxMoves = 1
  Bypass = FALSE
INVARIANTS
  FollowedWithinShown
PROPERTIES
  SwitchesEnd
\* The page may be closed, and the bounds end every run.
CHECK_DEADLOCK FALSE
