\* Every mode, two flows, two models, two conversations, one move of the page
\* that the History API may not see: every action of the module happens.
SPECIFICATION Spec
CONSTANTS
  chat = chat
  home = home
  NoThread = NoThread
  MaxFlows = 2
  NumModels = 2
  Threads <- BothThreads
  Anonymous <- HomeOnly
  Modes <- AllModes
  MaxMoves = 1
  Bypass = TRUE
INVARIANTS
  AcceptanceMatchesSwitch
  PendingIsCancellable
  PanelIsOfThisConversation
PROPERTIES
  NoForeignSwitch
  
  ImplementsRecoOutcome
\* The page may be closed, and the bounds end every run.
CHECK_DEADLOCK FALSE
