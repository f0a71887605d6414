\* Every text of six stems at every bound of the rules. Five validation rows over four
\* confidences. Three rows judged. Two recommendations over two months, beside the
\* demonstration.
SPECIFICATION DecisionSpec
CONSTANTS
  Stems <- StemsChecked
  Lengths <- LengthsChecked
  Contexts <- ContextsChecked
  Counts <- CountsChecked
  Scale = 3
  MaxPoints = 5
  Judgements <- JudgementsChecked
  MaxJudged = 3
  Orgs = {"client", "demo"}
  Tokens = {"own", "demo"}
  Own <- MCOwn
  DemoToken = "demo"
  Recos = {"r1", "r2"}
  Demo = {"demo1", "demo2"}
  DemoVerdict <- MCDemoVerdict
  DemoMonth = 0
  Salts = {"salt"}
  LastMonth = 1
  Null = Null
INVARIANTS
  CostFollowsTask
  MockAgrees
  EmittedIsIsotonic
  ReportsAgree
  VerdictsAreTold
PROPERTY
  LongerNeverLighter
\* Nothing grows for ever.
CHECK_DEADLOCK FALSE
