\* Two tabs, an organisation whose policy changes once, and the demonstration.
SPECIFICATION Spec
CONSTANTS
  o1 = o1
  None = None
  Mock = Mock
  Orgs = {o1}
  t1 = t1
  t2 = t2
  Tabs = {t1, t2}
  Configs <- ConfigsChecked
  Demo <- DemoChecked
  Local <- LocalChecked
  Ttl = 2
  MaxClock = 5
  MaxSaves = 2
  MaxDecrees = 1
SYMMETRY Symmetry
INVARIANTS
  PolicyReaches
