\* Two runs of the generator.
SPECIFICATION Spec
CONSTANTS
  a = a
  b = b
  c = c
  None = None
  Torn = Torn
  Sigs = {a, b, c}
  Labels = {"haiku", "opus"}
  Goldens <- GoldensChecked
  Categories <- CategoriesChecked
  N = 3
  Val = {b}
  MaxAttempts = 2
  MaxNoise = 1
  MaxRuns = 2
INVARIANTS
  NoLeak
  ContradictionsAreNoise
