SPECIFICATION Spec
CONSTANTS
  Cli = {c1, c2}
  Web = {w1, w2}
  Keys = {k1, k2}
  NoKey = NoKey
  Torn = Torn
  Names = {n1, n2}
  NoName = NoName
  Scenes <- OneProject
  MaxOps = 5
  MaxMishaps = 0
INVARIANTS
  CleanSlate
CHECK_DEADLOCK FALSE
