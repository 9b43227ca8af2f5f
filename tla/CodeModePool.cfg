SPECIFICATION Spec
CONSTANTS
  s1 = s1
  s2 = s2
  n1 = n1
  n2 = n2
  NoRun = NoRun
  Scripts = {s1, s2}
  Snippets = {n1, n2}
  PoolSize = 2
  MaxArtifacts = 1
  HasDataDir = TRUE
  Kinds = {"snippet"}
  MaxOps = 1
INVARIANTS
  PoolNotWedged
