SPECIFICATION FairSpec
CONSTANTS
  s1 = s1
  s2 = s2
  n1 = n1
  n2 = n2
  NoRun = NoRun
  Scripts = {s1}
  Snippets = {n1, n2}
  PoolSize = 2
  MaxArtifacts = 1
  HasDataDir = TRUE
  Kinds = {"call", "snippet", "artifact"}
  MaxOps = 3
INVARIANTS
  TypeOK
  AnsweredMeansOver
  AuditComplete
  PoolNotWedged
PROPERTIES
  OverdueFails
  ImplementsScriptTree
  RunsFinish
