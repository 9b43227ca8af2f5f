SPECIFICATION Spec
CONSTANTS
  h1 = h1
  h2 = h2
  Absent = Absent
  Partial = Partial
  Hooks = {h1, h2}
  Envs <- MCEnvs
  Files <- MCFiles
  Tomls <- MCTomls
  MaxEdits = 1
INVARIANTS
  TypeOK
  EnvWhole
  RepairedBoots
PROPERTIES
  ReadOnlyCommands
