SPECIFICATION Spec
CONSTANTS
  h1 = h1
  h2 = h2
  Absent = Absent
  Partial = Partial
  Hooks = {h1, h2}
  Envs <- MCNoEnv
  Files <- MCGatewayFiles
  Tomls <- MCNoToml
  MaxEdits = 0
INVARIANT
  RepairedBoots
