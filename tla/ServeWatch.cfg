SPECIFICATION Spec
CONSTANTS
  p1 = p1
  p2 = p2
  files = files
  webui = webui
  Procs <- McProcs
  Free = Free
  Foreign <- McForeign
  Reply <- McReply
  Doctor = Doctor
  LogCap = 2
INVARIANT TypeOK
INVARIANT LogKeepsTheNewest
PROPERTY ImplementsFeed
PROPERTY WatchSettles
