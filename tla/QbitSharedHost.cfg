SPECIFICATION Spec
CONSTANTS
  c1 = c1
  c2 = c2
  c3 = c3
  b1 = b1
  b2 = b2
  h1 = h1
  h2 = h2
  NoSid = NoSid
  Calls = {c1, c2, c3}
  BaseUrls = {b1, b2}
  Hosts = {h1}
  HostOf <- MCSharedHost
  Target <- MCTwoTargets
  Credentialed = {b1, b2}
  MaxExpiries = 1
INVARIANT
  FreshnessTracksHost
