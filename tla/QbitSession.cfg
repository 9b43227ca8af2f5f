SPECIFICATION FairSpec
CONSTANTS
  c1 = c1
  c2 = c2
  c3 = c3
  b1 = b1
  b2 = b2
  h1 = h1
  h2 = h2
  NoSid = NoSid
  Calls = {c1, c2}
  BaseUrls = {b1}
  Hosts = {h1}
  HostOf <- MCOwnHosts
  Target <- MCOneTarget
  Credentialed = {b1}
  MaxExpiries = 2
INVARIANTS
  TypeOK
  EffectAtMostOnce
  DenialNeedsExpiry
  SoloRecovers
PROPERTIES
  ImplementsUpstreamCall
  CallsFinish
