SPECIFICATION Spec
CONSTANTS
  a = a
  b = b
  dot = dot
  dotdot = dotdot
  Names <- McNames
  Dot = dot
  DotDot = dotdot
  Paths <- McPaths
  MaxArtifacts = 2
  EntryBytes <- LargeEntry
  MaxAttempts = 2
  Budget = 14
  Cap = 18
  Wrapper = 3
  MaxEntries = 4
  Sentinel <- McSentinel
  Payloads <- McPayloads
INVARIANT NeverTripsTransport
CHECK_DEADLOCK FALSE
