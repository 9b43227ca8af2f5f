SPECIFICATION Spec
CONSTANTS
  a = a
  b = b
  dot = dot
  dotdot = dotdot
  Names <- McNames
  Dot = dot
  DotDot = dotdot
  Paths <- McPaths
  MaxArtifacts = 2
  EntryBytes <- SmallEntry
  MaxAttempts = 3
  Budget = 14
  Cap = 18
  Wrapper = 3
  MaxEntries = 4
  Sentinel <- McSentinel
  Payloads <- McPayloads
INVARIANT TypeOK
INVARIANT ReceiptsTrue
INVARIANT AnswerOutlivesLogs
INVARIANT KeepsNewestThatFit
INVARIANT OverMeansSpent
INVARIANT SlicedOnlyForAudit
INVARIANT CapHolds
PROPERTY Finishes
CHECK_DEADLOCK FALSE
