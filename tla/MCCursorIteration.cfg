SPECIFICATION FairSpec
CONSTANTS
  Limits <- MCLimits
  BatchSizes <- MCBatchSizes
  MaxDocuments = 4
  DefaultBatch = 2
  MaxQueries = 2
  None = None
INVARIANTS
  WithinTheReply
  LimitRespectedInStep
PROPERTIES
  HasNextKeepsItsPromise
  DeliversTheStream
  IterationCompletes
CHECK_DEADLOCK FALSE
