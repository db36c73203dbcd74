SPECIFICATION FairSpec
CONSTANTS
  BatchSizes <- MCBatchSizes
  MaxDocuments = 5
  DefaultBatch = 2
  MaxCommands = 2
  None = None
INVARIANTS
  KeyIsPosition
  WithinTheReply
PROPERTIES
  DeliversTheStream
  IterationCompletes
CHECK_DEADLOCK FALSE
