SPECIFICATION Spec
CONSTANTS
  MaxItems = 2
  MaxWire = 3
  Trailer = 1
  Sizes <- MCSizes
  MaxMatches = 2
  MaxAdds = 4
INVARIANTS
  QueueSound
  ReusableUnlessFailed
  WithinServerLimits
  OrderedStopsAtError
  AccountedFor
  InsertsReportedExactly
PROPERTIES
  SentOnceInOrder
CHECK_DEADLOCK FALSE
