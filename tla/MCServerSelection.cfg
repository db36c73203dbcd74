SPECIFICATION SelectionSpec
CONSTANTS
  Connections <- MCConnections
  Clients <- MCClients
  Latency = 15
INVARIANTS ReadsGoWhereTheyShould WritesGoToPrimaries
CHECK_DEADLOCK FALSE
