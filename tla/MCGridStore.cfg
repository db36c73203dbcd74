SPECIFICATION Spec
CONSTANTS
  c1 = c1
  c2 = c2
  i1 = i1
  i2 = i2
  Clients = {c1, c2}
  Ids = {i1, i2}
  Lengths = {3}
  ChunkSize = 2
  Sources = {"bytes", "pipe"}
  Uploads = {1}
  Concerns <- MCConcerns
  MaxCalls = 3
  MaxFaults = 1
SYMMETRY Symmetric
INVARIANTS
  StoredIsWhole
  ReadsWhole
  RemovedIsGone
CHECK_DEADLOCK FALSE
