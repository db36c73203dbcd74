\* Three cursor slots (one may be the cursor of a running command), two
\* connection slots, two servers with one cursor id each.
SPECIFICATION Spec
CONSTANTS
  Cursor = {c1, c2, c3}
  Conn = {k1, k2}
  Server = {s1, s2}
  Token = {t1}
  None = None
  MaxStrays = 1
SYMMETRY Symmetric
INVARIANTS
  RegistrySound
  CoveredCursorsHoldLiveConnections
  IdBelongsToConnection
  CallbacksFollowCursors
  NoCursorLeaked
PROPERTY
  DiesOnlyWithItsConnection
