\* As MCCursorConnections, with the claim of php_mongo.h for every cursor object.
SPECIFICATION Spec
CONSTANTS
  Cursor = {c1, c2, c3}
  Conn = {k1, k2}
  Server = {s1, s2}
  Token = {t1}
  None = None
  MaxStrays = 1
SYMMETRY Symmetric
INVARIANT
  IdBelongsToConnectionForAll
