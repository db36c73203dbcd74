---------------------- MODULE CursorConnections_proofs ----------------------
(***************************************************************************)
(* Proofs about CursorConnections, for any numbers of slots, servers, ids   *)
(* and malformed documents.                                                *)
(***************************************************************************)
EXTENDS CursorConnections, TLAPS

-----------------------------------------------------------------------------
(* The inductive invariant.                                                *)

\* What php_mongo_runquery() and php_mongo_runcommand() may rely on from the
\* moment a connection is being selected: the cursor the query runs for exists
\* and has given up its server-side cursor, and so has the command cursor that
\* waits for the answer.  Without it, an answer could overwrite an id.
CallShape ==
  pc \in {"select", "exchange"} =>
    /\ caller \in Cursor
    /\ kind[caller] \in {"query", "temporary"}
    /\ cursor_id[caller] = None
    /\ pc = "exchange" => connection[caller] \in Conn
    /\ client # None => client \in Cursor /\ kind[client] = "command" /\ cursor_id[client] = None

\* The properties below are proved together: each needs some of the others one
\* step earlier.
Invariant ==
  /\ TypeOK
  /\ CallShape
  /\ RegistrySound
  /\ CoveredCursorsHoldLiveConnections
  /\ IdBelongsToConnection
  /\ CallbacksFollowCursors
  /\ NoCursorLeaked

-----------------------------------------------------------------------------
(* Type correctness.                                                       *)

\* A connection without callbacks counts none for every cursor (the empty
\* cleanup_list of mongo_connection_create()).
LEMMA NoCallbackTypes == NoCallbacks \in [Cursor -> Nat]
  BY DEF NoCallbacks

\* What an array of callback counts looks like after the helpers.
LEMMA HelperTypes ==
  ASSUME TypeOK, NEW c \in Cursor
  PROVE  /\ \A k \in Conn : Link(k, c) \in [Conn -> [Cursor -> Nat]]
         /\ Unlink(c) \in [Conn -> [Cursor -> Nat]]
         /\ Kill(c) => open' \in SUBSET CursorId /\ lost' \in SUBSET CursorId
         /\ AfterCall \in [Cursor -> Kind \cup {None}]
<1>1. \A k \in Conn : Link(k, c) \in [Conn -> [Cursor -> Nat]]
  BY DEF TypeOK, Link
<1>2. Unlink(c) \in [Conn -> [Cursor -> Nat]]
  <2>1. CASE connection[c] = None
    BY <2>1 DEF TypeOK, Unlink
  <2>2. CASE connection[c] # None
    <3> DEFINE k == connection[c]
    <3>1. k \in Conn
      BY <2>2 DEF TypeOK
    <3>2. cleanup_list[k] \in [Cursor -> Nat]
      BY <3>1 DEF TypeOK
    <3>3. (IF cleanup_list[k][c] > 0 THEN cleanup_list[k][c] - 1 ELSE 0) \in Nat
      BY <3>2
    <3> QED
      BY <2>2, <3>1, <3>2, <3>3 DEF TypeOK, Unlink
  <2> QED
    BY <2>1, <2>2
<1>3. Kill(c) => open' \in SUBSET CursorId /\ lost' \in SUBSET CursorId
  BY DEF TypeOK, Kill
<1>4. AfterCall \in [Cursor -> Kind \cup {None}]
  BY DEF TypeOK, AfterCall
<1> QED
  BY <1>1, <1>2, <1>3, <1>4

\* Destroying a connection keeps the types of all it changes.
LEMMA DeregisterTypes ==
  ASSUME TypeOK, NEW k \in Conn, NEW failed \in SUBSET Cursor,
         DeregisterConnection(k, failed)
  PROVE  /\ server' \in [Conn -> Server \cup {None}]
         /\ registered' \in SUBSET Conn
         /\ cleanup_list' \in [Conn -> [Cursor -> Nat]]
         /\ connection' \in [Cursor -> Conn \cup {None}]
         /\ cursor_id' \in [Cursor -> CursorId \cup {None}]
         /\ dead' \in [Cursor -> BOOLEAN]
         /\ lost' \in SUBSET CursorId
  BY NoCallbackTypes DEF TypeOK, DeregisterConnection

\* Every step keeps the types: pointers are slots or NULL, and a count of
\* callbacks is never taken below zero.
LEMMA TypeStep ==
  ASSUME TypeOK, CallShape, [Next]_vars
  PROVE  TypeOK'
<1>1. ASSUME NEW c \in Cursor, NEW class \in {"query", "command"}, NewCursor(c, class)
      PROVE  TypeOK'
  BY <1>1 DEF NewCursor, TypeOK, conVars, cursorVars, callVars, serverVars,
     Kind
<1>2. ASSUME NEW c \in Cursor, NEW i \in CursorId, CreateFromDocument(c, i)
      PROVE  TypeOK'
  BY <1>2, HelperTypes DEF CreateFromDocument, TypeOK, conVars, cursorVars,
     callVars, serverVars, Kind
<1>3. ASSUME NEW c \in Cursor, NEW k \in Conn, CreateFromMalformedDocument(c, k)
      PROVE  TypeOK'
  BY <1>3, HelperTypes DEF CreateFromMalformedDocument, TypeOK, conVars,
     cursorVars, callVars, serverVars
<1>4. ASSUME NEW c \in Cursor, GetMoreEnds(c)
      PROVE  TypeOK'
  BY <1>4 DEF GetMoreEnds, TypeOK, conVars, cursorVars, callVars, serverVars
<1>5. ASSUME NEW c \in Cursor, GetMoreFails(c)
      PROVE  TypeOK'
  BY <1>5, DeregisterTypes DEF GetMoreFails, TypeOK, conVars, callVars,
     serverVars, Alive, Idle, EndCall
<1>6. ASSUME NEW c \in Cursor, KillAtLimit(c)
      PROVE  TypeOK'
  BY <1>6, HelperTypes DEF KillAtLimit, TypeOK, conVars, cursorVars,
     callVars, serverVars
<1>7. ASSUME NEW c \in Cursor, ResetCursor(c)
      PROVE  TypeOK'
  BY <1>7, HelperTypes DEF ResetCursor, TypeOK, conVars, cursorVars,
     callVars, serverVars
<1>8. ASSUME NEW c \in Cursor, FreeCursor(c)
      PROVE  TypeOK'
  BY <1>8, HelperTypes DEF FreeCursor, TypeOK, conVars, cursorVars, callVars,
     serverVars, Idle
<1>9. ASSUME NEW c \in Cursor, StartQuery(c)
      PROVE  TypeOK'
  BY <1>9, HelperTypes DEF StartQuery, TypeOK, conVars, cursorVars, callVars,
     serverVars, Idle, Phase
<1>10. ASSUME NEW c \in Cursor, NEW t \in Cursor, RewindCommandCursor(c, t)
      PROVE  TypeOK'
  BY <1>10, HelperTypes DEF RewindCommandCursor, TypeOK, conVars, cursorVars,
     callVars, serverVars, NewTemporary, Kind, Phase, CursorId
<1>11. ASSUME NEW c \in Cursor, RunCommand(c)
      PROVE  TypeOK'
  BY <1>11 DEF RunCommand, TypeOK, conVars, cursorVars, callVars, serverVars,
     NewTemporary, Kind, Phase
<1>12. ASSUME NEW c \in Cursor, DereferenceDangling(c)
      PROVE  TypeOK'
  BY <1>12 DEF DereferenceDangling, TypeOK, conVars, cursorVars, callVars,
     serverVars, Phase
<1>13. ASSUME NEW k \in Conn, CloseConnection(k)
      PROVE  TypeOK'
  BY <1>13, DeregisterTypes DEF CloseConnection, TypeOK, conVars, callVars,
     serverVars, Alive, Idle, EndCall
<1>14. ASSUME NEW k \in Conn, DropBroken(k)
      PROVE  TypeOK'
  BY <1>14, DeregisterTypes DEF DropBroken, TypeOK, conVars, callVars,
     serverVars, Alive, Idle, EndCall
<1>15. ASSUME NEW k \in Conn, NEW s \in Server, Connect(k, s)
      PROVE  TypeOK'
  BY <1>15, NoCallbackTypes DEF Connect, TypeOK, conVars, cursorVars,
     callVars, serverVars
<1>16. ASSUME NEW k \in Conn, Select(k)
      PROVE  TypeOK'
  <2>1. caller \in Cursor
    BY <1>16 DEF CallShape, Select
  <2> QED
    BY <1>16, <2>1, HelperTypes DEF Select, TypeOK, conVars, serverVars, Phase
<1>17. CASE SelectNone
  <2>1. caller \in Cursor
    BY <1>17 DEF CallShape, SelectNone
  <2> QED
    BY <1>17, <2>1, HelperTypes DEF SelectNone, TypeOK, conVars, serverVars, EndCall, Phase
<1>18. CASE Answered
  <2>1. caller \in Cursor
    BY <1>18 DEF CallShape, Answered
  <2>2. PICK i \in CursorId \cup {None} : QueryAnswered(i) \/ CommandAnswered(i)
    BY <1>18 DEF Answered
  <2>3. CASE QueryAnswered(i)
    BY <2>1, <2>2, <2>3 DEF QueryAnswered, TypeOK, conVars, EndCall, Phase
  <2>4. CASE CommandAnswered(i)
    BY <2>1, <2>2, <2>4, HelperTypes DEF CommandAnswered, TypeOK, EndCall, Phase
  <2> QED
    BY <2>2, <2>3, <2>4
<1>19. CASE NotSent
  <2>1. caller \in Cursor
    BY <1>19 DEF CallShape, NotSent
  <2> QED
    BY <1>19, <2>1, HelperTypes DEF NotSent, TypeOK, serverVars, EndCall, Phase
<1>20. CASE ErrorAnswered
  BY <1>20 DEF ErrorAnswered, TypeOK, conVars, cursorVars, callVars,
     serverVars, EndCall, Phase
<1>21. CASE ExchangeFails
  <2>1. caller \in Cursor /\ connection[caller] \in Conn
    BY <1>21 DEF CallShape, ExchangeFails
  <2> QED
    BY <1>21, <2>1, HelperTypes, DeregisterTypes DEF ExchangeFails, TypeOK, EndCall, Phase
<1>22. CASE NotMasterAnswered
  <2>1. caller \in Cursor /\ connection[caller] \in Conn
    BY <1>22 DEF CallShape, NotMasterAnswered
  <2> QED
    BY <1>22, <2>1, DeregisterTypes DEF NotMasterAnswered, TypeOK, EndCall, Phase
<1>23. ASSUME NEW i \in CursorId, ServerReaps(i)
      PROVE  TypeOK'
  BY <1>23 DEF ServerReaps, TypeOK, conVars, cursorVars, callVars, serverVars
<1>24. ASSUME NEW i \in CursorId, CreateFromUnknownHash(i)
      PROVE  TypeOK'
  BY <1>24 DEF CreateFromUnknownHash, TypeOK, conVars, cursorVars, callVars,
     serverVars, Phase
<1>25. CASE Restart
  BY <1>25 DEF Restart, TypeOK, conVars, cursorVars, callVars, serverVars,
     NoCallbacks, EndCall, Phase
<1>26. CASE UNCHANGED vars
  BY <1>26 DEF vars, TypeOK, conVars, cursorVars, callVars, serverVars
<1> QED
  BY <1>1, <1>2, <1>3, <1>4, <1>5, <1>6, <1>7, <1>8, <1>9, <1>10,
      <1>11, <1>12, <1>13, <1>14, <1>15, <1>16, <1>17, <1>18, <1>19, <1>20,
      <1>21, <1>22, <1>23, <1>24, <1>25, <1>26 DEF Next

\* A call in progress keeps its shape until it ends.
LEMMA CallShapeStep ==
  ASSUME TypeOK, CallShape, [Next]_vars
  PROVE  CallShape'
<1>1. ASSUME NEW c \in Cursor, NEW class \in {"query", "command"}, NewCursor(c, class)
      PROVE  CallShape'
  BY <1>1 DEF NewCursor, CallShape, Idle, callVars
<1>2. ASSUME NEW c \in Cursor, NEW i \in CursorId, CreateFromDocument(c, i)
      PROVE  CallShape'
  BY <1>2 DEF CreateFromDocument, CallShape, Idle, callVars
<1>3. ASSUME NEW c \in Cursor, NEW k \in Conn, CreateFromMalformedDocument(c, k)
      PROVE  CallShape'
  BY <1>3 DEF CreateFromMalformedDocument, CallShape, Idle, callVars
<1>4. ASSUME NEW c \in Cursor, GetMoreEnds(c)
      PROVE  CallShape'
  BY <1>4 DEF GetMoreEnds, CallShape, Idle, callVars
<1>5. ASSUME NEW c \in Cursor, GetMoreFails(c)
      PROVE  CallShape'
  BY <1>5 DEF GetMoreFails, CallShape, Idle, callVars
<1>6. ASSUME NEW c \in Cursor, KillAtLimit(c)
      PROVE  CallShape'
  BY <1>6 DEF KillAtLimit, CallShape, Idle, callVars
<1>7. ASSUME NEW c \in Cursor, ResetCursor(c)
      PROVE  CallShape'
  BY <1>7 DEF ResetCursor, CallShape, Idle, callVars
<1>8. ASSUME NEW c \in Cursor, FreeCursor(c)
      PROVE  CallShape'
  BY <1>8 DEF FreeCursor, CallShape, Idle, callVars
<1>9. ASSUME NEW c \in Cursor, StartQuery(c)
      PROVE  CallShape'
  BY <1>9 DEF StartQuery, CallShape, TypeOK
<1>10. ASSUME NEW c \in Cursor, NEW t \in Cursor, RewindCommandCursor(c, t)
      PROVE  CallShape'
  BY <1>10, NoneAssumption DEF RewindCommandCursor, CallShape, TypeOK,
     NewTemporary, alloc, Kind
<1>11. ASSUME NEW c \in Cursor, RunCommand(c)
      PROVE  CallShape'
  BY <1>11 DEF RunCommand, CallShape, TypeOK, NewTemporary
<1>12. ASSUME NEW c \in Cursor, DereferenceDangling(c)
      PROVE  CallShape'
  BY <1>12 DEF DereferenceDangling, CallShape, EndCall
<1>13. ASSUME NEW k \in Conn, CloseConnection(k)
      PROVE  CallShape'
  BY <1>13 DEF CloseConnection, CallShape, Idle, callVars
<1>14. ASSUME NEW k \in Conn, DropBroken(k)
      PROVE  CallShape'
  BY <1>14 DEF DropBroken, CallShape, TypeOK, DeregisterConnection, callVars
<1>15. ASSUME NEW k \in Conn, NEW s \in Server, Connect(k, s)
      PROVE  CallShape'
  BY <1>15 DEF Connect, CallShape, conVars, cursorVars, callVars, serverVars
<1>16. ASSUME NEW k \in Conn, Select(k)
      PROVE  CallShape'
  BY <1>16 DEF Select, CallShape, TypeOK
<1>17. CASE SelectNone
  BY <1>17 DEF SelectNone, CallShape, EndCall
<1>18. CASE Answered
  BY <1>18 DEF Answered, QueryAnswered, CommandAnswered, CallShape, EndCall
<1>19. CASE NotSent
  BY <1>19 DEF NotSent, CallShape, EndCall
<1>20. CASE ErrorAnswered
  BY <1>20 DEF ErrorAnswered, CallShape, EndCall
<1>21. CASE ExchangeFails
  BY <1>21 DEF ExchangeFails, CallShape, EndCall
<1>22. CASE NotMasterAnswered
  BY <1>22 DEF NotMasterAnswered, CallShape, EndCall
<1>23. ASSUME NEW i \in CursorId, ServerReaps(i)
      PROVE  CallShape'
  BY <1>23 DEF ServerReaps, CallShape, conVars, cursorVars, callVars,
     serverVars
<1>24. ASSUME NEW i \in CursorId, CreateFromUnknownHash(i)
      PROVE  CallShape'
  BY <1>24 DEF CreateFromUnknownHash, CallShape, EndCall
<1>25. CASE Restart
  BY <1>25 DEF Restart, CallShape, EndCall
<1>26. CASE UNCHANGED vars
  BY <1>26 DEF vars, CallShape, conVars, cursorVars, callVars, serverVars
<1> QED
  BY <1>1, <1>2, <1>3, <1>4, <1>5, <1>6, <1>7, <1>8, <1>9, <1>10,
      <1>11, <1>12, <1>13, <1>14, <1>15, <1>16, <1>17, <1>18, <1>19, <1>20,
      <1>21, <1>22, <1>23, <1>24, <1>25, <1>26 DEF Next

-----------------------------------------------------------------------------
(* The registry of connections.                                            *)

\* Deregistering removes the connection it was given, because no other one has
\* its hash.
LEMMA DeregisterRemoves ==
  ASSUME TypeOK, RegistrySound,
         NEW k \in registered, NEW failed, DeregisterConnection(k, failed)
  PROVE  registered' = registered \ {k} /\ server' = [server EXCEPT ![k] = None]
  BY DEF TypeOK, RegistrySound, DeregisterConnection

\* ... and the list is as sound as it was.
LEMMA DeregisterKeepsRegistrySound ==
  ASSUME TypeOK, RegistrySound,
         NEW k \in registered, NEW failed, DeregisterConnection(k, failed)
  PROVE  RegistrySound'
  BY DeregisterRemoves DEF TypeOK, RegistrySound

\* A connection that is allocated is in the manager's list, so that
\* deregistering it finds an item.
LEMMA AliveIsRegistered ==
  ASSUME TypeOK, RegistrySound, NEW c \in Cursor, Alive(c)
  PROVE  connection[c] \in registered
  BY DEF TypeOK, RegistrySound, Alive

\* The cursor of a query in exchange is reached by its connection's callbacks.
LEMMA ExchangeIsCovered ==
  ASSUME TypeOK, CallShape, CoveredCursorsHoldLiveConnections, pc = "exchange"
  PROVE  /\ caller \in alloc
         /\ connection[caller] \in registered
         /\ cleanup_list[connection[caller]][caller] > 0
  BY NoneAssumption DEF TypeOK, CallShape, CoveredCursorsHoldLiveConnections, Covered,
     Selecting, alloc, Kind

\* Every step keeps the list of the manager sound: connections are registered
\* when they are created, once per hash, and destroyed when they are removed.
LEMMA RegistryStep ==
  ASSUME TypeOK, CallShape, RegistrySound, CoveredCursorsHoldLiveConnections, [Next]_vars
  PROVE  RegistrySound'
<1>1. ASSUME NEW c \in Cursor, NEW class \in {"query", "command"}, NewCursor(c, class)
      PROVE  RegistrySound'
  BY <1>1 DEF NewCursor, RegistrySound, conVars
<1>2. ASSUME NEW c \in Cursor, NEW i \in CursorId, CreateFromDocument(c, i)
      PROVE  RegistrySound'
  BY <1>2 DEF CreateFromDocument, RegistrySound, conVars
<1>3. ASSUME NEW c \in Cursor, NEW k \in Conn, CreateFromMalformedDocument(c, k)
      PROVE  RegistrySound'
  BY <1>3 DEF CreateFromMalformedDocument, RegistrySound, conVars
<1>4. ASSUME NEW c \in Cursor, GetMoreEnds(c)
      PROVE  RegistrySound'
  BY <1>4 DEF GetMoreEnds, RegistrySound, conVars
<1>5. ASSUME NEW c \in Cursor, GetMoreFails(c)
      PROVE  RegistrySound'
  BY <1>5, DeregisterKeepsRegistrySound, AliveIsRegistered DEF GetMoreFails,
     alloc
<1>6. ASSUME NEW c \in Cursor, KillAtLimit(c)
      PROVE  RegistrySound'
  BY <1>6 DEF KillAtLimit, RegistrySound, conVars
<1>7. ASSUME NEW c \in Cursor, ResetCursor(c)
      PROVE  RegistrySound'
  BY <1>7 DEF ResetCursor, RegistrySound, conVars
<1>8. ASSUME NEW c \in Cursor, FreeCursor(c)
      PROVE  RegistrySound'
  BY <1>8 DEF FreeCursor, RegistrySound, conVars
<1>9. ASSUME NEW c \in Cursor, StartQuery(c)
      PROVE  RegistrySound'
  BY <1>9 DEF StartQuery, RegistrySound, conVars
<1>10. ASSUME NEW c \in Cursor, NEW t \in Cursor, RewindCommandCursor(c, t)
      PROVE  RegistrySound'
  BY <1>10 DEF RewindCommandCursor, RegistrySound, conVars
<1>11. ASSUME NEW c \in Cursor, RunCommand(c)
      PROVE  RegistrySound'
  BY <1>11 DEF RunCommand, RegistrySound, conVars
<1>12. ASSUME NEW c \in Cursor, DereferenceDangling(c)
      PROVE  RegistrySound'
  BY <1>12 DEF DereferenceDangling, RegistrySound, conVars
<1>13. ASSUME NEW k \in Conn, CloseConnection(k)
      PROVE  RegistrySound'
  BY <1>13, DeregisterKeepsRegistrySound DEF CloseConnection
<1>14. ASSUME NEW k \in Conn, DropBroken(k)
      PROVE  RegistrySound'
  BY <1>14, DeregisterKeepsRegistrySound DEF DropBroken
<1>15. ASSUME NEW k \in Conn, NEW s \in Server, Connect(k, s)
      PROVE  RegistrySound'
  BY <1>15, NoneAssumption DEF Connect, RegistrySound, TypeOK
<1>16. ASSUME NEW k \in Conn, Select(k)
      PROVE  RegistrySound'
  BY <1>16 DEF Select, RegistrySound, conVars
<1>17. CASE SelectNone
  BY <1>17 DEF SelectNone, RegistrySound, conVars
<1>18. CASE Answered
  BY <1>18 DEF Answered, RegistrySound, QueryAnswered, CommandAnswered,
     conVars
<1>19. CASE NotSent
  BY <1>19 DEF NotSent, RegistrySound, conVars
<1>20. CASE ErrorAnswered
  BY <1>20 DEF ErrorAnswered, RegistrySound, conVars
<1>21. CASE ExchangeFails
  BY <1>21, DeregisterKeepsRegistrySound, ExchangeIsCovered DEF ExchangeFails
<1>22. CASE NotMasterAnswered
  BY <1>22, DeregisterKeepsRegistrySound, ExchangeIsCovered DEF
     NotMasterAnswered
<1>23. ASSUME NEW i \in CursorId, ServerReaps(i)
      PROVE  RegistrySound'
  BY <1>23 DEF ServerReaps, RegistrySound, conVars
<1>24. ASSUME NEW i \in CursorId, CreateFromUnknownHash(i)
      PROVE  RegistrySound'
  BY <1>24 DEF CreateFromUnknownHash, RegistrySound, conVars
<1>25. CASE Restart
  BY <1>25 DEF Restart, RegistrySound
<1>26. CASE UNCHANGED vars
  BY <1>26 DEF vars, RegistrySound, conVars
<1> QED
  BY <1>1, <1>2, <1>3, <1>4, <1>5, <1>6, <1>7, <1>8, <1>9, <1>10,
      <1>11, <1>12, <1>13, <1>14, <1>15, <1>16, <1>17, <1>18, <1>19, <1>20,
      <1>21, <1>22, <1>23, <1>24, <1>25, <1>26 DEF Next

-----------------------------------------------------------------------------
(* Pointers to connections.                                                *)

\* Link() changes one count, Unlink() at most one.
LEMMA LinkCounts ==
  ASSUME TypeOK, NEW k \in Conn, NEW c \in Cursor, NEW j \in Conn, NEW d \in Cursor
  PROVE  Link(k, c)[j][d] = IF j = k /\ d = c THEN cleanup_list[j][d] + 1
                                              ELSE cleanup_list[j][d]
  BY DEF TypeOK, Link

\* ... and Unlink() the count of the connection the cursor is leaving.
LEMMA UnlinkCounts ==
  ASSUME TypeOK, NEW c \in Cursor, NEW j \in Conn, NEW d \in Cursor
  PROVE  Unlink(c)[j][d] = IF j = connection[c] /\ d = c /\ cleanup_list[j][d] > 0
                           THEN cleanup_list[j][d] - 1
                           ELSE cleanup_list[j][d]
<1>1. cleanup_list \in [Conn -> [Cursor -> Nat]] /\ cleanup_list[j][d] \in Nat
  BY DEF TypeOK
<1>2. CASE connection[c] = None
  BY <1>1, <1>2, NoneAssumption DEF Unlink
<1>3. CASE connection[c] # None
  BY <1>1, <1>3 DEF Unlink
<1> QED
  BY <1>2, <1>3

\* A covered cursor that still has a connection after another one was destroyed
\* has the connection it had, and the callback on it.
LEMMA DeregisterSparesOthers ==
  ASSUME TypeOK, RegistrySound, CoveredCursorsHoldLiveConnections,
         NEW k \in registered, NEW failed, DeregisterConnection(k, failed),
         NEW c \in Cursor, c \in alloc, kind[c] # "command", ~Selecting(c), connection'[c] # None
  PROVE  connection'[c] \in registered' /\ cleanup_list'[connection'[c]][c] > 0
<1>1. connection'[c] = connection[c] /\ ~(cleanup_list[k][c] > 0)
  BY DEF DeregisterConnection, TypeOK
<1>2. connection[c] \in registered /\ cleanup_list[connection[c]][c] > 0
  BY <1>1 DEF CoveredCursorsHoldLiveConnections, Covered
<1>3. connection[c] # k
  BY <1>1, <1>2
<1>4. cleanup_list'[connection[c]] = cleanup_list[connection[c]]
  BY <1>2, <1>3 DEF DeregisterConnection, TypeOK
<1> QED
  BY <1>1, <1>2, <1>3, <1>4, DeregisterRemoves

\* After every step a covered cursor that is not selecting points at a registered
\* connection that has its callback.
LEMMA CoveredStep ==
  ASSUME TypeOK, CallShape, RegistrySound, CoveredCursorsHoldLiveConnections, [Next]_vars
  PROVE  CoveredCursorsHoldLiveConnections'
<1>1. ASSUME NEW c \in Cursor, NEW class \in {"query", "command"}, NewCursor(c, class)
      PROVE  CoveredCursorsHoldLiveConnections'
  BY <1>1 DEF NewCursor, CoveredCursorsHoldLiveConnections, Covered,
     Selecting, alloc, Idle, TypeOK, conVars, cursorVars, callVars,
     serverVars
<1>2. ASSUME NEW c \in Cursor, NEW i \in CursorId, CreateFromDocument(c, i)
      PROVE  CoveredCursorsHoldLiveConnections'
  BY <1>2, LinkCounts DEF CreateFromDocument,
     CoveredCursorsHoldLiveConnections, Covered, Selecting, alloc, Idle,
     TypeOK, conVars, cursorVars, callVars, serverVars
<1>3. ASSUME NEW c \in Cursor, NEW k \in Conn, CreateFromMalformedDocument(c, k)
      PROVE  CoveredCursorsHoldLiveConnections'
  BY <1>3, LinkCounts DEF CreateFromMalformedDocument,
     CoveredCursorsHoldLiveConnections, Covered, Selecting, alloc, Idle,
     TypeOK, conVars, cursorVars, callVars, serverVars
<1>4. ASSUME NEW c \in Cursor, GetMoreEnds(c)
      PROVE  CoveredCursorsHoldLiveConnections'
  BY <1>4 DEF GetMoreEnds, CoveredCursorsHoldLiveConnections, Covered,
     Selecting, alloc, Idle, TypeOK, conVars, cursorVars, callVars,
     serverVars
<1>5. ASSUME NEW c \in Cursor, GetMoreFails(c)
      PROVE  CoveredCursorsHoldLiveConnections'
  BY <1>5, DeregisterSparesOthers, AliveIsRegistered DEF GetMoreFails,
     CoveredCursorsHoldLiveConnections, Covered, Selecting, alloc, Idle,
     callVars
<1>6. ASSUME NEW c \in Cursor, KillAtLimit(c)
      PROVE  CoveredCursorsHoldLiveConnections'
  BY <1>6 DEF KillAtLimit, CoveredCursorsHoldLiveConnections, Covered,
     Selecting, alloc, Idle, TypeOK, conVars, cursorVars, callVars,
     serverVars
<1>7. ASSUME NEW c \in Cursor, ResetCursor(c)
      PROVE  CoveredCursorsHoldLiveConnections'
  BY <1>7 DEF ResetCursor, CoveredCursorsHoldLiveConnections, Covered,
     Selecting, alloc, Idle, TypeOK, conVars, cursorVars, callVars,
     serverVars
<1>8. ASSUME NEW c \in Cursor, FreeCursor(c)
      PROVE  CoveredCursorsHoldLiveConnections'
  BY <1>8, UnlinkCounts, NoneAssumption DEF FreeCursor,
     CoveredCursorsHoldLiveConnections, Covered, Selecting, alloc, Idle,
     TypeOK, conVars, cursorVars, callVars, serverVars
<1>9. ASSUME NEW c \in Cursor, StartQuery(c)
      PROVE  CoveredCursorsHoldLiveConnections'
  BY <1>9, UnlinkCounts, NoneAssumption DEF StartQuery,
     CoveredCursorsHoldLiveConnections, Covered, Selecting, alloc, Idle,
     TypeOK, conVars, cursorVars, callVars, serverVars
<1>10. ASSUME NEW c \in Cursor, NEW t \in Cursor, RewindCommandCursor(c, t)
      PROVE  CoveredCursorsHoldLiveConnections'
  BY <1>10, NoneAssumption DEF RewindCommandCursor,
     CoveredCursorsHoldLiveConnections, Covered, Selecting, alloc, Idle,
     TypeOK, NewTemporary, conVars, cursorVars, callVars, serverVars
<1>11. ASSUME NEW c \in Cursor, RunCommand(c)
      PROVE  CoveredCursorsHoldLiveConnections'
  BY <1>11, NoneAssumption DEF RunCommand, CoveredCursorsHoldLiveConnections,
     Covered, Selecting, alloc, Idle, TypeOK, NewTemporary, conVars,
     cursorVars, callVars, serverVars
<1>12. ASSUME NEW c \in Cursor, DereferenceDangling(c)
      PROVE  CoveredCursorsHoldLiveConnections'
  BY <1>12 DEF DereferenceDangling, CoveredCursorsHoldLiveConnections,
     Covered, Selecting, alloc, Idle, TypeOK, conVars, cursorVars, callVars,
     serverVars
<1>13. ASSUME NEW k \in Conn, CloseConnection(k)
      PROVE  CoveredCursorsHoldLiveConnections'
  BY <1>13, DeregisterSparesOthers DEF CloseConnection,
     CoveredCursorsHoldLiveConnections, Covered, Selecting, alloc, callVars
<1>14. ASSUME NEW k \in Conn, DropBroken(k)
      PROVE  CoveredCursorsHoldLiveConnections'
  BY <1>14, DeregisterSparesOthers DEF DropBroken,
     CoveredCursorsHoldLiveConnections, Covered, Selecting, alloc, callVars
<1>15. ASSUME NEW k \in Conn, NEW s \in Server, Connect(k, s)
      PROVE  CoveredCursorsHoldLiveConnections'
  BY <1>15 DEF Connect, CoveredCursorsHoldLiveConnections, Covered,
     Selecting, alloc, RegistrySound, TypeOK, conVars, cursorVars, callVars,
     serverVars
<1>16. ASSUME NEW k \in Conn, Select(k)
      PROVE  CoveredCursorsHoldLiveConnections'
  BY <1>16, LinkCounts, HelperTypes DEF Select,
     CoveredCursorsHoldLiveConnections, Covered, Selecting, alloc,
     RegistrySound, TypeOK, CallShape, conVars, cursorVars, callVars,
     serverVars
<1>17. CASE SelectNone
  BY <1>17 DEF SelectNone, CoveredCursorsHoldLiveConnections, Covered,
     Selecting, alloc, TypeOK, CallShape, EndCall, AfterCall, conVars,
     cursorVars, callVars, serverVars
<1>18. CASE Answered
  <2>1. PICK i \in CursorId \cup {None} : QueryAnswered(i) \/ CommandAnswered(i)
    BY <1>18 DEF Answered
  <2>2. pc = "exchange"
    BY <1>18 DEF Answered
  <2>3. CASE QueryAnswered(i)
    BY <2>2, <2>3 DEF QueryAnswered, CoveredCursorsHoldLiveConnections, Covered,
       Selecting, alloc, EndCall, conVars
  <2>4. CASE CommandAnswered(i)
    BY <2>2, <2>4, UnlinkCounts, NoneAssumption
       DEF CommandAnswered, CoveredCursorsHoldLiveConnections, Covered, Selecting,
           alloc, EndCall, AfterCall, TypeOK, CallShape
  <2> QED
    BY <2>1, <2>3, <2>4
<1>19. CASE NotSent
  BY <1>19, UnlinkCounts, ExchangeIsCovered DEF NotSent,
     CoveredCursorsHoldLiveConnections, Covered, Selecting, alloc, TypeOK,
     CallShape, EndCall, AfterCall, conVars, cursorVars, callVars, serverVars
<1>20. CASE ErrorAnswered
  BY <1>20 DEF ErrorAnswered, CoveredCursorsHoldLiveConnections, Covered,
     Selecting, alloc, TypeOK, CallShape, EndCall, conVars, cursorVars,
     callVars, serverVars
<1>21. CASE ExchangeFails
  BY <1>21, DeregisterSparesOthers, ExchangeIsCovered, NoneAssumption DEF
     ExchangeFails, CoveredCursorsHoldLiveConnections, Covered, Selecting,
     alloc, AfterCall, EndCall, TypeOK
<1>22. CASE NotMasterAnswered
  BY <1>22, DeregisterSparesOthers, ExchangeIsCovered DEF NotMasterAnswered,
     CoveredCursorsHoldLiveConnections, Covered, Selecting, alloc, EndCall
<1>23. ASSUME NEW i \in CursorId, ServerReaps(i)
      PROVE  CoveredCursorsHoldLiveConnections'
  BY <1>23 DEF ServerReaps, CoveredCursorsHoldLiveConnections, Covered,
     Selecting, alloc, conVars, cursorVars, callVars, serverVars
<1>24. ASSUME NEW i \in CursorId, CreateFromUnknownHash(i)
      PROVE  CoveredCursorsHoldLiveConnections'
  BY <1>24 DEF CreateFromUnknownHash, CoveredCursorsHoldLiveConnections,
     Covered, Selecting, alloc, Idle, TypeOK, conVars, cursorVars, callVars,
     serverVars
<1>25. CASE Restart
  BY <1>25, NoneAssumption DEF Restart, CoveredCursorsHoldLiveConnections,
     Covered, Selecting, alloc, TypeOK, conVars, cursorVars, callVars,
     serverVars
<1>26. CASE UNCHANGED vars
  BY <1>26 DEF vars, CoveredCursorsHoldLiveConnections, Covered, Selecting,
     alloc, conVars, cursorVars, callVars, serverVars
<1> QED
  BY <1>1, <1>2, <1>3, <1>4, <1>5, <1>6, <1>7, <1>8, <1>9, <1>10,
      <1>11, <1>12, <1>13, <1>14, <1>15, <1>16, <1>17, <1>18, <1>19, <1>20,
      <1>21, <1>22, <1>23, <1>24, <1>25, <1>26 DEF Next

-----------------------------------------------------------------------------
(* Server-side cursors and the connections they are read from.             *)

\* When a connection is destroyed, no covered cursor keeps an id of its server.
LEMMA DeregisterForgetsIds ==
  ASSUME TypeOK, CallShape, RegistrySound, CoveredCursorsHoldLiveConnections,
         IdBelongsToConnection,
         NEW k \in registered, NEW failed, DeregisterConnection(k, failed),
         NEW c \in alloc, kind[c] # "command", cursor_id'[c] # None
  PROVE  /\ connection'[c] # None
         /\ server'[connection'[c]] = IssuedBy(cursor_id'[c])
<1>1. c \in Cursor
  BY DEF alloc
<1>2. /\ connection'[c] = connection[c]
      /\ cursor_id'[c] = cursor_id[c]
      /\ ~(cleanup_list[k][c] > 0)
  BY <1>1 DEF DeregisterConnection, TypeOK
<1>3. connection[c] # None /\ server[connection[c]] = IssuedBy(cursor_id[c])
  BY <1>2 DEF IdBelongsToConnection
<1>4. ~Selecting(c)
  BY <1>2 DEF Selecting, CallShape
<1>5. connection[c] # k
  BY <1>1, <1>2, <1>3, <1>4 DEF CoveredCursorsHoldLiveConnections, Covered
<1> QED
  BY <1>1, <1>2, <1>3, <1>5, DeregisterRemoves DEF TypeOK

\* After every step a covered cursor's id was issued by the server its connection
\* is to: ids are assigned from replies of that connection and dropped before the
\* connection is.
LEMMA IdStep ==
  ASSUME TypeOK, CallShape, RegistrySound, CoveredCursorsHoldLiveConnections,
         IdBelongsToConnection, [Next]_vars
  PROVE  IdBelongsToConnection'
<1>1. ASSUME NEW c \in Cursor, NEW class \in {"query", "command"}, NewCursor(c, class)
      PROVE  IdBelongsToConnection'
  BY <1>1, NoneAssumption DEF NewCursor, IdBelongsToConnection, alloc, Idle,
     TypeOK, conVars, cursorVars, callVars, serverVars
<1>2. ASSUME NEW c \in Cursor, NEW i \in CursorId, CreateFromDocument(c, i)
      PROVE  IdBelongsToConnection'
  BY <1>2, NoneAssumption DEF CreateFromDocument, IdBelongsToConnection,
     alloc, Idle, TypeOK, conVars, cursorVars, callVars, serverVars
<1>3. ASSUME NEW c \in Cursor, NEW k \in Conn, CreateFromMalformedDocument(c, k)
      PROVE  IdBelongsToConnection'
  BY <1>3, NoneAssumption DEF CreateFromMalformedDocument,
     IdBelongsToConnection, alloc, Idle, TypeOK, conVars, cursorVars,
     callVars, serverVars
<1>4. ASSUME NEW c \in Cursor, GetMoreEnds(c)
      PROVE  IdBelongsToConnection'
  BY <1>4, NoneAssumption DEF GetMoreEnds, IdBelongsToConnection, alloc,
     Idle, TypeOK, conVars, cursorVars, callVars, serverVars
<1>5. ASSUME NEW c \in Cursor, GetMoreFails(c)
      PROVE  IdBelongsToConnection'
  BY <1>5, DeregisterForgetsIds, AliveIsRegistered DEF GetMoreFails,
     IdBelongsToConnection, alloc
<1>6. ASSUME NEW c \in Cursor, KillAtLimit(c)
      PROVE  IdBelongsToConnection'
  BY <1>6, NoneAssumption DEF KillAtLimit, IdBelongsToConnection, alloc,
     Idle, TypeOK, conVars, cursorVars, callVars, serverVars
<1>7. ASSUME NEW c \in Cursor, ResetCursor(c)
      PROVE  IdBelongsToConnection'
  BY <1>7, NoneAssumption DEF ResetCursor, IdBelongsToConnection, alloc,
     Idle, TypeOK, conVars, cursorVars, callVars, serverVars
<1>8. ASSUME NEW c \in Cursor, FreeCursor(c)
      PROVE  IdBelongsToConnection'
  BY <1>8, NoneAssumption DEF FreeCursor, IdBelongsToConnection, alloc, Idle,
     TypeOK, conVars, cursorVars, callVars, serverVars
<1>9. ASSUME NEW c \in Cursor, StartQuery(c)
      PROVE  IdBelongsToConnection'
  BY <1>9, NoneAssumption DEF StartQuery, IdBelongsToConnection, alloc, Idle,
     TypeOK, conVars, cursorVars, callVars, serverVars
<1>10. ASSUME NEW c \in Cursor, NEW t \in Cursor, RewindCommandCursor(c, t)
      PROVE  IdBelongsToConnection'
  BY <1>10, NoneAssumption DEF RewindCommandCursor, IdBelongsToConnection,
     alloc, Idle, TypeOK, NewTemporary, conVars, cursorVars, callVars,
     serverVars
<1>11. ASSUME NEW c \in Cursor, RunCommand(c)
      PROVE  IdBelongsToConnection'
  BY <1>11, NoneAssumption DEF RunCommand, IdBelongsToConnection, alloc,
     Idle, TypeOK, NewTemporary, conVars, cursorVars, callVars, serverVars
<1>12. ASSUME NEW c \in Cursor, DereferenceDangling(c)
      PROVE  IdBelongsToConnection'
  BY <1>12, NoneAssumption DEF DereferenceDangling, IdBelongsToConnection,
     alloc, Idle, TypeOK, conVars, cursorVars, callVars, serverVars
<1>13. ASSUME NEW k \in Conn, CloseConnection(k)
      PROVE  IdBelongsToConnection'
  BY <1>13, DeregisterForgetsIds DEF CloseConnection, IdBelongsToConnection,
     alloc
<1>14. ASSUME NEW k \in Conn, DropBroken(k)
      PROVE  IdBelongsToConnection'
  BY <1>14, DeregisterForgetsIds DEF DropBroken, IdBelongsToConnection, alloc
<1>15. ASSUME NEW k \in Conn, NEW s \in Server, Connect(k, s)
      PROVE  IdBelongsToConnection'
  <2> SUFFICES ASSUME NEW c \in Cursor, kind[c] # None, cursor_id[c] # None, kind[c] # "command"
               PROVE  connection[c] # None /\ server'[connection[c]] = IssuedBy(cursor_id[c])
    BY <1>15 DEF Connect, cursorVars, IdBelongsToConnection, alloc
  <2>1. connection[c] # None /\ server[connection[c]] = IssuedBy(cursor_id[c])
    BY DEF IdBelongsToConnection, alloc
  <2>2. IssuedBy(cursor_id[c]) \in Server
    BY DEF TypeOK, CursorId, IssuedBy
  <2> QED
    BY <1>15, <2>1, <2>2, NoneAssumption DEF Connect, TypeOK
<1>16. ASSUME NEW k \in Conn, Select(k)
      PROVE  IdBelongsToConnection'
  BY <1>16, HelperTypes DEF Select, IdBelongsToConnection, alloc, TypeOK,
     CallShape, conVars, cursorVars, callVars, serverVars
<1>17. CASE SelectNone
  BY <1>17 DEF SelectNone, IdBelongsToConnection, alloc, TypeOK, CallShape,
     AfterCall, conVars, cursorVars, callVars, serverVars
<1>18. CASE Answered
  <2>1. PICK i \in CursorId \cup {None} :
           /\ i # None => IssuedBy(i) = server[connection[caller]]
           /\ QueryAnswered(i) \/ CommandAnswered(i)
    BY <1>18 DEF Answered
  <2>2. pc = "exchange"
    BY <1>18 DEF Answered
  <2>3. CASE QueryAnswered(i)
    BY <2>1, <2>2, <2>3, NoneAssumption
       DEF QueryAnswered, IdBelongsToConnection, alloc, conVars, TypeOK, CallShape
  <2>4. CASE CommandAnswered(i)
    BY <2>1, <2>2, <2>4, NoneAssumption
       DEF CommandAnswered, IdBelongsToConnection, alloc, AfterCall, TypeOK, CallShape
  <2> QED
    BY <2>1, <2>3, <2>4
<1>19. CASE NotSent
  BY <1>19, NoneAssumption DEF NotSent, IdBelongsToConnection, alloc, TypeOK,
     CallShape, AfterCall, conVars, cursorVars, callVars, serverVars
<1>20. CASE ErrorAnswered
  BY <1>20 DEF ErrorAnswered, IdBelongsToConnection, alloc, conVars,
     cursorVars, callVars, serverVars
<1>21. CASE ExchangeFails
  BY <1>21, DeregisterForgetsIds, ExchangeIsCovered, NoneAssumption DEF
     ExchangeFails, IdBelongsToConnection, alloc, AfterCall, TypeOK
<1>22. CASE NotMasterAnswered
  BY <1>22, DeregisterForgetsIds, ExchangeIsCovered DEF NotMasterAnswered,
     IdBelongsToConnection, alloc
<1>23. ASSUME NEW i \in CursorId, ServerReaps(i)
      PROVE  IdBelongsToConnection'
  BY <1>23 DEF ServerReaps, IdBelongsToConnection, alloc, conVars,
     cursorVars, callVars, serverVars
<1>24. ASSUME NEW i \in CursorId, CreateFromUnknownHash(i)
      PROVE  IdBelongsToConnection'
  BY <1>24, NoneAssumption DEF CreateFromUnknownHash, IdBelongsToConnection,
     alloc, Idle, TypeOK, conVars, cursorVars, callVars, serverVars
<1>25. CASE Restart
  BY <1>25, NoneAssumption DEF Restart, IdBelongsToConnection, alloc, TypeOK,
     conVars, cursorVars, callVars, serverVars
<1>26. CASE UNCHANGED vars
  BY <1>26 DEF vars, IdBelongsToConnection, alloc, conVars, cursorVars,
     callVars, serverVars
<1> QED
  BY <1>1, <1>2, <1>3, <1>4, <1>5, <1>6, <1>7, <1>8, <1>9, <1>10,
      <1>11, <1>12, <1>13, <1>14, <1>15, <1>16, <1>17, <1>18, <1>19, <1>20,
      <1>21, <1>22, <1>23, <1>24, <1>25, <1>26 DEF Next

\* php_mongo_kill_cursor() gives up one cursor only, and books it when it stays.
LEMMA KillBooks ==
  ASSUME TypeOK, NEW c \in Cursor, Kill(c)
  PROVE  /\ open' \subseteq open
         /\ lost \subseteq lost'
         /\ \A i \in open' : i = cursor_id[c] => i \in lost'
  BY DEF Kill, TypeOK

\* Destroying a connection books the server-side cursors that die with it as
\* lost, and leaves the other ids alone.
LEMMA DeregisterBooks ==
  ASSUME TypeOK, NEW k \in Conn, NEW failed, DeregisterConnection(k, failed)
  PROVE  /\ lost \subseteq lost'
         /\ \A c \in Cursor : cursor_id[c] \in open =>
              cursor_id'[c] = cursor_id[c] \/ cursor_id[c] \in lost'
  BY DEF DeregisterConnection, TypeOK

\* Every step accounts for the cursors that are open on the servers: what gives up
\* an id kills the cursor or books it as lost.
LEMMA LeakStep ==
  ASSUME TypeOK, CallShape, NoCursorLeaked, [Next]_vars
  PROVE  NoCursorLeaked'
<1>1. ASSUME NEW c \in Cursor, NEW class \in {"query", "command"}, NewCursor(c, class)
      PROVE  NoCursorLeaked'
  BY <1>1 DEF NewCursor, NoCursorLeaked, alloc, TypeOK, conVars, cursorVars,
     callVars, serverVars
<1>2. ASSUME NEW c \in Cursor, NEW i \in CursorId, CreateFromDocument(c, i)
      PROVE  NoCursorLeaked'
  BY <1>2, NoneAssumption DEF CreateFromDocument, NoCursorLeaked, alloc,
     TypeOK, Kind, conVars, cursorVars, callVars, serverVars
<1>3. ASSUME NEW c \in Cursor, NEW k \in Conn, CreateFromMalformedDocument(c, k)
      PROVE  NoCursorLeaked'
  BY <1>3 DEF CreateFromMalformedDocument, NoCursorLeaked, alloc, TypeOK,
     conVars, cursorVars, callVars, serverVars
<1>4. ASSUME NEW c \in Cursor, GetMoreEnds(c)
      PROVE  NoCursorLeaked'
  BY <1>4 DEF GetMoreEnds, NoCursorLeaked, alloc, TypeOK, conVars,
     cursorVars, callVars, serverVars
<1>5. ASSUME NEW c \in Cursor, GetMoreFails(c)
      PROVE  NoCursorLeaked'
  BY <1>5, DeregisterBooks DEF GetMoreFails, NoCursorLeaked, alloc, TypeOK,
     Alive
<1>6. ASSUME NEW c \in Cursor, KillAtLimit(c)
      PROVE  NoCursorLeaked'
  BY <1>6, KillBooks DEF KillAtLimit, NoCursorLeaked, alloc, TypeOK, conVars,
     cursorVars, callVars, serverVars
<1>7. ASSUME NEW c \in Cursor, ResetCursor(c)
      PROVE  NoCursorLeaked'
  BY <1>7, KillBooks DEF ResetCursor, NoCursorLeaked, alloc, TypeOK, conVars,
     cursorVars, callVars, serverVars
<1>8. ASSUME NEW c \in Cursor, FreeCursor(c)
      PROVE  NoCursorLeaked'
  BY <1>8, KillBooks DEF FreeCursor, NoCursorLeaked, alloc, TypeOK, conVars,
     cursorVars, callVars, serverVars
<1>9. ASSUME NEW c \in Cursor, StartQuery(c)
      PROVE  NoCursorLeaked'
  BY <1>9, KillBooks DEF StartQuery, NoCursorLeaked, alloc, TypeOK, conVars,
     cursorVars, callVars, serverVars
<1>10. ASSUME NEW c \in Cursor, NEW t \in Cursor, RewindCommandCursor(c, t)
      PROVE  NoCursorLeaked'
  BY <1>10, KillBooks, NoneAssumption DEF RewindCommandCursor,
     NoCursorLeaked, alloc, TypeOK, NewTemporary, Kind, conVars, cursorVars,
     callVars, serverVars
<1>11. ASSUME NEW c \in Cursor, RunCommand(c)
      PROVE  NoCursorLeaked'
  BY <1>11, NoneAssumption DEF RunCommand, NoCursorLeaked, alloc, TypeOK,
     NewTemporary, Kind, conVars, cursorVars, callVars, serverVars
<1>12. ASSUME NEW c \in Cursor, DereferenceDangling(c)
      PROVE  NoCursorLeaked'
  BY <1>12 DEF DereferenceDangling, NoCursorLeaked, alloc, TypeOK, conVars,
     cursorVars, callVars, serverVars
<1>13. ASSUME NEW k \in Conn, CloseConnection(k)
      PROVE  NoCursorLeaked'
  BY <1>13, DeregisterBooks DEF CloseConnection, NoCursorLeaked, alloc
<1>14. ASSUME NEW k \in Conn, DropBroken(k)
      PROVE  NoCursorLeaked'
  BY <1>14, DeregisterBooks DEF DropBroken, NoCursorLeaked, alloc
<1>15. ASSUME NEW k \in Conn, NEW s \in Server, Connect(k, s)
      PROVE  NoCursorLeaked'
  BY <1>15 DEF Connect, NoCursorLeaked, alloc, conVars, cursorVars, callVars,
     serverVars
<1>16. ASSUME NEW k \in Conn, Select(k)
      PROVE  NoCursorLeaked'
  BY <1>16 DEF Select, NoCursorLeaked, alloc, conVars, cursorVars, callVars,
     serverVars
<1>17. CASE SelectNone
  BY <1>17, NoneAssumption DEF SelectNone, NoCursorLeaked, alloc, TypeOK,
     CallShape, AfterCall, CursorId, conVars, cursorVars, callVars,
     serverVars
<1>18. CASE Answered
  <2>1. PICK i \in CursorId \cup {None} : QueryAnswered(i) \/ CommandAnswered(i)
    BY <1>18 DEF Answered
  <2>2. pc = "exchange"
    BY <1>18 DEF Answered
  <2>3. CASE QueryAnswered(i)
    BY <2>2, <2>3, NoneAssumption
       DEF QueryAnswered, NoCursorLeaked, alloc, TypeOK, CallShape, CursorId, Kind
  <2>4. CASE CommandAnswered(i)
    BY <2>2, <2>4, NoneAssumption
       DEF CommandAnswered, NoCursorLeaked, alloc, AfterCall, TypeOK, CallShape, CursorId, Kind
  <2> QED
    BY <2>1, <2>3, <2>4
<1>19. CASE NotSent
  BY <1>19, NoneAssumption DEF NotSent, NoCursorLeaked, alloc, TypeOK,
     CallShape, AfterCall, CursorId, conVars, cursorVars, callVars,
     serverVars
<1>20. CASE ErrorAnswered
  BY <1>20 DEF ErrorAnswered, NoCursorLeaked, alloc, conVars, cursorVars,
     callVars, serverVars
<1>21. CASE ExchangeFails
  BY <1>21, DeregisterBooks, NoneAssumption DEF ExchangeFails,
     NoCursorLeaked, alloc, AfterCall, TypeOK, CallShape, CursorId
<1>22. CASE NotMasterAnswered
  BY <1>22, DeregisterBooks DEF NotMasterAnswered, NoCursorLeaked, alloc,
     CallShape
<1>23. ASSUME NEW i \in CursorId, ServerReaps(i)
      PROVE  NoCursorLeaked'
  BY <1>23 DEF ServerReaps, NoCursorLeaked, alloc, conVars, cursorVars,
     callVars, serverVars
<1>24. ASSUME NEW i \in CursorId, CreateFromUnknownHash(i)
      PROVE  NoCursorLeaked'
  BY <1>24 DEF CreateFromUnknownHash, NoCursorLeaked, alloc, TypeOK, conVars,
     cursorVars, callVars, serverVars
<1>25. CASE Restart
  BY <1>25 DEF Restart, NoCursorLeaked, alloc, conVars, cursorVars, callVars,
     serverVars
<1>26. CASE UNCHANGED vars
  BY <1>26 DEF vars, NoCursorLeaked, alloc, conVars, cursorVars, callVars,
     serverVars
<1> QED
  BY <1>1, <1>2, <1>3, <1>4, <1>5, <1>6, <1>7, <1>8, <1>9, <1>10,
      <1>11, <1>12, <1>13, <1>14, <1>15, <1>16, <1>17, <1>18, <1>19, <1>20,
      <1>21, <1>22, <1>23, <1>24, <1>25, <1>26 DEF Next

-----------------------------------------------------------------------------
(* Callbacks.                                                              *)

\* A destroyed connection has no callbacks, and the ones on other connections
\* belong to cursors that were not touched.
LEMMA DeregisterKeepsCallbacks ==
  ASSUME TypeOK, CallbacksFollowCursors, strays = {},
         NEW k \in Conn, NEW failed, \A c \in failed : connection[c] = k,
         DeregisterConnection(k, failed),
         NEW j \in Conn, NEW c \in Cursor, cleanup_list'[j][c] > 0
  PROVE  /\ cleanup_list'[j][c] = 1
         /\ c \in alloc /\ kind[c] # "command" /\ connection'[c] = j /\ ~Selecting(c)
         /\ j # k
<1>1. j # k
  BY DEF DeregisterConnection, NoCallbacks, TypeOK
<1>2. cleanup_list'[j][c] = cleanup_list[j][c]
  BY <1>1 DEF DeregisterConnection, TypeOK
<1>3. cleanup_list[j][c] = 1 /\ c \in alloc /\ kind[c] # "command" /\ connection[c] = j /\ ~Selecting(c)
  BY <1>2 DEF CallbacksFollowCursors, Covered
<1>4. ~(cleanup_list[k][c] > 0) /\ c \notin failed
  BY <1>1, <1>3 DEF CallbacksFollowCursors, Covered
<1> QED
  BY <1>1, <1>2, <1>3, <1>4 DEF DeregisterConnection, TypeOK

\* Every step keeps callbacks with the covered cursors that use the connection,
\* one each.
LEMMA CallbackStep ==
  ASSUME TypeOK, CallShape, CallbacksFollowCursors, [Next]_vars
  PROVE  CallbacksFollowCursors'
<1>1. ASSUME NEW c \in Cursor, NEW class \in {"query", "command"}, NewCursor(c, class)
      PROVE  CallbacksFollowCursors'
  BY <1>1, NoneAssumption DEF NewCursor, CallbacksFollowCursors, Covered,
     Selecting, alloc, TypeOK, Idle, Kind, conVars, cursorVars, callVars,
     serverVars
<1>2. ASSUME NEW c \in Cursor, NEW i \in CursorId, CreateFromDocument(c, i)
      PROVE  CallbacksFollowCursors'
  BY <1>2, NoneAssumption, LinkCounts DEF CreateFromDocument,
     CallbacksFollowCursors, Covered, Selecting, alloc, TypeOK, Idle, Kind,
     conVars, cursorVars, callVars, serverVars
<1>3. ASSUME NEW c \in Cursor, NEW k \in Conn, CreateFromMalformedDocument(c, k)
      PROVE  CallbacksFollowCursors'
  BY <1>3 DEF CreateFromMalformedDocument, CallbacksFollowCursors, Covered,
     Selecting, alloc
<1>4. ASSUME NEW c \in Cursor, GetMoreEnds(c)
      PROVE  CallbacksFollowCursors'
  BY <1>4 DEF GetMoreEnds, CallbacksFollowCursors, Covered, Selecting, alloc,
     TypeOK, Idle, conVars, cursorVars, callVars, serverVars
<1>5. ASSUME NEW c \in Cursor, GetMoreFails(c)
      PROVE  CallbacksFollowCursors'
  BY <1>5, DeregisterKeepsCallbacks, NoneAssumption DEF GetMoreFails,
     CallbacksFollowCursors, Covered, Selecting, alloc, TypeOK, callVars,
     Alive
<1>6. ASSUME NEW c \in Cursor, KillAtLimit(c)
      PROVE  CallbacksFollowCursors'
  BY <1>6 DEF KillAtLimit, CallbacksFollowCursors, Covered, Selecting, alloc,
     TypeOK, Idle, conVars, cursorVars, callVars, serverVars
<1>7. ASSUME NEW c \in Cursor, ResetCursor(c)
      PROVE  CallbacksFollowCursors'
  BY <1>7 DEF ResetCursor, CallbacksFollowCursors, Covered, Selecting, alloc,
     TypeOK, Idle, conVars, cursorVars, callVars, serverVars
<1>8. ASSUME NEW c \in Cursor, FreeCursor(c)
      PROVE  CallbacksFollowCursors'
  BY <1>8, UnlinkCounts DEF FreeCursor, CallbacksFollowCursors, Covered,
     Selecting, alloc, TypeOK, Idle, conVars, cursorVars, callVars,
     serverVars
<1>9. ASSUME NEW c \in Cursor, StartQuery(c)
      PROVE  CallbacksFollowCursors'
  BY <1>9, UnlinkCounts DEF StartQuery, CallbacksFollowCursors, Covered,
     Selecting, alloc, TypeOK, Idle, conVars, cursorVars, callVars,
     serverVars
<1>10. ASSUME NEW c \in Cursor, NEW t \in Cursor, RewindCommandCursor(c, t)
      PROVE  CallbacksFollowCursors'
  BY <1>10, NoneAssumption DEF RewindCommandCursor, CallbacksFollowCursors,
     Covered, Selecting, alloc, TypeOK, Idle, NewTemporary, Kind, conVars,
     cursorVars, callVars, serverVars
<1>11. ASSUME NEW c \in Cursor, RunCommand(c)
      PROVE  CallbacksFollowCursors'
  BY <1>11, NoneAssumption DEF RunCommand, CallbacksFollowCursors, Covered,
     Selecting, alloc, TypeOK, Idle, NewTemporary, Kind, conVars, cursorVars,
     callVars, serverVars
<1>12. ASSUME NEW c \in Cursor, DereferenceDangling(c)
      PROVE  CallbacksFollowCursors'
  BY <1>12 DEF DereferenceDangling, CallbacksFollowCursors, Covered,
     Selecting, alloc, TypeOK, Idle, conVars, cursorVars, callVars,
     serverVars
<1>13. ASSUME NEW k \in Conn, CloseConnection(k)
      PROVE  CallbacksFollowCursors'
  <2>1. SUFFICES ASSUME strays = {}, NEW j \in Conn, NEW c \in Cursor, cleanup_list'[j][c] > 0
                 PROVE  cleanup_list'[j][c] = 1 /\ Covered(c)' /\ connection'[c] = j /\ ~Selecting(c)'
    BY <1>13 DEF CloseConnection, CallbacksFollowCursors
  <2>2. /\ cleanup_list'[j][c] = 1 /\ c \in alloc /\ kind[c] # "command"
        /\ connection'[c] = j /\ ~Selecting(c)
    BY <1>13, <2>1, DeregisterKeepsCallbacks DEF CloseConnection
  <2> QED
    BY <1>13, <2>2, NoneAssumption DEF CloseConnection, Covered, Selecting, alloc, callVars
<1>14. ASSUME NEW k \in Conn, DropBroken(k)
      PROVE  CallbacksFollowCursors'
  <2>1. SUFFICES ASSUME strays = {}, NEW j \in Conn, NEW c \in Cursor, cleanup_list'[j][c] > 0
                 PROVE  cleanup_list'[j][c] = 1 /\ Covered(c)' /\ connection'[c] = j /\ ~Selecting(c)'
    BY <1>14 DEF DropBroken, CallbacksFollowCursors
  <2>2. /\ cleanup_list'[j][c] = 1 /\ c \in alloc /\ kind[c] # "command"
        /\ connection'[c] = j /\ ~Selecting(c)
    BY <1>14, <2>1, DeregisterKeepsCallbacks DEF DropBroken
  <2> QED
    BY <1>14, <2>2, NoneAssumption DEF DropBroken, Covered, Selecting, alloc, callVars
<1>15. ASSUME NEW k \in Conn, NEW s \in Server, Connect(k, s)
      PROVE  CallbacksFollowCursors'
  BY <1>15 DEF Connect, CallbacksFollowCursors, Covered, Selecting, alloc,
     TypeOK, NoCallbacks, conVars, cursorVars, callVars, serverVars
<1>16. ASSUME NEW k \in Conn, Select(k)
      PROVE  CallbacksFollowCursors'
  <2>1. caller \in Cursor /\ caller \in alloc /\ pc = "select"
    BY <1>16, NoneAssumption DEF Select, CallShape, alloc, Kind
  <2>2. SUFFICES ASSUME strays = {}, NEW j \in Conn, NEW c \in Cursor, cleanup_list'[j][c] > 0
                 PROVE  cleanup_list'[j][c] = 1 /\ Covered(c)' /\ connection'[c] = j /\ ~Selecting(c)'
    BY <1>16 DEF Select, CallbacksFollowCursors
  <2>3. CASE c = caller
    <3>1. cleanup_list[j][c] = 0
      BY <2>1, <2>2, <2>3 DEF CallbacksFollowCursors, Covered, Selecting, TypeOK
    <3> QED
      BY <1>16, <2>1, <2>2, <2>3, <3>1, LinkCounts, NoneAssumption DEF Select, TypeOK, alloc, Covered, CallShape, Selecting
  <2>4. CASE c # caller
    <3>1. cleanup_list'[j][c] = cleanup_list[j][c]
      BY <1>16, <2>1, <2>4, LinkCounts DEF Select
    <3> QED
      BY <1>16, <2>1, <2>2, <2>4, <3>1 DEF Select, CallbacksFollowCursors, Covered, TypeOK, alloc, Selecting
  <2> QED
    BY <2>3, <2>4
<1>17. CASE SelectNone
  BY <1>17 DEF SelectNone, CallbacksFollowCursors, Covered, Selecting, alloc,
     TypeOK, CallShape, AfterCall, EndCall, conVars, cursorVars, callVars,
     serverVars
<1>18. CASE Answered
  <2>1. PICK i \in CursorId \cup {None} : QueryAnswered(i) \/ CommandAnswered(i)
    BY <1>18 DEF Answered
  <2>2. caller \in Cursor /\ connection[caller] \in Conn
    BY <1>18 DEF Answered, CallShape
  <2>3. pc = "exchange"
    BY <1>18 DEF Answered
  <2>4. CASE QueryAnswered(i)
    BY <2>2, <2>4
       DEF QueryAnswered, CallbacksFollowCursors, Covered, Selecting, alloc, EndCall, conVars
  <2>5. CASE CommandAnswered(i)
    <3>1. SUFFICES ASSUME strays = {}, NEW j \in Conn, NEW c \in Cursor, cleanup_list'[j][c] > 0
                   PROVE  cleanup_list'[j][c] = 1 /\ Covered(c)' /\ connection'[c] = j /\ ~Selecting(c)'
      BY <2>5 DEF CommandAnswered, CallbacksFollowCursors
    <3>2. cleanup_list'[j][c] = Unlink(caller)[j][c]
      BY <2>5 DEF CommandAnswered
    <3>3. c # caller
      BY <2>2, <3>1, <3>2, UnlinkCounts DEF CallbacksFollowCursors, Covered, TypeOK
    <3>4. cleanup_list'[j][c] = cleanup_list[j][c]
      BY <2>2, <3>2, <3>3, UnlinkCounts
    <3>5. c # client
      BY <2>3, <2>5, <3>1, <3>4, NoneAssumption DEF CommandAnswered, CallShape, CallbacksFollowCursors, Covered
    <3> QED
      BY <2>2, <2>5, <3>1, <3>3, <3>4, <3>5
         DEF CommandAnswered, CallbacksFollowCursors, Covered, Selecting, alloc, AfterCall, EndCall, TypeOK
  <2> QED
    BY <2>1, <2>4, <2>5
<1>19. CASE NotSent
  BY <1>19, UnlinkCounts, NoneAssumption DEF NotSent, CallbacksFollowCursors,
     Covered, Selecting, alloc, TypeOK, CallShape, AfterCall, EndCall,
     conVars, cursorVars, callVars, serverVars
<1>20. CASE ErrorAnswered
  BY <1>20 DEF ErrorAnswered, CallbacksFollowCursors, Covered, Selecting,
     alloc, EndCall, conVars, cursorVars, callVars, serverVars
<1>21. CASE ExchangeFails
  <2>1. caller \in Cursor /\ connection[caller] \in Conn
    BY <1>21 DEF ExchangeFails, CallShape
  <2>2. SUFFICES ASSUME strays = {}, NEW j \in Conn, NEW c \in Cursor, cleanup_list'[j][c] > 0
                 PROVE  cleanup_list'[j][c] = 1 /\ Covered(c)' /\ connection'[c] = j /\ ~Selecting(c)'
    BY <1>21 DEF ExchangeFails, CallbacksFollowCursors
  <2>3. /\ cleanup_list'[j][c] = 1 /\ c \in alloc /\ kind[c] # "command" /\ connection'[c] = j
        /\ j # connection[caller]
    BY <1>21, <2>1, <2>2, DeregisterKeepsCallbacks DEF ExchangeFails
  <2>4. connection'[caller] = None
    BY <1>21, <2>1 DEF ExchangeFails, DeregisterConnection, TypeOK
  <2>5. c # caller
    BY <2>3, <2>4, NoneAssumption
  <2> QED
    BY <1>21, <2>1, <2>3, <2>5, NoneAssumption DEF ExchangeFails, AfterCall, alloc, Covered, TypeOK, EndCall, Selecting
<1>22. CASE NotMasterAnswered
  BY <1>22, DeregisterKeepsCallbacks, NoneAssumption DEF NotMasterAnswered,
     CallbacksFollowCursors, Covered, Selecting, alloc, TypeOK, CallShape,
     EndCall
<1>23. ASSUME NEW i \in CursorId, ServerReaps(i)
      PROVE  CallbacksFollowCursors'
  BY <1>23 DEF ServerReaps, CallbacksFollowCursors, Covered, Selecting,
     alloc, conVars, cursorVars, callVars, serverVars
<1>24. ASSUME NEW i \in CursorId, CreateFromUnknownHash(i)
      PROVE  CallbacksFollowCursors'
  BY <1>24 DEF CreateFromUnknownHash, CallbacksFollowCursors, Covered,
     Selecting, alloc, TypeOK, Idle, conVars, cursorVars, callVars,
     serverVars
<1>25. CASE Restart
  BY <1>25 DEF Restart, CallbacksFollowCursors, Covered, Selecting, alloc,
     TypeOK, NoCallbacks, conVars, cursorVars, callVars, serverVars
<1>26. CASE UNCHANGED vars
  BY <1>26 DEF vars, CallbacksFollowCursors, Covered, Selecting, alloc,
     conVars, cursorVars, callVars, serverVars
<1> QED
  BY <1>1, <1>2, <1>3, <1>4, <1>5, <1>6, <1>7, <1>8, <1>9, <1>10,
      <1>11, <1>12, <1>13, <1>14, <1>15, <1>16, <1>17, <1>18, <1>19, <1>20,
      <1>21, <1>22, <1>23, <1>24, <1>25, <1>26 DEF Next

-----------------------------------------------------------------------------
(* The theorems.                                                           *)

\* Whatever calls the program makes, whatever fails, the state keeps its types,
\* the registry lists exactly the live connections, one per hash, the covered
\* cursors point into it, ids go to the server that issued them, callbacks follow
\* their cursors and no server-side cursor is forgotten.
THEOREM InvariantHolds == Spec => []Invariant
<1>1. Init => Invariant
  <2> SUFFICES ASSUME Init PROVE Invariant
    OBVIOUS
  <2>1. TypeOK
    BY NoCallbackTypes DEF Init, TypeOK, Phase
  <2>2. CallShape
    BY DEF Init, CallShape
  <2>3. RegistrySound
    BY DEF Init, RegistrySound
  <2>4. CoveredCursorsHoldLiveConnections
    BY DEF Init, CoveredCursorsHoldLiveConnections, Covered, alloc
  <2>5. IdBelongsToConnection
    BY DEF Init, IdBelongsToConnection, alloc
  <2>6. CallbacksFollowCursors
    BY DEF Init, CallbacksFollowCursors, NoCallbacks
  <2>7. NoCursorLeaked
    BY DEF Init, NoCursorLeaked
  <2> QED
    BY <2>1, <2>2, <2>3, <2>4, <2>5, <2>6, <2>7 DEF Invariant
<1>2. Invariant /\ [Next]_vars => Invariant'
  BY TypeStep, CallShapeStep, RegistryStep, CoveredStep, IdStep, CallbackStep, LeakStep
     DEF Invariant
<1> QED
  BY <1>1, <1>2, PTL DEF Spec

\* Counts of callbacks stay natural numbers, pointers stay slots or None.
THEOREM TypesAreCorrect == Spec => []TypeOK
  BY InvariantHolds, PTL DEF Invariant

\* The manager's list holds every live connection and nothing else, one per hash.
THEOREM RegistryIsSound == Spec => []RegistrySound
  BY InvariantHolds, PTL DEF Invariant

\* No call on one cursor, and no write or close(), leaves a covered cursor with a
\* pointer to a freed connection.
THEOREM NoCoveredCursorDangles == Spec => []CoveredCursorsHoldLiveConnections
  BY InvariantHolds, PTL DEF Invariant

\* get_more and kill of a covered cursor go to the server that issued its id.
THEOREM IdsStayWithTheirServer == Spec => []IdBelongsToConnection
  BY InvariantHolds, PTL DEF Invariant

\* Destroying a connection writes to no freed cursor.
THEOREM CallbacksAreForLiveCursors == Spec => []CallbacksFollowCursors
  BY InvariantHolds, PTL DEF Invariant

\* A cursor that stays open on a server is still held, or was lost with its
\* connection.
THEOREM CursorsAreAccountedFor == Spec => []NoCursorLeaked
  BY InvariantHolds, PTL DEF Invariant

\* A connection that is destroyed marks dead the cursors that use it, and the
\* others stay alive.
LEMMA DeregisterKillsItsOwn ==
  ASSUME TypeOK, RegistrySound, CallbacksFollowCursors, strays = {},
         NEW k \in registered, NEW failed, \A c \in failed : connection[c] = k,
         DeregisterConnection(k, failed),
         NEW c \in alloc, ~dead[c], dead'[c]
  PROVE  connection[c] \in registered /\ connection[c] \notin registered'
<1>1. c \in Cursor /\ k \in Conn
  BY DEF alloc, TypeOK
<1>2. cleanup_list[k][c] > 0 \/ c \in failed
  BY <1>1 DEF DeregisterConnection, TypeOK
<1>3. connection[c] = k
  BY <1>1, <1>2 DEF CallbacksFollowCursors
<1> QED
  BY <1>3, DeregisterRemoves

\* Only a step that destroyed the connection a cursor was using makes it die.
THEOREM CursorsDieWithTheirConnection == Spec => DiesOnlyWithItsConnection
<1> DEFINE Claim ==
      strays = {} =>
        \A c \in alloc :
          ~dead[c] /\ dead'[c] =>
            connection[c] \in registered /\ connection[c] \notin registered'
<1>1. Invariant /\ [Next]_vars => Claim
  <2> SUFFICES ASSUME Invariant, [Next]_vars, strays = {}
               PROVE  Claim
    OBVIOUS
  <2> USE DEF Invariant
  <2>1. ASSUME NEW c \in Cursor, NEW class \in {"query", "command"}, NewCursor(c, class)
        PROVE  Claim
    BY <2>1 DEF NewCursor, TypeOK, alloc
  <2>2. ASSUME NEW c \in Cursor, NEW i \in CursorId, CreateFromDocument(c, i)
        PROVE  Claim
    BY <2>2 DEF CreateFromDocument, TypeOK, alloc
  <2>3. ASSUME NEW c \in Cursor, NEW k \in Conn, CreateFromMalformedDocument(c, k)
        PROVE  Claim
    BY <2>3 DEF CreateFromMalformedDocument, conVars, cursorVars
  <2>4. ASSUME NEW c \in Cursor, GetMoreEnds(c)
        PROVE  Claim
    BY <2>4 DEF GetMoreEnds, conVars, cursorVars
  <2>5. ASSUME NEW c \in Cursor, GetMoreFails(c)
        PROVE  Claim
    BY <2>5, DeregisterKillsItsOwn, AliveIsRegistered DEF GetMoreFails
  <2>6. ASSUME NEW c \in Cursor, KillAtLimit(c)
        PROVE  Claim
    BY <2>6 DEF KillAtLimit, conVars, cursorVars
  <2>7. ASSUME NEW c \in Cursor, ResetCursor(c)
        PROVE  Claim
    BY <2>7 DEF ResetCursor, TypeOK, alloc
  <2>8. ASSUME NEW c \in Cursor, FreeCursor(c)
        PROVE  Claim
    BY <2>8 DEF FreeCursor, TypeOK, alloc
  <2>9. ASSUME NEW c \in Cursor, StartQuery(c)
        PROVE  Claim
    BY <2>9 DEF StartQuery, TypeOK, alloc
  <2>10. ASSUME NEW c \in Cursor, NEW t \in Cursor, RewindCommandCursor(c, t)
        PROVE  Claim
    BY <2>10 DEF RewindCommandCursor, NewTemporary, TypeOK, alloc
  <2>11. ASSUME NEW c \in Cursor, RunCommand(c)
        PROVE  Claim
    BY <2>11 DEF RunCommand, NewTemporary, TypeOK, alloc
  <2>12. ASSUME NEW c \in Cursor, DereferenceDangling(c)
        PROVE  Claim
    BY <2>12 DEF DereferenceDangling, conVars, cursorVars
  <2>13. ASSUME NEW k \in Conn, CloseConnection(k)
        PROVE  Claim
    BY <2>13, DeregisterKillsItsOwn DEF CloseConnection
  <2>14. ASSUME NEW k \in Conn, DropBroken(k)
        PROVE  Claim
    BY <2>14, DeregisterKillsItsOwn DEF DropBroken
  <2>15. ASSUME NEW k \in Conn, NEW s \in Server, Connect(k, s)
        PROVE  Claim
    BY <2>15 DEF Connect, conVars, cursorVars
  <2>16. ASSUME NEW k \in Conn, Select(k)
        PROVE  Claim
    BY <2>16 DEF Select, conVars, cursorVars
  <2>17. CASE SelectNone
    BY <2>17 DEF SelectNone, conVars, cursorVars
  <2>18. CASE Answered
    BY <2>18 DEF Answered, QueryAnswered, CommandAnswered
  <2>19. CASE NotSent
    BY <2>19 DEF NotSent, conVars, cursorVars
  <2>20. CASE ErrorAnswered
    BY <2>20 DEF ErrorAnswered, conVars, cursorVars
  <2>21. CASE ExchangeFails
    BY <2>21, DeregisterKillsItsOwn, ExchangeIsCovered DEF ExchangeFails
  <2>22. CASE NotMasterAnswered
    BY <2>22, DeregisterKillsItsOwn, ExchangeIsCovered DEF NotMasterAnswered
  <2>23. ASSUME NEW i \in CursorId, ServerReaps(i)
        PROVE  Claim
    BY <2>23 DEF ServerReaps, conVars, cursorVars
  <2>24. ASSUME NEW i \in CursorId, CreateFromUnknownHash(i)
        PROVE  Claim
    BY <2>24 DEF CreateFromUnknownHash, conVars, cursorVars
  <2>25. CASE Restart
    BY <2>25 DEF Restart, TypeOK, alloc
  <2>26. CASE UNCHANGED vars
    BY <2>26 DEF vars, conVars, cursorVars
  <2> QED
    BY <2>1, <2>2, <2>3, <2>4, <2>5, <2>6, <2>7, <2>8, <2>9, <2>10,
        <2>11, <2>12, <2>13, <2>14, <2>15, <2>16, <2>17, <2>18, <2>19, <2>20,
        <2>21, <2>22, <2>23, <2>24, <2>25, <2>26 DEF Next
<1> QED
  BY <1>1, InvariantHolds, PTL DEF Spec, DiesOnlyWithItsConnection

=============================================================================
