------------------------- MODULE CursorConnections -------------------------
(***************************************************************************)
(* The connection registry of the manager (mcon/manager.c) together with   *)
(* the cursors that hold pointers into it (cursor_shared.c, cursor.c,      *)
(* command_cursor.c, db.c).  One PHP worker process is modelled: it is     *)
(* single threaded, so a call runs to its end before the next one starts,  *)
(* but a call on one cursor destroys connections other cursors use.        *)
(*                                                                         *)
(* A connection and a cursor are the memory they occupy: a slot is free,   *)
(* allocated, freed and allocated again, so a pointer that outlives its    *)
(* object may come to point at another one.                                *)
(***************************************************************************)
EXTENDS Naturals, FiniteSets

CONSTANTS
  Cursor,     \* memory slots of mongo_cursor objects
  Conn,       \* memory slots of mongo_connection objects
  Server,     \* connection hashes: one server, one set of credentials
  Token,      \* what tells apart the cursor ids one server hands out
  None,       \* NULL, a zero cursor id, a free connection slot
  MaxStrays   \* bound on createFromDocument() calls with a malformed document

Kind == {"query", "command", "document", "temporary"}

ASSUME NoneAssumption ==
  /\ None \notin Cursor \cup Conn \cup Server \cup Kind
  /\ None \notin Server \X Token

ASSUME StraysAssumption == MaxStrays \in Nat

VARIABLES
  server,       \* con->hash, None where no connection is allocated
  registered,   \* manager->connections
  cleanup_list, \* con->cleanup_list: how many callbacks each cursor has there
  kind,         \* which class and constructor made the cursor, None for a free slot
  connection,   \* cursor->connection
  cursor_id,    \* cursor->cursor_id
  dead,         \* cursor->dead
  pc,           \* where the running call is: see Phase
  caller,       \* the cursor mongo_cursor__do_query() runs for
  client,       \* the command cursor php_mongo_runcommand() runs for, if any
  open,         \* cursors open on the servers
  docs,         \* raw cursor documents the user holds
  lost,         \* open cursors that no client can kill any more
  strays        \* history: callbacks left by a failed createFromDocument()

vars == <<server, registered, cleanup_list, kind, connection, cursor_id,
          dead, pc, caller, client, open, docs, lost, strays>>

conVars    == <<server, registered, cleanup_list>>
cursorVars == <<kind, connection, cursor_id, dead>>
callVars   == <<pc, caller, client>>
serverVars == <<open, docs, lost>>

-----------------------------------------------------------------------------
CursorId == Server \X Token
IssuedBy(i) == i[1]

Phase == {"idle", "select", "exchange", "crashed"}

TypeOK ==
  /\ server \in [Conn -> Server \cup {None}]
  /\ registered \in SUBSET Conn
  /\ cleanup_list \in [Conn -> [Cursor -> Nat]]
  /\ kind \in [Cursor -> Kind \cup {None}]
  /\ connection \in [Cursor -> Conn \cup {None}]
  /\ cursor_id \in [Cursor -> CursorId \cup {None}]
  /\ dead \in [Cursor -> BOOLEAN]
  /\ pc \in Phase
  /\ caller \in Cursor \cup {None}
  /\ client \in Cursor \cup {None}
  /\ open \in SUBSET CursorId
  /\ docs \in SUBSET CursorId
  /\ lost \in SUBSET CursorId
  /\ strays \in SUBSET (Conn \X Cursor)

NoCallbacks == [c \in Cursor |-> 0]

Init ==
  /\ server = [k \in Conn |-> None]
  /\ registered = {}
  /\ cleanup_list = [k \in Conn |-> NoCallbacks]
  /\ kind = [c \in Cursor |-> None]
  /\ connection = [c \in Cursor |-> None]
  /\ cursor_id = [c \in Cursor |-> None]
  /\ dead = [c \in Cursor |-> FALSE]
  /\ pc = "idle" /\ caller = None /\ client = None
  /\ open = {} /\ docs = {} /\ lost = {}
  /\ strays = {}

-----------------------------------------------------------------------------
(* Helpers: the functions several handlers call.                           *)

\* The mongo_cursor objects that exist.
alloc == {c \in Cursor : kind[c] # None}

\* cursor->connection points at an allocated connection.
Alive(c) == connection[c] # None /\ server[connection[c]] # None

\* A message about c's server-side cursor goes to the server that opened it.
ReachesIssuer(c) ==
  /\ cursor_id[c] # None
  /\ Alive(c)
  /\ server[connection[c]] = IssuedBy(cursor_id[c])

\* Mutant of Kill: the message is forgotten.
MutantKill(c) == c \in Cursor /\ open' = open /\ lost' = lost

\* php_mongo_kill_cursor(), guarded by cursor_id # 0.  A send that fails only
\* raises a warning, and the server keeps the cursor.
Kill(c) ==
  \E sent \in BOOLEAN :
    /\ sent => ReachesIssuer(c)
    /\ open' = IF sent THEN open \ {cursor_id[c]} ELSE open
    /\ lost' = IF sent THEN lost ELSE lost \cup ({cursor_id[c]} \cap open)

\* Mutant of Link: the connection is handed out without a callback.
MutantLink(k, c) == [cleanup_list EXCEPT ![k][c] = @]

\* mongo_manager_add_connection_callback(): appends, and looks for no duplicate.
Link(k, c) == [cleanup_list EXCEPT ![k][c] = @ + 1]

\* Mutant of Unlink: the callback stays when the cursor leaves the connection.
MutantUnlink(c) == IF c \in Cursor THEN cleanup_list ELSE cleanup_list

\* mongo_deregister_callback_from_connection(): removes the first entry only.
Unlink(c) ==
  IF connection[c] = None THEN cleanup_list
  ELSE [cleanup_list EXCEPT ![connection[c]][c] = IF @ > 0 THEN @ - 1 ELSE 0]

\* mongo_manager_connection_deregister(): the list item is found by hash, the
\* connection given is destroyed, and every callback on it marks its cursor
\* dead.  php_mongo_cursor_failed() then treats its own cursor, failed, alike.
DeregisterConnection(k, failed) ==
  LET killed == {c \in Cursor : cleanup_list[k][c] > 0} \cup failed
  IN  /\ \E item \in registered :
           /\ server[item] = server[k]
           /\ registered' = registered \ {item}
      /\ server' = [server EXCEPT ![k] = None]
      /\ cleanup_list' = [cleanup_list EXCEPT ![k] = NoCallbacks]
      /\ connection' = [c \in Cursor |-> IF c \in killed THEN None ELSE connection[c]]
      /\ cursor_id' = [c \in Cursor |-> IF c \in killed THEN None ELSE cursor_id[c]]
      /\ dead' = [c \in Cursor |-> dead[c] \/ c \in killed]
      /\ lost' = lost \cup {i \in open : \E c \in killed : cursor_id[c] = i}

\* An id no client holds: servers draw 64 random bits.
Fresh(i) ==
  /\ i \notin open \cup docs
  /\ \A c \in Cursor : cursor_id[c] # i

-----------------------------------------------------------------------------
(* Calls of the user's program that need no connection to be selected.     *)

Idle == pc = "idle"

\* MongoCursor::__construct, MongoCommandCursor::__construct.
NewCursor(c, class) ==
  /\ Idle /\ c \notin alloc
  /\ kind' = [kind EXCEPT ![c] = class]
  /\ connection' = [connection EXCEPT ![c] = None]
  /\ cursor_id' = [cursor_id EXCEPT ![c] = None]
  /\ dead' = [dead EXCEPT ![c] = FALSE]
  /\ UNCHANGED <<conVars, callVars, serverVars, strays>>

\* MongoCommandCursor::createFromDocument() with the hash of a known
\* connection: the new cursor takes over the server-side cursor.
CreateFromDocument(c, i) ==
  /\ Idle /\ c \notin alloc /\ i \in docs
  /\ \E k \in registered :
       /\ server[k] = IssuedBy(i)
       /\ cleanup_list' = Link(k, c)
       /\ connection' = [connection EXCEPT ![c] = k]
  /\ kind' = [kind EXCEPT ![c] = "document"]
  /\ cursor_id' = [cursor_id EXCEPT ![c] = i]
  /\ dead' = [dead EXCEPT ![c] = FALSE]
  /\ docs' = docs \ {i}
  /\ UNCHANGED <<server, registered, callVars, open, lost, strays>>

\* The document lacks an id, a ns or a firstBatch: the callback is on the
\* connection already when the function returns, and the new object is dropped.
CreateFromMalformedDocument(c, k) ==
  /\ Idle /\ c \notin alloc /\ k \in registered
  /\ Cardinality(strays) < MaxStrays
  /\ cleanup_list' = Link(k, c)
  /\ strays' = strays \cup {<<k, c>>}
  /\ UNCHANGED <<server, registered, cursorVars, callVars, serverVars>>

\* No connection has the hash: the callback is appended to NULL.
CreateFromUnknownHash(i) ==
  /\ Idle /\ i \in docs
  /\ \A k \in registered : server[k] # IssuedBy(i)
  /\ pc' = "crashed"
  /\ UNCHANGED <<conVars, cursorVars, caller, client, serverVars, strays>>

\* php_mongo_get_more() whose reply ends the cursor: the last batch, or the
\* flag that the server does not know the cursor.
GetMoreEnds(c) ==
  /\ Idle /\ c \in alloc /\ cursor_id[c] # None /\ Alive(c)
  /\ cursor_id' = [cursor_id EXCEPT ![c] = None]
  /\ IF ReachesIssuer(c)
     THEN open' = open \ {cursor_id[c]} /\ lost' = lost
     ELSE open' = open /\ lost' = lost \cup ({cursor_id[c]} \cap open)
  /\ UNCHANGED <<conVars, kind, connection, dead, callVars, docs, strays>>

\* php_mongo_get_more() that cannot send or cannot read a whole, matching reply.
GetMoreFails(c) ==
  /\ Idle /\ c \in alloc /\ cursor_id[c] # None /\ Alive(c)
  /\ DeregisterConnection(connection[c], {c})
  /\ UNCHANGED <<kind, callVars, open, docs, strays>>

\* The limit is reached in hasNext() or next(), with documents left.
KillAtLimit(c) ==
  /\ Idle /\ c \in alloc /\ kind[c] = "query" /\ cursor_id[c] # None
  /\ Kill(c)
  /\ cursor_id' = [cursor_id EXCEPT ![c] = None]
  /\ UNCHANGED <<conVars, kind, connection, dead, callVars, docs, strays>>

\* MongoCursor::reset(): the connection and the callback on it stay.
ResetCursor(c) ==
  /\ Idle /\ c \in alloc /\ kind[c] = "query"
  /\ Kill(c)
  /\ cursor_id' = [cursor_id EXCEPT ![c] = None]
  /\ dead' = [dead EXCEPT ![c] = FALSE]
  /\ UNCHANGED <<conVars, kind, connection, callVars, docs, strays>>

\* php_mongo_cursor_free(), when PHP drops the last reference.
FreeCursor(c) ==
  /\ Idle /\ c \in alloc
  /\ Kill(c)
  /\ cleanup_list' = Unlink(c)
  /\ kind' = [kind EXCEPT ![c] = None]
  /\ connection' = [connection EXCEPT ![c] = None]
  /\ cursor_id' = [cursor_id EXCEPT ![c] = None]
  /\ dead' = [dead EXCEPT ![c] = FALSE]
  /\ UNCHANGED <<server, registered, callVars, docs, strays>>

\* MongoClient::close(), and writes that fail (do_gle_op(), batch/write.c).
CloseConnection(k) ==
  /\ Idle /\ k \in registered
  /\ DeregisterConnection(k, {})
  /\ UNCHANGED <<kind, callVars, open, docs, strays>>

-----------------------------------------------------------------------------
(* Calls that run a query: php_mongo_runquery() resets the cursor and takes *)
(* its callback off the connection, then a connection is selected, then the *)
(* query is exchanged for a reply.                                         *)

\* Mutant of StartQuery: the cursor keeps its id when it is reset.
MutantStartQuery(c) ==
  /\ Idle /\ c \in alloc /\ kind[c] = "query"
  /\ Kill(c)
  /\ cleanup_list' = Unlink(c)
  /\ dead' = [dead EXCEPT ![c] = FALSE]
  /\ pc' = "select" /\ caller' = c /\ client' = None
  /\ UNCHANGED <<server, registered, kind, connection, cursor_id, docs, strays>>

\* next(), hasNext(), rewind() and doQuery() of a MongoCursor.
StartQuery(c) ==
  /\ Idle /\ c \in alloc /\ kind[c] = "query"
  /\ Kill(c)
  /\ cursor_id' = [cursor_id EXCEPT ![c] = None]
  /\ dead' = [dead EXCEPT ![c] = FALSE]
  /\ cleanup_list' = Unlink(c)
  /\ pc' = "select" /\ caller' = c /\ client' = None
  /\ UNCHANGED <<server, registered, kind, connection, docs, strays>>

\* php_mongo_runcommand() allocates a cursor of its own for the command.
NewTemporary(t) ==
  /\ t \notin alloc
  /\ kind' = [kind EXCEPT ![t] = "temporary"]
  /\ connection' = [connection EXCEPT ![t] = None]
  /\ pc' = "select" /\ caller' = t

\* MongoCommandCursor::rewind(): the old server-side cursor is killed; the
\* pointer to the connection stays until the command has been answered.
RewindCommandCursor(c, t) ==
  /\ Idle /\ c \in alloc /\ kind[c] = "command" /\ ~dead[c]
  /\ Kill(c)
  /\ NewTemporary(t)
  /\ cursor_id' = [cursor_id EXCEPT ![c] = None, ![t] = None]
  /\ dead' = [dead EXCEPT ![c] = FALSE, ![t] = FALSE]
  /\ client' = c
  /\ UNCHANGED <<conVars, docs, strays>>

\* MongoDB::command(): the answer goes to the user as a document.
RunCommand(t) ==
  /\ Idle
  /\ NewTemporary(t)
  /\ cursor_id' = [cursor_id EXCEPT ![t] = None]
  /\ dead' = [dead EXCEPT ![t] = FALSE]
  /\ client' = None
  /\ UNCHANGED <<conVars, serverVars, strays>>

\* Mutant of Connect: no look-up by hash before a connection is made.
MutantConnect(k, s) ==
  /\ pc = "select" /\ server[k] = None
  /\ server' = [server EXCEPT ![k] = s]
  /\ registered' = registered \cup {k}
  /\ cleanup_list' = [cleanup_list EXCEPT ![k] = NoCallbacks]
  /\ UNCHANGED <<cursorVars, callVars, serverVars, strays>>

\* During mongo_get_read_write_connection() a known connection proves broken
\* (a ping or an ismaster fails, the server is not what the seed list says).
DropBroken(k) ==
  /\ pc = "select" /\ k \in registered
  /\ DeregisterConnection(k, {})
  /\ UNCHANGED <<kind, callVars, open, docs, strays>>

\* ... and mongo_get_connection_single() creates and registers a new one, only
\* when no connection with that hash is known.
Connect(k, s) ==
  /\ pc = "select" /\ server[k] = None
  /\ \A j \in registered : server[j] # s
  /\ server' = [server EXCEPT ![k] = s]
  /\ registered' = registered \cup {k}
  /\ cleanup_list' = [cleanup_list EXCEPT ![k] = NoCallbacks]
  /\ UNCHANGED <<cursorVars, callVars, serverVars, strays>>

EndCall == pc' = "idle" /\ caller' = None /\ client' = None

\* kind after the running call: php_mongo_runcommand() frees its own cursor.
AfterCall == IF kind[caller] = "temporary" THEN [kind EXCEPT ![caller] = None] ELSE kind

\* No server qualifies.
SelectNone ==
  /\ pc = "select"
  /\ connection' = [connection EXCEPT ![caller] = None]
  /\ kind' = AfterCall
  /\ EndCall
  /\ UNCHANGED <<conVars, cursor_id, dead, serverVars, strays>>

\* A server is picked: it is assigned, with the callback.
Select(k) ==
  /\ pc = "select" /\ k \in registered
  /\ connection' = [connection EXCEPT ![caller] = k]
  /\ cleanup_list' = Link(k, caller)
  /\ pc' = "exchange"
  /\ UNCHANGED <<server, registered, kind, cursor_id, dead, caller, client, serverVars, strays>>

\* The reply opens a server-side cursor, or (i = None) holds the whole result.
QueryAnswered(i) ==
  /\ kind[caller] = "query"
  /\ cursor_id' = [cursor_id EXCEPT ![caller] = i]
  /\ open' = open \cup ({i} \ {None})
  /\ EndCall
  /\ UNCHANGED <<conVars, kind, connection, dead, docs, lost, strays>>

\* The command's answer: the command cursor takes the connection of the
\* temporary cursor (without a callback of its own) and the id, or the user
\* gets the document; the temporary cursor is freed.
CommandAnswered(i) ==
  /\ kind[caller] = "temporary"
  /\ cleanup_list' = Unlink(caller)
  /\ kind' = AfterCall
  /\ IF client = None
     THEN /\ connection' = [connection EXCEPT ![caller] = None]
          /\ cursor_id' = cursor_id
          /\ docs' = docs \cup ({i} \ {None})
     ELSE /\ connection' = [connection EXCEPT ![caller] = None, ![client] = connection[caller]]
          /\ cursor_id' = [cursor_id EXCEPT ![client] = i]
          /\ docs' = docs
  /\ open' = open \cup ({i} \ {None})
  /\ EndCall
  /\ UNCHANGED <<server, registered, dead, lost, strays>>

Answered ==
  /\ pc = "exchange"
  /\ \E i \in CursorId \cup {None} :
       /\ i # None => Fresh(i) /\ IssuedBy(i) = server[connection[caller]]
       /\ QueryAnswered(i) \/ CommandAnswered(i)

\* The query does not fit a message: nothing was sent, the connection is kept
\* and, for a command, the temporary cursor is freed.
NotSent ==
  /\ pc = "exchange"
  /\ kind' = AfterCall
  /\ IF kind[caller] = "temporary"
     THEN cleanup_list' = Unlink(caller) /\ connection' = [connection EXCEPT ![caller] = None]
     ELSE UNCHANGED <<cleanup_list, connection>>
  /\ EndCall
  /\ UNCHANGED <<server, registered, cursor_id, dead, serverVars, strays>>

\* A document with $err: the exception leaves the connection alone, and a
\* temporary cursor is not freed before the end of the request.
ErrorAnswered ==
  /\ pc = "exchange"
  /\ EndCall
  /\ UNCHANGED <<conVars, cursorVars, serverVars, strays>>

\* php_mongo_cursor_failed() after a send or a reply that failed.
ExchangeFails ==
  /\ pc = "exchange"
  /\ DeregisterConnection(connection[caller], {caller})
  /\ kind' = AfterCall
  /\ EndCall
  /\ UNCHANGED <<open, docs, strays>>

\* php_mongo_cursor_failed() after a "not master" $err: as above, but the
\* temporary cursor is not freed.
NotMasterAnswered ==
  /\ pc = "exchange"
  /\ DeregisterConnection(connection[caller], {caller})
  /\ EndCall
  /\ UNCHANGED <<kind, open, docs, strays>>

-----------------------------------------------------------------------------
(* The environment.                                                        *)

\* The server closes a cursor by itself (idle for ten minutes, restart).
ServerReaps(i) ==
  /\ i \in open
  /\ open' = open \ {i}
  /\ lost' = lost \ {i}
  /\ UNCHANGED <<conVars, cursorVars, callVars, docs, strays>>

\* A freed connection is dereferenced, by get_more, rewind or free of a command
\* cursor: undefined behaviour, of which a crash is one outcome.  The other one,
\* that nothing is noticed, is in the actions above.
DereferenceDangling(c) ==
  /\ Idle /\ c \in alloc /\ kind[c] = "command"
  /\ connection[c] # None /\ ~Alive(c)
  /\ pc' = "crashed"
  /\ UNCHANGED <<conVars, cursorVars, caller, client, serverVars, strays>>

\* A new worker process: the servers still have the old one's cursors.
Restart ==
  /\ pc = "crashed"
  /\ server' = [k \in Conn |-> None]
  /\ registered' = {}
  /\ cleanup_list' = [k \in Conn |-> NoCallbacks]
  /\ kind' = [c \in Cursor |-> None]
  /\ connection' = [c \in Cursor |-> None]
  /\ cursor_id' = [c \in Cursor |-> None]
  /\ dead' = [c \in Cursor |-> FALSE]
  /\ EndCall
  /\ docs' = {} /\ open' = open /\ lost' = open /\ strays' = {}

Next ==
  \/ \E c \in Cursor :
       \/ \E class \in {"query", "command"} : NewCursor(c, class)
       \/ \E i \in CursorId : CreateFromDocument(c, i)
       \/ \E k \in Conn : CreateFromMalformedDocument(c, k)
       \/ GetMoreEnds(c)
       \/ GetMoreFails(c)
       \/ KillAtLimit(c)
       \/ ResetCursor(c)
       \/ FreeCursor(c)
       \/ StartQuery(c)
       \/ \E t \in Cursor : RewindCommandCursor(c, t)
       \/ RunCommand(c)
       \/ DereferenceDangling(c)
  \/ \E k \in Conn :
       \/ CloseConnection(k)
       \/ DropBroken(k)
       \/ \E s \in Server : Connect(k, s)
       \/ Select(k)
  \/ SelectNone
  \/ Answered
  \/ NotSent
  \/ ErrorAnswered
  \/ ExchangeFails
  \/ NotMasterAnswered
  \/ \E i \in CursorId : ServerReaps(i) \/ CreateFromUnknownHash(i)
  \/ Restart

Spec == Init /\ [][Next]_vars

-----------------------------------------------------------------------------
(* Properties.                                                             *)

\* The manager's list holds every allocated connection and nothing else (never
\* one that mongo_connection_destroy() freed), one per hash.  Deregistering goes
\* by hash but destroys the pointer it was given: with two connections of one
\* hash the list would keep a freed one.
RegistrySound ==
  /\ registered = {k \in Conn : server[k] # None}
  /\ \A j, k \in registered : server[j] = server[k] => j = k

\* c is the cursor of a call that has given up its connection for another one.
Selecting(c) == pc = "select" /\ caller = c

\* The cursors php_mongo_cursor_mark_dead() is registered for; a command cursor
\* after rewind() is not among them.
Covered(c) == c \in alloc /\ kind[c] # "command" /\ connection[c] # None

\* A covered cursor never holds a pointer to a freed connection: the connection
\* is registered and its destruction will reach the cursor.  This is what makes
\* get_more, kill and free safe after any other call destroyed connections.
CoveredCursorsHoldLiveConnections ==
  \A c \in Cursor :
    Covered(c) /\ ~Selecting(c) =>
      connection[c] \in registered /\ cleanup_list[connection[c]][c] > 0

\* php_mongo.h: "If cursor_id != 0, server is set to the server that was queried,
\* so a get_more doesn't try to fetch results from the wrong server": for the
\* covered cursors.
IdBelongsToConnection ==
  \A c \in alloc :
    cursor_id[c] # None /\ kind[c] # "command" =>
      connection[c] # None /\ server[connection[c]] = IssuedBy(cursor_id[c])

\* Unless createFromDocument() was given a malformed document, a callback is
\* only ever registered for a covered cursor, once, and on the connection it
\* uses: destroying a connection never writes to a freed cursor.
CallbacksFollowCursors ==
  strays = {} =>
    \A k \in Conn : \A c \in Cursor :
      cleanup_list[k][c] > 0 =>
        /\ cleanup_list[k][c] = 1
        /\ Covered(c) /\ connection[c] = k
        /\ ~Selecting(c)

\* Every cursor open on a server is still in the hands of some cursor object or
\* document, or was lost with its connection: requeries, limits, resets and
\* frees all kill what they give up.
NoCursorLeaked ==
  \A i \in open : i \in lost \cup docs \/ \E c \in alloc : cursor_id[c] = i

\* A cursor dies in a step only if that step destroyed the connection it was
\* using: a connection it has left can take nothing from it.
DiesOnlyWithItsConnection ==
  [][ strays = {} =>
        \A c \in alloc :
          ~dead[c] /\ dead'[c] =>
            connection[c] \in registered /\ connection[c] \notin registered' ]_vars

\* The comment on cursor_id in php_mongo.h, for every cursor object.
IdBelongsToConnectionForAll ==
  \A c \in alloc :
    cursor_id[c] # None =>
      connection[c] # None /\ server[connection[c]] = IssuedBy(cursor_id[c])

=============================================================================
