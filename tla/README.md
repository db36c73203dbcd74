# A verification of the legacy MongoDB driver for PHP

TLA+ models of the PECL `mongo` extension (`mongo-php-driver-legacy`), checked
with TLC. Every safety property the passing runs check, and every refinement, is also proved
with TLAPS for all values of the constants. Paths below are relative to the repository's root (`src/`).

## 1. Inventory of the system

The driver is a C extension of PHP. A PHP worker is one process and (outside of
ZTS builds) one thread: a method of the driver runs to its end before the next
one starts, nothing is concurrent inside a worker. What makes the driver hard is

* state that outlives a request: the connection manager and its connections
  belong to the process, cursors and batches to the script that runs in it;
* calls on one object that change others: choosing a server for one query pings
  every known connection and destroys the broken ones under their cursors;
* a remote side that answers late, partly, with an error or never;
* destructors that run when PHP drops a reference, between any two calls.

| component | state | operations | interacts with |
|---|---|---|---|
| connection manager, `mcon/manager.c` | `connections` and `blacklist` (lists by hash), ping and ismaster intervals | find, register, deregister; choose a connection (single, multiple, replica set); topology discovery; callbacks per connection | connections, read preferences, cursors (callback `php_mongo_cursor_mark_dead`) |
| connections, `mcon/connections.c` | socket, hash, role, versions, times of last ping/ismaster, `cleanup_list` | create, destroy, ping, ismaster, server flags | sockets, blacklist, callbacks |
| cursors, `cursor.c`, `cursor_shared.c` | connection, `cursor_id`, `dead`, position `at`, count `num`, buffer, `limit`, `batch_size`, flags | construct, options, runquery, get_more, next, hasNext, rewind, doQuery, reset, explain, kill, free | manager (selection), connections (send, receive), server |
| command cursors, `command_cursor.c` | as a cursor, with a first batch and its own position | construct, rewind (runs the command), next, createFromDocument | `php_mongo_runcommand()`, manager |
| commands, `db.c` | a temporary cursor per command | runcommand, getlasterror helpers | cursors |
| client, `mongoclient.c` | seed list and options | construct, connect, close | manager |
| write batches, `api/*.c`, `batch/*.c` | list of message buffers, item counts, totals | add (splits at size and count limits), execute (sends, merges results) | connections, manager |
| collections, `collection.c` | name, write concern | writes with getlasterror or write commands, index and aggregate helpers | batches, cursors, manager |
| read preferences, `mcon/read_preference.c` | none | filter by role, set name, seeds, credentials, tags; sort; keep the nearest; pick | manager |
| connection strings, `mcon/parse.c` | parsed server list and options | parse | client |
| sockets, `io_stream.c` | PHP stream with a timeout | connect, read, send, close, forget; SASL, SCRAM, X.509 | connections |
| BSON, `bson.c`, `mcon/mini_bson.c` | buffers | encode, decode, message headers | everything |
| GridFS, `gridfs/*.c` | file documents, chunk position of a stream | store with clean-up on failure, read, seek, delete | collections, cursors |
| value types, logging, pool reports, exceptions, class set-up | (almost) none | | |

What must be right, per component:

* **manager and connections**: one connection per hash; the list holds no freed
  connection; a destroyed connection is forgotten by everyone that held it; a
  blacklisted server is tried again, but not before the interval; roles are not
  trusted beyond theirs.
* **cursors**: an id is only ever used on the server that issued it; no
  server-side cursor is forgotten; documents come in order, each once, none is
  left out, the end is reported at the end; `limit()` is kept; `hasNext()` tells
  the truth about the `next()` that follows.
* **write batches**: every item is in exactly one message, no message exceeds a
  limit, results add up, and error indexes name the item they are about.
* **read preferences**: the chosen server satisfies mode, tags and latency.
* **sockets**: a timeout set for one operation does not leak into the next.
* **GridFS**: a failed store takes its chunks back as far as the server can be reached; a stream reads what was written.

The hazards of the code, each at its line, are listed in `PROJECT.json`.

## 2. Modules

| module | models | kind |
|---|---|---|
| `CursorConnections` | the registry and the cursors of every class that point into it | component composition |
| `CursorConnections_proofs` | inductive invariant and theorems about it | proofs |
| `ConnectionManager` | registry, blacklist, intervals, topology discovery and both kinds of clients, against servers that change | component |
| `ConnectionManager_proofs` | inductive invariant and all safety properties, for any hosts, clients and intervals | proofs |
| `ServerSelection` | filters, sort, cut and pick among the registered connections, beside what a read preference means without them | algorithm |
| `ResultStream` | what a cursor promises its user | abstract specification |
| `CursorIteration` | one `MongoCursor` reading a result in batches, shown to implement `ResultStream` | component |
| `CursorIteration_proofs` | `hasNext()`'s promise, the limit, the bounds of the buffer and the refinement, for all results and batches | proofs |
| `CommandCursorIteration` | one `MongoCommandCursor` with its first batch and later ones, shown to implement `ResultStream` | component |
| `CommandCursorIteration_proofs` | the refinement and the properties, for all results and batches | proofs |
| `Commands` | the 22 methods of `MongoCollection` and `MongoDB` that run a command, in a replica set with elections | component |
| `Commands_proofs` | all properties of `Commands`, and those of `ServerSelection` | proofs |
| `CollectionWrites` | writes of a collection over one connection, as a command, as an opcode with getLastError or as an opcode alone | component |
| `CollectionWrites_proofs` | replies stay with their calls, a success is the server's, options reach it | proofs |
| `WriteBatch` | a `MongoWriteBatch`: splitting into batches, execution, merged results | component |
| `WriteBatch_proofs` | types, the server's limits, the order of operations from `add()` to the server, and the account of an execution | proofs |
| `GridStore` | files in GridFS: stores, removals and reads of several processes | component |
| `ByteStream` | what a readable and seekable stream promises | abstract specification |
| `GridStream` | the stream of `getResource()`, shown to implement `ByteStream` | component |
| `GridFS_proofs` | the properties of `GridStore` and the refinement of `GridStream`, for any clients, files and chunk sizes | proofs |
| `MC...` | instances for TLC, one per component | models |

A definition whose name begins with `Mutant` is a plausible bug in the function
it is named for; substituted for it, it makes a property fail. Two proof modules extend two components each,
so the names in `ServerSelection` and `GridStream` that every specification has carry a prefix
(`SelectionSpec`, `StreamInit`).

How the modules meet: `CursorConnections` composes the manager's registry with
all cursors and leaves open what a selection does to the registry and what a
reply holds. `ConnectionManager` and `ServerSelection` fill in the first,
`CursorIteration` and `CommandCursorIteration` the second. `Commands` and
`CollectionWrites` stand on a selection (any server that qualifies and was asked
for its role at some time) and on one exchange, `GridStore` on inserts and
removals that may fail, be lost or be dropped.

### CursorConnections

Objects are the memory they occupy. `Conn` and `Cursor` are slots that are
allocated, freed and allocated again, so that a pointer that outlives its object
can come to point at another one. `server[k]` is the hash of the connection in
slot k, `registered` the manager's list, `cleanup_list[k][c]` how often cursor c
has its callback on k. A cursor has the class and constructor that made it
(`kind`), `connection`, `cursor_id` and `dead`. `open`, `docs` and `lost` are
where the server-side cursors are: on a server; in a document the user holds
(`command()` answered `{cursor: ...}`); on a server but out of every client's
reach.

Calls that need no server selection are one step. Those that run a query are
three, because the middle one is where other objects change:

| step | code |
|---|---|
| `StartQuery`, `RewindCommandCursor`, `RunCommand` | `php_mongo_runquery()`: `php_mongo_cursor_reset()`, then the callback is taken from the old connection; `php_mongo_runcommand()` makes a temporary cursor first |
| `DropBroken`, `Connect`, then `Select` or `SelectNone` | `mongo_get_read_write_connection_with_callback()`: any connections may be dropped or made before one is assigned |
| `Answered`, `NotSent`, `ErrorAnswered`, `ExchangeFails`, `NotMasterAnswered` | the rest of `mongo_cursor__do_query()` and of its caller, one action per outcome |

`pc` says which step is next, `caller` for which cursor, `client` for which
command cursor the command runs. `DeregisterConnection` is
`mongo_manager_connection_deregister()` with every callback it calls and what
`php_mongo_cursor_failed()` does after it. Using a freed connection is undefined
behaviour: either nothing is noticed (the action goes on with whatever is in the
slot by now) or the process crashes (`DereferenceDangling`, then `Restart`).
The empty first batch that `rewind()` of a command cursor follows with a
get_more is `CommandAnswered` and then `GetMoreEnds` or `GetMoreFails`.

Abstractions: documents and batches are left out; a document is handed to
`createFromDocument()` once and with the hash of its own server; `__construct` is
called once per object; servers never hand out an id twice while somebody holds
it (they draw 64 random bits); a server-side cursor whose reply is lost on the
way is not tracked, the client never learns its id; which servers qualify is left
open.

### ConnectionManager

`registry` maps a hash (host, set name, process id) to a connection or `NoCon`,
`blacklist` is the list with its possible duplicates. Instead of the time of
the last ping, ismaster and check of the set, the model keeps their ages, which
stop growing at the interval they are compared with. `stale` and `dead` of a
connection are histories: how long ago the server stopped having the role that
is recorded, and how long ago the socket broke.

One call of `mongo_get_read_write_connection()` is a sequence of steps, one per
exchange with a server, because the servers change between two of them and time
passes while one waits: `Connect` (`mongo_get_connection_single()` for each
seed, with the blacklist and the ping), `Verify` (the ismaster without a server
definition), `Discover` (the ismaster with one, and its verdicts: skipped, ok,
other set, renamed, unsupported, error), `DiscoverHost` for each reported host,
and `Choose`. The loop of the discovery runs over a seed list that
grows in the meantime. `World` crashes and restarts servers, changes
their roles and the list of members; `NewClient` is another client of the same process,
which finds the registry of the first; `Fork` is the child of the process.

Abstractions: credentials are one for all; a host that is down refuses a
connection, and the time that takes is `Tick`; the choice among the candidates is
`ServerSelection`'s; sockets break when a server crashes and are noticed when they
are used.

### ServerSelection

`cands` is the collection that one filter hands to the next, as the set of the places its
connections have in the registry; `rank` is the array `qsort()` leaves. The filters are `Collect` (by
type), `Limit` (by set name or seed), `Credentials`, `Tags`, then `Sort`, `Nearest`
and `Pick`, as `mongo_find_candidate_servers()`, `mongo_sort_servers()`,
`mongo_select_nearest_servers()` and `mongo_pick_server_from_set()` do it in turn.
`Mode` and `TagSets` are those of the preference each step works with, which is
not the same one for a write. Beside it stand two definitions that speak of all
connections at once and without an order of filters: `Documented`, what
`docs/mongo.readpreferences.html` promises of each mode, and `MayBeReadFrom`, which is
`Documented` but for two cases in which a primary meets tag sets and the code does something
else (section 4). The property compares the pipeline with `MayBeReadFrom`; with either
case taken out of it TLC finds a counterexample.

Abstractions: the random pick is any place; the registry does not change during
the pipeline (the process is in it); the latency is not negative (the connection string lets a
negative one through, and then the cut leaves an empty list to pick from).

### CursorIteration, CommandCursorIteration and ResultStream

`ResultStream` is the reader's view: documents in order, each once, no end before
what was promised, or a break by an exception.

`CursorIteration` is one cursor with the fields of `mongo_cursor` that iteration
uses; documents are numbered by their place in the result. A method is one step with
its server exchanges inside; an outcome record is carried through the functions a
method calls, in the order it calls them (`RunQuery`, `HasNextFrom`, `GetMore`,
`HandleError`, `Loaded`). A reply may carry any number of documents up to what
was asked for, so every way of cutting the result into batches is covered; the
server may close its side with the last document or one request later; a query
may fail on the server, the server may have forgotten the cursor, sending or
receiving may fail, also between the header and the documents of a reply
(`HeaderOnly`). `ConnectionDestroyed` stands for what `CursorConnections` shows
other calls do to this cursor. It implements `ResultStream` under the mapping
`Stream`: its `size` is `total`, `promised` is what the limit leaves of it.
Nothing is promised of a query that tells the server to close after
one reply (negative limit or batch size, or one document), as `batchSize()` is
documented. Tailable cursors promise order, not completeness.

`CommandCursorIteration` has the same for a command cursor, in which two kinds of
batches take turns: the first is an array with a counter of its own
(`first_batch`, `first_batch_at`), later ones are a buffer counted by `at` and
`num`, and `Key` adds the two. An empty first batch is followed by a get_more at
once (`FetchAndLoad`), whose failure `rewind()` ignores. A `next()` before
`rewind()` is not part of an iteration (`phase = "broken"`); when it has dropped an
empty first batch the `rewind()` after it dereferences NULL (`RewindCrashes`).
Only a cursor of `createFromDocument()` hears of the end of its connection
(`ConnectionDestroyed`); what becomes of the others is `CursorConnections`' subject.

Abstractions: `explain()`, `count()`, `skip()` and the query options are left out, as are
documents that cannot be converted; the size of the result does not change under
a cursor that is not tailable. A read behind the end of a reply would stand as an
error document or as `Garbage`, and `WithinTheReply` shows that there is none.

### Commands

A call goes through up to four steps. The method's own action fills in `call`: the
command, whether it changes data, the preference, and whether a version has to be
looked at first (`pc = "check"`; `CreateIndexCommand` or `CreateIndexLegacy`,
and so on, then choose the form). `RunCommand` is the selection in
`php_mongo_runcommand()`: for each server the registry keeps what it believed or asks
again (`Looks`). `Answer`, `NoAnswer` and `Iterate` are what the method makes of the
reply: `Unchecked` methods hand it out, others throw, `distinct()` returns false.
The insert by which an old server gets an index is a write of a collection, and goes the way its
concern says (`ByOpcode`, `ByWriteCommand`, `Cleared`, `NotDelivered`): with w = 0 as a bare
opcode that returns TRUE. The old forms of the lists read collections of their own, made with the
preference of the database (`AsQuery`).
`role` is what the servers are and `believed` what the registry holds, and
`Election` may come between any two steps. `aggregate()` with `$out` replaces the
preference of the collection and puts it back in `Finish`. What a server
answers (`Understands`, `TellsAll`, `Verdicts`) is external: it follows from the
version and role of the server and the flags of the query.

### CollectionWrites

`Protocol` is the choice between a write command, an opcode with a getLastError
behind it and an opcode alone, `Asked` the concern that results from client,
collection and options, by the two pieces of code that compute it. `con` is the
connection: whether it is registered, what is on the wire, which replies wait, and
whether a message was cut off on it (`torn`). Sending ends in one of
four ways, and each of the three readers gives up in its own way (`NoAnswer`,
`NoGleAnswer`). `Serve` is the server, outside `src/`: it takes
messages in order, may answer late, and confirms or does not. `request_id` wraps.
A `w` is a number up to `MaxW` or one of `Strings` ("majority", or a tag), which the server interprets:
a string is neither above nor below a number, so a string in the place of a number is a loss.

Abstractions: documents; a batch insert is one message; which server is
written to.

### WriteBatch

`chain` is the list from `batch->first`, `batch` is `intern->batch`: a place in the list,
`Null`, or `Freed`. A batch has the operations it holds (`items`), the counter the code
keeps of them (`item_count`), and the bytes of its buffer (`size`); the last two are
kept apart from the first because the code does not always change them together.
`add()` is one step, in five variants: a key is missing, the document cannot
be serialised, it fits, it overflows and goes to a new batch, or an update does
not even fit there. `execute()` is `Execute` and then two steps per batch,
`SendBatch` and `MergeReply` or `BreakOff`, because the user's
`log_write_batch` function is called between them and may call `add()` or
`execute()` of the same object (not when an exception is pending; PHP then calls no
functions). The locals of `execute()` are in `exec`; `errors` and
`upserts` are the two lists in its return value.

`pc = "undefined"` ends a behaviour: the program has followed a pointer into freed
memory or NULL, or `execute()` has freed the list under itself (`UseDangling`), or the
branch of a failed exchange has freed an error message nobody set, or has destroyed
a reply twice (`ExchangeEndsProcess`). Where those branches get away with it,
`SendBatch` goes on with what they return.

What the server does is any outcome its commands allow: operations fail or not, an
ordered batch stops at the first that fails, an update matches several documents or
upserts one, the answer may be lost after the operations were performed. Each execution is
acknowledged or not (w = 0); then the reply is `{ok: 1}` (`BareAnswer`), and the code finds neither
an `n` nor `writeErrors` in it. `denied` is what failed on the server, whatever the reply says of it.

The variables below `result` are histories, for the properties only.

Abstractions: bytes are sizes; the header of a message has none, the options and
terminators that are appended at the end are `Trailer`; the limits of the connection
do not change between calls; deregistering the connection after a failed exchange is
`CursorConnections`' matter; of the write concern only its error is kept (`concern`);
`ok`, `nModified` and the writes that are not batches are left out.

### GridStore

`files` and `chunks` are the two collections, `job[c]` the call that process c is in:
the operation, the step it is at, the position and the chunks it would have to take
back. Each exchange with the server is a step and ends in one of five ways
(`Exchange`): done and answered; not done, with an exception; done, but with an exception, since
the answer was lost; dropped on its way without an exception, as a write command that could not be sent
(`collection.c:985`, `1106`) or an opcode on a dead connection, after which later writes may be
dropped too, since the connection stays registered; or, unacknowledged, refused by a server that is
alive. Only a command or a query that the code answers for (`Command`) cannot be dropped. A store is
`EnsureIndex`, `InsertChunk` for each chunk, `GetLastError` where the code asks,
`AddMd5`, `InsertFile`; any exception, and nothing else, leads to `Undo`, chunk by chunk, which itself may
fail. `silent` of a job is a history: one of its writes was lost without an exception.
`Remove` finds files, removes the chunks of each and then the files by the criteria
again; `Drop` drops the collections one after the other; a read fetches the chunks in
order. `Die` ends a process in the middle. `stores`, `succeeded` and `disturbed` are
histories: which stores there were, which returned an id with none of their writes dropped, and
which were met by a removal.

Abstractions: the bytes of a chunk are its size and the store it is from; ids are either
given by the user or fresh, and `length` and `chunkSize` are not given by him; `put()` is
`storeFile()`. Servers are those with write commands (2.6 and later); what an acknowledged write
is to an older one, an opcode and a getlasterror, `CollectionWrites` has.

### GridStream and ByteStream

A byte of the file is its position. `Read` may touch two chunks, `Seek` moves
`offset` and `buffer_offset` and leaves the buffer; a chunk may vanish
(`ChunkGone`), or its query fail, at any time. `ByteStream` has a position and the
bytes the last read handed out; `GridStream` implements it with `position <- offset`.

Assumed of the file document: a `chunkSize` above zero with which its chunks were made, and a
`length` that fits an `int`. The code enforces neither: `get_chunk_size()` (`gridfs.c:226`) stores a file with
the default size when the metadata has a `chunkSize` of zero or less, but leaves that in the document, and the stream divides
by it (`gridfs_stream.c:165`, `201`, `244`); `TO_INT` (`gridfs_stream.c:121`) casts to `int`.

## 3. Runs

| run | question | result |
|---|---|---|
| `cursor_connections` | do pointers, callbacks and ids of cursors stay right when calls on others destroy connections? | holds |
| `dangling_connection` | is `connection` set whenever `cursor_id` is, as `php_mongo.h` says? | no: a rewound command cursor has no callback |
| `connection_manager` | are blacklist, roles and sockets as fresh as the intervals promise, whatever other clients and forks do? | holds |
| `servers_return` | is a server that comes back connected to again? | holds |
| `server_selection` | does the pipeline choose what the documentation of read preferences promises, but for two cases of tag sets and primaries? | holds |
| `cursor_iteration` | does the cursor implement the stream, and does an iteration complete? | holds |
| `command_cursor` | does a command cursor, and are its keys places? | holds |
| `commands` | do writes go to the believed primary, does a value mean that the change was made, does the preference survive? | holds |
| `collection_writes` | does each call get its own answer, and does a success mean a confirmed write? | holds |
| `write_batch` | do batches hold what was added, within limits, each sent once, with results that add up? | holds |
| `grid_store` | is a stored file whole until its removal, and nothing left of it afterwards? | holds |
| `grid_stream` | does the stream implement `ByteStream`, and does a reader come to its end? | holds |

What the properties say is written above each of them in its module. For each
property of a passing run `PROJECT.json` names a mutant of the code that breaks it.
`TypeOK` of a component is proved and not run. All runs explore their instances completely.

**Bounds of `cursor_connections`.** Three cursor slots: a cursor, one that
disturbs it, and the temporary cursor of a command. Two connection slots and two
servers: a connection and the one that replaces it or takes its memory. One
cursor id per server, because an id belongs to one server or to the wrong one;
`MaxStrays = 1` malformed document, since one stray callback already excuses
what follows. Slots and servers are interchangeable, hence the symmetry sets; no
liveness is checked in these runs. 1.0 million states. The theorems
below remove these bounds.

**Bounds of `connection_manager`.** Two machines, one of which has a second name that is not its
own (`renamed`), three clients: of a replica set by name, of one whose name is to be
found out, and one that is not in a set. A ping interval of one tick and a master
interval of two keep the order of the real ones (5 and 15 seconds); a call takes up to
`MaxWait = 1` tick. `MaxChanges = 2` crashes, changes of role or members, new clients
and forks in total, enough for a server that changes behind one client's back while
another one asks; `MaxPid = 2`. 2.9 million states. `servers_return` has one client and
no forks, since it needs the clock to run for ever.

**Bounds of `server_selection`.** All sequences of one connection, and some 2,000 of three,
of a catalogue of primaries and secondaries with ping times 0, 10 and 40, an arbiter,
connections of another set, other credentials or none, mongos and single servers;
39 clients with every mode and four lists of tag sets, latency 15. 1.5 million states.
Three connections are the first of the sorted list, one within and one beyond the latency.

**Bounds of `cursor_iteration`.** Up to four documents (`MaxDocuments`), default batches of two
(`DefaultBatch`), limits 0, 2, 3, -2 and batch sizes 0, 1, 2, 3, -1: results of several
batches, limits below, at and above a batch, at its boundary and inside it.
`MaxQueries = 2`: a restart in every state. `LastPosition` stops counting the calls
of `next()` that follow the end. 0.3 million states. The system may stop at any time, the
program need not call anything, so deadlock is not checked there.

**Bounds of `command_cursor`.** Up to five documents, default batches of two, batch sizes
0, 1, 2 and -1, and the command run twice: a first batch that is empty, a part or all
of the result, and up to three later ones. 0.12 million states; the theorems remove
these bounds.

**Bounds of `commands`.** Two servers, of old, middle and new versions in four deployments
(`MCDeployments`), three preferences (primary; secondary; nearest with tags that
one of the servers has), two elections and two calls: a first one that fails in
the middle and one that finds what it left. 0.85 million states; the theorems remove
these bounds.

**Bounds of `collection_writes`.** Two calls, of which the second finds the connection the first
left; request ids modulo 8 that start at 3 or at 7, so that they wrap in some runs;
client defaults and options with the numbers up to 2 and with two strings, so that a string meets a number and another
string; servers with commands, opcodes, both or neither. 0.34 million states.

**Bounds of `write_batch`.** Two operations (`MaxItems`) or three bytes (`MaxWire`) fill a batch, one byte
is appended (`Trailer`). Operations have one byte, two, or five (`MCSizes`): two small ones fill by
count with a byte to spare, a small and a large one fill to the last byte, two
large ones overflow, the last fits nowhere. Four calls of `add()` (`MaxAdds`) are
three batches, or two executions of two. An operation matches up to two documents
(`MaxMatches`), since one and more than one differ. Executions are acknowledged or not. 0.97 million
states. The program may stop after any call, and behaviours end where the source does
not determine them, so deadlock is not checked.

**Bounds of `grid_store`.** Two processes, two ids, three calls between them, files of three bytes in chunks of
two (a full and a partial chunk) or from a pipe in any portions, one fault. Processes and ids are
interchangeable; no liveness is checked. 1.9 million states. An upload has two files (`Uploads`): of one file it would be a
`storeFile()`, and a pipe may give what a file of this length does. One fault
is a whole connection: once a write was dropped any number of later ones may be.

**Bounds of `grid_stream`.** Eight bytes in chunks of three: two full chunks and one that is not;
reads of 0, 1, 2, 4 and 7 bytes, which end in the first chunk, at its boundary, in the second and beyond it;
three seeks from any base to anywhere, also before the start and behind the end.

**Fairness.** `IterationCompletes` (both cursors): the program keeps calling
`next()` on a cursor it has started (`WF` of `NextDocument`, or of `NextAdvances \/
NextOnDeadCursor`). That is the `while` loop around an iteration; the driver itself
promises no more than to return. Nothing is assumed of the server except that a
reply to an open cursor that is not tailable has documents while there are some; without
this assumption no client could finish. Endless restarts by the program are excluded by
`MaxQueries` and `MaxCommands`. `ServersReturn`: a call that has begun goes on (`WF` of `Call`,
it is one C function), the script writes again and again although other calls come in between (`SF` of
`Begin("write")`), and the clock does not stop between calls (`SF` of `Tick` when idle; it
need not run in a call). `ReaderFinishes`: the loop
`while (!feof()) fread()` of `docs/mongogridfsfile.getresource.html:69` goes on
(`WF` of `ReadsOn`, a read that succeeds for as long as the file has all its
chunks, seeks being bounded).

## 4. Where words and code differ

`PROJECT.json` lists one finding, with the run that shows it:

* `command_cursor.c:292`: `rewind()` of a command cursor copies the connection
  its command used, without registering the callback. When any later call
  destroys the connection, `next()`, `rewind()` and the destructor use freed
  memory (`dangling_connection`).

The others below were met while modelling. The models behave as the code does there, and the
properties are stated so that they say what holds all the same.

Cursors:

* `command_cursor.c:429`: `createFromDocument()` registers the callback before it
  validates the document. On failure the object is freed while the callback stays
  (`CreateFromMalformedDocument`), and a hash nobody knows is a NULL connection
  (`CreateFromUnknownHash`).
* `cursor_shared.c:443`: with `limit(3)->batchSize(2)`, a `hasNext()` at a batch
  boundary asks for `limit - at` documents with `at` one behind, and a fourth document
  is returned by `next()`. `LimitRespectedInStep` shows that this and a
  limit that is not above the batch size are the only causes.
* `cursor.c:373`: `next()` on a tailable cursor stops asking after one empty reply.
* `cursor.c:971`: the first `next()` returns the error document of a failed query as if
  it were a result (`NextRunsQuery`).
* `command_cursor.c:221`: a command cursor tests `dead` only while it has an id, and the two change
  together, so an iteration that lost its connection ends like a complete one; the manual
  (`docs/mongocommandcursor.next.html:58`) has an exception.

Connections, commands and writes:

* A primary that stepped down is written to for up to one ismaster interval, and a connection
  of another client takes part in the choice with an older role (`RoleRecent` speaks of
  the client's own list); a member that belongs to another set is registered
  when the list of a seed names it (`mcon/manager.c:267`).
* `read_preference.c:552`: `secondaryPreferred` leaves out one primary; where the
  registry also believes a former one to be primary, a read may go to a primary
  although there is a secondary.
* For `secondaryPreferred` the manual applies tag sets to secondaries only, and a read fails when none match
  (`docs/mongo.readpreferences.html:126-131`, `200-203`). `read_preference.c:192` exempts the primary for
  `primaryPreferred` alone: when the first tag set that any member matches is one that only the primary matches, it is
  read from, instead of a secondary of a later tag set or of an exception (`PrimaryDecides`). And for the mode `primary`, for
  which tag sets are said to be an exception (`68-69`), `setReadPreference()` refuses them (`php_mongo.c:617`) but a
  connection string does not; the primary is then read from only if it matches.
* `db.c:546`: `createCollection()` does not look at the reply; `ValuesAreDone` leaves it out.
* `command()` with an aggregation that ends with `$out` goes by the read preference, like any other aggregation;
  `WritesReachPrimary` leaves `command()` out.
* In a set of mixed versions the list of indexes or collections may be read the old way from a server whose
  catalogue is elsewhere, and is empty then (`ListsAreThatServers` says this is the only cause).
* `collection.c:1106`: a write command that could not be sent returns NULL without an
  exception. With w = 0 and `j`, on the path of write commands, failures are cleared.
* `collection.c:417-425`, `491-499`: where getLastError is used, a number `w` that a call names does not take the place of
  a default that is a string, and the string is sent: w = 3 becomes a "majority" of two, or a tag. On both paths a
  `safe` that is a string may replace a number `w` of the same call, and a `safe` behind a string `w` means different
  things on the two. `OptionsReachTheServer` names each of these.
* `collection.c:623-628`, `1190`: on a server without `createIndexes`, `createIndex()` with w = 0 (from its options or the
  database) is a bare opcode and returns TRUE unverified; with w = 0 and `j` its failures are cleared; a write command
  that could not be sent returns NULL. `ValuesAreDone` is about calls whose concern is acknowledged.

Write batches:

* With w = 0 the reply is `{ok: 1}`: `batch/write.c:240-254` takes the missing `n` for zero, so `nInserted` is 0
  whatever was inserted, `281` sees no `writeErrors`, so failed operations are neither performed nor reported, and
  an ordered execution goes on to the next batch behind a failure. The manual says of unacknowledged writes only that one does
  not know whether they succeeded (`docs/mongo.writeconcerns.html:201-207`). `OrderedStopsAtError`, `AccountedFor` and
  `InsertsReportedExactly` are about acknowledged executions.
* `batch/write.c:302`: indexes are shifted by the number of documents affected
  (`n`), not by the number of operations sent. It is the same in ordered inserts,
  which `InsertsReportedExactly` shows, and wrong after a failed insert of an earlier
  batch, or an update that matched none or several.
* `batch/write.c:235`: the second attempt's failure returns false without an exception.
* `batch/write.c:355`: the list is freed, but `intern->batch` is only NULL when the
  list was walked to its end; after an early end the next `add()` writes to freed memory
  (`ReusableUnlessFailed` says that nothing else leads there).
* `api/batch.c:161`: a failed write to the socket returns before anything is thrown;
  the caller breaks the loop and returns what it has.
* `batch/write.c:145`: the batch is made before the operation is validated, so a
  refused one leaves a batch that is empty or holds half a document, and the next
  operation may open another behind it.
* `api/write.c:294`: `add()` compares the buffer with the limit before the write
  options are appended, so a batch that is nearly full can only fail when it is sent.

GridFS:

* Chunks are inserted without acknowledgement when the concern says so, and their errors are
  not seen (`Acknowledged` is the condition of `StoredIsWhole`).
* `gridfs.c:525`: a store looks for an exception only, and a write command that could not be sent
  raises none (`collection.c:1106`): a store returns its id with a chunk or the file missing. Likewise
  `remove()` (`gridfs.c:1043-1060`, `collection.c:985`) ends without an error with everything left, and with w = 0 a
  delete a live server refused is not seen. `StoredIsWhole`, `ReadsWhole` and `RemovedIsGone` are about calls none of
  whose writes was lost so (`succeeded`, `silent`): they say that nothing else loses a byte.
* `gridfs.c:525-536`: when the answer to the insert of the file is lost, the file is there and its chunks are taken
  back: a reader who found it gets fewer bytes and no exception. Its store has returned no id; `ReadsWhole` leaves it out.
* Of a file stored between the search of a `remove()` and its last delete nothing is promised: it may be
  taken in part (`disturbed`).
* A pipe that gives less than a chunk at once is taken to be at its end (`gridfs.c`, the loop of
  `storeFile()`), and what follows is not stored.
* An empty file has no chunk, and `getBytes()` of it throws.
* `gridfs_stream.c:165`: the number of chunks leaves out a last one that is not full, so a read
 across its start is short. It is never empty, or `ReaderFinishes` would not hold.

## 5. Proofs

All proofs hold for all values of the constants that satisfy the module's named assumption. Every
invariant below was checked by TLC first, on the instance of its component or, where evaluating it takes too long, a part of that.

`CursorConnections_proofs` proves every property of `cursor_connections` for all sets
of cursors, connections, servers and ids (`None` is
different from the members of the sets, `MaxStrays` is a natural number).
None of the properties is inductive by itself. That a covered cursor's connection is live
rests on its callback being there, which rests on callbacks following cursors; that
rests on the registry having one connection per hash, because deregistering goes
by hash; and during a query all of them are suspended for the cursor that has
left its connection. The invariant is

    Invariant == /\ TypeOK
                 /\ CallShape
                 /\ RegistrySound
                 /\ CoveredCursorsHoldLiveConnections
                 /\ IdBelongsToConnection
                 /\ CallbacksFollowCursors
                 /\ NoCursorLeaked

where `CallShape` is what a running query relies on: the caller exists, is not
dead, has given up its id, and in the exchange holds a registered connection
with its callback. There is one lemma per action, and under it one step per
conjunct the action can disturb; the effect of `DeregisterConnection`, `Kill`, `Link` and
`Unlink` is stated in lemmas of their own. `InvariantHolds` is the theorem
`Spec => []Invariant`; the others follow from it. `DiesOnlyWithItsConnection` is an
action property proved from the invariant.

`ConnectionManager_proofs` proves `TypeOK`, `BlacklistSound`, `RoleRecent` and `SocketRecent` of
`connection_manager` for any machines, names, clients (each with at least one seed, as the parser
gives them, `mcon/parse.c:138`), intervals, changes and processes. The invariant is

    Invariant == TypeOK /\ BlacklistSound /\ Place /\ AllRecent

What a call returns is recent because it has asked, or was asked less than an interval ago; in the
middle of a call neither is true of every connection. `Sound` says what the ages of one connection are worth: a
check that is not due was made after the role was lost, or the socket broke. `ToAsk` and `ToPing` say which
places of the list the call has yet to visit, in each of its loops, and `Recent` demands freshness, up to the
ticks the call has waited (`waited`), of the connections that were registered when it began and have been visited.
`Place` ties the program counter to the position in the list of seeds, which grows while it
is walked. A connection without a role exists only where the discovery will still meet it.

`CursorIteration_proofs` proves `TypeOK`, `WithinTheReply`, `LimitRespectedInStep` and
`HasNextKeepsItsPromise` of a `MongoCursor`, for results, limits and batches of any size. The invariant is

    Invariant == TypeOK /\ Sound(Now, Len(delivered))

where `Sound(o, n)` says what a call may leave behind (`o`) after `n` documents were handed out. The code
reads a document when `at` is below `num` and trusts that the buffer has one; the two advance in different
places (`hasNext()` runs the query or a get_more without advancing, a reply raises `num` at once, the
first `next()` may or may not advance), and `Upcoming` names the position that will be read in each case.
The parts: unless the cursor is dead, the buffer holds at least the documents from `Upcoming` to `num`;
those handed out and those in the buffer are together at most `num`; `num` is within the limit while no
get_more was asked out of step; after an answer "true" of `hasNext()` a document is upcoming, or the
cursor is dead and `next()` throws. The lemmas follow the functions: what a query (`Queried`) and a
get_more (`Continued`) make of a cursor, what loading a document does to one that is `Ready`, what
`HandleError` leaves, and what `Return` makes of an outcome.

`CursorIsAStream` proves that it implements `ResultStream`. This needs to know which documents the buffer
holds, not only how many. `Faithful`, on top of `Invariant`, relates a cursor to what the server
sent and the user got:

* `Reading`: the unread buffer is the last documents that were sent (`Unread`); unless the cursor is tailable
  `num` is exactly what was sent, and the buffer what follows the documents handed out (`Exact`); when the server-side cursor
  is closed, the result is exhausted or the limit reached, or the query asked for one reply only (`Spent`);
* `Failing`: `hasNext()` has run a query that failed, the error document is still in the buffer, and the next
  `next()` throws;
* `Barren`: after a failure nothing is left to be loaded, so that a broken iteration stays one.

The functions of the code get one lemma each, about what they make of a cursor in one of these states
(`Obtained`, `Yields`, `Handed`); a call then either continues the stream it was in or restarts
it, and both map to a step of `ResultStream`.

`CommandCursorIteration_proofs` proves that the command cursor implements `ResultStream`
(`CursorIsAStream`), and `TypeOK`, `KeyIsPosition` and `WithinTheReply`, for results and batches
of any size. The invariant `Inv` joins to the types what the code relies on without saying so: while
there is a first batch it is the beginning of the result and the counters of the later ones are zero;
afterwards the buffer holds exactly `num - at` documents or one less, those that follow what was delivered
up to what was sent; what was delivered are the first documents of the result; before
`rewind()` nothing was taken. A failed get_more leaves `num` ahead of the buffer, and
this is why the conditions speak of unbroken iterations. Lemmas follow the functions of the
code: what `GetMore`, `HandleError`, `Load` and `Advance` return, given what they are handed,
then what `Return` makes of it.

`Commands_proofs` proves `TypeOK` and every property of `commands` for any servers, preferences and
deployments. The invariant `Invariant` adds what a method makes of its call before it is run (`Built`: a command that changes
data is no read by its name, or has the primary for its preference), why the old form was
chosen (`LegacyForOldServers`), and that during `$out` the saved preference is the user's (`SavedIsWanted`).
The same module proves both properties of `server_selection`, for any registry, any client and any latency. `Stage` says at
each filter which connections are left, as a set defined without the pipeline (`Suitable`, then `Matching`); that
the first tag set some candidate matches is the one that `MayBeReadFrom` speaks of (`FilteredIsAllowed`: of the members of both
types together for the code, of the secondaries for the document, and where these differ `PrimaryDecides`), that the first of the
sorted list is the nearest or of the preferred type, and that leaving out the last one leaves out the primary are
the lemmas between them.

`WriteBatch_proofs` proves, for all limits, sizes and numbers of operations, every property of `write_batch`.
The first invariant gives the types and `WithinServerLimits`. Neither is inductive: that a
batch holds at most
`MaxItems` operations rests on the counter `add()` consults never being behind the
operations (it may be ahead, after a refused operation), and that errors name
operations rests on replies concerning places of the batch they answer, also
when a callback of the user has since appended to the list. The invariant is

    Invariant == TypeOK /\ LimitsIn(chain) /\ ReplyFits

with lemmas for what `MakeBatch`, `Replace`, `Write` and `WriteBroken` make of a list or a
batch, and one per action. The second, `Order`, is proved on top of it and is about the order of
operations: it gives `QueueSound`, `ReusableUnlessFailed`, `SentOnceInOrder` and
`OrderedStopsAtError`. Its parts: the operations in the list are in the order of `add()` (`Sorted`) and
none is newer than the last (`UpTo`); whatever a batch still to be sent holds is newer than
all that was sent (`SentBefore`, which needs a word for "still to be sent" that fits before, during and
between the exchanges of `execute()`); nothing is linked behind the current batch while operations
are counted (`CurrentIsLast`); the list holds what was accepted and is empty after an execution (`Queue`);
an ordered execution that goes on has seen no error, and a reply that names a failed operation has
performed only earlier ones (`Stops`); an acknowledged one in which an operation failed has seen it (`Seen`). `Follows` says what `add()` does to a list in one relation, so that
each of the ways in which it ends (accepted, moved to a new batch, refused, half written) is one lemma.
The third, `Account`, gives `AccountedFor` and `InsertsReportedExactly`. At the end every operation is performed or
reported; before the end it may also be in a batch to come (`Accounted`), be named by a reply that is not merged yet or
stand behind an operation such a reply names (`Answered`). A callback that adds operations links them
behind the batch that was just sent and so cuts off those that followed, which is why `CutOff` and `OpenInFlight` say which
batches `execute()` still goes on to. Errors are about operations in flight that were not performed
(`ReportedUnwritten`), `Replied` says what the last reply adds, and `Inserted` that the count is the cardinality
of what was performed and an index the place of its operation among all that are in flight: what
`batch/write.c:302` adds up is right because an ordered execution that goes on has performed every operation of
the batches before.

`GridFS_proofs` proves `TypeOK`, `StoredIsWhole`, `ReadsWhole` and `RemovedIsGone` of `GridStore`, for any number of clients,
ids, calls and faults, any files, chunk sizes and concerns. Every chunk and file carries the number of the store
that wrote it. The invariant follows each call: `Progress`, that an acknowledged store
no removal touched has sent the first n chunks of its bytes and no other (`Prefix`), or has lost a write in silence, or has a
duplicate it will hear of from getLastError; `StoresAreWhole`, of those that returned; `ReaderOf`, that a reader is
at the byte its count of chunks says; `RemoverOf`, that what a removal has found is to come or gone, unless one of its
deletes was lost.
Since any other client may step between two steps of one, the argument has two halves. A step is `Mild` when it takes
chunks only of its own store or of stores that are disturbed, adds only its own, and starts no store under a number that is
known: every action is, and a mild step keeps what the invariant says of all other calls. What an action does to its own
call is then a lemma per action. That no two chunks have one place rests on the unique index, which a
drop may take away under a store: hence `index = "unique"` or the store is disturbed.

The same module proves that `GridStream` implements `ByteStream`, for files and chunks of
any size, any counts and any seeks. The invariant is

    StreamInvariant == StreamTypeOK /\ BufferInStep

and its weight is in the arithmetic, which the lemmas at the beginning provide: quotient and remainder are
unique, two places of equal remainder stay so after the same number of bytes, the last chunk is as long as
the bytes that remain. With them `buffer_offset` is the place of `offset` modulo the size of a chunk
only, as the code leaves it, and yet the bytes copied from the buffer, and then from the
chunks after it, are those that follow `offset`.

`CollectionWrites_proofs` proves `TypeOK` and every property of `collection_writes` for any options, number of calls and width of request
ids (which may wrap around). The first invariant is about `NoReplyLeftBehind` and says what may be on the wire: between calls and before
an exchange nothing that has been or will be answered, during one only the call's own
message or its answer, and on a connection that was dropped anything. The cases are the three readers of
replies and the ways in which each gives up.

On top of it `Truth` gives `SuccessIsTheServers`: a message on the wire that will be answered belongs to the call that
waits, those of earlier calls are not answered (`OfCalls`), and the answer that is there tells the fate of the write of
this call (`Told`); with the first invariant this also holds when request ids have wrapped round. `Kept`
gives `OptionsReachTheServer` from the types of what a call requests (`Requested`): whatever the defaults, each of the two pieces of code
that compute a concern only raises `j` and `fsync`, and replaces a `w` only by one the call names, apart from the two
losses the property names (`Honours`).
`TypeOK` includes that a connection never holds more messages and answers than there were calls, for which `Room`
says that a call about to send has none there yet.

Only model-checked: `IterationCompletes` (of both cursors), `ServersReturn` and `ReaderFinishes`. They are liveness
properties under fairness, whose enabledness is out of the prover's reach. The finding of `dangling_connection` is
a counterexample, which only TLC gives.

## 6. Not modelled

* `explain()`, `count()` and `skip()` of a cursor, and its query options: they change the query, and
  what a query returns is an input of the models.
* Encoding and decoding of BSON (`bson.c`, `mcon/mini_bson.c`): conversions without state. Where
  a size or a failure of one matters it is an input of a module.
* Connection strings (`mcon/parse.c`): one pass over a string. Its result, seeds and options,
  is what the clients of `ConnectionManager` and `ServerSelection` are made of.
* The bytes and timeouts of the sockets (`io_stream.c`): PHP's streams do the waiting. The models
  see an answer, a late one, a message cut off or none. That a read timeout
  changed for one operation is not put back on an early return (`io_stream.c:346`) is a hazard without a property.
* SASL, SCRAM and X.509: conversations inside the creation of a connection, mostly in a library.
* The functions a user may register for log messages, which may call the driver again
  in the middle of a discovery (`mcon/manager.c:753`): the models take a call to be undisturbed
  by other calls of its own process, apart from `log_write_batch` in `WriteBatch`.
* `MongoId`'s counter, dates, references and other value objects, pool reports, exceptions and the registration of classes:
  no state a property could be about.
* Third-party code in `contrib/`.
