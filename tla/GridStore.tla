----------------------------- MODULE GridStore -----------------------------
(***************************************************************************)
(* GridFS: gridfs/gridfs.c and the reading half of gridfs/gridfs_file.c.     *)
(*                                                                         *)
(* A file is a document in the files collection and one document per chunk   *)
(* in the chunks collection.  No transaction ties them together: a store     *)
(* inserts the chunks one by one, then the file, and takes its chunks back   *)
(* when something fails; a removal looks for the files, removes the chunks   *)
(* of each and then the files; a read fetches the chunks one after another.  *)
(* Several PHP processes do so on the same collections, any answer may be    *)
(* lost, a write may be lost without anybody noticing, and a process may die *)
(* between two steps.                                                        *)
(*                                                                         *)
(* Servers are those that know write commands and createIndexes (2.6 and     *)
(* later): an acknowledged write is a command, an unacknowledged one a bare  *)
(* opcode (collection.c:1140-1148).                                          *)
(***************************************************************************)
EXTENDS Integers, Sequences, FiniteSetsExt

CONSTANTS
  Clients,
  Ids,          \* values of _id
  Lengths,      \* lengths of the files stored
  ChunkSize,
  Sources,      \* kinds of store beside uploads: of {"bytes", "file", "pipe"}
  Uploads,      \* how many files an upload may have behind its first
  Concerns,     \* pairs [db, option] of write concerns: see WriteConcern
  MaxCalls,     \* bound on the calls
  MaxFaults     \* bound on failed exchanges and crashes

ASSUME ParameterAssumption ==
  /\ Lengths \subseteq Nat /\ ChunkSize \in Nat \ {0}
  /\ Sources \subseteq {"bytes", "file", "pipe"} /\ Uploads \subseteq Nat
  /\ Concerns \subseteq [db : {0, 1}, option : {0, 1, 2}]
  /\ MaxCalls \in Nat /\ MaxFaults \in Nat

VARIABLES
  files,      \* <prefix>.files: the file of an id, or NoFile
  chunks,     \* <prefix>.chunks: records [by, n, id, size]; by and n stand for _id
  index,      \* the index on files_id and n: "none" or "unique"
  link,       \* of each client: "up", or "broken" and not yet noticed
  job,        \* the call each client makes, or made last
  faults, calls,
  stores,     \* history: what was stored
  succeeded,  \* history: which stores returned an id, with no write dropped
  disturbed   \* history: which stores a removal may have touched
vars == <<files, chunks, index, link, job, faults, calls, stores, succeeded, disturbed>>
server == <<files, chunks, index>>
history == <<stores, succeeded, disturbed>>

-----------------------------------------------------------------------------
NoFile == [by |-> 0, len |-> 0]

\* The w of chunk inserts, of the file's insert and of the chunks taken back:
\* the constructor raises that of the files collection to 1 and leaves the
\* chunks collection with the database's; an option (2: none) overrides both.
WriteConcern(c) ==
  LET with(default) == IF c.option = 2 THEN default ELSE c.option
  IN  [chunk |-> with(c.db), file |-> with(1), undo |-> c.db]

Idle == [op |-> "none", pc |-> "idle", result |-> "none", criteria |-> {}, by |-> 0,
         kind |-> "bytes", len |-> 0, w |-> [chunk |-> 1, file |-> 1, undo |-> 1],
         pos |-> 0, n |-> 0, undo |-> {}, source |-> "more", err |-> "none", more |-> 0,
         limit |-> "all", todo |-> {}, found |-> {}, doc |-> NoFile, gap |-> "none",
         silent |-> FALSE]

TypeOK ==
  /\ files \in [Ids -> [by : 0..MaxCalls, len : Nat]]
  /\ \A k \in chunks : /\ k.by \in DOMAIN stores /\ k.id = stores[k.by].id
                       /\ k.n \in Nat /\ k.size \in 0..ChunkSize
  /\ index \in {"none", "unique"} /\ link \in [Clients -> {"up", "broken"}]
  /\ \A c \in Clients :
       /\ job[c].op \in {"none", "store", "remove", "drop", "getBytes", "write"}
       /\ job[c].pc \in {"idle", "source", "gle", "md5", "file", "undo", "next", "find",
                         "chunks", "files", "read"}
       /\ job[c].result \in {"none", "done", "bytes"}
       /\ job[c].criteria \subseteq Ids /\ job[c].todo \subseteq job[c].criteria
       /\ job[c].op = "store" => job[c].pos <= job[c].len
  /\ faults \in 0..MaxFaults /\ calls \in 0..MaxCalls
  /\ Len(stores) <= MaxCalls /\ succeeded \cup disturbed \subseteq DOMAIN stores

Init ==
  /\ files = [i \in Ids |-> NoFile] /\ chunks = {} /\ index = "none"
  /\ link = [c \in Clients |-> "up"] /\ job = [c \in Clients |-> Idle]
  /\ faults = 0 /\ calls = 0 /\ stores = <<>> /\ succeeded = {} /\ disturbed = {}

-----------------------------------------------------------------------------
(* One operation of a client on the server: a write with w = 0 or 1, or a    *)
(* command or a query, which the code answers for in full; and what becomes  *)
(* of it.                                                                   *)
(*   "ok"       done                                                        *)
(*   "failed"   not done, and an exception is raised                          *)
(*   "lost"     done, but an exception is raised                              *)
(*   "dropped"  a write that never arrives, without an exception: a command   *)
(*              that could not be sent, an opcode on a dead connection        *)
(*   "refused"  an unacknowledged write the server did not carry out          *)

Command == 2
Outcomes == {"ok", "failed", "lost", "dropped", "refused"}
Applied(o) == o \in {"ok", "lost"}
Thrown(o) == o \in {"failed", "lost"}
Silent(o) == o \in {"dropped", "refused"}

\* A write that is dropped leaves its connection registered; later writes are
\* dropped too, until an answer fails to come or a ping finds out.
Exchange(c, w, o) ==
  \/ o = "ok" /\ link' = [link EXCEPT ![c] = "up"] /\ UNCHANGED faults
  \/ /\ link[c] = "broken" /\ UNCHANGED faults
     /\ \/ o = "failed" /\ link' = [link EXCEPT ![c] = "up"]
        \/ o = "dropped" /\ w # Command /\ UNCHANGED link
  \/ /\ link[c] = "up" /\ faults < MaxFaults /\ faults' = faults + 1
     /\ \/ o = "failed" \/ (o = "lost" /\ w # 0) \/ (o = "refused" /\ w = 0)
        \/ o = "dropped" /\ w # Command
     /\ link' = [link EXCEPT ![c] = IF o = "dropped" THEN "broken" ELSE "up"]

At(c, op, pc) == job[c].op = op /\ job[c].pc = pc

Goes(c, j) == job' = [job EXCEPT ![c] = j]

\* The call returns; "done" of a removal and "bytes" of a read are kept, with
\* what they are about, and how the others ended is not.
Returned(j, what) ==
  IF what \in {"done", "bytes"}
  THEN [Idle EXCEPT !.op = j.op, !.result = what, !.found = j.found, !.doc = j.doc,
                    !.gap = j.gap, !.silent = j.silent]
  ELSE Idle

Calls(c) == job[c].pc = "idle" /\ calls < MaxCalls /\ calls' = calls + 1

-----------------------------------------------------------------------------
(* Storing: storeBytes(), storeFile() (put() is the same) and storeUpload()  *)

\* php_mongo_ensure_gridfs_index(): the call that follows is not made when it
\* throws.  The server refuses the index when two chunks already share a place.
EnsureIndex(c, next) ==
  LET duplicated == \E k, l \in chunks : k # l /\ k.id = l.id /\ k.n = l.n
      refused == duplicated /\ index = "none"
  IN  \E o \in Outcomes :
        /\ Exchange(c, Command, o)
        /\ index' = IF Applied(o) /\ ~refused THEN "unique" ELSE index
        /\ Goes(c, IF Thrown(o) \/ refused THEN Returned(next, "exception") ELSE next)
        /\ UNCHANGED <<files, chunks>>

\* A removal that runs and may still take the file of this id.
BeingRemoved(i) ==
  \E c \in Clients : /\ job[c].op \in {"remove", "drop"} /\ job[c].pc # "idle"
                     /\ i \in job[c].criteria

\* The id is the one in the metadata, or a new one that nobody has.
Unused == { i \in Ids : \A s \in DOMAIN stores : stores[s].id # i }

SetUp(c, j, i, len) ==
  LET by == Len(stores) + 1
      begun == [j EXCEPT !.op = "store", !.criteria = {i}, !.by = by, !.len = len,
                         !.result = "none", !.pos = 0, !.n = 0, !.undo = {},
                         !.source = "more", !.err = "none", !.silent = FALSE,
                         !.pc = IF len > 0 \/ j.kind = "pipe" THEN "source"
                                ELSE IF j.kind = "bytes" THEN "gle" ELSE "md5"]
  IN  /\ EnsureIndex(c, begun)
      /\ stores' = Append(stores, [id |-> i, len |-> len, kind |-> j.kind, w |-> j.w])
      /\ disturbed' = disturbed \cup (IF BeingRemoved(i) THEN {by} ELSE {})
      /\ UNCHANGED succeeded

StoreBytes(c, i, len, concern) ==
  /\ Calls(c)
  /\ SetUp(c, [Idle EXCEPT !.kind = "bytes", !.w = WriteConcern(concern)], i, len)

StoreFile(c, i, len, kind, concern) ==
  /\ kind \in {"file", "pipe"} /\ Calls(c)
  /\ SetUp(c, [Idle EXCEPT !.kind = kind, !.w = WriteConcern(concern)], i, len)

\* storeUpload() takes no options, and stores every file of the field.
StoreUpload(c, i, len, db, more) ==
  /\ Calls(c) /\ calls + more < MaxCalls
  /\ SetUp(c, [Idle EXCEPT !.kind = "file", !.more = more,
                           !.w = WriteConcern([db |-> db, option |-> 2])], i, len)

\* Once a file has failed, the exception keeps those after it from being sent.
NextUpload(c, i, len) ==
  /\ At(c, "store", "next") /\ calls < MaxCalls /\ calls' = calls + 1
  /\ i \in job[c].criteria \cup Unused
  /\ SetUp(c, [job[c] EXCEPT !.more = @ - 1], i, len)

\* What the next chunk may hold: a file is read in full chunks, a pipe gives
\* what it has, and nothing at its end.
Portions(j) ==
  LET most == Min({ChunkSize, j.len - j.pos})
  IN  IF j.kind = "pipe" /\ most > 0 THEN 1..most ELSE {most}

Revert(j) ==
  IF j.undo = {} THEN Returned(j, "exception") ELSE [j EXCEPT !.pc = "undo"]

\* insert_chunk(), and the test of the loop around it.  A chunk is noted for
\* cleanup only when its insert raised no exception.
InsertChunk(c) ==
  LET j == job[c]
      taken == index = "unique" /\ \E k \in chunks : k.id \in j.criteria /\ k.n = j.n
  IN  /\ At(c, "store", "source")
      /\ \E size \in Portions(j), o \in Outcomes :
           LET last == IF j.kind = "pipe" THEN size < ChunkSize ELSE j.pos + size = j.len
               refused == o = "refused" \/ (o = "ok" /\ taken)
               done == [j EXCEPT !.undo = @ \cup {j.n}, !.pos = @ + size, !.n = @ + 1,
                                 !.source = IF last THEN "end" ELSE "more",
                                 !.err = IF refused THEN "refused" ELSE "none",
                                 !.silent = @ \/ o = "dropped",
                                 !.pc = IF j.kind = "bytes" /\ ~last THEN "source" ELSE "gle"]
           IN  /\ Exchange(c, j.w.chunk, o)
               /\ chunks' = chunks \cup { [by |-> j.by, n |-> j.n, id |-> i, size |-> size] :
                                          i \in IF Applied(o) /\ ~taken THEN j.criteria ELSE {} }
               /\ Goes(c, IF Thrown(o) \/ (refused /\ j.w.chunk = 1) THEN Revert(j) ELSE done)
      /\ UNCHANGED <<files, index, calls, stores, succeeded, disturbed>>

\* fread() or read() fails.
ReadError(c) ==
  /\ At(c, "store", "source") /\ job[c].kind # "bytes"
  /\ faults < MaxFaults /\ faults' = faults + 1
  /\ Goes(c, Revert(job[c])) /\ UNCHANGED <<link, calls>> /\ UNCHANGED server
  /\ UNCHANGED history

\* getlasterror: after all the chunks of storeBytes(), which keeps them when it
\* tells of an error, and after each chunk of storeFile().  It tells of the last
\* write that arrived.
GetLastError(c) ==
  LET j == job[c]
      told == IF j.kind = "bytes" THEN Returned(j, "exception") ELSE Revert(j)
      fine == [j EXCEPT !.pc = IF j.kind = "bytes" \/ j.source = "end" THEN "md5" ELSE "source"]
  IN  /\ At(c, "store", "gle")
      /\ \E o \in Outcomes :
           /\ Exchange(c, Command, o)
           /\ Goes(c, IF Thrown(o) THEN Revert(j) ELSE IF j.err = "refused" THEN told ELSE fine)
      /\ UNCHANGED calls /\ UNCHANGED server /\ UNCHANGED history

\* add_md5(): with its exception pending the insert of the file is not sent.
AddMd5(c) ==
  /\ At(c, "store", "md5")
  /\ \E o \in Outcomes :
       /\ Exchange(c, Command, o)
       /\ Goes(c, IF Thrown(o) THEN Revert(job[c]) ELSE [job[c] EXCEPT !.pc = "file"])
  /\ UNCHANGED calls /\ UNCHANGED server /\ UNCHANGED history

\* Only EG(exception) is looked at: a file that was not sent is as good as stored.
Stored(j) == IF j.more > 0 THEN [j EXCEPT !.pc = "next"] ELSE Returned(j, "id")

InsertFile(c) ==
  LET j == job[c]
      taken == \E i \in j.criteria : files[i] # NoFile
      doc == [by |-> j.by, len |-> IF j.kind = "pipe" THEN j.pos ELSE j.len]
  IN  /\ At(c, "store", "file")
      /\ \E o \in Outcomes :
           LET wrong == Thrown(o) \/ (o = "ok" /\ taken /\ j.w.file = 1)
           IN  /\ Exchange(c, j.w.file, o)
               /\ files' = IF Applied(o) /\ ~taken
                           THEN [i \in Ids |-> IF i \in j.criteria THEN doc ELSE files[i]]
                           ELSE files
               /\ Goes(c, IF wrong THEN Revert(j) ELSE Stored(j))
               /\ succeeded' = IF wrong \/ Silent(o) \/ j.silent THEN succeeded
                               ELSE succeeded \cup {j.by}
      /\ UNCHANGED <<chunks, index, calls, stores, disturbed>>

\* Mutant: the chunks are taken back by the id of the file.
MutantTakenBack(j, k, n) == k.id \in j.criteria /\ k.n <= n + 1

TakenBack(j, k, n) == k.by = j.by /\ k.n = n

\* cleanup_stale_chunks(), one removal by _id after another.  Once one throws
\* the others are not sent.
Undo(c) ==
  LET j == job[c]
      n == Min(j.undo)
      left == [j EXCEPT !.undo = @ \ {n}]
  IN  /\ At(c, "store", "undo")
      /\ \E o \in Outcomes :
           /\ Exchange(c, j.w.undo, o)
           /\ chunks' = IF Applied(o) THEN { k \in chunks : ~TakenBack(j, k, n) } ELSE chunks
           /\ Goes(c, IF Thrown(o) THEN Returned(j, "exception") ELSE Revert(left))
      /\ UNCHANGED <<files, index, calls>> /\ UNCHANGED history

-----------------------------------------------------------------------------
(* Removing: remove(), delete() and drop()                                  *)

StoresOf(ids) == { s \in DOMAIN stores : stores[s].id \in ids }

Remove(c, ids, limit, concern) ==
  /\ Calls(c)
  /\ EnsureIndex(c, [Idle EXCEPT !.op = "remove", !.pc = "find", !.criteria = ids,
                                 !.limit = limit, !.w = WriteConcern(concern)])
  /\ UNCHANGED history

\* What justOne leaves of the files that match: one of them, if there is any.
Chosen(limit, matching) ==
  IF limit = "all" \/ matching = {} THEN {matching} ELSE { {i} : i \in matching }

\* The files that match; one of them with justOne, and the criteria then name it.
FindFiles(c) ==
  LET j == job[c]
      found == { i \in j.criteria : files[i] # NoFile }
  IN  /\ At(c, "remove", "find")
      /\ \E o \in Outcomes, todo \in Chosen(j.limit, found) :
           /\ Exchange(c, Command, o)
           /\ Goes(c, IF Thrown(o) THEN Returned(j, "exception")
                      ELSE [j EXCEPT !.todo = todo, !.found = { files[i].by : i \in todo },
                                     !.criteria = IF j.limit = "one" /\ todo # {} THEN todo ELSE @,
                                     !.pc = IF todo = {} THEN "files" ELSE "chunks"])
           /\ disturbed' = disturbed \cup IF Thrown(o) THEN {} ELSE StoresOf(todo)
      /\ UNCHANGED <<calls, stores, succeeded>> /\ UNCHANGED server

\* Mutant: justOne stays in the options with which the chunks are removed.
MutantTakenWith(j, k, i) == k.id = i /\ (j.limit = "one" => k.n = 0)

\* The chunks that one removal by files_id takes: justOne is off meanwhile.
TakenWith(j, k, i) == k.id = i

RemoveChunks(c) ==
  LET j == job[c]
  IN  /\ At(c, "remove", "chunks")
      /\ \E o \in Outcomes, i \in j.todo :
           /\ Exchange(c, j.w.chunk, o)
           /\ chunks' = IF Applied(o) THEN { k \in chunks : ~TakenWith(j, k, i) } ELSE chunks
           /\ Goes(c, IF Thrown(o) THEN Returned(j, "exception")
                      ELSE [j EXCEPT !.todo = @ \ {i}, !.silent = @ \/ Silent(o),
                                     !.pc = IF j.todo = {i} THEN "files" ELSE "chunks"])
      /\ UNCHANGED <<files, index, calls>> /\ UNCHANGED history

\* By the criteria again: whatever matches now.
RemoveFiles(c) ==
  LET j == job[c]
      matching == { i \in j.criteria : files[i] # NoFile }
  IN  /\ At(c, "remove", "files")
      /\ \E o \in Outcomes, gone \in Chosen(j.limit, matching) :
           /\ Exchange(c, j.w.file, o)
           /\ files' = IF Applied(o) THEN [i \in Ids |-> IF i \in gone THEN NoFile ELSE files[i]]
                       ELSE files
           /\ disturbed' = disturbed \cup { files[i].by : i \in IF Applied(o) THEN gone ELSE {} }
           /\ Goes(c, Returned([j EXCEPT !.silent = @ \/ Silent(o)],
                               IF Thrown(o) THEN "exception" ELSE "done"))
      /\ UNCHANGED <<chunks, index, calls, stores, succeeded>>

\* The result of dropping the chunks is not looked at; an exception is pending
\* when the files' turn comes, and keeps the command from being sent.
Drop(c) ==
  /\ Calls(c)
  /\ \E o \in Outcomes :
       /\ Exchange(c, Command, o)
       /\ IF Applied(o) THEN chunks' = {} /\ index' = "none" ELSE UNCHANGED <<chunks, index>>
       /\ LET j == [Idle EXCEPT !.op = "drop", !.pc = "files", !.criteria = Ids]
          IN  Goes(c, IF Thrown(o) THEN Returned(j, "exception") ELSE j)
  /\ disturbed' = DOMAIN stores /\ UNCHANGED <<files, stores, succeeded>>

DropFiles(c) ==
  /\ At(c, "drop", "files")
  /\ \E o \in Outcomes :
       /\ Exchange(c, Command, o)
       /\ files' = IF Applied(o) THEN [i \in Ids |-> NoFile] ELSE files
       /\ Goes(c, Returned(job[c], IF Thrown(o) THEN "exception" ELSE "done"))
  /\ disturbed' = DOMAIN stores /\ UNCHANGED <<chunks, index, calls, stores, succeeded>>

-----------------------------------------------------------------------------
(* Reading: get(), findOne() or find(), then getBytes() or write()          *)

FindOne(c, i, op) ==
  /\ Calls(c)
  /\ \E o \in Outcomes :
       /\ Exchange(c, Command, o)
       /\ LET j == [Idle EXCEPT !.op = op, !.pc = "read", !.criteria = {i}, !.doc = files[i]]
          IN  Goes(c, IF Thrown(o) THEN Returned(j, "exception")
                      ELSE IF files[i] = NoFile THEN Returned(j, "null") ELSE j)
  /\ UNCHANGED server /\ UNCHANGED history

\* Mutant: the chunks come in no order.
MutantNextChunks(j) == { k \in chunks : k.id \in j.criteria /\ k.n >= j.n }

\* The next chunks in the order of n; a batch may hold any number of them.
NextChunks(j) ==
  LET rest == { k \in chunks : k.id \in j.criteria /\ k.n >= j.n }
  IN  { k \in rest : \A l \in rest : k.n <= l.n }

\* The buffer of getBytes() has a byte more than the file.
Room(j) == IF j.op = "getBytes" THEN j.doc.len + 1 ELSE j.doc.len

\* apply_to_cursor(): pos bytes are copied, n is the chunk to come.  The end of
\* the cursor is the end of the file, whatever its length; no chunk is an error.
ReadChunk(c) ==
  LET j == job[c]
  IN  /\ job[c].op \in {"getBytes", "write"} /\ job[c].pc = "read"
      /\ \E o \in Outcomes :
           /\ Exchange(c, Command, o)
           /\ IF Thrown(o) THEN Goes(c, Returned(j, "exception"))
              ELSE IF NextChunks(j) = {}
              THEN Goes(c, [Returned(j, IF j.n = 0 THEN "exception" ELSE "bytes")
                              EXCEPT !.gap = IF j.pos < j.doc.len THEN "some" ELSE @])
              ELSE \E k \in NextChunks(j) :
                     Goes(c, IF j.pos + k.size > Room(j) THEN Returned(j, "exception")
                             ELSE [j EXCEPT !.pos = @ + k.size, !.n = k.n + 1,
                                     !.gap = IF /\ j.pos < j.doc.len
                                                /\ ~(k.by = j.doc.by /\ k.n = j.n)
                                             THEN "some" ELSE @])
      /\ UNCHANGED calls /\ UNCHANGED server /\ UNCHANGED history

-----------------------------------------------------------------------------
\* The PHP process ends in the middle of a call.
Die(c) ==
  /\ job[c].pc # "idle" /\ faults < MaxFaults /\ faults' = faults + 1
  /\ Goes(c, Returned(job[c], "died")) /\ link' = [link EXCEPT ![c] = "up"]
  /\ UNCHANGED calls /\ UNCHANGED server /\ UNCHANGED history

Next ==
  \E c \in Clients :
    \/ \E i \in Ids, len \in Lengths, concern \in Concerns :
         \/ "bytes" \in Sources /\ StoreBytes(c, i, len, concern)
         \/ \E kind \in Sources : StoreFile(c, i, len, kind, concern)
    \/ \E i \in Ids, len \in Lengths, concern \in Concerns :
         \E more \in Uploads : StoreUpload(c, i, len, concern.db, more)
    \/ \E i \in Ids, len \in Lengths : NextUpload(c, i, len)
    \/ InsertChunk(c) \/ ReadError(c) \/ GetLastError(c) \/ AddMd5(c) \/ InsertFile(c)
    \/ Undo(c)
    \/ \E ids \in SUBSET Ids \ {{}}, limit \in {"one", "all"}, concern \in Concerns :
         Remove(c, ids, limit, concern)
    \/ FindFiles(c) \/ RemoveChunks(c) \/ RemoveFiles(c) \/ Drop(c) \/ DropFiles(c)
    \/ \E i \in Ids, op \in {"getBytes", "write"} : FindOne(c, i, op)
    \/ ReadChunk(c) \/ Die(c)

Spec == Init /\ [][Next]_vars

-----------------------------------------------------------------------------
\* Somebody asked about every insert: they were acknowledged, or, of a file read
\* from a stream, each chunk was followed by a getlasterror.
Acknowledged(s) ==
  stores[s].w.file = 1 /\ (stores[s].kind = "bytes" => stores[s].w.chunk = 1)

\* Where the bytes of a chunk belong in the file.
Offset(n) == n * ChunkSize

\* An acknowledged store that returned an id, none of whose inserts was dropped
\* on its way (which raises no exception), left the file, of the length it was
\* given, and every byte of it in one chunk at its place until a removal begins:
\* no other store of the same id, no failure, cleanup, dropped write or death
\* elsewhere takes any.
StoredIsWhole ==
  \A s \in { t \in succeeded \ disturbed : Acknowledged(t) } :
    LET own == { k \in chunks : k.by = s }
        file == files[stores[s].id]
    IN  /\ file.by = s
        /\ stores[s].kind # "pipe" => file.len = stores[s].len
        /\ \A k, l \in own : k.n = l.n => k = l
        /\ \A k \in own : Offset(k.n) + k.size <= file.len
        /\ \A p \in 0..(file.len - 1) :
             \E k \in own : Offset(k.n) <= p /\ p < Offset(k.n) + k.size

\* Bytes that are returned without an exception are those of the file found, if
\* its store was acknowledged, returned an id and had no insert dropped, and no
\* removal has touched it since, whatever else is stored, fails and dies
\* meanwhile.  A store whose last answer was lost returns no id: its cleanup takes
\* chunks of the file it left, under those who read it (gridfs.c:525-536).
ReadsWhole ==
  \A c \in Clients :
    /\ job[c].op \in {"getBytes", "write"} /\ job[c].result = "bytes"
    /\ job[c].doc.by \in succeeded \ disturbed /\ Acknowledged(job[c].doc.by)
    => job[c].gap = "none"

\* After a removal that reported no error, and none of whose deletes was dropped
\* or refused without its noticing, nothing is left of the files it found and
\* whose store had ended well: no file and not one chunk.
RemovedIsGone ==
  \A c \in Clients :
    job[c].op = "remove" /\ job[c].result = "done" /\ ~job[c].silent =>
      \A s \in job[c].found \cap succeeded :
        files[stores[s].id].by # s /\ \A k \in chunks : k.by # s

=============================================================================
