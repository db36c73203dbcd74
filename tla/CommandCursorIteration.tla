----------------------- MODULE CommandCursorIteration -----------------------
(***************************************************************************)
(* One MongoCommandCursor: the first batch comes with the reply to the      *)
(* command, as a PHP array; later ones come from get_more and are read from *)
(* a buffer, as those of a MongoCursor.  command_cursor.c, with what it     *)
(* uses of cursor_shared.c.                                                *)
(*                                                                         *)
(* Documents are numbered in the order of the result, 1..total.  The        *)
(* connection matters only when it is destroyed; CursorConnections has it.  *)
(***************************************************************************)
EXTENDS Integers, Sequences

CONSTANTS
  BatchSizes,    \* arguments of batchSize()
  MaxDocuments,  \* bound on the size of the result
  DefaultBatch,  \* bound on the batch a server sends when it may choose
  MaxCommands,   \* bound on the number of times the command is run
  None           \* no current document, no first batch

ASSUME ParameterAssumption ==
  /\ BatchSizes \subseteq Int
  /\ MaxDocuments \in Nat /\ DefaultBatch \in Nat \ {0} /\ MaxCommands \in Nat
  /\ None \notin Int /\ \A n \in 0..MaxDocuments : None # [i \in 1..n |-> i]

VARIABLES
  cursor,       \* the fields of mongo_command_cursor that iteration uses
  pre_created,  \* made by createFromDocument()
  batch_size,   \* cmd_cursor->batch_size
  total,        \* documents of the result
  sent,         \* how many of them the server has sent
  result,       \* what the last call ended with
  delivered,    \* history: documents that became current since rewind()
  phase,        \* history: how the iteration stands
  cut,          \* history: why the server will send no more, if not at the end
  commands      \* history: how often the command was run

vars == <<cursor, pre_created, batch_size, total, sent, result, delivered, phase,
          cut, commands>>

-----------------------------------------------------------------------------
Error == 0     \* an error document, {$err: ...}
Garbage == -1  \* what is found behind the end of the buffer
Document == 1..MaxDocuments

Least(a, b) == IF a < b THEN a ELSE b
Magnitude(n) == IF n < 0 THEN -n ELSE n
Numbered(from, n) == [i \in 1..n |-> from + i]

\* php_mongo_cursor_reset() of a new cursor.  flag is set by no one yet.
Fresh ==
  [started_iterating |-> FALSE, at |-> 0, num |-> 0, open |-> FALSE, dead |-> FALSE,
   flag |-> FALSE, buf |-> <<>>, first_batch |-> None, first_batch_at |-> 0,
   first_batch_num |-> 0, current |-> None]

\* ... and of one in use.
Reset(c) == [Fresh EXCEPT !.flag = c.flag]

\* Mutant: the documents of the first batch are counted as received.
MutantWithFirstBatch(c, docs, open) ==
  [c EXCEPT !.first_batch = docs, !.first_batch_num = Len(docs), !.num = Len(docs),
            !.first_batch_at = 0, !.open = open]

\* What rewind() and createFromDocument() take from the reply to the command.
WithFirstBatch(c, docs, open) ==
  [c EXCEPT !.first_batch = docs, !.first_batch_num = Len(docs),
            !.first_batch_at = 0, !.open = open]

\* The first batch: any part of the result, even none of it.  The server keeps
\* a cursor while documents are left, and may keep it when none is.
FirstBatches ==
  {b \in [docs : {Numbered(0, k) : k \in 0 .. Least(total, DefaultBatch)}, open : BOOLEAN] :
     Len(b.docs) < total => b.open}

TypeOK ==
  /\ cursor \in [started_iterating : BOOLEAN, at : 0 .. MaxDocuments + 2, num : Nat,
                 open : BOOLEAN, dead : BOOLEAN, flag : BOOLEAN,
                 buf : Seq(Document \cup {Error}),
                 first_batch : Seq(Document) \cup {None}, first_batch_at : Nat,
                 first_batch_num : Nat, current : Document \cup {Garbage, None}]
  /\ cursor.dead => ~cursor.open
  /\ cursor.first_batch # None =>           \* the batches take turns
       /\ cursor.first_batch_num = Len(cursor.first_batch)
       /\ cursor.at = 0 /\ cursor.num = 0
  /\ pre_created \in BOOLEAN /\ batch_size \in BatchSizes \cup {0}
  /\ total \in 0..MaxDocuments /\ sent \in 0..total
  /\ result \in {"none", "ok", "exception", "crash"}
  /\ delivered \in Seq(Document)
  /\ phase \in {"new", "open", "ended", "broken"}
  /\ cut \in {"no", "closed", "lost"}
  /\ commands \in 0..MaxCommands

\* A cursor of the constructor, or of createFromDocument() for the reply to a
\* command the user ran.
Init ==
  /\ total \in 0..MaxDocuments
  /\ \/ pre_created = FALSE /\ cursor = Fresh /\ sent = 0
     \/ /\ pre_created = TRUE
        /\ \E b \in FirstBatches :
             cursor = WithFirstBatch(Fresh, b.docs, b.open) /\ sent = Len(b.docs)
  /\ batch_size = 0 /\ result = "none"
  /\ delivered = <<>> /\ phase = "new" /\ cut = "no" /\ commands = 0

-----------------------------------------------------------------------------
(* What a call leaves behind: the cursor, what was sent, how it ended and   *)
(* whether the rest of the result is cut off.                              *)

Outcome(c, s, r, why) == [cursor |-> c, sent |-> s, result |-> r, cut |-> why]
Thrown(o) == o.result = "exception"

\* php_mongo_cursor_failed(), php_mongo_cursor_mark_dead()
Failed(c) == [c EXCEPT !.dead = TRUE, !.open = FALSE]

\* The replies of a server that still has the cursor.  The limit of a command
\* cursor is 0, so php_mongo_calculate_next_request_limit() is batch_size, and
\* a negative one closes the cursor after this batch.
GetMoreReplies(from) ==
  LET most == Least(total - from, IF batch_size = 0 THEN DefaultBatch ELSE Magnitude(batch_size))
  IN  {r \in [docs : {Numbered(from, k) : k \in 0..most}, open : BOOLEAN, flag : {FALSE}] :
         /\ r.docs = <<>> => from = total /\ ~r.open
         /\ batch_size < 0 => ~r.open
         /\ batch_size >= 0 /\ from + Len(r.docs) < total => r.open}

CursorNotFound == [docs |-> <<>>, open |-> FALSE, flag |-> TRUE]
QueryFailure == [docs |-> <<Error>>, open |-> FALSE, flag |-> TRUE]

\* php_mongo_get_reply()
Receive(c, reply) ==
  [c EXCEPT !.num = @ + Len(reply.docs), !.open = reply.open, !.flag = reply.flag,
            !.buf = reply.docs]

\* php_mongo_get_more().  When only the header of a reply could be read, its
\* documents are counted but not there.
GetMore(o) ==
  LET received(reply) == [o EXCEPT !.cursor = Receive(@, reply)]
      failed(p) == [p EXCEPT !.cursor = Failed([@ EXCEPT !.buf = <<>>]), !.result = "exception"]
      replies == GetMoreReplies(o.sent)
  IN  {failed(o), [received(CursorNotFound) EXCEPT !.cut = "lost"], received(QueryFailure)}
      \cup {failed(received(r)) : r \in replies}
      \cup {[received(r) EXCEPT !.sent = @ + Len(r.docs),
                                !.cut = IF batch_size < 0 THEN "closed" ELSE @] : r \in replies}

\* php_mongo_handle_error(): a "not master" error also fails the cursor.  A
\* reply that could not be read has nothing in it that would be an error.
HandleError(o) ==
  LET thrown == [o EXCEPT !.result = "exception", !.cursor.current = None] IN
  IF o.cursor.current = Error THEN {thrown, [thrown EXCEPT !.cursor = Failed(@)]}
  ELSE {IF o.cursor.flag THEN [o EXCEPT !.result = "exception"] ELSE o}

\* php_mongocommandcursor_load_current_element().  An exception that is still
\* pending clears the element again.
Load(o) ==
  LET c == [o.cursor EXCEPT !.current = None] IN
  IF c.first_batch # None /\ c.first_batch_at < Len(c.first_batch)
  THEN {[o EXCEPT !.cursor = [c EXCEPT !.current = c.first_batch[c.first_batch_at + 1]]]}
  ELSE IF c.at >= c.num THEN {[o EXCEPT !.cursor = c]}
  ELSE LET read == IF c.buf = <<>> THEN [c EXCEPT !.current = Garbage]
                   ELSE [c EXCEPT !.current = Head(c.buf), !.buf = Tail(c.buf)]
       IN  {IF Thrown(p) THEN [p EXCEPT !.cursor.current = None] ELSE p :
              p \in HandleError([o EXCEPT !.cursor = read])}

\* Mutant: the first batch is dropped one document early.
MutantFirstBatchOver(c) == c.first_batch_at + 1 >= c.first_batch_num

FirstBatchOver(c) == c.first_batch_at >= c.first_batch_num

\* Mutant: at the end of a batch the next one is not asked for.
MutantBatchOver(c) == FALSE

\* Is another batch due?  (dead is looked at as well, but a dead cursor is never
\* open.)
BatchOver(c) == c.at = c.num /\ c.open

\* php_mongocommandcursor_advance()
Advance ==
  LET unloaded == [cursor EXCEPT !.current = None]
      in_first == [unloaded EXCEPT !.first_batch_at = @ + 1]
      dropped == [in_first EXCEPT !.first_batch = None]
      later == [unloaded EXCEPT !.at = @ + 1]
      left(c) == Outcome(c, sent, "ok", cut)
      here(c) == Load(left(c))
      further(c) == UNION {IF Thrown(o) THEN {o} ELSE Load(o) : o \in GetMore(left(c))}
  IN  IF cursor.first_batch # None
      THEN IF ~FirstBatchOver(in_first) THEN here(in_first)
           ELSE IF dropped.open THEN further(dropped) ELSE here(dropped)
      ELSE IF BatchOver(later) THEN further(later) ELSE here(later)

\* php_mongocommandcursor_fetch_batch_if_first_is_empty(), whose failure is
\* ignored, and the load that follows it in rewind().
FetchAndLoad(o) ==
  IF o.cursor.first_batch_num = 0 /\ o.cursor.open
  THEN UNION {Load(p) : p \in GetMore([o EXCEPT !.cursor.first_batch = None])}
  ELSE Load(o)

-----------------------------------------------------------------------------
(* The methods.                                                            *)

\* The state after a call with outcome o; `before` is what had been delivered,
\* `stood` how the iteration stood.
Return(o, before, stood) ==
  LET d == o.cursor.current IN
  /\ cursor' = o.cursor /\ sent' = o.sent /\ result' = o.result /\ cut' = o.cut
  /\ delivered' = IF d \in Document /\ ~Thrown(o) /\ stood # "broken"
                  THEN Append(before, d) ELSE before
  /\ phase' = IF Thrown(o) \/ d = Garbage \/ stood = "broken" THEN "broken"
              ELSE IF d = None THEN "ended" ELSE "open"

Running == result # "crash"

\* MongoCommandCursor::next().  Before rewind() it is not part of an iteration.
NextDocument ==
  /\ Running /\ cursor.at <= MaxDocuments + 1
  /\ \E o \in Advance :
       Return(o, delivered, IF cursor.started_iterating THEN phase ELSE "broken")
  /\ UNCHANGED <<pre_created, batch_size, total, commands>>

Refuse ==
  Return(Outcome(cursor, sent, "exception", cut), delivered, "broken")

\* MongoCommandCursor::rewind() of a cursor whose connection is gone, or a
\* second time after createFromDocument().
RewindRefused ==
  /\ Running
  /\ cursor.dead \/ (pre_created /\ cursor.started_iterating)
  /\ Refuse
  /\ UNCHANGED <<pre_created, batch_size, total, commands>>

\* ... the first time after createFromDocument().
RewindPreCreated ==
  /\ Running /\ ~cursor.dead /\ pre_created /\ ~cursor.started_iterating
  /\ ~(cursor.first_batch = None /\ cursor.first_batch_num = 0 /\ cursor.open)
  /\ \E o \in FetchAndLoad(Outcome(cursor, sent, "ok", cut)) :
       Return([o EXCEPT !.cursor.started_iterating = TRUE], delivered,
              IF phase = "broken" THEN "broken" ELSE "open")
  /\ UNCHANGED <<pre_created, batch_size, total, commands>>

\* ... when a next() before it has dropped an empty first batch already: the
\* null pointer is dereferenced.
RewindCrashes ==
  /\ Running /\ ~cursor.dead /\ pre_created /\ ~cursor.started_iterating
  /\ cursor.first_batch = None /\ cursor.first_batch_num = 0 /\ cursor.open
  /\ result' = "crash" /\ phase' = "broken"
  /\ UNCHANGED <<cursor, pre_created, batch_size, total, sent, delivered, cut, commands>>

\* ... of a constructed cursor: the command is run (again), and fails or returns
\* a first batch.
RewindRunsCommand ==
  /\ Running /\ ~cursor.dead /\ ~pre_created
  /\ commands < MaxCommands /\ commands' = commands + 1
  /\ \/ Return(Outcome(Reset(cursor), 0, "exception", "no"), <<>>, "broken")
     \/ \E b \in FirstBatches :
          \E o \in FetchAndLoad(Outcome(WithFirstBatch(Reset(cursor), b.docs, b.open),
                                        Len(b.docs), "ok", "no")) :
            Return([o EXCEPT !.cursor.started_iterating = TRUE], <<>>, "open")
  /\ UNCHANGED <<pre_created, batch_size, total>>

\* MongoCommandCursor::rewind()
Rewind == RewindRefused \/ RewindPreCreated \/ RewindCrashes \/ RewindRunsCommand

\* MongoCommandCursor::batchSize()
SetBatchSize(b) ==
  /\ Running
  /\ batch_size' = b
  /\ UNCHANGED <<cursor, pre_created, total, sent, result, delivered, phase, cut, commands>>

\* A call on another cursor destroys the connection.  Only createFromDocument()
\* registers a callback that says so.  (What becomes of the connection of a
\* rewound cursor is CursorConnections' subject.)
ConnectionDestroyed ==
  /\ Running /\ pre_created /\ ~cursor.dead
  /\ cursor' = Failed(cursor)
  /\ cut' = IF cursor.open THEN "lost" ELSE cut
  /\ UNCHANGED <<pre_created, batch_size, total, sent, result, delivered, phase, commands>>

Next ==
  \/ NextDocument
  \/ Rewind
  \/ \E b \in BatchSizes : SetBatchSize(b)
  \/ ConnectionDestroyed

Spec == Init /\ [][Next]_vars

\* The program keeps asking for the next document.
FairSpec == Spec /\ WF_vars(NextDocument)

-----------------------------------------------------------------------------
(* Properties.                                                             *)

\* MongoCommandCursor::key().  Mutant: the place in the later batches alone.
MutantKey == IF cursor.first_batch # None THEN cursor.first_batch_at ELSE cursor.at

Key ==
  IF cursor.first_batch # None THEN cursor.first_batch_at
  ELSE cursor.first_batch_num + cursor.at

\* key() is the place of the current document in the result, across the first
\* batch, which has its own counter, and all later ones, which share another.
\* (It is not after a next() before rewind(): the second load reads on in the
\* buffer without counting.)
KeyIsPosition ==
  phase # "broken" /\ cursor.current \in Document => Key = cursor.current - 1

\* As long as no exception broke the iteration off, the document that next()
\* would load is in the array or in the buffer, and never behind its end: the
\* counters are all that load looks at.
WithinTheReply ==
  phase \in {"open", "ended"} /\ cursor.at < cursor.num - 1 => cursor.buf # <<>>

\* Everything must have been handed over before the end is reported, unless the
\* program had the server close the cursor (a negative batch size) or the server
\* lost it.
Promised == IF cut = "no" THEN total ELSE 0

Stream == INSTANCE ResultStream WITH
  size <- total, gapless <- TRUE, promised <- Promised

\* The cursor implements the stream of documents its user thinks of: the change
\* from the first batch to the later ones, an empty first batch and a second
\* rewind() neither repeat, skip nor reorder a document, and the end is not
\* reported early.
DeliversTheStream == Stream!Spec

\* A program that goes on calling next() gets all that was promised, unless an
\* exception breaks the iteration off.
IterationCompletes ==
  phase = "open"
    ~> (phase = "ended" /\ Len(delivered) >= Promised) \/ phase = "broken"

=============================================================================
