-------------------------- MODULE CursorIteration --------------------------
(***************************************************************************)
(* One MongoCursor and the result it reads from a server, in batches:      *)
(* cursor.c, with what it uses of cursor_shared.c and bson.c.  A call runs  *)
(* to its end, so an operation is one step; what varies is the order of    *)
(* the calls, the size of the batches and the failures.                    *)
(*                                                                         *)
(* Documents are numbered in the order of the result, 1..total; an error   *)
(* document, {$err: ...}, is 0.                                            *)
(***************************************************************************)
EXTENDS Integers, Sequences

CONSTANTS
  Limits,        \* arguments of limit()
  BatchSizes,    \* arguments of batchSize()
  MaxDocuments,  \* bound on the size of the result
  DefaultBatch,  \* bound on the batch a server sends when it may choose
  MaxQueries,    \* bound on the number of queries run
  None           \* no current document

ASSUME ParameterAssumption ==
  /\ Limits \subseteq Int /\ BatchSizes \subseteq Int
  /\ MaxDocuments \in Nat /\ DefaultBatch \in Nat \ {0} /\ MaxQueries \in Nat
  /\ None \notin Nat

VARIABLES
  cursor,      \* the fields of mongo_cursor that iteration uses
  limit,       \* cursor->limit
  batch_size,  \* cursor->batch_size
  tailable,    \* is CURSOR_FLAG_TAILABLE set?
  total,       \* documents that match the query
  sent,        \* how many of them the server-side cursor has sent
  result,      \* what the last call returned
  hard,        \* history: a request told the server to close after its reply
  in_step,     \* history: see InStep
  delivered,   \* history: documents handed to the user since the query
  phase,       \* history: how the iteration stands
  queries      \* history: number of queries run

vars == <<cursor, limit, batch_size, tailable, total, sent, result, hard,
          in_step, delivered, phase, queries>>

settings == <<limit, batch_size, tailable, total>>

-----------------------------------------------------------------------------
Error == 0
Document == 1..MaxDocuments

Least(a, b) == IF a < b THEN a ELSE b
Magnitude(n) == IF n < 0 THEN -n ELSE n

CursorState ==
  [started_iterating : BOOLEAN,
   dont_advance : BOOLEAN,      \* MONGO_CURSOR_OPT_DONT_ADVANCE_ON_FIRST_NEXT
   at : Nat,
   num : Nat,
   start : Nat,
   open : BOOLEAN,              \* cursor_id # 0
   connected : BOOLEAN,         \* connection # NULL
   dead : BOOLEAN,
   flag : BOOLEAN,              \* flag & MONGO_OP_REPLY_ERROR_FLAGS
   buf : Seq(Document \cup {Error}),  \* what is left of the last reply
   current : Document \cup {Error, None}]

Fresh ==
  [started_iterating |-> FALSE, dont_advance |-> FALSE, at |-> 0, num |-> 0,
   start |-> 0, open |-> FALSE, connected |-> FALSE, dead |-> FALSE,
   flag |-> FALSE, buf |-> <<>>, current |-> None]

Results == {"none", "document", "null", "true", "false", "exception"}

TypeOK ==
  /\ cursor \in CursorState
  /\ cursor.open => cursor.connected            \* an id needs a server
  /\ cursor.dead => ~cursor.connected
  /\ cursor.dont_advance => cursor.started_iterating
  /\ limit \in Int /\ batch_size \in Int
  /\ tailable \in BOOLEAN
  /\ total \in 0..MaxDocuments /\ sent \in 0..total
  /\ result \in Results
  /\ hard \in BOOLEAN /\ in_step \in BOOLEAN
  /\ delivered \in Seq(Document)
  /\ phase \in {"new", "open", "ended", "broken"}
  /\ queries \in 0..MaxQueries

Init ==
  /\ cursor = Fresh
  /\ limit = 0 /\ batch_size = 0
  /\ tailable \in BOOLEAN
  /\ total \in 0..MaxDocuments /\ sent = 0
  /\ result = "none"
  /\ hard = FALSE /\ in_step = TRUE
  /\ delivered = <<>> /\ phase = "new" /\ queries = 0

-----------------------------------------------------------------------------
(* The pieces operations are made of: functions of a cursor state.         *)

\* Mutant: the reset forgets that hasNext() ran the query.
MutantReset(c) ==
  [Fresh EXCEPT !.start = c.start, !.flag = c.flag, !.connected = c.connected,
                !.dont_advance = c.dont_advance]

\* php_mongo_cursor_reset().  The error flag and the connection stay.
Reset(c) ==
  [Fresh EXCEPT !.start = c.start, !.flag = c.flag, !.connected = c.connected]

\* php_mongo_cursor_failed()
Failed(c) == [c EXCEPT !.dead = TRUE, !.open = FALSE, !.connected = FALSE]

\* Mutant: what was received already is not taken off the limit.
MutantNextRequestLimit(c) ==
  IF limit < 0 THEN limit
  ELSE IF batch_size # 0 /\ (limit = 0 \/ batch_size <= limit) THEN batch_size ELSE limit

\* php_mongo_calculate_next_request_limit()
NextRequestLimit(c) ==
  IF limit < 0 THEN limit
  ELSE IF batch_size < 0 THEN batch_size
  ELSE LET lim_at == IF limit > batch_size THEN limit - c.at ELSE limit
       IN  IF batch_size # 0 /\ (lim_at = 0 \/ batch_size <= lim_at) THEN batch_size
           ELSE IF lim_at # 0 /\ (batch_size = 0 \/ lim_at < batch_size) THEN lim_at
           ELSE 0

\* Mutant: the number of documents is that of the last reply.
MutantReceive(c, reply) ==
  [c EXCEPT !.num = Len(reply.docs), !.start = reply.start, !.open = reply.open,
            !.flag = reply.flag, !.buf = reply.docs]

\* php_mongo_get_reply(): the header's fields and the documents.
Receive(c, reply) ==
  [c EXCEPT !.num = @ + Len(reply.docs), !.start = reply.start, !.open = reply.open,
            !.flag = reply.flag, !.buf = reply.docs]

\* php_mongocursor_load_current_element().  Whatever is behind the end of the
\* reply stands as an error; WithinTheReply says that it is never read.
Load(c) ==
  IF c.at >= c.num THEN [c EXCEPT !.current = None]
  ELSE IF c.buf = <<>> THEN [c EXCEPT !.current = Error]
  ELSE [c EXCEPT !.current = Head(c.buf), !.buf = Tail(c.buf)]

\* Mutant: the query that hasNext() ran is not remembered.
MutantAdvance(c) == [c EXCEPT !.current = None, !.dont_advance = FALSE, !.at = @ + 1]

\* The start of php_mongocursor_advance().
Advance(c) ==
  IF c.dont_advance THEN [c EXCEPT !.current = None, !.dont_advance = FALSE]
  ELSE [c EXCEPT !.current = None, !.at = @ + 1]

-----------------------------------------------------------------------------
(* The server: what it may answer.  Batches end early when a reply is full, *)
(* so every size up to the one asked for is possible, but never an empty    *)
(* one with documents left.                                                *)

\* Replies to a request for n documents from a cursor that has sent `from`.
\* A negative n, or a query for one document, closes the server-side cursor;
\* otherwise it stays open while there are documents, and may stay open for one
\* more request when the last one was sent.
Replies(from, n, closes) ==
  LET most == Least(total - from, IF n = 0 THEN DefaultBatch ELSE Magnitude(n))
  IN  {r \in [docs : {[i \in 1..k |-> from + i] : k \in 0..most},
              start : {from}, open : BOOLEAN, flag : {FALSE}] :
         /\ r.docs = <<>> => from = total
         /\ closes => ~r.open
         /\ ~closes /\ from + Len(r.docs) < total => r.open
         /\ r.docs = <<>> /\ r.open => tailable}

QueryReplies ==
  LET n == NextRequestLimit(Reset(cursor)) IN Replies(0, n, n < 0 \/ n = 1)

\* The query failed on the server: one error document.
QueryFailure == [docs |-> <<Error>>, start |-> 0, open |-> FALSE, flag |-> TRUE]

GetMoreReplies(c) == LET n == NextRequestLimit(c) IN Replies(sent, n, n < 0)

\* The server no longer has the cursor.
CursorNotFound == [docs |-> <<>>, start |-> 0, open |-> FALSE, flag |-> TRUE]

\* A reply whose header is read, but not its documents: they are counted already.
HeaderOnly(c, reply) == [Receive(c, reply) EXCEPT !.buf = <<>>]

-----------------------------------------------------------------------------
(* Exchanges with the server.  An outcome is what a call leaves behind: the  *)
(* cursor, what the server has sent, and the result so far.                *)

Outcome(c, s, r) ==
  [cursor |-> c, sent |-> s, result |-> r, hard |-> hard, in_step |-> in_step]

Thrown(o) == o.result = "exception"

\* php_mongo_runquery(): no connection can be had, the query does not fit, the
\* exchange fails, or a reply arrives.
RunQuery ==
  LET n == NextRequestLimit(Reset(cursor))
      c == [Reset(cursor) EXCEPT !.connected = TRUE]
      outcomes ==
        {Outcome([c EXCEPT !.connected = FALSE], 0, "exception"),
         Outcome(c, 0, "exception"),
         Outcome(Failed(c), 0, "exception"),
         Outcome(Receive(c, QueryFailure), 0, "none")}
        \cup {Outcome(Failed(HeaderOnly(c, r)), 0, "exception") : r \in QueryReplies}
        \cup {Outcome(Receive(c, r), Len(r.docs), "none") : r \in QueryReplies}
  IN  {[o EXCEPT !.hard = (n < 0 \/ n = 1), !.in_step = (batch_size >= 0)] : o \in outcomes}

\* A get_more is in step when it is sent from the end of what was received and
\* limit() is above batchSize(): only then is the number of documents it asks
\* for at most what is left of the limit.
InStep(c) == c.at = c.num /\ batch_size \in 0 .. limit - 1

\* php_mongo_get_more(), with a connection.
GetMore(c) ==
  LET outcomes ==
        {Outcome(Failed(c), sent, "exception"), Outcome(Receive(c, CursorNotFound), sent, "none")}
        \cup {Outcome(Failed(HeaderOnly(c, r)), sent, "exception") : r \in GetMoreReplies(c)}
        \cup {Outcome(Receive(c, r), sent + Len(r.docs), "none") : r \in GetMoreReplies(c)}
  IN  {[o EXCEPT !.hard = hard \/ NextRequestLimit(c) < 0,
                 !.in_step = in_step /\ InStep(c)] : o \in outcomes}

\* php_mongo_handle_error(): a "not master" error also fails the cursor.
HandleError(o) ==
  LET thrown == [o EXCEPT !.result = "exception", !.cursor.current = None] IN
  IF Thrown(o) THEN {o}
  ELSE IF o.cursor.current = Error THEN {thrown, [thrown EXCEPT !.cursor = Failed(@)]}
  ELSE {IF o.cursor.flag THEN [o EXCEPT !.result = "exception"] ELSE o}

Started(o) == IF Thrown(o) THEN o ELSE [o EXCEPT !.cursor.started_iterating = TRUE]

\* Loads the element and returns it, or NULL.
Loaded(o) ==
  LET c == Load(o.cursor) IN
  IF Thrown(o) THEN o
  ELSE [o EXCEPT !.cursor = c, !.result = IF c.current = None THEN "null" ELSE "document"]

-----------------------------------------------------------------------------
(* The methods.  delivered and phase keep what the user saw of it.          *)

\* The state after a call with outcome o; `before` is what had been delivered.
Return(o, before, stood) ==
  /\ cursor' = o.cursor /\ sent' = o.sent /\ result' = o.result
  /\ hard' = o.hard /\ in_step' = o.in_step
  /\ delivered' = IF o.result = "document" /\ o.cursor.current \in Document
                  THEN Append(before, o.cursor.current) ELSE before
  /\ phase' = IF Thrown(o) \/ o.cursor.current = Error \/ stood = "broken" THEN "broken"
              ELSE IF o.result = "document" THEN "open"
              ELSE IF o.result \in {"null", "false"} THEN "ended" ELSE stood

\* Bound: next() moves the position on each time it is called at the end.
LastPosition == MaxDocuments + 1

\* Bound: only so many queries are run.
QueryRuns == queries < MaxQueries /\ queries' = queries + 1

\* MongoCursor::next() before the first document: nobody looks for an error.
NextRunsQuery ==
  /\ ~cursor.dead /\ ~cursor.started_iterating
  /\ QueryRuns
  /\ \E o \in RunQuery : Return(Loaded(Started(o)), <<>>, "open")
  /\ UNCHANGED settings

\* ... and afterwards: php_mongocursor_advance().
NextAdvances ==
  /\ ~cursor.dead /\ cursor.started_iterating
  /\ cursor.at <= LastPosition
  /\ LET c == Advance(cursor)
         at_end == c.at = c.num /\ c.open
         limit_reached == limit # 0 /\ c.at >= limit
         outcomes ==
           IF ~at_end THEN HandleError(Loaded(Outcome(c, sent, "none")))
           ELSE IF limit_reached THEN {Outcome([c EXCEPT !.open = FALSE], sent, "null")}
           ELSE UNION {HandleError(Loaded(o)) : o \in GetMore(c)}
     IN  \E o \in outcomes : Return(o, delivered, phase)
  /\ UNCHANGED <<settings, queries>>

\* ... and on a cursor whose connection was destroyed.
NextOnDeadCursor ==
  /\ cursor.dead
  /\ Return(Outcome(cursor, sent, "exception"), delivered, phase)
  /\ UNCHANGED <<settings, queries>>

NextDocument == NextRunsQuery \/ NextAdvances \/ NextOnDeadCursor

\* MongoCursor::hasNext() after a query has been run.
HasNextFrom(o) ==
  LET c == o.cursor
      answer(p, yes) == [p EXCEPT !.result = IF yes THEN "true" ELSE "false"]
  IN
  IF Thrown(o) THEN {o}
  ELSE IF ~c.connected THEN {[o EXCEPT !.result = "exception"]}
  ELSE IF c.dont_advance /\ c.at = c.num - 1 THEN {answer(o, TRUE)}
  ELSE IF (limit > 0 /\ c.at >= limit - 1) \/ c.num = 0
  THEN {answer([o EXCEPT !.cursor.open = FALSE], FALSE)}
  ELSE IF c.at < c.num - 1 \/ ~c.open THEN {answer(o, c.at < c.num - 1)}
  ELSE {IF Thrown(p) THEN p
        ELSE answer(p, p.cursor.start # p.cursor.num /\ p.cursor.at < p.cursor.num - 1) :
          p \in UNION {HandleError(q) : q \in GetMore(c)}}

HasNextRunsQuery ==
  /\ ~cursor.started_iterating
  /\ QueryRuns
  /\ \E o \in RunQuery :
       \E p \in HasNextFrom(IF Thrown(o) THEN o ELSE [Started(o) EXCEPT !.cursor.dont_advance = TRUE]) :
         Return(p, <<>>, "open")
  /\ UNCHANGED settings

HasNextLooksAhead ==
  /\ cursor.started_iterating
  /\ \E o \in HasNextFrom(Outcome(cursor, sent, "none")) : Return(o, delivered, phase)
  /\ UNCHANGED <<settings, queries>>

HasNext == HasNextRunsQuery \/ HasNextLooksAhead

\* MongoCursor::rewind(), and the current() that follows it in foreach.
Rewind ==
  /\ QueryRuns
  /\ \E o \in RunQuery :
       \E p \in HandleError(Loaded(Started(o))) : Return(p, <<>>, "open")
  /\ UNCHANGED settings

\* MongoCursor::doQuery(): iteration has not started, so next() queries again.
DoQuery ==
  /\ QueryRuns
  /\ \E o \in RunQuery : Return(o, <<>>, "new")
  /\ UNCHANGED settings

\* MongoCursor::reset()
ResetCursor ==
  /\ Return(Outcome(Reset(cursor), sent, "none"), <<>>, "new")
  /\ UNCHANGED <<settings, queries>>

\* MongoCursor::limit()
SetLimit(l) ==
  /\ ~cursor.started_iterating
  /\ limit' = l
  /\ UNCHANGED <<cursor, batch_size, tailable, total, sent, result, hard, in_step,
                 delivered, phase, queries>>

\* MongoCursor::batchSize(), which may be called at any time.
SetBatchSize(b) ==
  /\ batch_size' = b
  /\ UNCHANGED <<cursor, limit, tailable, total, sent, result, hard, in_step,
                 delivered, phase, queries>>

-----------------------------------------------------------------------------
(* The environment.                                                        *)

\* A call on another cursor destroys the connection (CursorConnections).
ConnectionDestroyed ==
  /\ cursor.connected
  /\ cursor' = Failed(cursor)
  /\ UNCHANGED <<settings, sent, result, hard, in_step, delivered, phase, queries>>

\* Documents are added to a capped collection that a tailable cursor follows.
Insert ==
  /\ tailable /\ total < MaxDocuments
  /\ total' = total + 1
  /\ UNCHANGED <<cursor, limit, batch_size, tailable, sent, result, hard, in_step,
                 delivered, phase, queries>>

Next ==
  \/ NextDocument
  \/ HasNext
  \/ Rewind
  \/ DoQuery
  \/ ResetCursor
  \/ \E l \in Limits : SetLimit(l)
  \/ \E b \in BatchSizes : SetBatchSize(b)
  \/ ConnectionDestroyed
  \/ Insert

Spec == Init /\ [][Next]_vars

\* The program keeps asking for the next document.
FairSpec == Spec /\ WF_vars(NextAdvances \/ NextOnDeadCursor)

-----------------------------------------------------------------------------
(* Properties.                                                             *)

\* The document that next() would load is in the reply that is buffered: `at`
\* and `num` count over all replies, the buffer holds one, and load trusts the
\* counters.  After a reply that was not read to its end they are wrong, and
\* `dead` is all that keeps next() away from them.
WithinTheReply ==
  LET upcoming == IF cursor.dont_advance THEN cursor.at ELSE cursor.at + 1
  IN  cursor.started_iterating /\ ~cursor.dead /\ upcoming < cursor.num =>
        cursor.buf # <<>>

\* When hasNext() returned true, the next() that follows returns a document or
\* throws, but never NULL, whatever happens between the two.
HasNextKeepsItsPromise ==
  [][result = "true" /\ NextDocument => result' \in {"document", "exception"}]_vars

\* The user never gets more documents than limit() asked for, as long as every
\* get_more is sent in step (InStep).
LimitRespectedInStep ==
  limit > 0 /\ in_step => Len(delivered) <= limit

\* What must have been handed over before the end is reported: everything, or
\* what limit() asked for.  Nothing is promised of a query that tells the server
\* to close after one reply, or of a tailable cursor.
Promised ==
  IF hard \/ tailable THEN 0
  ELSE IF limit > 0 THEN Least(limit, total) ELSE total

Stream == INSTANCE ResultStream WITH
  size <- total, gapless <- ~tailable, promised <- Promised

\* The cursor implements the stream of documents its user thinks of: batches,
\* look-ahead and restarts neither repeat, skip nor reorder a document, and the
\* end is not reported before all that was promised was handed over.
DeliversTheStream == Stream!Spec

\* A program that goes on calling next() gets all that was promised, unless an
\* exception breaks the iteration off or it starts anew.
IterationCompletes ==
  cursor.started_iterating /\ ~tailable
    ~> \/ phase = "ended" /\ Len(delivered) >= Promised
       \/ phase = "broken"
       \/ ~cursor.started_iterating

=============================================================================
