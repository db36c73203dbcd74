----------------------------- MODULE WriteBatch -----------------------------
(***************************************************************************)
(* One MongoWriteBatch: operations are added, split into batches that a     *)
(* server accepts, and executed batch by batch; batch/write.c, api/batch.c  *)
(* and what they use of api/write.c.                                       *)
(*                                                                         *)
(* After each batch the user may be called back (the log_write_batch        *)
(* context option), so execute() takes two steps for each batch and a call  *)
(* of the user's may come between them.  Operations are numbered in the     *)
(* order in which they are offered to add().                               *)
(***************************************************************************)
EXTENDS Integers, Sequences, FiniteSets

CONSTANTS
  MaxItems,    \* connection->max_write_batch_size
  MaxWire,     \* MAX_BSON_WIRE_OBJECT_SIZE(connection->max_bson_size)
  Trailer,     \* what php_mongo_api_write_end() appends: write options, ends
  Sizes,       \* sizes of operations, as written to the buffer
  MaxMatches,  \* bound on the documents one update or delete matches
  MaxAdds      \* bound on the number of calls of add()

ASSUME ParameterAssumption ==
  /\ MaxItems \in Nat \ {0} /\ MaxWire \in Nat /\ Trailer \in Nat
  /\ Sizes \subseteq Nat \ {0}
  /\ MaxMatches \in Nat /\ MaxAdds \in Nat

VARIABLES
  batch_type,   \* "insert", "update" or "delete"
  ordered,      \* write_options.ordered
  acknowledged, \* write_options.write_concern: w is not 0
  chain,        \* the batches, from batch->first along batch->next
  batch,        \* intern->batch: a place in chain, Null, or Freed
  total_items,  \* intern->total_items
  pc,           \* "idle", "send", "callback" (in execute()), or "undefined"
  exec,         \* the local variables of execute(); they outlive it here
  errors,       \* return_value["writeErrors"]
  upserts,      \* return_value["upserted"]
  result,       \* what the last call returned
  adds,         \* history: calls of add()
  pending,      \* history: operations accepted and not executed
  inflight,     \* history: operations the last execute() was to send
  written,      \* history: operations the server has performed
  denied,       \* history: operations that have failed on the server
  nested        \* history: add() was called during execute()

options == <<batch_type, ordered, acknowledged>>
vars == <<options, chain, batch, total_items, pc, exec, errors, upserts, result,
          adds, pending, inflight, written, denied, nested>>

-----------------------------------------------------------------------------
Null == 0
Freed == -1

Operation == 1..MaxAdds

Batch ==
  [items : Seq(Operation), item_count : Nat,
   size : Nat,          \* buffer.pos - buffer.start
   broken : BOOLEAN]    \* an operation that was not serialised to its end

NewBatch == [items |-> <<>>, item_count |-> 0, size |-> 0, broken |-> FALSE]

Ids(b) == {b.items[i] : i \in DOMAIN b.items}

\* What becomes of a batch, and what the reply says of it: "failed" are those in
\* its "writeErrors".  Places are those in the batch, from 1.
Reply ==
  [status : {0, 1, 2}, raised : BOOLEAN, n : Nat, concern : BOOLEAN,
   applied : SUBSET Nat, denied : SUBSET Nat,
   failed : SUBSET Nat, upserted : SUBSET Nat]

NoReply == [status |-> 0, raised |-> FALSE, n |-> 0, concern |-> FALSE,
            applied |-> {}, denied |-> {}, failed |-> {}, upserted |-> {}]

Exec == [at : Nat, reply : Reply, n : Nat, status : {0, 1, 2},
         raised : BOOLEAN, concern : BOOLEAN]

Entering == [at |-> 0, reply |-> NoReply, n |-> 0, status |-> 0,
             raised |-> FALSE, concern |-> FALSE]

Report == [id : Operation, index : Nat]

TypeOK ==
  /\ batch_type \in {"insert", "update", "delete"}
  /\ ordered \in BOOLEAN /\ acknowledged \in BOOLEAN
  /\ chain \in Seq(Batch)
  /\ batch \in {Null, Freed} \cup DOMAIN chain
  /\ total_items \in Nat
  /\ pc \in {"idle", "send", "callback", "undefined"}
  /\ pc \in {"send", "callback"} => batch \in DOMAIN chain
  /\ exec \in Exec
  /\ errors \subseteq Report /\ upserts \subseteq Report
  /\ result \in {"none", "true", "false", "exception", "failed_write", "array"}
  /\ adds \in 0..MaxAdds
  /\ pending \subseteq Operation /\ inflight \subseteq Operation
  /\ written \subseteq Operation /\ denied \subseteq Operation
  /\ nested \in BOOLEAN

Init ==
  /\ batch_type \in {"insert", "update", "delete"}
  /\ ordered \in BOOLEAN /\ acknowledged \in BOOLEAN
  /\ chain = <<>> /\ batch = Null /\ total_items = 0
  /\ pc = "idle" /\ exec = Entering
  /\ errors = {} /\ upserts = {} /\ result = "none"
  /\ adds = 0 /\ pending = {} /\ inflight = {} /\ written = {} /\ denied = {}
  /\ nested = FALSE

-----------------------------------------------------------------------------
(* add().  A list is a record of the two variables that hold it.            *)

\* Mutant: the list starts anew.
MutantMakeBatch(l) == [chain |-> <<NewBatch>>, batch |-> 1]

\* php_mongo_api_batch_make(): linked behind the current batch, whatever
\* followed it, and current from now on.
MakeBatch(l) ==
  [chain |-> Append(SubSeq(l.chain, 1, l.batch), NewBatch), batch |-> l.batch + 1]

Replace(l, b) == [l EXCEPT !.chain[l.batch] = b]

\* php_mongo_api_write_add()
Fits(b, size) == b.size + size <= MaxWire

Write(b, id, size) ==
  [items |-> Append(b.items, id), item_count |-> b.item_count + 1,
   size |-> b.size + size, broken |-> b.broken]

\* The operation fails to be serialised: it stays half written, and counted.
WriteBroken(b, size) ==
  [items |-> b.items, item_count |-> b.item_count + 1,
   size |-> b.size + size, broken |-> TRUE]

\* An operation counted and not held.
Miscounted == [items |-> <<>>, item_count |-> 1, size |-> 0, broken |-> FALSE]

\* Mutant: one operation more than the server accepts.
MutantNeedsBatch == total_items = 0 \/ chain[batch].item_count > MaxItems

NeedsBatch == total_items = 0 \/ chain[batch].item_count >= MaxItems

\* The list add() writes to.
Opened ==
  LET l == [chain |-> chain, batch |-> batch] IN IF NeedsBatch THEN MakeBatch(l) ELSE l

\* intern->batch cannot be followed: it was freed, or is NULL although
\* operations are counted.
Dangling == batch = Freed \/ (batch = Null /\ total_items > 0)

\* The user's program runs: between calls, or called back.
UserRuns == pc = "idle" \/ (pc = "callback" /\ ~exec.raised)

\* Bound: add() is called so often at most.
AddRuns ==
  /\ UserRuns /\ ~Dangling
  /\ adds < MaxAdds /\ adds' = adds + 1
  /\ nested' = (nested \/ pc = "callback")
  /\ UNCHANGED <<options, pc, exec, errors, upserts, inflight, written, denied>>

Accept(l, id) ==
  /\ chain' = l.chain /\ batch' = l.batch
  /\ total_items' = total_items + 1 /\ pending' = pending \cup {id}
  /\ result' = "true"

Refuse(l, r) ==
  /\ chain' = l.chain /\ batch' = l.batch
  /\ result' = r
  /\ UNCHANGED <<total_items, pending>>

\* "q", "u" or "limit" is not there: the batch has been opened by then.
AddIncomplete ==
  /\ AddRuns
  /\ batch_type # "insert"
  /\ Refuse(Opened, "exception")

AddUnserialisable(size) ==
  /\ AddRuns
  /\ Refuse(Replace(Opened, WriteBroken(Opened.chain[Opened.batch], size)), "exception")

AddFitting(size) ==
  LET b == Opened.chain[Opened.batch] IN
  /\ AddRuns
  /\ Fits(b, size)
  /\ Accept(Replace(Opened, Write(b, adds + 1, size)), adds + 1)

\* "It is in a limbo": rolled back, and written to a new batch.
AddOverflowing(size) ==
  LET l == MakeBatch(Opened) IN
  /\ AddRuns
  /\ ~Fits(Opened.chain[Opened.batch], size) /\ Fits(NewBatch, size)
  /\ Accept(Replace(l, Write(NewBatch, adds + 1, size)), adds + 1)

\* The two documents of an update may be too large together.  The new batch
\* counts an operation it does not hold.
AddTooLarge(size) ==
  LET l == MakeBatch(Opened) IN
  /\ AddRuns
  /\ batch_type = "update"
  /\ ~Fits(NewBatch, size)
  /\ Refuse(Replace(l, Miscounted), "false")

Add ==
  \/ AddIncomplete
  \/ \E size \in Sizes : \/ AddUnserialisable(size)
                         \/ AddFitting(size)
                         \/ AddOverflowing(size)
                         \/ AddTooLarge(size)

-----------------------------------------------------------------------------
(* The server: what comes of sending a batch.                              *)

\* Ordered operations stop at the first that fails, the others do not.
Performed(k) ==
  {[denied |-> d,
    applied |-> IF ordered THEN {i \in 1..k : \A j \in d : i < j} ELSE (1..k) \ d] :
      d \in {s \in SUBSET (1..k) : ordered => Cardinality(s) <= 1}}

Nothing == [denied |-> {}, applied |-> {}]

\* The number "n" of a reply: documents inserted, matched and upserted, removed.
Counts(applied, upserted) ==
  LET all == Cardinality(applied)
      new == Cardinality(upserted)
  IN  IF batch_type = "insert" THEN {all} ELSE new .. new + MaxMatches * (all - new)

Upserted(p) == IF batch_type = "update" THEN SUBSET p.applied ELSE {{}}

Answer(p, u, n, w) ==
  [status |-> 0, raised |-> FALSE, n |-> n, concern |-> w,
   applied |-> p.applied, denied |-> p.denied, failed |-> p.denied, upserted |-> u]

\* With w = 0 the reply is {ok: 1}: an "n" that is not there counts 0, and there
\* are no "writeErrors" to be seen.
BareAnswer(p) ==
  [status |-> 0, raised |-> FALSE, n |-> 0, concern |-> FALSE,
   applied |-> p.applied, denied |-> p.denied, failed |-> {}, upserted |-> {}]

Answers(b) ==
  IF acknowledged
  THEN UNION {UNION {{Answer(p, u, n, w) : n \in Counts(p.applied, u), w \in BOOLEAN} :
                u \in Upserted(p)} : p \in Performed(Len(b.items))}
  ELSE {BareAnswer(p) : p \in Performed(Len(b.items))}

Failure(status, raised, p) ==
  [status |-> status, raised |-> raised, n |-> 0, concern |-> FALSE,
   applied |-> p.applied, denied |-> p.denied, failed |-> {}, upserted |-> {}]

\* No server performs a batch that is empty or not well formed.
Sound(b) == b.items # <<>> /\ ~b.broken

\* php_mongo_api_batch_execute()
Exchanges(b) ==
  LET unsent == Failure(2, FALSE, Nothing)                     \* nothing is raised
      refused == Failure(2, TRUE, Nothing)
      unanswered == {Failure(2, TRUE, p) : p \in Performed(Len(b.items))}
  IN  IF b.size + Trailer > MaxWire
      THEN {Failure(1, TRUE, Nothing)}
      ELSE {unsent, refused} \cup (IF Sound(b) THEN unanswered \cup Answers(b) ELSE {})

-----------------------------------------------------------------------------
(* execute().                                                              *)

\* The write options may be others than those of the last execution.
Execute(o, a) ==
  /\ pc = "idle" /\ total_items > 0 /\ ~Dangling
  /\ pc' = "send" /\ batch' = 1 /\ total_items' = 0
  /\ ordered' = o /\ acknowledged' = a
  /\ exec' = Entering /\ errors' = {} /\ upserts' = {} /\ result' = "none"
  /\ inflight' = pending /\ pending' = {}
  /\ UNCHANGED <<batch_type, chain, adds, written, denied, nested>>

\* "No write ops were included in the batch"
ExecuteEmpty ==
  /\ UserRuns /\ total_items = 0
  /\ result' = "exception"
  /\ UNCHANGED <<options, chain, batch, total_items, pc, exec, errors, upserts, adds,
                 pending, inflight, written, denied, nested>>

\* add() and execute() throw when no connection for writes can be had.
NoServer ==
  /\ pc = "idle"
  /\ result' = "exception"
  /\ UNCHANGED <<options, chain, batch, total_items, pc, exec, errors, upserts, adds,
                 pending, inflight, written, denied, nested>>

\* The first half of the loop's body, up to the callback.
SendBatch ==
  /\ pc = "send" /\ pc' = "callback"
  /\ \E r \in Exchanges(chain[batch]) :
       /\ exec' = [at |-> batch, reply |-> r, n |-> exec.n, status |-> r.status,
                   raised |-> r.raised, concern |-> exec.concern]
       /\ written' = written \cup {chain[batch].items[i] : i \in r.applied}
       /\ denied' = denied \cup {chain[batch].items[i] : i \in r.denied}
  /\ UNCHANGED <<options, chain, batch, total_items, errors, upserts,
                 result, adds, pending, inflight, nested>>

\* When nothing could be written an error message is freed that the stream never
\* set, and the answer of a command that failed is destroyed twice: the process
\* may end.
ExchangeEndsProcess ==
  /\ pc = "send" /\ pc' = "undefined"
  /\ chain[batch].size + Trailer <= MaxWire
  /\ UNCHANGED <<options, chain, batch, total_items, exec, errors, upserts, result,
                 adds, pending, inflight, written, denied, nested>>

\* Mutant: the indexes are those in the batch.
MutantReports(places) ==
  {[id |-> chain[exec.at].items[i], index |-> i - 1] : i \in places}

\* The entries of "writeErrors" and "upserted", their indexes shifted by n.
Reports(places) ==
  {[id |-> chain[exec.at].items[i], index |-> i - 1 + exec.n] : i \in places}

\* Mutant: an ordered execution goes on after a failed operation.
MutantStatusAfter(r) == r.status

StatusAfter(r) == IF r.failed # {} /\ ordered THEN 1 ELSE r.status

Merged(r) ==
  [at |-> exec.at, reply |-> r, n |-> exec.n + r.n, status |-> StatusAfter(r),
   raised |-> exec.raised, concern |-> exec.concern \/ r.concern]

\* Mutant: the last batch of the list is left out.
MutantNextBatch == IF batch + 1 < Len(chain) THEN batch + 1 ELSE Null

\* Mutant: the list is not advanced.
MutantSameBatch == batch

NextBatch == IF batch < Len(chain) THEN batch + 1 ELSE Null

\* Mutant: intern->batch is not looked after.
MutantFinish(left) ==
  /\ pc' = "idle" /\ chain' = <<>> /\ batch' = Freed
  /\ result' = IF errors' # {} \/ exec'.concern THEN "failed_write"
               ELSE IF exec.raised THEN "exception" ELSE "array"

\* The end of execute(): the list is freed, but intern->batch keeps its value.
Finish(left) ==
  /\ pc' = "idle" /\ chain' = <<>>
  /\ batch' = IF left = Null THEN Null ELSE Freed
  /\ result' = IF errors' # {} \/ exec'.concern THEN "failed_write"
               ELSE IF exec.raised THEN "exception" ELSE "array"

\* The second half of the body: php_mongo_api_batch_execute() had failed ...
BreakOff ==
  /\ pc = "callback" /\ exec.status # 0
  /\ UNCHANGED <<options, total_items, exec, errors, upserts, adds, pending, inflight,
                 written, denied, nested>>
  /\ Finish(batch)

\* ... or the reply is merged into what is returned.
MergeReply ==
  LET r == exec.reply IN
  /\ pc = "callback" /\ exec.status = 0
  /\ exec' = Merged(r)
  /\ errors' = errors \cup Reports(r.failed)
  /\ upserts' = upserts \cup Reports(r.upserted)
  /\ IF NextBatch # Null /\ StatusAfter(r) = 0
     THEN pc' = "send" /\ batch' = NextBatch /\ UNCHANGED <<chain, result>>
     ELSE Finish(NextBatch)
  /\ UNCHANGED <<options, total_items, adds, pending, inflight, written, denied, nested>>

\* A pointer that cannot be followed is followed, or execute() is called back
\* into and frees the list under itself.  What the program does from here on
\* is not determined by its source.
UseDangling ==
  /\ UserRuns
  /\ Dangling \/ (pc = "callback" /\ total_items > 0)
  /\ pc' = "undefined"
  /\ UNCHANGED <<options, chain, batch, total_items, exec, errors, upserts, result,
                 adds, pending, inflight, written, denied, nested>>

Next ==
  \/ Add
  \/ \E o, a \in BOOLEAN : Execute(o, a)
  \/ ExecuteEmpty
  \/ NoServer
  \/ SendBatch
  \/ ExchangeEndsProcess
  \/ BreakOff
  \/ MergeReply
  \/ UseDangling

Spec == Init /\ [][Next]_vars

-----------------------------------------------------------------------------
(* Properties.                                                             *)

Before(i, p, j, q) == i < j \/ (i = j /\ p < q)

\* The list holds exactly the operations that add() accepted, in the order in
\* which they were accepted, however often a batch was full, overflowed and was
\* rolled back, or an operation was refused half way.
QueueSound ==
  pc = "idle" /\ ~nested =>
    /\ total_items = Cardinality(pending)
    /\ UNION {Ids(chain[i]) : i \in DOMAIN chain} = pending
    /\ \A i, j \in DOMAIN chain :
         \A p \in DOMAIN chain[i].items, q \in DOMAIN chain[j].items :
           Before(i, p, j, q) => chain[i].items[p] < chain[j].items[q]

\* A batch that was executed without a failure can be used again: only an
\* execution that ended early leaves a pointer into the list it has freed.
ReusableUnlessFailed == batch = Freed => exec.status # 0

\* No batch holds more operations than the server accepts or, unless one was
\* left half written, more bytes: whichever limit is reached first, with the
\* count corrected after an overflow.
WithinServerLimits ==
  \A i \in DOMAIN chain :
    /\ Len(chain[i].items) <= MaxItems
    /\ ~chain[i].broken => chain[i].size <= MaxWire

\* An operation is sent at most once, and after those accepted before it, over
\* all batches and all calls of execute(): a batch that failed is not repeated.
SentOnceInOrder ==
  [][SendBatch => \A id \in Ids(chain[batch]) : \A w \in written : w < id]_vars

\* With ordered = TRUE and an acknowledged write concern nothing is performed
\* after an operation that failed, in its batch or a later one.  With w = 0 the
\* failure is not seen, and the next batch is sent.
OrderedStopsAtError ==
  ordered /\ acknowledged =>
    \A d \in denied \cap inflight : \A w \in written \cap inflight : w < d

\* When an acknowledged execute() was broken off by nothing, each operation it was
\* to send has been performed or is among the errors it reports, and not both.
\* With w = 0 an operation that fails is neither.
AccountedFor ==
  LET reported == {e.id : e \in errors} IN
  pc = "idle" /\ exec.status = 0 /\ ~nested /\ acknowledged =>
    /\ inflight = (written \cap inflight) \cup reported
    /\ written \cap reported = {}

\* The place of an operation among those of the call.
Place(id) == Cardinality({p \in inflight : p < id})

\* What an execution of inserts reports.  With an acknowledged write concern
\* nInserted is the number of documents this call inserted, in all batches, also
\* when it ended early, unless the reply to the last batch was never read; and in
\* an ordered execution the index of an error is that of the document, counted
\* over all batches.
InsertsReportedExactly ==
  batch_type = "insert" /\ acknowledged =>
    /\ pc = "idle" /\ ~exec.raised => exec.n = Cardinality(written \cap inflight)
    /\ ordered => \A e \in errors : e.index = Place(e.id)

=============================================================================
