-------------------------- MODULE CollectionWrites --------------------------
(***************************************************************************)
(* insert(), update(), remove(), save() and batchInsert() of one             *)
(* MongoCollection, over one connection at a time; collection.c,             *)
(* api/write.c and the reading of replies in cursor_shared.c.                *)
(*                                                                         *)
(* A write goes out as a write command, as an opcode followed by a           *)
(* getLastError query, or as an opcode alone, depending on the server and    *)
(* on the write concern, and each of the three reads (or does not read)      *)
(* what comes back in code of its own.  A server process takes messages off  *)
(* the wire and may answer after the client gave up.                         *)
(***************************************************************************)
EXTENDS Integers, Sequences

CONSTANTS
  Unset,       \* an option, or a client default, that was not given
  MaxW,        \* the largest number a "w" may be
  Strings,     \* a "w" that is a string: "majority", or a tag
  Defaults,    \* the client's defaults: records [w, j, fsync]
  Options,     \* options of a call: records [w, safe, safe_first, j, fsync],
               \* where safe_first says which comes first in the array
  Apis,        \* what servers understand: records [cmds, opcodes]
  Settable,    \* arguments of setWriteConcern()
  FirstIds,    \* request_id as earlier requests of the process left it
  IdModulus,   \* 2^32 in the code: request_id is an int
  MaxCalls     \* bound on the calls

\* Values of "w" and "safe" (1 is TRUE): servers to wait for, or a string; and
\* of the rest.
Wait == {Unset} \cup 0..MaxW \cup Strings
Switch == {Unset, 0, 1}

ASSUME ParameterAssumption ==
  /\ Unset = -1 /\ MaxW \in Nat \ {0} /\ \A v \in Strings : v \notin Int
  /\ Defaults \subseteq [w : Wait, j : Switch, fsync : Switch]
  /\ Options \subseteq
       [w : Wait, safe : Wait, safe_first : BOOLEAN, j : Switch, fsync : Switch]
  /\ Settable \subseteq Wait \ {Unset}
  /\ IdModulus \in Nat /\ IdModulus > 2 * MaxCalls + 1
  /\ FirstIds \subseteq 0..(IdModulus - 1) /\ MaxCalls \in Nat \ {0}

VARIABLES
  api,         \* what the server understands
  default,     \* link->servers->options.default_w(string), _journal, _fsync
  w,           \* the property "w" of the collection
  request_id,  \* MonGlo(request_id)
  con,         \* the connection: registered, torn, wire, replies
  call,        \* the call in progress, or the last one
  pc,          \* "idle", "send" or "receive"
  result,      \* what the last call returned
  calls,       \* history: number of calls
  fate         \* history: what became of the last call at the server

vars == <<api, default, w, request_id, con, call, pc, result, calls, fate>>

-----------------------------------------------------------------------------
Ops == {"insert", "update", "remove", "batchInsert"}

Concern == [w : Wait, j : Switch, fsync : Switch]

NoConcern == [w |-> Unset, j |-> Unset, fsync |-> Unset]

NewConnection == [registered |-> TRUE, torn |-> FALSE, wire |-> <<>>, replies |-> <<>>]

NoOptions == [w |-> Unset, safe |-> Unset, safe_first |-> FALSE, j |-> Unset, fsync |-> Unset]

NoCall == [op |-> "insert", options |-> NoOptions,
           acknowledged |-> FALSE, protocol |-> "opcode", asked |-> NoConcern, id |-> 0]

IsString(v) == v \in Strings

\* A string is neither below a number nor above it.
IsBelow(v, n) == ~IsString(v) /\ v < n

NextId(id) == (id + 1) % IdModulus

-----------------------------------------------------------------------------
(* Which concern a call asks for.                                           *)

\* php_mongo_db_construct() and php_mongo_collection_construct()
Inherited(d) == IF d.w = Unset THEN 1 ELSE d.w

\* "w" is looked at before "safe", whatever their order.
Chosen(o) == IF o.w # Unset THEN o.w ELSE o.safe

Flag(option, d) == IF option # Unset THEN option = 1 ELSE d = 1

\* is_gle_op()
IsGleOp(o) ==
  \/ ~IsBelow(IF Chosen(o) # Unset THEN Chosen(o) ELSE w, 1)
  \/ Flag(o.fsync, default.fsync)
  \/ Flag(o.j, default.j)

\* append_getlasterror(): a number and, if there is one, a string, which wins.
GleDefaults ==
  LET n == IF default.w = Unset \/ IsString(default.w) THEN 0 ELSE default.w
      s == IF IsString(default.w) THEN default.w ELSE Unset
  IN CASE IsString(w)           -> [n |-> n, str |-> w]
       [] ~IsString(w) /\ w # 1 -> [n |-> w, str |-> Unset]
       [] OTHER                 -> [n |-> n, str |-> s]

\* A number takes the place of the number, not of the string.
GleOption(v, o) ==
  CASE Chosen(o) = Unset           -> v
    [] IsString(Chosen(o))         -> [v EXCEPT !.str = Chosen(o)]
    [] o.w = Unset /\ o.safe = 1   -> IF v.n > 1 \/ v.str # Unset THEN v ELSE [v EXCEPT !.n = 1]
    [] OTHER                       -> [v EXCEPT !.n = Chosen(o)]

\* A getLastError that names no w waits for one server.
GleConcern(o) ==
  LET v == GleOption(GleDefaults, o)
  IN [w     |-> IF v.str # Unset THEN v.str ELSE IF v.n > 1 THEN v.n ELSE 1,
      j     |-> IF Flag(o.j, default.j) THEN 1 ELSE Unset,
      fsync |-> IF Flag(o.fsync, default.fsync) THEN 1 ELSE Unset]

\* mongo_apply_implicit_write_options()
ImplicitW == IF w = 1 /\ default.w # Unset THEN default.w ELSE w

\* What "w" and "safe" make of the concern v.
WriteW(v, o) == IF o.w # Unset THEN o.w ELSE v

\* Mutant: "safe" replaces the concern, whatever it was.
MutantWriteSafe(v, o) == IF o.safe # Unset THEN o.safe ELSE v

WriteSafe(v, o) ==
  IF o.safe = Unset \/ (~IsString(o.safe) /\ ~IsString(v) /\ v > o.safe) THEN v ELSE o.safe

\* php_mongo_api_write_options_from_ht(): options in their order.  Keys that
\* differ in case only, which it takes for the same, are left out.
CommandConcern(o) ==
  [w     |-> IF o.safe_first THEN WriteW(WriteSafe(ImplicitW, o), o)
             ELSE WriteSafe(WriteW(ImplicitW, o), o),
   j     |-> IF o.j # Unset THEN o.j ELSE default.j,
   fsync |-> IF o.fsync # Unset THEN o.fsync ELSE default.fsync]

\* How a call is sent; batchInsert() knows opcodes only.
Protocol(op, o) ==
  CASE op # "batchInsert" /\ api.cmds /\ (IsGleOp(o) \/ ~api.opcodes) -> "command"
    [] op # "batchInsert" /\ ~api.cmds /\ ~api.opcodes                -> "none"
    [] OTHER -> IF IsGleOp(o) THEN "gle" ELSE "opcode"

Asked(op, o) ==
  CASE Protocol(op, o) = "command" -> CommandConcern(o)
    [] Protocol(op, o) = "gle"     -> GleConcern(o)
    [] OTHER                       -> NoConcern

-----------------------------------------------------------------------------
TypeOK ==
  /\ api \in Apis /\ default \in Defaults
  /\ w \in Wait \ {Unset}
  /\ request_id \in 0..(IdModulus - 1)
  /\ con.registered \in BOOLEAN /\ con.torn \in BOOLEAN
  /\ Len(con.wire) + Len(con.replies) <= calls
  /\ call.op \in Ops /\ call.options \in Options \cup {NoOptions}
  /\ call.acknowledged \in BOOLEAN /\ call.asked \in Concern
  /\ call.protocol \in {"command", "gle", "opcode", "none"}
  /\ call.id \in 0..(IdModulus - 1)
  /\ pc \in {"idle", "send", "receive"}
  /\ result \in {"none", "array", "error", "true", "false", "null", "exception"}
  /\ calls \in 0..MaxCalls
  /\ fate \in [applied : BOOLEAN, confirmed : BOOLEAN]

Init ==
  /\ api \in Apis /\ default \in Defaults
  /\ w = Inherited(default)
  /\ request_id \in FirstIds
  /\ con = NewConnection /\ call = NoCall /\ pc = "idle" /\ result = "none"
  /\ calls = 0 /\ fate = [applied |-> FALSE, confirmed |-> FALSE]

\* mongo_manager_connection_deregister(): whatever was on its way is gone.
Deregister == [con EXCEPT !.registered = FALSE, !.wire = <<>>, !.replies = <<>>]

Finish(r) == /\ pc' = "idle" /\ result' = r

\* zend_clear_exception(), when the concern is a number below one
Cleared(r) == IF IsBelow(call.asked.w, 1) THEN "false" ELSE r

-----------------------------------------------------------------------------
(* The client.                                                              *)

SetWriteConcern(v) ==
  /\ pc = "idle" /\ w' = v
  /\ UNCHANGED <<api, default, request_id, con, call, pc, result, calls, fate>>

\* php_mongo_collection_get_server() finds or makes a connection; the message
\* is written to a buffer, a getLastError behind it under an id of its own.
Begin(op, o) ==
  /\ pc = "idle" /\ calls < MaxCalls
  /\ con' = IF con.registered THEN con ELSE NewConnection
  /\ calls' = calls + 1
  /\ fate' = [applied |-> FALSE, confirmed |-> FALSE]
  /\ LET p == Protocol(op, o)
         id == IF p = "gle" THEN NextId(request_id) ELSE request_id
     IN /\ call' = [op |-> op, options |-> o, acknowledged |-> IsGleOp(o),
                    protocol |-> p, asked |-> Asked(op, o), id |-> id]
        /\ request_id' = IF p = "none" THEN request_id ELSE NextId(id)
        /\ \/ p # "none" /\ pc' = "send" /\ result' = "none"
           \/ p = "none" /\ Finish("exception")
  /\ UNCHANGED <<api, default, w>>

Insert(o) == Begin("insert", o)
Update(o) == Begin("update", o)
RemoveDocuments(o) == Begin("remove", o)
BatchInsert(o) == Begin("batchInsert", o)

\* save() is an upsert of a document that has an _id, an insert() otherwise.
Save(o) == Update(o) \/ Insert(o)

\* The document or the query cannot be written, or no server was found.
BuildFails ==
  /\ pc = "send"
  /\ Finish(IF call.protocol = "command" /\ call.op = "insert" THEN Cleared("exception")
            ELSE "exception")
  /\ UNCHANGED <<api, default, w, request_id, con, call, calls, fate>>

\* mongo_collection_*_api() take the id 0 for a failure that was reported.
ZeroId ==
  /\ pc = "send" /\ call.protocol = "command" /\ call.id = 0
  /\ Finish(IF call.op = "insert" THEN Cleared("null") ELSE "null")
  /\ UNCHANGED <<api, default, w, request_id, con, call, calls, fate>>

Message == [id |-> call.id, call |-> calls, protocol |-> call.protocol, w |-> call.asked.w]

\* manager->send() returns the number of bytes written, or -1: all of them
\* ("all"), some ("torn"), zero ("nothing"), or -1 ("error").  What follows a
\* torn message is read as its rest.
Sent(outcome) ==
  IF con.torn THEN con
  ELSE CASE outcome = "all"  -> [con EXCEPT !.wire = Append(@, Message)]
         [] outcome = "torn" -> [con EXCEPT !.torn = TRUE]
         [] OTHER            -> con

\* do_gle_op() and send_message() look for -1 only.
SendOpcode(outcome) ==
  /\ pc = "send" /\ call.protocol \in {"gle", "opcode"}
  /\ \/ /\ outcome # "error" /\ con' = Sent(outcome)
        /\ \/ call.protocol = "gle" /\ pc' = "receive" /\ UNCHANGED result
           \/ call.protocol = "opcode" /\ Finish("true")
     \/ /\ outcome = "error"
        /\ \/ call.protocol = "gle" /\ con' = Deregister /\ Finish("exception")
           \/ call.protocol = "opcode" /\ con' = con /\ Finish("false")
  /\ UNCHANGED <<api, default, w, request_id, call, calls, fate>>

\* mongo_collection_*_api(): less than one byte is a failure nobody reports.
SendCommand(outcome) ==
  /\ pc = "send" /\ call.protocol = "command" /\ call.id # 0
  /\ con' = Sent(outcome)
  /\ \/ outcome \in {"all", "torn"} /\ pc' = "receive" /\ UNCHANGED result
     \/ /\ outcome \in {"nothing", "error"}
        /\ Finish(IF call.op = "insert" THEN Cleared("null") ELSE "null")
  /\ UNCHANGED <<api, default, w, request_id, call, calls, fate>>

\* A write command that got no answer.
Fail == Finish(Cleared("exception"))

\* Mutant: the connection is kept.
MutantNoAnswer ==
  /\ pc = "receive" /\ call.protocol = "command" /\ con' = con /\ Fail
  /\ UNCHANGED <<api, default, w, request_id, call, calls, fate>>

\* No answer within the time allowed, a closed or broken stream, a header or
\* a body that cannot be read, or a header that answers another request (which
\* NoReplyLeftBehind excludes): php_mongo_api_get_reply()
NoAnswer ==
  /\ pc = "receive" /\ call.protocol = "command" /\ con' = Deregister /\ Fail
  /\ UNCHANGED <<api, default, w, request_id, call, calls, fate>>

\* The same of php_mongo_get_reply(), which reads the answer to a getLastError.
NoGleAnswer ==
  /\ pc = "receive" /\ call.protocol = "gle" /\ con' = Deregister /\ Finish("exception")
  /\ UNCHANGED <<api, default, w, request_id, call, calls, fate>>

\* Mutant: only the command's own failure is looked for.
MutantGleResult(verdict) == IF verdict = "failed" THEN "exception" ELSE "array"

\* php_mongo_trigger_error_on_gle(): a reply {$err: ...} has neither "ok" nor
\* "err" and is handed out.
GleResult(verdict) ==
  CASE verdict = "ok"     -> "array"
    [] verdict = "assert" -> "error"
    [] OTHER              -> "exception"

\* php_mongo_api_raise_exception_on_command_failure(), ..._on_write_failure().
\* A reply that cannot be converted raises an exception too, and ends as
\* "failed" does, or, where exceptions are cleared, as "ok" does.
Raises(verdict) == verdict # "ok"

\* mongo_convert_write_api_return_to_legacy_retval()
Legacy == IF IsBelow(call.asked.w, 1) THEN "true" ELSE "array"

\* insert() clears the exception afterwards, update() and remove() do not.
CommandResult(verdict) ==
  CASE ~Raises(verdict) -> Legacy
    [] OTHER -> IF call.op = "insert" /\ IsBelow(call.asked.w, 1) THEN "true" ELSE "exception"

Answer ==
  /\ pc = "receive" /\ con.replies # <<>> /\ Head(con.replies).to = call.id
  /\ con' = [con EXCEPT !.replies = Tail(@)]
  /\ \E v \in {Head(con.replies).verdict} :
       Finish(IF call.protocol = "gle" THEN GleResult(v) ELSE CommandResult(v))
  /\ UNCHANGED <<api, default, w, request_id, call, calls, fate>>

-----------------------------------------------------------------------------
(* The server, outside src/: what drivers and their replies assume of it.    *)

\* One message is taken; the write is applied or not, and the answer says so
\* if the concern is at least one.  A mongos may answer a query {$err: ...}.
Serve(applied, confirmed) ==
  /\ con.wire # <<>>
  /\ \E m \in {Head(con.wire)} :
       /\ confirmed => applied
       /\ fate' = IF m.call = calls THEN [applied |-> applied, confirmed |-> confirmed] ELSE fate
       /\ \E v \in {"ok", "refused", "failed", "assert"} :
            /\ v = "ok" => confirmed \/ IsBelow(m.w, 1)
            /\ v = "assert" => m.protocol = "gle"
            /\ con' = [con EXCEPT !.wire = Tail(@),
                         !.replies = IF m.protocol = "opcode" THEN @
                                     ELSE Append(@, [to |-> m.id, verdict |-> v])]
  /\ UNCHANGED <<api, default, w, request_id, call, pc, result, calls>>

-----------------------------------------------------------------------------
Next ==
  \/ \E v \in Settable : SetWriteConcern(v)
  \/ \E o \in Options : Insert(o) \/ Update(o) \/ RemoveDocuments(o) \/ BatchInsert(o) \/ Save(o)
  \/ BuildFails \/ ZeroId
  \/ \E out \in {"all", "torn", "nothing", "error"} : SendOpcode(out) \/ SendCommand(out)
  \/ NoAnswer \/ NoGleAnswer \/ Answer
  \/ \E a, c \in BOOLEAN : Serve(a, c)

Spec == Init /\ [][Next]_vars

-----------------------------------------------------------------------------
\* Between two calls nothing that will be answered is on its way on the
\* connection the next call is given: no call can be handed the answer to an
\* earlier one, whichever of the three readers gave up and whenever.
NoReplyLeftBehind ==
  pc = "idle" /\ con.registered =>
    /\ con.replies = <<>>
    /\ \A i \in DOMAIN con.wire : con.wire[i].protocol = "opcode"

\* A call that returns the server's answer, without an error in it, had its
\* write applied and confirmed to the concern that was asked for; a stream
\* broken by an earlier unacknowledged write, a late answer or an answer that
\* reports an error never end that way.
SuccessIsTheServers ==
  pc = "idle" /\ result = "array" => fate.confirmed /\ ~IsBelow(call.asked.w, 1)

\* What a call asks for by name reaches the server on either path: "j" and
\* "fsync" are sent; a "w" that is a string is sent as it is (a "safe" beside it
\* may replace it on the command path, and is left out here); and a number of
\* one or more as a number no smaller, whatever defaults the client and the
\* collection have, with two exceptions.  A "safe" of the same call that is a
\* string may replace it; and getLastError keeps a default that is a string,
\* so that the number is lost (collection.c:417-425 and 491-499).
OptionsReachTheServer ==
  pc # "idle" /\ call.protocol \in {"command", "gle"} =>
    LET o == call.options
        standing == IF w = 1 THEN default.w ELSE w
    IN /\ o.j = 1 => call.asked.j = 1
       /\ o.fsync = 1 => call.asked.fsync = 1
       /\ IsString(o.w) /\ o.safe = Unset => call.asked.w = o.w
       /\ ~IsString(o.w) /\ o.w >= 1 =>
            \/ ~IsString(call.asked.w) /\ call.asked.w >= o.w
            \/ IsString(o.safe) /\ call.asked.w = o.safe
            \/ call.protocol = "gle" /\ IsString(standing) /\ call.asked.w = standing

=============================================================================
