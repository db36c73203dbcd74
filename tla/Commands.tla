------------------------------ MODULE Commands ------------------------------
(***************************************************************************)
(* The methods of MongoCollection and MongoDB that run a database command,   *)
(* or read a system collection where the server is too old for the command:  *)
(* collection.c, db.c.                                                       *)
(*                                                                         *)
(* A method builds a command, may ask a server for its version first, and    *)
(* gives the command to php_mongo_runcommand(), which picks a server by the  *)
(* read preference of the object or forces the primary.  What the registry   *)
(* believes of the servers may be older than their last election.  Methods   *)
(* differ in what they make of a reply that says the command failed.         *)
(***************************************************************************)
EXTENDS Integers, FiniteSets

CONSTANTS
  Servers,
  Tagged,        \* the servers with the tags a tagged preference asks for
  Preferences,   \* read preferences: records [mode, tagged]
  Deployments,   \* replset (BOOLEAN) by version of each server
  MaxElections,  \* bound on the elections
  MaxCalls       \* bound on the calls

None == "none"

ASSUME ParameterAssumption ==
  /\ Tagged \subseteq Servers /\ None \notin Servers
  /\ [mode |-> "primary", tagged |-> FALSE] \in Preferences
  /\ [mode |-> "none", tagged |-> FALSE] \notin Preferences
  /\ \A d \in Deployments :
       d.replset \in BOOLEAN /\ d.version \in [Servers -> {"old", "mid", "new"}]
  /\ MaxElections \in Nat /\ MaxCalls \in Nat

VARIABLES
  replset,    \* link->servers->options.con_type is MONGO_CON_TYPE_REPLSET
  version,    \* of each server: "old", "mid" (2.5.5) or "new" (2.7.5)
  role,       \* of each server: "primary", "secondary" or "down"
  believed,   \* connection_type in the registry, or "unknown"
  rp,         \* read_pref of the MongoCollection and of its MongoDB
  saved,      \* original_rp of php_mongodb_aggregate(), or NoPreference
  call,       \* the method that runs, or ran last, and its command
  pc,         \* "idle", "check", "run", "reply" or "iterate"
  sent,       \* the server the command went to, and the role believed then
  result,     \* what the last call returned
  elections, calls, wanted, applied, complete   \* history

vars == <<replset, version, role, believed, rp, saved, call, pc, sent, result,
          elections, calls, wanted, applied, complete>>
world == <<replset, version, role, elections>>
history == <<wanted, applied, complete>>

-----------------------------------------------------------------------------
Primary == [mode |-> "primary", tagged |-> FALSE]

NoCall == [method |-> "command", cmd |-> "dbStats", writes |-> FALSE, rp |-> Primary,
           form |-> "command", concern |-> "acknowledged", checked |-> None]

NoPreference == [mode |-> "none", tagged |-> FALSE]

\* The write concern of an insert: some server answers for it; none is asked
\* to (w = 0); or none is, but "j" or "fsync" makes it wait all the same.
Concerns == {"acknowledged", "journaled", "none"}

NotSent == [to |-> None, as |-> "unknown"]

\* MongoDB::command() takes any command; these stand for their kinds.
UserCommands ==
  { [cmd |-> "dbStats", writes |-> FALSE], [cmd |-> "inlineMapReduce", writes |-> FALSE],
    [cmd |-> "mapReduce", writes |-> TRUE], [cmd |-> "aggregate", writes |-> TRUE],
    [cmd |-> "dropDatabase", writes |-> TRUE] }

\* Mutant: findandmodify is taken for a read.
MutantSupportsReadPreference(c) ==
  c.cmd \in {"findandmodify", "count", "group", "dbStats", "distinct", "aggregate",
             "inlineMapReduce", "parallelCollectionScan"}

\* php_mongo_command_supports_rp(): by the name of the command alone.
SupportsReadPreference(c) ==
  c.cmd \in {"count", "group", "dbStats", "distinct", "aggregate", "inlineMapReduce",
             "parallelCollectionScan"}

\* Queries go by the preference; the insert of an index goes to the primary.
ForcePrimary(c) ==
  \/ replset /\ c.form = "command" /\ ~SupportsReadPreference(c)
  \/ c.form = "insert"

-----------------------------------------------------------------------------
TypeOK ==
  /\ replset \in BOOLEAN /\ version \in [Servers -> {"old", "mid", "new"}]
  /\ role \in [Servers -> {"primary", "secondary", "down"}]
  /\ believed \in [Servers -> {"primary", "secondary", "unknown"}]
  /\ rp \in [collection : Preferences, database : Preferences]
  /\ saved \in Preferences \cup {NoPreference}
  /\ call.rp \in Preferences /\ call.checked \in Servers \cup {None}
  /\ call.writes \in BOOLEAN /\ call.form \in {"command", "query", "insert"}
  /\ call.concern \in Concerns
  /\ pc \in {"idle", "check", "run", "reply", "iterate"}
  /\ sent.to \in Servers \cup {None}
  /\ result \in {None, "value", "list", "reply", "false", "null", "exception"}
  /\ elections \in 0..MaxElections /\ calls \in 0..MaxCalls
  /\ wanted \in [collection : Preferences, database : Preferences]
  /\ applied \in BOOLEAN /\ complete \in BOOLEAN

AsBelieved(r) == IF r = "down" THEN "unknown" ELSE r

Init ==
  /\ \E d \in Deployments : replset = d.replset /\ version = d.version
  /\ \E p \in Servers :
       role = [s \in Servers |-> IF s = p \/ ~replset THEN "primary" ELSE "secondary"]
  /\ believed = [s \in Servers |-> role[s]]
  /\ rp \in [collection : Preferences, database : {Primary}] /\ wanted = rp
  /\ saved = NoPreference /\ call = NoCall /\ pc = "idle" /\ sent = NotSent /\ result = None
  /\ elections = 0 /\ calls = 0 /\ applied = FALSE /\ complete = TRUE

-----------------------------------------------------------------------------
(* The replica set and the registry, outside this module's sources.         *)

\* A server takes over; the one before steps down or goes away.
Election(s, fate) ==
  /\ replset /\ role[s] = "secondary" /\ elections < MaxElections
  /\ elections' = elections + 1
  /\ role' = [t \in Servers |-> CASE t = s -> "primary" [] role[t] = "primary" -> fate
                                  [] OTHER -> role[t]]
  /\ UNCHANGED <<replset, version, believed, rp, saved, call, pc, sent, result, calls>>
  /\ UNCHANGED history

\* mongo_get_read_write_connection() pings, reconnects and asks for the role
\* of those servers for which it is time; the others keep what is believed.
Looked(b) == \A s \in Servers : b[s] \in {believed[s], AsBelieved(role[s])}

Asked(pref, s) == pref.tagged => s \in Tagged

Eligible(b, force, pref) ==
  { s \in Servers :
      /\ b[s] # "unknown"
      /\ replset /\ (force \/ pref.mode = "primary") => b[s] = "primary"
      /\ replset /\ ~force /\ pref.mode # "primary" => Asked(pref, s)
      /\ replset /\ ~force /\ pref.mode = "secondary" => b[s] = "secondary" }

-----------------------------------------------------------------------------
(* The methods.  Each fills in a command; those that depend on the version   *)
(* of the server ask for a connection to write to first.                     *)

SetReadPreference(of, pref) ==
  /\ pc = "idle"
  /\ rp' = [rp EXCEPT ![of] = pref] /\ wanted' = [wanted EXCEPT ![of] = pref]
  /\ UNCHANGED <<believed, saved, call, pc, sent, result, calls, applied, complete>>
  /\ UNCHANGED world

Start(next, method, cmd, writes, pref) ==
  /\ pc = "idle" /\ calls < MaxCalls /\ calls' = calls + 1
  /\ call' = [method |-> method, cmd |-> cmd, writes |-> writes, rp |-> pref,
              form |-> IF cmd = "find" THEN "query" ELSE "command",
              concern |-> "acknowledged", checked |-> None]
  /\ pc' = next /\ sent' = NotSent /\ result' = None /\ applied' = FALSE /\ complete' = TRUE
  /\ UNCHANGED <<believed, wanted>> /\ UNCHANGED world

Run(method, cmd, writes, pref) ==
  Start("run", method, cmd, writes, pref) /\ UNCHANGED <<rp, saved>>

OfCollection(method, cmd, writes) == Run(method, cmd, writes, rp.collection)
OfDatabase(method, cmd, writes) == Run(method, cmd, writes, rp.database)

Drop == OfCollection("drop", "drop", TRUE)
Validate == OfCollection("validate", "validate", FALSE)
FindOne == OfCollection("findOne", "find", FALSE)
FindAndModify == OfCollection("findAndModify", "findandmodify", TRUE)
DeleteIndex == OfCollection("deleteIndex", "dropIndexes", TRUE)
DeleteIndexes == OfCollection("deleteIndexes", "dropIndexes", TRUE)
Count == OfCollection("count", "count", FALSE)
Distinct == OfCollection("distinct", "distinct", FALSE)
Group == OfCollection("group", "group", FALSE)
ParallelCollectionScan ==
  OfCollection("parallelCollectionScan", "parallelCollectionScan", FALSE)

\* A pipeline that ends with $out runs on the primary: the preference of the
\* collection itself is replaced, by one without tags, until the end.
Aggregate(out) ==
  LET forced == out /\ rp.collection.mode # "primary"
      pref == IF forced THEN Primary ELSE rp.collection
  IN /\ Start("run", "aggregate", "aggregate", out, pref)
     /\ rp' = [rp EXCEPT !.collection = pref]
     /\ saved' = IF forced THEN rp.collection ELSE NoPreference

\* The cursor has a preference of its own, which is used when it is rewound.
AggregateCursor(out) ==
  Run("aggregateCursor", "aggregate", out, IF out THEN Primary ELSE rp.collection)

DropCollection == Drop
CreateCollection == OfDatabase("createCollection", "create", TRUE)
Execute == OfDatabase("execute", "$eval", TRUE)
DbCommand(u) == OfDatabase("command", u.cmd, u.writes)

CreateIndex == Start("check", "createIndex", "createIndexes", TRUE, rp.collection)
               /\ UNCHANGED <<rp, saved>>
EnsureIndex == CreateIndex
GetIndexInfo == Start("check", "getIndexInfo", "listIndexes", FALSE, rp.collection)
                /\ UNCHANGED <<rp, saved>>
EnumerateCollections == Start("check", "listCollections", "listCollections", FALSE, rp.database)
                        /\ UNCHANGED <<rp, saved>>

-----------------------------------------------------------------------------
\* Mutant: a failed command returns before the preference is put back.
MutantRestored(r) == IF r = "exception" \/ saved = NoPreference THEN rp ELSE [rp EXCEPT !.collection = saved]

Restored(r) == IF saved = NoPreference THEN rp ELSE [rp EXCEPT !.collection = saved]

Finish(r) == /\ pc' = "idle" /\ result' = r /\ rp' = Restored(r) /\ saved' = NoPreference

Looks == {b \in [Servers -> {"primary", "secondary", "unknown"}] : Looked(b)}

\* Keys, names, options or cursor options that are refused
InvalidArguments ==
  /\ pc \in {"check", "run"}
  /\ call.method \in {"createIndex", "deleteIndex", "aggregateCursor", "listCollections", "findOne"}
  /\ Finish("exception")
  /\ UNCHANGED <<believed, call, sent, calls>> /\ UNCHANGED world /\ UNCHANGED history

NoServer ==
  /\ \E b \in Looks :
       \/ pc = "check" /\ Eligible(b, TRUE, Primary) = {}
       \/ pc = "run" /\ Eligible(b, ForcePrimary(call), call.rp) = {}
  /\ Finish("exception")
  /\ UNCHANGED <<believed, call, sent, calls>> /\ UNCHANGED world /\ UNCHANGED history

Checked(method, s, b, c) ==
  /\ pc = "check" /\ call.method = method
  /\ s \in Eligible(b, TRUE, Primary) /\ believed' = b
  /\ call' = [c EXCEPT !.checked = s]
  /\ pc' = "run"
  /\ UNCHANGED <<rp, saved, sent, result, calls>> /\ UNCHANGED world /\ UNCHANGED history

AsQuery(pref) == [call EXCEPT !.form = "query", !.rp = pref]

CreateIndexCommand(s, b) == version[s] # "old" /\ Checked("createIndex", s, b, call)

\* The insert takes its concern from the options and from the database.
CreateIndexLegacy(s, b, w) ==
  /\ version[s] = "old"
  /\ Checked("createIndex", s, b, [call EXCEPT !.form = "insert", !.concern = w])

\* Mutant: 2.8 and later are taken for older than 2.7.5.
MutantListIndexesLegacy(s, b) == Checked("getIndexInfo", s, b, AsQuery(rp.database))

ListIndexesCommand(s, b) == version[s] = "new" /\ Checked("getIndexInfo", s, b, call)

\* system.indexes is a collection of its own, with the database's preference.
ListIndexesLegacy(s, b) ==
  version[s] # "new" /\ Checked("getIndexInfo", s, b, AsQuery(rp.database))
ListCollectionsCommand(s, b) == version[s] = "new" /\ Checked("listCollections", s, b, call)
ListCollectionsLegacy(s, b) ==
  version[s] # "new" /\ Checked("listCollections", s, b, AsQuery(rp.database))

\* php_mongo_runcommand(), or the query of a legacy method
RunCommand(s, b) ==
  /\ pc = "run" /\ believed' = b
  /\ s \in Eligible(b, ForcePrimary(call), call.rp)
  /\ sent' = [to |-> s, as |-> b[s]]
  /\ pc' = "reply"
  /\ UNCHANGED <<rp, saved, call, result, calls>> /\ UNCHANGED world /\ UNCHANGED history

-----------------------------------------------------------------------------
(* The server, outside src/: what it makes of a command.                     *)

Understands(v, c) ==
  c.form = "command" =>
    /\ c.cmd = "createIndexes" => v # "old"
    /\ c.cmd \in {"listIndexes", "listCollections"} => v = "new"

\* From 2.7.5 on a system collection may be empty: the catalogue is elsewhere.
TellsAll(v, c) == v = "new" /\ c.form = "query" => c.method = "findOne"

\* SLAVE_OKAY is set for every preference but primary.
Verdicts(s) ==
  IF role[s] = "down" THEN {}
  ELSE IF ~Understands(version[s], call) \/ (call.writes /\ role[s] # "primary") THEN {"failed"}
  ELSE IF role[s] = "secondary" /\ call.rp.mode = "primary"
       THEN {IF call.form = "query" THEN "notmaster" ELSE "failed"}
  ELSE {"ok", "failed", "missing"}

-----------------------------------------------------------------------------
(* What the methods make of a reply.                                         *)

Lists == {"getIndexInfo", "listCollections"}

\* Methods that return the reply of the server, whatever it says
Unchecked == {"drop", "validate", "deleteIndex", "deleteIndexes", "command", "execute"}

OnSuccess == CASE call.method \in Unchecked -> "reply"
               [] call.method \in Lists -> "list"
               [] OTHER -> "value"

\* php_mongo_collection_insert(), by the server that was picked for it: an
\* opcode nobody answers, a write command, or an opcode and a getLastError.
ByOpcode == call.form = "insert" /\ call.concern = "none"
ByWriteCommand == call.form = "insert" /\ ~ByOpcode /\ version[sent.to] # "old"

\* It clears the exceptions of a write command whose "w" is 0.
Cleared == ByWriteCommand /\ call.concern = "journaled"

\* Mutant: createIndex() does not look at "ok".
MutantOnFailure(v) ==
  CASE call.method \in Unchecked -> "reply"
    [] call.method \in {"createCollection", "createIndex"} -> "value"
    [] call.method = "distinct" -> "false"
    [] call.method = "getIndexInfo" /\ v = "missing" -> "list"
    [] OTHER -> "exception"

\* "missing": the collection does not exist, code 26
OnFailure(v) ==
  IF call.form # "command" THEN IF ByOpcode \/ Cleared THEN "value" ELSE "exception"
  ELSE CASE call.method \in Unchecked -> "reply"
         [] call.method = "createCollection" -> "value"
         [] call.method = "distinct" -> "false"
         [] call.method = "getIndexInfo" /\ v = "missing" -> "list"
         [] OTHER -> "exception"

Replied(v) == IF v = "ok" THEN OnSuccess ELSE OnFailure(v)

\* php_mongo_handle_error() gives up the connection on "not master"; a failed
\* command keeps it.
Answer(v) ==
  /\ pc = "reply" /\ v \in Verdicts(sent.to)
  /\ applied' = (v = "ok" /\ call.writes)
  /\ complete' = (v = "missing" \/ (v # "notmaster" /\ TellsAll(version[sent.to], call)))
  /\ believed' = IF v = "notmaster" THEN [believed EXCEPT ![sent.to] = "unknown"] ELSE believed
  /\ IF v = "ok" /\ call.method \in Lists
     THEN pc' = "iterate" /\ UNCHANGED <<result, rp, saved>>
     ELSE Finish(Replied(v))
  /\ UNCHANGED <<call, sent, calls, wanted>> /\ UNCHANGED world

\* The exchange fails; the server may have done its part.
NoAnswer(done) ==
  /\ pc = "reply" /\ ~ByOpcode
  /\ applied' = (done /\ call.writes /\ "ok" \in Verdicts(sent.to))
  /\ believed' = [believed EXCEPT ![sent.to] = "unknown"]
  /\ Finish(IF Cleared THEN "false" ELSE "exception")
  /\ UNCHANGED <<call, sent, calls, wanted, complete>> /\ UNCHANGED world

\* The insert of an index that no server gets: an opcode may be sent into
\* nothing; what is not sent is "false", or of a write command nothing at all.
NotDelivered ==
  /\ pc = "reply" /\ (ByOpcode \/ ByWriteCommand)
  /\ applied' = FALSE
  /\ \/ ByOpcode /\ \E r \in {"value", "false"} : Finish(r)
     \/ ByWriteCommand /\ Finish(IF Cleared THEN "false" ELSE "null")
  /\ UNCHANGED <<believed, call, sent, calls, wanted, complete>> /\ UNCHANGED world

\* Further batches come from the same connection; the list is returned with
\* what was found, and an exception if one of them failed.
Iterate(ok) ==
  /\ pc = "iterate"
  /\ \/ ok /\ role[sent.to] # "down" /\ Finish("list") /\ UNCHANGED believed
     \/ ~ok /\ Finish("exception") /\ believed' = [believed EXCEPT ![sent.to] = "unknown"]
  /\ UNCHANGED <<call, sent, calls>> /\ UNCHANGED world /\ UNCHANGED history

-----------------------------------------------------------------------------
Next ==
  \/ \E s \in Servers, f \in {"secondary", "down"} : Election(s, f)
  \/ \E of \in {"collection", "database"}, p \in Preferences : SetReadPreference(of, p)
  \/ Drop \/ Validate \/ FindOne \/ FindAndModify \/ DeleteIndex \/ DeleteIndexes
  \/ Count \/ Distinct \/ Group \/ ParallelCollectionScan
  \/ \E out \in BOOLEAN : Aggregate(out) \/ AggregateCursor(out)
  \/ DropCollection \/ CreateCollection \/ Execute \/ \E u \in UserCommands : DbCommand(u)
  \/ CreateIndex \/ EnsureIndex \/ GetIndexInfo \/ EnumerateCollections
  \/ InvalidArguments \/ NoServer
  \/ \E s \in Servers, b \in Looks :
       \/ CreateIndexCommand(s, b) \/ \E w \in Concerns : CreateIndexLegacy(s, b, w)
       \/ ListIndexesCommand(s, b) \/ ListIndexesLegacy(s, b)
       \/ ListCollectionsCommand(s, b) \/ ListCollectionsLegacy(s, b)
       \/ RunCommand(s, b)
  \/ \E v \in {"ok", "failed", "missing", "notmaster"} : Answer(v)
  \/ NotDelivered \/ \E done \in BOOLEAN : NoAnswer(done) \/ Iterate(done)

Spec == Init /\ [][Next]_vars

-----------------------------------------------------------------------------
\* In a replica set a command that changes data, of any method but command(),
\* is sent to a server believed to be the primary, whatever read preference
\* the collection or the database has and however it has tags: in particular
\* an aggregation that ends with $out.
WritesReachPrimary ==
  pc = "reply" /\ replset /\ call.writes /\ call.method # "command" => sent.as = "primary"

\* Between calls the collection and the database have the read preference they
\* were given last, also after an aggregation with $out that was refused,
\* failed or lost its connection.
ReadPrefKept == pc = "idle" => rp = wanted

\* A call that changes data and returns a value (and not the server's own
\* reply) has changed it, even if the server that was asked stepped down
\* between its selection and the command.  createCollection() is no such call,
\* nor is createIndex() on an old server when its options or the database ask
\* for w = 0: that insert may return TRUE whatever becomes of it.
ValuesAreDone ==
  /\ pc = "idle" /\ result = "value" /\ call.writes
  /\ call.method # "createCollection" /\ call.concern = "acknowledged"
  => applied

\* A list that lacks entries was read the old way, from another server than
\* the one whose version was looked at: never from the command, and never
\* from a server that was asked.
ListsAreThatServers ==
  pc = "idle" /\ result = "list" /\ ~complete =>
    call.form = "query" /\ call.checked # sent.to

=============================================================================
