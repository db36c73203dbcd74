--------------------------- MODULE Commands_proofs --------------------------
(***************************************************************************)
(* Proofs about Commands: its types, and the properties of its calls, for   *)
(* any servers, read preferences and deployments, and any number of calls   *)
(* and elections; and about ServerSelection, for any registry, client and    *)
(* latency.                                                                  *)
(***************************************************************************)
EXTENDS Commands, ServerSelection, FiniteSetTheorems, WellFoundedInduction, TLAPS

IsCall(c) ==
  /\ c = [method |-> c.method, cmd |-> c.cmd, writes |-> c.writes, rp |-> c.rp,
          form |-> c.form, concern |-> c.concern, checked |-> c.checked]
  /\ c.concern \in Concerns /\ c.writes \in BOOLEAN /\ c.rp \in Preferences
  /\ c.form \in {"command", "query", "insert"} /\ c.checked \in Servers \cup {None}

\* What the methods make of a command: one that changes data either is not a
\* read by its name or has the primary for its preference, and only a query
\* has no form of a write.
Built(c) ==
  /\ IsCall(c)
  /\ c.writes /\ c.method # "command" =>
       /\ c.form \in {"command", "insert"}
       /\ ~SupportsReadPreference(c) \/ c.rp.mode = "primary"
  /\ c.method \in Lists => ~c.writes
  /\ c.method = "findOne" => ~c.writes

\* The old form of a list is chosen because of the version of a server.
LegacyForOldServers(c) ==
  c.form = "query" /\ c.method # "findOne" => c.checked \in Servers /\ version[c.checked] # "new"

\* While a preference is replaced, the saved one is what the user asked for.
SavedIsWanted ==
  /\ wanted = Restored("value")
  /\ pc \in {"idle", "check"} => saved = NoPreference

Invariant ==
  /\ TypeOK /\ Built(call) /\ LegacyForOldServers(call) /\ SavedIsWanted
  /\ sent \in [to : Servers \cup {None}, as : {"primary", "secondary", "unknown"}]
  /\ WritesReachPrimary /\ ValuesAreDone /\ ListsAreThatServers
  /\ pc \in {"reply", "iterate"} => sent.to \in Servers
  /\ pc = "iterate" => call.method \in Lists
  /\ pc = "check" => call.form # "query"
  /\ pc = "iterate" /\ ~complete => call.form = "query" /\ call.checked # sent.to

-----------------------------------------------------------------------------
\* The start of a call, whatever the method does to the preferences.
Began ==
  /\ pc = "idle" /\ pc' \in {"check", "run"} /\ calls < MaxCalls /\ calls' = calls + 1
  /\ sent' = NotSent /\ result' = None /\ applied' = FALSE /\ complete' = TRUE
  /\ Built(call') /\ (call'.form = "query" => call'.method = "findOne")
  /\ pc' = "check" => call'.form # "query"
  /\ UNCHANGED <<believed, wanted>> /\ UNCHANGED world

LEMMA BeganKeeps ==
  ASSUME Invariant, Began,
         rp' \in [collection : Preferences, database : Preferences],
         saved' \in Preferences \cup {NoPreference}, SavedIsWanted'
  PROVE  Invariant'
<1>1. LegacyForOldServers(call)'
  BY DEF Began, LegacyForOldServers
<1>2. WritesReachPrimary' /\ ValuesAreDone' /\ ListsAreThatServers'
  BY DEF Began, WritesReachPrimary, ValuesAreDone, ListsAreThatServers
<1>3. calls' \in 0..MaxCalls
  BY ParameterAssumption DEF Began, Invariant, TypeOK
<1>4. sent' \in [to : Servers \cup {None}, as : {"primary", "secondary", "unknown"}]
  BY DEF Began, NotSent
<1>5. TypeOK'
  BY <1>3, <1>4 DEF Began, Invariant, TypeOK, world, Built, IsCall
<1> QED BY <1>1, <1>2, <1>4, <1>5 DEF Invariant, Began

\* The methods that leave the preferences alone.
LEMMA RunKeeps == ASSUME Invariant, Began, UNCHANGED <<rp, saved>> PROVE Invariant'
<1>1. SavedIsWanted'
  BY DEF Invariant, SavedIsWanted, Restored, Began
<1> QED BY <1>1, BeganKeeps DEF Invariant, TypeOK

\* Every method that starts a call.
Methods ==
  \/ Drop \/ Validate \/ FindOne \/ FindAndModify \/ DeleteIndex \/ DeleteIndexes
  \/ Count \/ Distinct \/ Group \/ ParallelCollectionScan
  \/ \E out \in BOOLEAN : Aggregate(out) \/ AggregateCursor(out)
  \/ DropCollection \/ CreateCollection \/ Execute \/ \E u \in UserCommands : DbCommand(u)
  \/ CreateIndex \/ EnsureIndex \/ GetIndexInfo \/ EnumerateCollections

LEMMA UserCommandFields ==
  ASSUME NEW u \in UserCommands
  PROVE  u.cmd # "find" /\ u.writes \in BOOLEAN
<1>1. \/ u = [cmd |-> "dbStats", writes |-> FALSE]
      \/ u = [cmd |-> "inlineMapReduce", writes |-> FALSE]
      \/ u = [cmd |-> "mapReduce", writes |-> TRUE]
      \/ u = [cmd |-> "aggregate", writes |-> TRUE]
      \/ u = [cmd |-> "dropDatabase", writes |-> TRUE]
  BY DEF UserCommands
<1>2. u.cmd # "find"
  BY <1>1
<1>3. u.writes = TRUE \/ u.writes = FALSE
  BY <1>1
<1> QED BY <1>2, <1>3

LEMMA MethodsKeep == ASSUME Invariant, Methods PROVE Invariant'
<1>1. /\ rp.collection \in Preferences /\ rp.database \in Preferences /\ Primary \in Preferences
  BY ParameterAssumption DEF Invariant, TypeOK, Primary
<1> USE DEF Run, OfCollection, OfDatabase, Start, Began, Built, IsCall, SupportsReadPreference, Lists,
            Concerns
<1>2. CASE Drop \/ DropCollection
  <2>1. Start("run", "drop", "drop", TRUE, rp.collection) /\ UNCHANGED <<rp, saved>>
    BY <1>2 DEF Drop, DropCollection
  <2>2. Began
    BY <1>1, <2>1
  <2> QED BY <2>1, <2>2, RunKeeps
<1>3. CASE Validate
  BY <1>1, <1>3, RunKeeps DEF Validate
<1>4. CASE FindOne
  <2>1. Start("run", "findOne", "find", FALSE, rp.collection) /\ UNCHANGED <<rp, saved>>
    BY <1>4 DEF FindOne
  <2>2. Built(call') /\ call'.method = "findOne"
    BY <1>1, <2>1
  <2>3. Began
    BY <2>1, <2>2
  <2> QED BY <2>1, <2>3, RunKeeps
<1>5. CASE FindAndModify
  BY <1>1, <1>5, RunKeeps DEF FindAndModify
<1>6. CASE DeleteIndex
  BY <1>1, <1>6, RunKeeps DEF DeleteIndex
<1>7. CASE DeleteIndexes
  BY <1>1, <1>7, RunKeeps DEF DeleteIndexes
<1>8. CASE Count
  BY <1>1, <1>8, RunKeeps DEF Count
<1>9. CASE Distinct
  BY <1>1, <1>9, RunKeeps DEF Distinct
<1>10. CASE Group
  BY <1>1, <1>10, RunKeeps DEF Group
<1>11. CASE ParallelCollectionScan
  BY <1>1, <1>11, RunKeeps DEF ParallelCollectionScan
<1>12. ASSUME NEW out \in BOOLEAN, Aggregate(out) PROVE Invariant'
  <2> DEFINE forced == out /\ rp.collection.mode # "primary"
  <2> DEFINE pref == IF forced THEN Primary ELSE rp.collection
  <2>1. /\ Start("run", "aggregate", "aggregate", out, pref)
        /\ rp' = [rp EXCEPT !.collection = pref]
        /\ saved' = IF forced THEN rp.collection ELSE NoPreference
    BY <1>12 DEF Aggregate
  <2>2. pref \in Preferences /\ (out => pref.mode = "primary")
    BY <1>1 DEF Primary
  <2>3. rp \in [collection : Preferences, database : Preferences] /\ wanted = rp
        /\ wanted' = wanted /\ pc' = "run"
    BY <2>1 DEF Invariant, TypeOK, SavedIsWanted, Restored
  <2>4. SavedIsWanted'
    <3>1. CASE forced
      <4>1. saved' = rp.collection /\ saved' # NoPreference
        BY <3>1, <2>1, <1>1, ParameterAssumption DEF NoPreference
      <4>2. Restored("value")' = [rp' EXCEPT !.collection = rp.collection]
        BY <4>1 DEF Restored
      <4>3. Restored("value")' = rp
        BY <4>2, <2>1, <2>3
      <4> QED BY <4>3, <2>3 DEF SavedIsWanted
    <3>2. CASE ~forced
      <4>1. rp' = rp /\ saved' = NoPreference
        BY <3>2, <2>1, <2>3
      <4> QED BY <4>1, <2>3 DEF SavedIsWanted, Restored
    <3> QED BY <3>1, <3>2
  <2>5. rp' \in [collection : Preferences, database : Preferences]
        /\ saved' \in Preferences \cup {NoPreference}
    BY <1>1, <2>1, <2>2, <2>3
  <2> HIDE DEF pref
  <2>6. Began
    BY <2>1, <2>2
  <2> QED BY <2>4, <2>5, <2>6, BeganKeeps DEF Began
<1>13. ASSUME NEW out \in BOOLEAN, AggregateCursor(out) PROVE Invariant'
  <2> DEFINE pref == IF out THEN Primary ELSE rp.collection
  <2>1. pref \in Preferences /\ (out => pref.mode = "primary")
    BY <1>1 DEF Primary
  <2>2. Start("run", "aggregateCursor", "aggregate", out, pref) /\ UNCHANGED <<rp, saved>>
    BY <1>13 DEF AggregateCursor
  <2> HIDE DEF pref
  <2>3. Began
    BY <2>1, <2>2
  <2> QED BY <2>2, <2>3, RunKeeps
<1>14. CASE CreateCollection
  BY <1>1, <1>14, RunKeeps DEF CreateCollection
<1>15. CASE Execute
  BY <1>1, <1>15, RunKeeps DEF Execute
<1>16. ASSUME NEW u \in UserCommands, DbCommand(u) PROVE Invariant'
  <2>1. Start("run", "command", u.cmd, u.writes, rp.database) /\ UNCHANGED <<rp, saved>>
    BY <1>16 DEF DbCommand
  <2>2. u.cmd # "find" /\ u.writes \in BOOLEAN
    BY UserCommandFields
  <2>3. call' = [method |-> "command", cmd |-> u.cmd, writes |-> u.writes, rp |-> rp.database,
                 form |-> "command", concern |-> "acknowledged", checked |-> None]
    BY <2>1, <2>2
  <2>4. Built(call') /\ call'.form # "query"
    BY <1>1, <2>2, <2>3
  <2>5. Began
    BY <2>1, <2>4
  <2> QED BY <2>1, <2>5, RunKeeps
<1>17. CASE CreateIndex \/ EnsureIndex
  <2>1. /\ Start("check", "createIndex", "createIndexes", TRUE, rp.collection)
        /\ UNCHANGED <<rp, saved>>
    BY <1>17 DEF CreateIndex, EnsureIndex
  <2>2. Began
    BY <1>1, <2>1
  <2> QED BY <2>1, <2>2, RunKeeps
<1>18. CASE GetIndexInfo
  BY <1>1, <1>18, RunKeeps DEF GetIndexInfo
<1>19. CASE EnumerateCollections
  BY <1>1, <1>19, RunKeeps DEF EnumerateCollections
<1> QED BY <1>2, <1>3, <1>4, <1>5, <1>6, <1>7, <1>8, <1>9, <1>10, <1>11, <1>12, <1>13,
           <1>14, <1>15, <1>16, <1>17, <1>18, <1>19 DEF Methods

-----------------------------------------------------------------------------
\* A call ends: the preferences are what the user asked for, whatever it returns.
LEMMA FinishRestores ==
  ASSUME Invariant, NEW r, Finish(r), UNCHANGED wanted
  PROVE  /\ SavedIsWanted' /\ rp' \in [collection : Preferences, database : Preferences]
         /\ saved' = NoPreference /\ pc' = "idle" /\ result' = r
<1>1. /\ pc' = "idle" /\ result' = r /\ rp' = Restored(r) /\ saved' = NoPreference
  BY DEF Finish
<1>2. Restored(r) = wanted
  BY DEF Invariant, SavedIsWanted, Restored
<1> QED BY <1>1, <1>2 DEF SavedIsWanted, Restored, Invariant, TypeOK

LEMMA ElectionKeeps ==
  ASSUME Invariant, NEW s \in Servers, NEW f \in {"secondary", "down"}, Election(s, f)
  PROVE  Invariant'
<1>1. elections' \in 0..MaxElections
  BY ParameterAssumption DEF Invariant, TypeOK, Election
<1>2. role' \in [Servers -> {"primary", "secondary", "down"}]
  BY DEF Invariant, TypeOK, Election
<1>3. TypeOK'
  BY <1>1, <1>2 DEF Invariant, TypeOK, Election, history
<1>4. LegacyForOldServers(call)'
  BY DEF Invariant, LegacyForOldServers, Election
<1>5. SavedIsWanted'
  BY DEF Invariant, SavedIsWanted, Restored, Election, history
<1>6. WritesReachPrimary' /\ ValuesAreDone' /\ ListsAreThatServers'
  BY DEF Invariant, WritesReachPrimary, ValuesAreDone, ListsAreThatServers, Election, history
<1> QED BY <1>3, <1>4, <1>5, <1>6 DEF Invariant, Election, history

LEMMA SetReadPreferenceKeeps ==
  ASSUME Invariant, NEW of \in {"collection", "database"}, NEW p \in Preferences,
         SetReadPreference(of, p)
  PROVE  Invariant'
<1>1. TypeOK'
  BY DEF Invariant, TypeOK, SetReadPreference, world
<1>2. LegacyForOldServers(call)'
  BY DEF Invariant, LegacyForOldServers, SetReadPreference, world
<1>3. SavedIsWanted'
  BY DEF Invariant, SavedIsWanted, Restored, SetReadPreference
<1>4. WritesReachPrimary' /\ ValuesAreDone' /\ ListsAreThatServers'
  BY DEF Invariant, WritesReachPrimary, ValuesAreDone, ListsAreThatServers, SetReadPreference, world
<1> QED BY <1>1, <1>2, <1>3, <1>4 DEF Invariant, SetReadPreference

\* Refused arguments and no eligible server: the call ends with an exception.
LEMMA RefusedKeeps ==
  ASSUME Invariant, Finish("exception"), UNCHANGED <<believed, call, sent, calls>>,
         UNCHANGED world, UNCHANGED history
  PROVE  Invariant'
<1>1. /\ SavedIsWanted' /\ rp' \in [collection : Preferences, database : Preferences]
      /\ saved' = NoPreference /\ pc' = "idle" /\ result' = "exception"
  BY FinishRestores DEF history
<1>2. TypeOK'
  BY <1>1 DEF Invariant, TypeOK, world, history
<1>3. LegacyForOldServers(call)'
  BY DEF Invariant, LegacyForOldServers, world
<1> QED BY <1>1, <1>2, <1>3
        DEF Invariant, WritesReachPrimary, ValuesAreDone, ListsAreThatServers

\* The registry after a look is of the same type.
LEMMA LookTypes == ASSUME NEW b \in Looks PROVE b \in [Servers -> {"primary", "secondary", "unknown"}]
BY DEF Looks

\* The form of a call is chosen by the version of a server that was asked.
LEMMA CheckedKeeps ==
  ASSUME Invariant, NEW s \in Servers, NEW b \in Looks, NEW pref \in Preferences,
         NEW form \in {"command", "query", "insert"}, NEW concern \in Concerns,
         NEW method, NEW c, Checked(method, s, b, c),
         c = [call EXCEPT !.form = form, !.concern = concern, !.rp = pref],
         form = "query" => version[s] # "new" /\ method \in Lists,
         form # "query" => pref = call.rp
  PROVE  Invariant'
<1>1. /\ pc = "check" /\ call.method = method /\ pc' = "run" /\ believed' = b
      /\ call' = [c EXCEPT !.checked = s]
      /\ UNCHANGED <<rp, saved, sent, result, calls>> /\ UNCHANGED world /\ UNCHANGED history
  BY DEF Checked
<1>2. /\ call'.method = method /\ call'.cmd = call.cmd /\ call'.writes = call.writes
      /\ call'.rp = pref /\ call'.form = form /\ call'.checked = s
      /\ call'.concern = concern /\ IsCall(call')
  BY <1>1 DEF Invariant, Built, IsCall
<1>3. Built(call')
  BY <1>1, <1>2 DEF Invariant, Built, SupportsReadPreference
<1>4. LegacyForOldServers(call)'
  BY <1>1, <1>2 DEF LegacyForOldServers, world
<1>5. SavedIsWanted'
  BY <1>1 DEF Invariant, SavedIsWanted, Restored, history
<1>6. TypeOK'
  BY <1>1, <1>2, LookTypes DEF Invariant, TypeOK, world, history, IsCall
<1> QED BY <1>1, <1>3, <1>4, <1>5, <1>6
        DEF Invariant, WritesReachPrimary, ValuesAreDone, ListsAreThatServers

\* The command goes to a server that is eligible: the believed primary, when
\* the command changes data.
LEMMA RunCommandKeeps ==
  ASSUME Invariant, NEW s \in Servers, NEW b \in Looks, RunCommand(s, b)
  PROVE  Invariant'
<1>1. /\ pc = "run" /\ believed' = b /\ s \in Eligible(b, ForcePrimary(call), call.rp)
      /\ sent' = [to |-> s, as |-> b[s]] /\ pc' = "reply"
      /\ UNCHANGED <<rp, saved, call, result, calls>> /\ UNCHANGED world /\ UNCHANGED history
  BY DEF RunCommand
<1>2. b \in [Servers -> {"primary", "secondary", "unknown"}]
  BY LookTypes
<1>3. WritesReachPrimary'
  <2> SUFFICES ASSUME replset, call.writes, call.method # "command" PROVE b[s] = "primary"
    BY <1>1 DEF WritesReachPrimary, world
  <2>1. ForcePrimary(call) \/ call.rp.mode = "primary"
    BY DEF Invariant, Built, ForcePrimary
  <2>2. replset /\ (ForcePrimary(call) \/ call.rp.mode = "primary") => b[s] = "primary"
    BY <1>1 DEF Eligible
  <2> QED BY <2>1, <2>2
<1>4. TypeOK'
  BY <1>1, <1>2 DEF Invariant, TypeOK, world, history
<1>5. SavedIsWanted' /\ LegacyForOldServers(call)'
  BY <1>1 DEF Invariant, SavedIsWanted, Restored, LegacyForOldServers, world, history
<1> QED BY <1>1, <1>2, <1>3, <1>4, <1>5
        DEF Invariant, ValuesAreDone, ListsAreThatServers

\* A value is returned only if the server did what it was asked, unless the
\* insert of an index asked for no answer.
LEMMA RepliedSound ==
  ASSUME NEW v, Replied(v) = "value", call.method # "createCollection",
         call.concern = "acknowledged"
  PROVE  v = "ok"
BY DEF Replied, OnFailure, Unchecked, ByOpcode, Cleared

LEMMA RepliedTypes ==
  ASSUME NEW v PROVE Replied(v) \in {"value", "list", "reply", "false", "null", "exception"}
<1>1. OnSuccess \in {"value", "list", "reply"}
  BY DEF OnSuccess
<1>2. OnFailure(v) \in {"value", "list", "reply", "false", "null", "exception"}
  BY DEF OnFailure
<1> QED BY <1>1, <1>2 DEF Replied

\* A list returned at once belongs to a collection that does not exist.
LEMMA RepliedList ==
  ASSUME NEW v, Replied(v) = "list", v # "ok"
  PROVE  v = "missing"
BY DEF Replied, OnFailure, Unchecked

LEMMA AnswerKeeps ==
  ASSUME Invariant, NEW v \in {"ok", "failed", "missing", "notmaster"}, Answer(v)
  PROVE  Invariant'
<1>1. /\ pc = "reply"
      /\ applied' = (v = "ok" /\ call.writes)
      /\ complete' = (v = "missing" \/ (v # "notmaster" /\ TellsAll(version[sent.to], call)))
      /\ believed' = IF v = "notmaster" THEN [believed EXCEPT ![sent.to] = "unknown"] ELSE believed
      /\ UNCHANGED <<call, sent, calls, wanted>> /\ UNCHANGED world
  BY DEF Answer
<1>2. believed' \in [Servers -> {"primary", "secondary", "unknown"}]
  BY <1>1 DEF Invariant, TypeOK
<1>3. LegacyForOldServers(call)'
  BY <1>1 DEF Invariant, LegacyForOldServers, world
<1>4. applied' \in BOOLEAN /\ complete' \in BOOLEAN
  BY <1>1 DEF TellsAll
<1>5. CASE v = "ok" /\ call.method \in Lists
  <2>1. pc' = "iterate" /\ UNCHANGED <<result, rp, saved>>
    BY <1>5 DEF Answer
  <2>2. SavedIsWanted'
    BY <1>1, <2>1 DEF Invariant, SavedIsWanted, Restored
  <2>3. TypeOK'
    BY <1>1, <1>2, <1>4, <2>1 DEF Invariant, TypeOK, world
  <2>4. ~complete' => call.form = "query" /\ call.checked # sent.to
    <3> SUFFICES ASSUME ~complete' PROVE call.form = "query" /\ call.checked # sent.to
      OBVIOUS
    <3>1. version[sent.to] = "new" /\ call.form = "query" /\ call.method # "findOne"
      BY <1>1, <1>5 DEF TellsAll
    <3>2. version[call.checked] # "new"
      BY <3>1 DEF Invariant, LegacyForOldServers
    <3> QED BY <3>1, <3>2
  <2> QED BY <1>1, <1>3, <1>5, <2>1, <2>2, <2>3, <2>4
          DEF Invariant, WritesReachPrimary, ValuesAreDone, ListsAreThatServers
<1>6. CASE ~(v = "ok" /\ call.method \in Lists)
  <2>1. Finish(Replied(v))
    BY <1>6 DEF Answer
  <2>2. /\ SavedIsWanted' /\ rp' \in [collection : Preferences, database : Preferences]
        /\ saved' = NoPreference /\ pc' = "idle" /\ result' = Replied(v)
    BY <1>1, <2>1, FinishRestores
  <2>3. TypeOK'
    BY <1>1, <1>2, <1>4, <2>2, RepliedTypes DEF Invariant, TypeOK, world
  <2>4. ValuesAreDone'
    BY <1>1, <2>2, RepliedSound DEF ValuesAreDone
  <2>5. ListsAreThatServers'
    <3> SUFFICES ASSUME Replied(v) = "list", ~complete' PROVE FALSE
      BY <2>2 DEF ListsAreThatServers
    <3>1. v # "ok"
      BY <1>6 DEF Replied, OnSuccess
    <3> QED BY <1>1, <3>1, RepliedList
  <2> QED BY <1>1, <1>3, <2>2, <2>3, <2>4, <2>5 DEF Invariant, WritesReachPrimary
<1> QED BY <1>5, <1>6

\* The exchange fails, or never begins: what is then returned as a value was
\* an insert that asked for no answer.
LEMMA FailedKeeps ==
  ASSUME Invariant, pc = "reply", NEW r \in {"value", "false", "null", "exception"}, Finish(r),
         r = "value" => call.concern # "acknowledged", applied' \in BOOLEAN,
         believed' \in [Servers -> {"primary", "secondary", "unknown"}],
         UNCHANGED <<call, sent, calls, wanted, complete>>, UNCHANGED world
  PROVE  Invariant'
<1>1. /\ SavedIsWanted' /\ rp' \in [collection : Preferences, database : Preferences]
      /\ saved' = NoPreference /\ pc' = "idle" /\ result' = r
  BY FinishRestores
<1>2. TypeOK'
  BY <1>1 DEF Invariant, TypeOK, world
<1>3. LegacyForOldServers(call)'
  BY DEF Invariant, LegacyForOldServers, world
<1> QED BY <1>1, <1>2, <1>3
        DEF Invariant, WritesReachPrimary, ValuesAreDone, ListsAreThatServers

LEMMA NoAnswerKeeps ==
  ASSUME Invariant, NEW done \in BOOLEAN, NoAnswer(done) PROVE Invariant'
<1>1. /\ pc = "reply"
      /\ applied' = (done /\ call.writes /\ "ok" \in Verdicts(sent.to))
      /\ believed' = [believed EXCEPT ![sent.to] = "unknown"]
      /\ UNCHANGED <<call, sent, calls, wanted, complete>> /\ UNCHANGED world
  BY DEF NoAnswer
<1>2. PICK r \in {"false", "exception"} : Finish(r)
  BY DEF NoAnswer
<1>3. believed' \in [Servers -> {"primary", "secondary", "unknown"}] /\ applied' \in BOOLEAN
  BY <1>1 DEF Invariant, TypeOK
<1> QED BY <1>1, <1>2, <1>3, FailedKeeps

LEMMA NotDeliveredKeeps == ASSUME Invariant, NotDelivered PROVE Invariant'
<1>1. /\ pc = "reply" /\ applied' = FALSE
      /\ UNCHANGED <<believed, call, sent, calls, wanted, complete>> /\ UNCHANGED world
  BY DEF NotDelivered
<1>2. PICK r \in {"value", "false", "null"} :
        Finish(r) /\ (r = "value" => call.concern # "acknowledged")
  BY DEF NotDelivered, ByOpcode
<1>3. believed' \in [Servers -> {"primary", "secondary", "unknown"}]
  BY <1>1 DEF Invariant, TypeOK
<1> QED BY <1>1, <1>2, <1>3, FailedKeeps

LEMMA IterateKeeps ==
  ASSUME Invariant, NEW ok \in BOOLEAN, Iterate(ok) PROVE Invariant'
<1>1. PICK r \in {"list", "exception"} : Finish(r)
  BY DEF Iterate
<1>2. /\ pc = "iterate"
      /\ believed' \in {believed, [believed EXCEPT ![sent.to] = "unknown"]}
      /\ UNCHANGED <<call, sent, calls>> /\ UNCHANGED world /\ UNCHANGED history
  BY DEF Iterate
<1>3. /\ SavedIsWanted' /\ rp' \in [collection : Preferences, database : Preferences]
      /\ saved' = NoPreference /\ pc' = "idle" /\ result' = r
  BY <1>1, <1>2, FinishRestores DEF history
<1>4. TypeOK'
  BY <1>2, <1>3 DEF Invariant, TypeOK, world, history
<1>5. LegacyForOldServers(call)'
  BY <1>2 DEF Invariant, LegacyForOldServers, world
<1>6. ListsAreThatServers'
  BY <1>2 DEF Invariant, ListsAreThatServers, history
<1> QED BY <1>2, <1>3, <1>4, <1>5, <1>6 DEF Invariant, WritesReachPrimary, ValuesAreDone

-----------------------------------------------------------------------------
LEMMA InitInvariant == Init => Invariant
<1> SUFFICES ASSUME Init PROVE Invariant
  OBVIOUS
<1>1. PICK d \in Deployments : replset = d.replset /\ version = d.version
  BY DEF Init
<1>2. replset \in BOOLEAN /\ version \in [Servers -> {"old", "mid", "new"}]
  BY <1>1, ParameterAssumption
<1>3. role \in [Servers -> {"primary", "secondary", "down"}]
  BY DEF Init
<1>4. believed \in [Servers -> {"primary", "secondary", "unknown"}]
  BY DEF Init
<1>5. rp \in [collection : Preferences, database : Preferences] /\ wanted = rp
  BY ParameterAssumption DEF Init, Primary
<1>6. call = NoCall /\ pc = "idle" /\ sent = NotSent /\ result = None /\ saved = NoPreference
      /\ elections = 0 /\ calls = 0 /\ applied = FALSE /\ complete = TRUE
  BY DEF Init
<1>7. IsCall(call) /\ Built(call)
  <2>1. call = [method |-> "command", cmd |-> "dbStats", writes |-> FALSE, rp |-> Primary,
                form |-> "command", concern |-> "acknowledged", checked |-> None]
    BY <1>6 DEF NoCall
  <2>2. Primary \in Preferences
    BY ParameterAssumption DEF Primary
  <2>3. IsCall(call)
    BY <2>1, <2>2 DEF IsCall, Concerns
  <2> QED BY <2>1, <2>3 DEF Built, Lists
<1>8. TypeOK
  <2>1. /\ call.rp \in Preferences /\ call.checked \in Servers \cup {None}
        /\ call.writes \in BOOLEAN /\ call.form \in {"command", "query", "insert"}
        /\ call.concern \in Concerns
    BY <1>7 DEF IsCall
  <2>2. sent.to \in Servers \cup {None}
    BY <1>6 DEF NotSent
  <2>3. elections \in 0..MaxElections /\ calls \in 0..MaxCalls
    BY <1>6, ParameterAssumption
  <2>4. applied \in BOOLEAN /\ complete \in BOOLEAN
    BY <1>6
  <2>5. saved \in Preferences \cup {NoPreference} /\ result = None /\ pc = "idle"
    BY <1>6
  <2> QED BY <1>2, <1>3, <1>4, <1>5, <2>1, <2>2, <2>3, <2>4, <2>5 DEF TypeOK
<1> QED BY <1>5, <1>6, <1>7, <1>8
        DEF Invariant, LegacyForOldServers, SavedIsWanted, Restored, NoCall, NotSent,
            WritesReachPrimary, ValuesAreDone, ListsAreThatServers

LEMMA NextInvariant == Invariant /\ [Next]_vars => Invariant'
<1> SUFFICES ASSUME Invariant, [Next]_vars PROVE Invariant'
  OBVIOUS
<1>1. ASSUME NEW s \in Servers, NEW f \in {"secondary", "down"}, Election(s, f) PROVE Invariant'
  BY <1>1, ElectionKeeps
<1>2. ASSUME NEW of \in {"collection", "database"}, NEW p \in Preferences,
             SetReadPreference(of, p)
      PROVE Invariant'
  BY <1>2, SetReadPreferenceKeeps
<1>3. CASE Methods
  BY <1>3, MethodsKeep
<1>4. CASE InvalidArguments
  BY <1>4, RefusedKeeps DEF InvalidArguments
<1>5. CASE NoServer
  BY <1>5, RefusedKeeps DEF NoServer
<1>6. ASSUME NEW s \in Servers, NEW b \in Looks PROVE
        /\ CreateIndexCommand(s, b) \/ ListIndexesCommand(s, b) \/ ListCollectionsCommand(s, b)
             => Invariant'
        /\ \A w \in Concerns : CreateIndexLegacy(s, b, w) => Invariant'
        /\ ListIndexesLegacy(s, b) \/ ListCollectionsLegacy(s, b) => Invariant'
        /\ RunCommand(s, b) => Invariant'
  <2> /\ call.rp \in Preferences /\ rp.database \in Preferences /\ call.concern \in Concerns
      /\ call.form \in {"command", "query", "insert"}
    BY DEF Invariant, TypeOK
  <2>0. call = [method |-> call.method, cmd |-> call.cmd, writes |-> call.writes, rp |-> call.rp,
                form |-> call.form, concern |-> call.concern, checked |-> call.checked]
    BY DEF Invariant, Built, IsCall
  <2>3. pc = "check" => call.form # "query"
    BY DEF Invariant
  <2>4. ASSUME NEW method, Checked(method, s, b, call) PROVE Invariant'
    <3>1. call = [call EXCEPT !.form = call.form, !.concern = call.concern, !.rp = call.rp]
      BY <2>0
    <3>2. pc = "check"
      BY <2>4 DEF Checked
    <3> DEFINE f == call.form
               k == call.concern
               q == call.rp
               c == call
    <3>3. /\ f \in {"command", "query", "insert"} /\ f # "query" /\ k \in Concerns
          /\ q \in Preferences /\ q = call.rp
          /\ c = [call EXCEPT !.form = f, !.concern = k, !.rp = q] /\ Checked(method, s, b, c)
      BY <2>3, <2>4, <3>1, <3>2
    <3> HIDE DEF f, k, q, c
    <3> QED BY <3>3, CheckedKeeps
  <2>5. ASSUME NEW w \in Concerns, CreateIndexLegacy(s, b, w) PROVE Invariant'
    <3> DEFINE q == call.rp
               c == [call EXCEPT !.form = "insert", !.concern = w]
    <3>1. /\ Checked("createIndex", s, b, c) /\ q \in Preferences /\ q = call.rp
          /\ c = [call EXCEPT !.form = "insert", !.concern = w, !.rp = q]
      BY <2>0, <2>5 DEF CreateIndexLegacy
    <3> HIDE DEF q, c
    <3> QED BY <3>1, CheckedKeeps
  <2>6. ASSUME ListIndexesLegacy(s, b) \/ ListCollectionsLegacy(s, b) PROVE Invariant'
    <3>1. PICK method \in Lists : version[s] # "new" /\ Checked(method, s, b, AsQuery(rp.database))
      BY <2>6 DEF ListIndexesLegacy, ListCollectionsLegacy, Lists
    <3> DEFINE q == rp.database
               k == call.concern
               c == AsQuery(q)
    <3>2. /\ Checked(method, s, b, c) /\ q \in Preferences /\ k \in Concerns
          /\ c = [call EXCEPT !.form = "query", !.concern = k, !.rp = q]
      BY <2>0, <3>1 DEF AsQuery
    <3> HIDE DEF q, k, c
    <3> QED BY <3>1, <3>2, CheckedKeeps
  <2>7. CreateIndexCommand(s, b) \/ ListIndexesCommand(s, b) \/ ListCollectionsCommand(s, b)
          => Invariant'
    BY <2>4 DEF CreateIndexCommand, ListIndexesCommand, ListCollectionsCommand
  <2> QED BY <2>5, <2>6, <2>7, RunCommandKeeps
<1>7. ASSUME NEW v \in {"ok", "failed", "missing", "notmaster"}, Answer(v) PROVE Invariant'
  BY <1>7, AnswerKeeps
<1>8. ASSUME NEW done \in BOOLEAN, NotDelivered \/ NoAnswer(done) \/ Iterate(done) PROVE Invariant'
  BY <1>8, NotDeliveredKeeps, NoAnswerKeeps, IterateKeeps
<1>9. CASE UNCHANGED vars
  BY <1>9 DEF vars, Invariant, TypeOK, LegacyForOldServers, SavedIsWanted, Restored,
              WritesReachPrimary, ValuesAreDone, ListsAreThatServers, Built
<1> QED BY <1>1, <1>2, <1>3, <1>4, <1>5, <1>6, <1>7, <1>8, <1>9 DEF Next, Methods

LEMMA Inductive == Spec => []Invariant
BY InitInvariant, NextInvariant, PTL DEF Spec

\* What is stored of a call, of the registry and of the preferences keeps its
\* type, whatever the servers answer.
THEOREM TypeCorrect == Spec => []TypeOK
<1>1. Invariant => TypeOK
  BY DEF Invariant
<1> QED BY <1>1, Inductive, PTL

\* In a replica set the commands that change data, of every method but
\* command(), go to a server believed to be the primary.
THEOREM WritesGoToThePrimary == Spec => []WritesReachPrimary
<1>1. Invariant => WritesReachPrimary
  BY DEF Invariant
<1> QED BY <1>1, Inductive, PTL

\* The read preference survives every end of an aggregation with $out.
THEOREM PreferenceSurvives == Spec => []ReadPrefKept
<1>1. Invariant => ReadPrefKept
  BY DEF Invariant, SavedIsWanted, Restored, ReadPrefKept
<1> QED BY <1>1, Inductive, PTL

\* A call that changes data and returns a value has changed it, unless it is
\* the insert of an index with w = 0, or createCollection().
THEOREM ValuesMeanDone == Spec => []ValuesAreDone
<1>1. Invariant => ValuesAreDone
  BY DEF Invariant
<1> QED BY <1>1, Inductive, PTL

\* A list that lacks entries was not read from the server that was asked for
\* its version.
THEOREM ShortListsAreAnothers == Spec => []ListsAreThatServers
<1>1. Invariant => ListsAreThatServers
  BY DEF Invariant
<1> QED BY <1>1, Inductive, PTL

-----------------------------------------------------------------------------
(***************************************************************************)
(* Proofs about ServerSelection: which server the read preference of such a  *)
(* call, and of every query and write, chooses.  The invariant follows the   *)
(* candidates through the pipeline: before the tag sets they are what the    *)
(* user may use of the admitted types, behind them what the first tag set    *)
(* that matches leaves, and from the sort on they stand in an order of which *)
(* the cut and the pick look at the first and at the last.                   *)
(***************************************************************************)
USE DEF PRIMARY, SECONDARY, NotChosen

\* What the filters leave of the registry, before and after the tag sets.
Suitable ==
  {k \in DOMAIN cons : Mine(k) /\ cons[k].type \in TypesOf(Mode)}

Matching(S) ==
  IF DOMAIN TagSets = {} THEN S
  ELSE {k \in S : \E j \in DOMAIN TagSets :
          /\ \A l \in DOMAIN TagSets :
               l < j => \A c \in S : ~MatchesTags(c, TagSets[l])
          /\ MatchesTags(k, TagSets[j])}

Sorted(S) ==
  /\ rank \in [S -> Int]
  /\ \A a, b \in S :
       a # b => rank[a] # rank[b] /\ (rank[a] < rank[b] => Precedes(a, b))

First(S, k) == k \in S /\ \A l \in S : rank[k] <= rank[l]
Cut(S, first) == {k \in S : cons[k].ping <= cons[first].ping + Latency}

Picked(S) ==
  /\ Sorted(S)
  /\ \E first \in S : First(S, first) /\ cands = Cut(S, first)

Outcome(S) ==
  \/ S = {} /\ chosen = NotChosen
  \/ /\ Picked(S)
     /\ \E first, last \in cands :
          /\ IsFirst(first) /\ IsLast(last)
          /\ chosen \in Pickable(first, last)

Typed ==
  /\ cons \in Connections /\ client \in Clients /\ SelectionTypeOK
  /\ step # "done" => chosen = NotChosen

Stage ==
  /\ step = "limit" =>
       cands = {k \in DOMAIN cons : cons[k].type \in TypesOf(Mode)}
  /\ step = "credentials" =>
       cands = {k \in DOMAIN cons :
                  /\ cons[k].type \in TypesOf(Mode)
                  /\ IF ReplSet THEN BySetName(k) ELSE BySeed(k)}
  /\ step = "tags" => cands = Suitable
  /\ step = "sort" => cands = Matching(Suitable)
  /\ step = "nearest" => cands = Matching(Suitable) /\ Sorted(Matching(Suitable))
  /\ step = "pick" => Picked(Matching(Suitable))
  /\ step = "done" => Outcome(Matching(Suitable))

SelectionInvariant == Typed /\ Stage

LEMMA SelectionBegins == SelectionInit => SelectionInvariant
BY DEF SelectionInit, SelectionInvariant, Typed, Stage, SelectionTypeOK

\* What the filters compare is fixed while they run.
LEMMA AskedIsFixed ==
  ASSUME UNCHANGED <<cons, client, purpose>>
  PROVE  /\ Suitable' = Suitable
         /\ Matching(Suitable)' = Matching(Suitable)
         /\ Mode' = Mode
         /\ TagSets' = TagSets
<1>1. Mode' = Mode /\ TagSets' = TagSets
  BY DEF Mode, TagSets, ReplSet
<1>2. Suitable' = Suitable
  BY <1>1 DEF Suitable, Mine, ReplSet, TypesOf
<1>3. Matching(Suitable)' = Matching(Suitable)
  BY <1>1, <1>2 DEF Matching, MatchesTags
<1> QED
  BY <1>1, <1>2, <1>3

LEMMA SelectionCounts ==
  ASSUME NEW T, IsFiniteSet(T), NEW U
  PROVE  Cardinality(T \cap U) = Cardinality(T) <=> T \subseteq U
<1>1. IsFiniteSet(T \cap U) /\ (Cardinality(T) = Cardinality(T \cap U) => T = T \cap U)
  BY FS_Subset
<1>2. Cardinality(T) = Cardinality(T)
  BY DEF Cardinality, Cardinality
<1>3. Cardinality(T \cap U) = Cardinality(T \cap U)
  BY DEF Cardinality, Cardinality
<1> QED
  BY <1>1, <1>2, <1>3


LEMMA CollectKeeps ==
  ASSUME SelectionInvariant, Collect
  PROVE  SelectionInvariant'
<1>1. Typed'
  BY DEF SelectionInvariant, Typed, SelectionTypeOK, Collect, asked
<1>2. cands' = {k \in DOMAIN cons : cons[k].type \in TypesOf(Mode)}
      /\ step' = "limit" /\ UNCHANGED <<cons, client, purpose>>
  BY DEF Collect, asked
<1>3. {k \in DOMAIN cons : cons[k].type \in TypesOf(Mode)}'
      = {k \in DOMAIN cons : cons[k].type \in TypesOf(Mode)}
  BY <1>2, AskedIsFixed DEF TypesOf
<1>4. Stage'
  BY <1>2, <1>3 DEF Stage
<1> QED
  BY <1>1, <1>4 DEF SelectionInvariant

LEMMA LimitKeeps ==
  ASSUME SelectionInvariant, Limit
  PROVE  SelectionInvariant'
<1>1. Typed'
  BY DEF SelectionInvariant, Typed, SelectionTypeOK, Limit, asked,
         Keep
<1>2. /\ cands = {k \in DOMAIN cons : cons[k].type \in TypesOf(Mode)}
      /\ cands' = IF ReplSet THEN {k \in cands : BySetName(k)}
                  ELSE {k \in cands : BySeed(k)}
      /\ step' = "credentials" /\ UNCHANGED <<cons, client, purpose>>
  BY DEF Limit, asked, Keep, SelectionInvariant, Stage
<1>3. cands' = {k \in DOMAIN cons :
                  /\ cons[k].type \in TypesOf(Mode)
                  /\ IF ReplSet THEN BySetName(k) ELSE BySeed(k)}
  BY <1>2
<1>4. {k \in DOMAIN cons :
         /\ cons[k].type \in TypesOf(Mode)
         /\ IF ReplSet THEN BySetName(k) ELSE BySeed(k)}'
      = {k \in DOMAIN cons :
           /\ cons[k].type \in TypesOf(Mode)
           /\ IF ReplSet THEN BySetName(k) ELSE BySeed(k)}
  BY <1>2, AskedIsFixed
     DEF TypesOf, BySetName, BySeed, ReplSet
<1>5. Stage'
  BY <1>2, <1>3, <1>4 DEF Stage
<1> QED
  BY <1>1, <1>5 DEF SelectionInvariant

LEMMA CredentialsKeep ==
  ASSUME SelectionInvariant, Credentials
  PROVE  SelectionInvariant'
<1>1. Typed'
  BY DEF SelectionInvariant, Typed, SelectionTypeOK, Credentials, asked,
         Keep
<1>2. /\ cands = {k \in DOMAIN cons :
                    /\ cons[k].type \in TypesOf(Mode)
                    /\ IF ReplSet THEN BySetName(k) ELSE BySeed(k)}
      /\ cands' = {k \in cands : client.user = "-" \/ cons[k].user = client.user}
      /\ step' = "tags" /\ UNCHANGED <<cons, client, purpose>>
  BY DEF Credentials, asked, Keep, SelectionInvariant, Stage
<1>3. ASSUME NEW k
      PROVE  Mine(k) <=>
               /\ IF ReplSet THEN BySetName(k) ELSE BySeed(k)
               /\ client.user = "-" \/ cons[k].user = client.user
  BY DEF Mine, BySetName, BySeed
<1>4. cands' = Suitable
  BY <1>2, <1>3 DEF Suitable
<1>5. Stage'
  BY <1>2, <1>4, AskedIsFixed DEF Stage
<1> QED
  BY <1>1, <1>5 DEF SelectionInvariant

LEMMA TagsKeep ==
  ASSUME SelectionInvariant, Tags
  PROVE  SelectionInvariant'
<1>1. Typed'
  BY DEF SelectionInvariant, Typed, SelectionTypeOK, Tags, asked
<1>2. /\ cands = Suitable /\ cands' = Matching(cands)
      /\ step' = "sort" /\ UNCHANGED <<cons, client, purpose>>
  BY DEF Tags, asked, Decides, Matching, SelectionInvariant, Stage
<1>3. Stage'
  BY <1>2, AskedIsFixed DEF Stage
<1> QED
  BY <1>1, <1>3 DEF SelectionInvariant

LEMMA GiveUpKeeps ==
  ASSUME SelectionInvariant, GiveUp
  PROVE  SelectionInvariant'
<1>1. Typed'
  BY DEF SelectionInvariant, Typed, SelectionTypeOK, GiveUp, asked
<1>2. /\ Matching(Suitable) = {} /\ chosen' = NotChosen
      /\ step' = "done" /\ UNCHANGED <<cons, client, purpose>>
  BY DEF GiveUp, asked, SelectionInvariant, Stage, Typed
<1>3. Stage'
  BY <1>2, AskedIsFixed DEF Stage, Outcome
<1> QED
  BY <1>1, <1>3 DEF SelectionInvariant

LEMMA SortKeeps ==
  ASSUME SelectionInvariant, Sort
  PROVE  SelectionInvariant'
<1>1. Typed'
  BY DEF SelectionInvariant, Typed, SelectionTypeOK, Sort, asked
<1>2. /\ cands = Matching(Suitable) /\ cands' = cands
      /\ step' = "nearest" /\ UNCHANGED <<cons, client, purpose>>
  BY DEF Sort, asked, SelectionInvariant, Stage
<1>3. \A a, b : Precedes(a, b)' <=> Precedes(a, b)
  BY <1>2 DEF Precedes
<1>4. Sorted(Matching(Suitable))'
  <2>1. /\ rank' \in [cands -> Int]
        /\ \A a, b \in cands : a # b =>
             rank'[a] # rank'[b] /\ (rank'[a] < rank'[b] => Precedes(a, b))
    BY DEF Sort
  <2> QED
    BY <2>1, <1>2, <1>3, AskedIsFixed DEF Sorted
<1>5. Stage'
  BY <1>2, <1>4, AskedIsFixed DEF Stage
<1> QED
  BY <1>1, <1>5 DEF SelectionInvariant


LEMMA NearestKeeps ==
  ASSUME SelectionInvariant, Nearest
  PROVE  SelectionInvariant'
<1>1. Typed'
  BY DEF SelectionInvariant, Typed, SelectionTypeOK, Nearest, asked,
         Keep
<1>2. /\ cands = Matching(Suitable) /\ Sorted(Matching(Suitable))
      /\ step' = "pick" /\ UNCHANGED <<cons, client, purpose, rank>>
  BY DEF Nearest, asked, SelectionInvariant, Stage
<1>3. Sorted(Matching(Suitable))'
  BY <1>2, AskedIsFixed DEF Sorted, Precedes
<1>4. PICK first \in cands : First(cands, first) /\ cands' = Cut(cands, first)
  BY DEF Nearest, Keep, Near, IsFirst, First, Cut
<1>5. ASSUME NEW S, S = cands, Matching(Suitable)' = S, Sorted(Matching(Suitable))'
      PROVE  Picked(Matching(Suitable))'
  <2>1. /\ first \in S /\ \A l \in S : rank'[first] <= rank'[l]
        /\ cands' = {k \in S : cons'[k].ping <= cons'[first].ping + Latency}
    BY <1>2, <1>4, <1>5 DEF First, Cut
  <2> QED
    BY <2>1, <1>5 DEF Picked, First, Cut
<1>6. Picked(Matching(Suitable))'
  BY <1>2, <1>3, <1>5, AskedIsFixed
<1>7. Stage'
  BY <1>2, <1>6 DEF Stage
<1> QED
  BY <1>1, <1>7 DEF SelectionInvariant

LEMMA PickKeeps ==
  ASSUME SelectionInvariant, Pick
  PROVE  SelectionInvariant'
<1>1. /\ Picked(Matching(Suitable)) /\ step' = "done"
      /\ UNCHANGED <<cons, client, purpose, cands, rank>>
  BY DEF Pick, asked, SelectionInvariant, Stage
<1>2. PICK first \in cands, last \in cands :
        IsFirst(first) /\ IsLast(last)
        /\ chosen' \in Pickable(first, last)
  BY DEF Pick
<1>3. chosen' \in cands
  BY <1>2 DEF Pickable
<1>4. Typed'
  BY <1>1, <1>3 DEF SelectionInvariant, Typed, SelectionTypeOK
<1>5. Picked(Matching(Suitable))'
  <2>1. Matching(Suitable)' = Matching(Suitable)
    BY <1>1, AskedIsFixed
  <2>2. \A a, b : Precedes(a, b)' <=> Precedes(a, b)
    BY <1>1 DEF Precedes
  <2> QED
    BY <1>1, <2>1, <2>2 DEF Picked, Sorted, First, Cut
<1>6. /\ first \in cands' /\ last \in cands'
      /\ IsFirst(first)' /\ IsLast(last)'
      /\ chosen' \in Pickable(first, last)'
  BY <1>1, <1>2
     DEF IsFirst, IsLast, Pickable, ListedTwice,
         ReplSet
<1>7. Outcome(Matching(Suitable))'
  BY <1>5, <1>6 DEF Outcome
<1>8. Stage'
  BY <1>1, <1>7 DEF Stage
<1> QED
  BY <1>4, <1>8 DEF SelectionInvariant


THEOREM ChoiceIsSound ==
  SelectionSpec => []SelectionInvariant
<1>1. ASSUME SelectionInvariant, UNCHANGED selectionVars
      PROVE  SelectionInvariant'
  <2>1. UNCHANGED <<cons, client, purpose, step, cands, rank, chosen>>
    BY <1>1 DEF selectionVars
  <2>2. Typed'
    BY <1>1, <2>1 DEF SelectionInvariant, Typed, SelectionTypeOK
  <2>3. \A a, b : Precedes(a, b)' <=> Precedes(a, b)
    BY <2>1 DEF Precedes
  <2>4. Outcome(Matching(Suitable))' <=> Outcome(Matching(Suitable))
    <3>1. Picked(Matching(Suitable))' <=> Picked(Matching(Suitable))
      BY <2>1, <2>3, AskedIsFixed DEF Picked, Sorted, First, Cut
    <3>2. \A first, last : Pickable(first, last)' = Pickable(first, last)
      BY <2>1 DEF Pickable, ListedTwice, ReplSet
    <3>3. \A k : /\ IsFirst(k)' <=> IsFirst(k)
                 /\ IsLast(k)' <=> IsLast(k)
      BY <2>1 DEF IsFirst, IsLast
    <3> QED
      BY <2>1, <3>1, <3>2, <3>3, AskedIsFixed DEF Outcome
  <2>5. Picked(Matching(Suitable))' <=> Picked(Matching(Suitable))
    BY <2>1, <2>3, AskedIsFixed DEF Picked, Sorted, First, Cut
  <2>6. Sorted(Matching(Suitable))' <=> Sorted(Matching(Suitable))
    BY <2>1, <2>3, AskedIsFixed DEF Sorted
  <2>7. \A k : /\ BySetName(k)' <=> BySetName(k)
               /\ BySeed(k)' <=> BySeed(k)
    BY <2>1 DEF BySetName, BySeed
  <2>8. \A m : TypesOf(m)' = TypesOf(m)
    BY DEF TypesOf
  <2>9. ReplSet' <=> ReplSet
    BY <2>1 DEF ReplSet
  <2>10. Stage'
    BY <1>1, <2>1, <2>4, <2>5, <2>6, <2>7, <2>8, <2>9, AskedIsFixed
       DEF SelectionInvariant, Stage
  <2> QED
    BY <2>2, <2>10 DEF SelectionInvariant
<1>2. SelectionInvariant /\ [SelectionNext]_(selectionVars) => SelectionInvariant'
  BY <1>1, CollectKeeps, LimitKeeps, CredentialsKeep, TagsKeep, GiveUpKeeps, SortKeeps,
     NearestKeeps, PickKeeps DEF SelectionNext
<1> QED
  BY SelectionBegins, <1>2, PTL DEF SelectionSpec

-----------------------------------------------------------------------------
\* What the sort and the cut leave to pick from.
LEMMA FirstAndLast ==
  ASSUME NEW S, Picked(S), Typed,
         NEW first \in cands, NEW last \in cands,
         IsFirst(first), IsLast(last), S \subseteq DOMAIN cons
  PROVE  /\ \A k \in S : k = first \/ Precedes(first, k)
         /\ \A k \in cands : k = last \/ Precedes(k, last)
         /\ cands = Cut(S, first) /\ first \in S
<1>1. PICK f \in S : First(S, f) /\ cands = Cut(S, f)
  BY DEF Picked
<1>2. \A k \in S : cons[k].ping \in Int
  BY SelectionAssumption DEF Typed
<1>3. f \in cands
  BY <1>1, <1>2, SelectionAssumption DEF Cut
<1>4. cands \subseteq S
  BY <1>1 DEF Cut
<1>5. /\ \A k \in S : rank[k] \in Int
      /\ \A a, b \in S :
           a # b => rank[a] # rank[b] /\ (rank[a] < rank[b] => Precedes(a, b))
  BY DEF Picked, Sorted
<1>6. f = first
  BY <1>1, <1>3, <1>4, <1>5 DEF First, IsFirst
<1>7. \A k \in S : k = first \/ Precedes(first, k)
  BY <1>1, <1>5, <1>6 DEF First
<1>8. \A k \in cands : k = last \/ Precedes(k, last)
  BY <1>4, <1>5 DEF IsLast
<1> QED
  BY <1>1, <1>6, <1>7, <1>8

\* A sort by ping time alone leaves the closest.
LEMMA ByPing ==
  ASSUME NEW S, Picked(S), Typed, S \subseteq DOMAIN cons,
         NEW first \in cands, NEW last \in cands,
         IsFirst(first), IsLast(last),
         \/ client.mode \notin {"primaryPreferred", "secondaryPreferred"}
         \/ \A a, b \in S : cons[a].type = cons[b].type
  PROVE  cands \subseteq Closest(S)
<1>1. \A k \in S : cons[k].ping \in Int /\ cons[k].type \in Int
  BY SelectionAssumption DEF Typed, AnyType, STANDALONE, ARBITER, MONGOS
<1>2. /\ \A k \in S : k = first \/ Precedes(first, k)
      /\ cands = Cut(S, first) /\ first \in S
  BY FirstAndLast
<1>3. \A k \in S : cons[first].ping <= cons[k].ping
  BY <1>1, <1>2 DEF Precedes
<1>4. Latency \in Nat
  BY SelectionAssumption
<1> QED
  BY <1>1, <1>2, <1>3, <1>4 DEF Cut, Closest


LEMMA ReadsUseTags ==
  ASSUME Typed, ReplSet, purpose = "read"
  PROVE  /\ Mode = client.mode /\ TagSets = client.tagsets
         /\ \A k, j : j \in DOMAIN client.tagsets =>
              (MatchesTags(k, client.tagsets[j]) <=>
                 \/ client.mode = "primaryPreferred" /\ cons[k].type = PRIMARY
                 \/ HasTags(k, j))
<1>1. Mode = client.mode /\ TagSets = client.tagsets
  BY DEF Mode, TagSets
<1>2. ASSUME NEW k, NEW j \in DOMAIN client.tagsets
      PROVE  MatchesTags(k, client.tagsets[j]) <=>
               \/ client.mode = "primaryPreferred" /\ cons[k].type = PRIMARY
               \/ HasTags(k, j)
  <2>1. IsFiniteSet(client.tagsets[j])
    BY SelectionAssumption DEF Typed
  <2>2. IsFiniteSet(client.tagsets[j])
    BY <2>1 DEF IsFiniteSet, IsFiniteSet
  <2> QED
    BY <1>1, <2>2, SelectionCounts DEF MatchesTags, HasTags
<1> QED
  BY <1>1, <1>2

LEMMA MatchingIsTagged ==
  ASSUME Typed, ReplSet, purpose = "read", NEW S,
         \/ client.mode # "primaryPreferred"
         \/ \A k \in S : cons[k].type # PRIMARY
  PROVE  Matching(S) = FirstTagged(S)
BY ReadsUseTags DEF Matching, FirstTagged

\* A preferred primary is never lost to tag sets: the first one admits it.
LEMMA PrimariesMatch ==
  ASSUME Typed, ReplSet, purpose = "read", NEW S,
         client.mode = "primaryPreferred", NEW p \in S, cons[p].type = PRIMARY
  PROVE  p \in Matching(S)
<1>1. CASE DOMAIN client.tagsets = {}
  BY <1>1, ReadsUseTags DEF Matching
<1>2. CASE DOMAIN client.tagsets # {}
  <2>1. 1 \in DOMAIN client.tagsets /\ \A l \in DOMAIN client.tagsets : ~(l < 1)
    BY <1>2, SelectionAssumption DEF Typed
  <2> QED
    BY <1>2, <2>1, ReadsUseTags DEF Matching
<1> QED
  BY <1>1, <1>2

LEMMA MatchingWithin ==
  ASSUME NEW S
  PROVE  Matching(S) \subseteq S
BY DEF Matching

\* Primaries and secondaries as far as the mode admits them.
Admitted ==
  {k \in Primaries : client.mode # "secondary"} \cup {k \in Secondaries : client.mode # "primary"}

LEMMA SuitableForReads ==
  ASSUME Typed, ReplSet, purpose = "read"
  PROVE  Suitable = Admitted
<1>1. Mode = client.mode /\ client.mode # "any"
  BY SelectionAssumption DEF Mode, Typed, Modes
<1>2. \A t : t \in TypesOf(client.mode) <=>
        \/ t = PRIMARY /\ client.mode # "secondary"
        \/ t = SECONDARY /\ client.mode # "primary"
  BY <1>1 DEF TypesOf, AnyType
<1> QED
  BY <1>1, <1>2
     DEF Suitable, Admitted, Primaries, Secondaries

-----------------------------------------------------------------------------
\* A read that prefers the primary.
LEMMA PrimaryPreferred ==
  ASSUME Typed, ReplSet, purpose = "read",
         client.mode = "primaryPreferred", Primaries # {},
         Outcome(Matching(Suitable))
  PROVE  chosen \in Primaries
<1> DEFINE S == Matching(Suitable)
<1>1. PICK p \in S : p \in Primaries
  <2>1. PICK p \in Primaries : TRUE
    OBVIOUS
  <2>2. p \in Suitable /\ cons[p].type = PRIMARY
    BY <2>1, SuitableForReads DEF Admitted, Primaries
  <2> QED
    BY <2>1, <2>2, PrimariesMatch
<1>2. /\ S \subseteq Admitted
      /\ S \subseteq DOMAIN cons
      /\ \A k \in S : cons[k].type = PRIMARY => k \in Primaries
      /\ \A k \in S : cons[k].type \in {PRIMARY, SECONDARY}
  BY MatchingWithin, SuitableForReads
     DEF Admitted, Primaries, Secondaries
<1>3. cons[p].type = PRIMARY
  BY <1>1 DEF Primaries
<1> HIDE DEF S
<1>4. PICK first \in cands, last \in cands :
        /\ IsFirst(first) /\ IsLast(last) /\ Picked(S)
        /\ chosen \in Pickable(first, last)
  BY <1>1 DEF Outcome, S
<1>5. first \in S /\ (p = first \/ Precedes(first, p))
  BY <1>1, <1>2, <1>4, FirstAndLast
<1>6. cons[first].type = PRIMARY
  BY <1>2, <1>3, <1>5 DEF Precedes
<1> QED
  BY <1>2, <1>4, <1>5, <1>6 DEF Pickable


\* A read that prefers a secondary, with one primary on record.
LEMMA SecondaryPreferred ==
  ASSUME Typed, ReplSet, purpose = "read",
         client.mode = "secondaryPreferred", OnePrimary,
         NEW S, S = FirstTagged(Admitted), S # {}, Outcome(S)
  PROVE  chosen \in IF S \cap Secondaries # {}
                    THEN Closest(S \cap Secondaries) ELSE S
<1>1. /\ S \subseteq DOMAIN cons
      /\ S \subseteq Primaries \cup Secondaries
      /\ \A k \in S : cons[k].ping \in Int
  BY SelectionAssumption DEF FirstTagged, Admitted, Primaries, Secondaries, Typed
<1>2. \A k \in S : /\ k \in Primaries <=> cons[k].type = PRIMARY
                   /\ k \in Secondaries <=> cons[k].type = SECONDARY
                   /\ cons[k].type \in {PRIMARY, SECONDARY}
  BY <1>1 DEF Primaries, Secondaries
<1>3. PICK first \in cands, last \in cands :
        /\ IsFirst(first) /\ IsLast(last) /\ Picked(S)
        /\ chosen \in Pickable(first, last)
  BY DEF Outcome
<1>4. /\ \A k \in S : k = first \/ Precedes(first, k)
      /\ \A k \in cands : k = last \/ Precedes(k, last)
      /\ cands = Cut(S, first) /\ first \in S
  BY <1>1, <1>3, FirstAndLast
<1>5. cands \subseteq S /\ chosen \in cands
  BY <1>3, <1>4 DEF Cut, Pickable
<1>6. ASSUME NEW s \in S, s \in Secondaries
      PROVE  chosen \in Closest(S \cap Secondaries)
  <2>1. cons[first].type = SECONDARY
    BY <1>2, <1>4, <1>6 DEF Precedes
  <2>2. \A k \in S : cons[k].type = SECONDARY => cons[first].ping <= cons[k].ping
    BY <1>1, <1>4, <2>1 DEF Precedes
  <2>3. cons[chosen].type = SECONDARY
    <3>1. SUFFICES ASSUME cons[chosen].type = PRIMARY PROVE FALSE
      BY <1>2, <1>5
    <3>2. chosen = last \/ Precedes(chosen, last)
      BY <1>4, <1>5
    <3>3. cons[last].type = PRIMARY
      BY <1>2, <1>5, <3>1, <3>2 DEF Precedes
    <3>4. chosen = last
      BY <1>2, <1>3, <1>5, <3>1, <3>3 DEF OnePrimary
    <3>5. cands # {last}
      BY <1>3, <2>1, <3>3
    <3> QED
      BY <1>3, <3>3, <3>4, <3>5 DEF Pickable, ListedTwice
  <2>4. cons[chosen].ping <= cons[first].ping + Latency
    BY <1>4, <1>5 DEF Cut
  <2>5. \A k \in S : cons[k].type = SECONDARY =>
          cons[chosen].ping <= cons[k].ping + Latency
    BY <1>1, <1>4, <1>5, <2>2, <2>4, SelectionAssumption
  <2> QED
    BY <1>2, <1>5, <2>3, <2>5 DEF Closest
<1> QED
  BY <1>5, <1>6

\* Any other read of a replica set.
LEMMA OtherReads ==
  ASSUME Typed, ReplSet, purpose = "read",
         client.mode # "secondaryPreferred",
         \/ client.mode # "primaryPreferred"
         \/ Primaries = {},
         NEW S, S = FirstTagged(Admitted), S # {}, Outcome(S)
  PROVE  chosen \in Closest(S)
<1>1. S \subseteq DOMAIN cons
  BY DEF FirstTagged, Admitted, Primaries, Secondaries
<1>2. \/ client.mode \notin {"primaryPreferred", "secondaryPreferred"}
      \/ \A a, b \in S : cons[a].type = cons[b].type
  BY DEF FirstTagged, Admitted, Secondaries
<1>3. PICK first \in cands, last \in cands :
        /\ IsFirst(first) /\ IsLast(last) /\ Picked(S)
        /\ chosen \in Pickable(first, last)
  BY DEF Outcome
<1>4. chosen \in cands
  BY <1>3 DEF Pickable
<1> QED
  BY <1>1, <1>2, <1>3, <1>4, ByPing

-----------------------------------------------------------------------------
\* The same servers as the document and its departures name, in the order of
\* the filters: tag sets over the types that were admitted, then the latency.
Filtered ==
  IF client.mode # "secondaryPreferred" THEN Closest(FirstTagged(Admitted))
  ELSE IF FirstTagged(Admitted) \cap Secondaries # {}
       THEN Closest(FirstTagged(Admitted) \cap Secondaries)
       ELSE FirstTagged(Admitted)

Before == {ss \in Nat \X Nat : ss[1] < ss[2]}

\* Of the tag sets that some of S match one is the first.
LEMMA SomeAreTagged ==
  ASSUME Typed, NEW S, NEW k \in S, NEW j \in DOMAIN client.tagsets, HasTags(k, j)
  PROVE  FirstTagged(S) # {}
<1> DEFINE T == {i \in DOMAIN client.tagsets : \E c \in S : HasTags(c, i)}
<1>1. DOMAIN client.tagsets \subseteq Nat
  BY SelectionAssumption DEF Typed
<1>2. T # {} /\ T \subseteq Nat
  BY <1>1
<1>3. IsWellFoundedOn(Before, Nat)
  BY NatLessThanWellFounded DEF OpToRel, Before
<1> HIDE DEF T
<1>4. PICK m \in T : \A i \in T : <<i, m>> \notin Before
  BY <1>2, <1>3, WFMin
<1>5. \A i \in T : ~(i < m)
  BY <1>2, <1>4 DEF Before
<1>6. PICK c \in S : HasTags(c, m)
  BY <1>4 DEF T
<1>7. m \in DOMAIN client.tagsets
  BY <1>4 DEF T
<1>8. \A l \in DOMAIN client.tagsets : l < m => \A d \in S : ~HasTags(d, l)
  BY <1>5 DEF T
<1>9. c \in FirstTagged(S)
  BY <1>6, <1>7, <1>8 DEF FirstTagged
<1> QED
  BY <1>9

\* A first tag set that some secondary matches is the first of the secondaries.
LEMMA TaggedAmong ==
  ASSUME Typed, NEW S, NEW U, S \subseteq U, FirstTagged(U) \cap S # {}
  PROVE  FirstTagged(U) \cap S = FirstTagged(S)
<1>1. CASE DOMAIN client.tagsets = {}
  BY <1>1 DEF FirstTagged
<1>2. CASE DOMAIN client.tagsets # {}
  <2>1. DOMAIN client.tagsets \subseteq Int
    BY SelectionAssumption DEF Typed
  <2>2. PICK d \in S, i \in DOMAIN client.tagsets :
          HasTags(d, i) /\ \A l \in DOMAIN client.tagsets : l < i => \A c \in U : ~HasTags(c, l)
    BY <1>2 DEF FirstTagged
  <2>3. ASSUME NEW k \in FirstTagged(S) PROVE k \in FirstTagged(U)
    <3>1. PICK j \in DOMAIN client.tagsets :
            HasTags(k, j) /\ \A l \in DOMAIN client.tagsets : l < j => \A c \in S : ~HasTags(c, l)
      BY <1>2, <2>3 DEF FirstTagged
    <3>2. k \in S /\ k \in U
      BY <1>2, <2>3 DEF FirstTagged
    <3>3. ~(i < j) /\ ~(j < i)
      BY <2>2, <3>1, <3>2
    <3>4. i = j
      BY <2>1, <3>3
    <3> QED
      BY <1>2, <2>2, <3>1, <3>2, <3>4 DEF FirstTagged
  <2>4. FirstTagged(S) \subseteq S
    BY DEF FirstTagged
  <2>5. ASSUME NEW k \in FirstTagged(U), k \in S PROVE k \in FirstTagged(S)
    BY <1>2, <2>5 DEF FirstTagged
  <2> QED
    BY <2>3, <2>4, <2>5
<1> QED
  BY <1>1, <1>2

LEMMA ReadsOfPrimaries ==
  ASSUME Typed, OnePrimary, NEW S, S \subseteq Primaries
  PROVE  Closest(S) = S
<1>1. \A k \in S : cons[k].ping \in Int
  BY SelectionAssumption DEF Typed, Primaries
<1>2. Latency \in Nat
  BY SelectionAssumption
<1> QED
  BY <1>1, <1>2 DEF Closest, OnePrimary

LEMMA FilteredIsAllowed ==
  ASSUME Typed, OnePrimary, ~(client.mode = "primaryPreferred" /\ Primaries # {})
  PROVE  MayBeReadFrom = Filtered
<1>1. client.mode \in Modes
  BY SelectionAssumption DEF Typed
<1>2. \A S : FirstTagged(S) \subseteq S
  BY DEF FirstTagged
<1>3. CASE client.mode = "primary"
  <2>1. Admitted = Primaries
    BY <1>3 DEF Admitted
  <2> QED
    BY <1>2, <1>3, <2>1, ReadsOfPrimaries DEF MayBeReadFrom, PrimaryDecides, Filtered
<1>4. CASE client.mode = "primaryPreferred"
  <2>1. Admitted = Secondaries
    BY <1>4 DEF Admitted
  <2> QED
    BY <1>4, <2>1 DEF MayBeReadFrom, PrimaryDecides, Documented, Filtered
<1>5. CASE client.mode = "secondary"
  <2>1. Admitted = Secondaries
    BY <1>5 DEF Admitted
  <2> QED
    BY <1>5, <2>1 DEF MayBeReadFrom, PrimaryDecides, Documented, Filtered
<1>6. CASE client.mode = "nearest"
  <2>1. Admitted = Primaries \cup Secondaries
    BY <1>6 DEF Admitted
  <2> QED
    BY <1>6, <2>1 DEF MayBeReadFrom, PrimaryDecides, Documented, Filtered
<1>7. CASE client.mode = "secondaryPreferred"
  <2> DEFINE U == Primaries \cup Secondaries
  <2>1. Admitted = U
    BY <1>7 DEF Admitted
  <2>2. CASE DOMAIN client.tagsets = {}
    <3>1. FirstTagged(U) = U /\ FirstTagged(Secondaries) = Secondaries /\ ~PrimaryDecides
      BY <2>2 DEF FirstTagged, PrimaryDecides
    <3>2. U \cap Secondaries = Secondaries
      OBVIOUS
    <3> QED
      BY <1>7, <2>1, <2>2, <3>1, <3>2 DEF MayBeReadFrom, Documented, Filtered
  <2>3. CASE DOMAIN client.tagsets # {} /\ FirstTagged(U) \cap Secondaries # {}
    <3>1. FirstTagged(U) \cap Secondaries = FirstTagged(Secondaries)
      BY <2>3, TaggedAmong
    <3>2. \A k : ~(k \in Primaries /\ k \in Secondaries)
      BY DEF Primaries, Secondaries
    <3>3. ~PrimaryDecides
      BY <2>3, <3>2 DEF PrimaryDecides
    <3>4. MayBeReadFrom = Closest(FirstTagged(Secondaries))
      BY <1>7, <2>3, <3>3 DEF MayBeReadFrom, Documented
    <3> QED
      BY <1>7, <2>1, <2>3, <3>1, <3>4 DEF Filtered
  <2>4. CASE DOMAIN client.tagsets # {} /\ FirstTagged(U) \cap Secondaries = {}
    <3>1. Filtered = FirstTagged(U) /\ FirstTagged(U) \subseteq Primaries
      BY <1>2, <1>7, <2>1, <2>4 DEF Filtered
    <3>2. CASE FirstTagged(U) # {}
      <4>1. PrimaryDecides
        BY <1>7, <2>4, <3>1, <3>2 DEF PrimaryDecides
      <4>2. FirstTagged(U) = Primaries
        BY <3>1, <3>2 DEF OnePrimary
      <4> QED
        BY <3>1, <4>1, <4>2 DEF MayBeReadFrom
    <3>3. CASE FirstTagged(U) = {}
      <4>1. ~PrimaryDecides
        BY <3>3 DEF PrimaryDecides
      <4>2. FirstTagged(Secondaries) = {}
        <5>1. ASSUME NEW k \in FirstTagged(Secondaries) PROVE FALSE
          <6>1. PICK j \in DOMAIN client.tagsets : k \in U /\ HasTags(k, j)
            BY <2>4, <5>1 DEF FirstTagged
          <6> QED
            BY <3>3, <6>1, SomeAreTagged
        <5> QED
          BY <5>1
      <4>3. MayBeReadFrom = Closest(FirstTagged(Secondaries))
        BY <1>7, <2>4, <4>1 DEF MayBeReadFrom, Documented
      <4> QED
        BY <3>1, <3>3, <4>2, <4>3 DEF Closest
    <3> QED
      BY <3>2, <3>3
  <2> QED
    BY <2>2, <2>3, <2>4
<1> QED
  BY <1>1, <1>3, <1>4, <1>5, <1>6, <1>7 DEF Modes

-----------------------------------------------------------------------------
LEMMA ReplicaSetReads ==
  ASSUME Typed, ReplSet, purpose = "read",
         OnePrimary, Outcome(Matching(Suitable))
  PROVE  IF MayBeReadFrom = {} THEN chosen = NotChosen
         ELSE chosen \in MayBeReadFrom
<1>1. CASE client.mode = "primaryPreferred" /\ Primaries # {}
  <2>1. MayBeReadFrom = Primaries
    BY <1>1 DEF MayBeReadFrom, PrimaryDecides, Documented
  <2> QED
    BY <1>1, <2>1, PrimaryPreferred
<1>2. CASE ~(client.mode = "primaryPreferred" /\ Primaries # {})
  <2> DEFINE S == FirstTagged(Admitted)
  <2>1. Matching(Suitable) = S
    <3>1. \/ client.mode # "primaryPreferred"
          \/ \A k \in Admitted : cons[k].type # PRIMARY
      BY <1>2 DEF Admitted, Secondaries
    <3> QED
      BY <3>1, SuitableForReads, MatchingIsTagged
  <2>2. MayBeReadFrom =
          IF client.mode # "secondaryPreferred" THEN Closest(S)
          ELSE IF S \cap Secondaries # {}
               THEN Closest(S \cap Secondaries)
               ELSE S
    BY <1>2, FilteredIsAllowed DEF Filtered
  <2>3. Outcome(S)
    BY <2>1
  <2> HIDE DEF S
  <2>4. CASE S = {}
    <3>1. ~Picked(S)
      BY <2>4 DEF Picked
    <3>2. chosen = NotChosen
      BY <2>3, <3>1 DEF Outcome
    <3>3. MayBeReadFrom = {}
      BY <2>2, <2>4 DEF Closest
    <3> QED
      BY <3>2, <3>3
  <2>5. CASE S # {}
    <3>1. CASE client.mode = "secondaryPreferred"
      BY <2>2, <2>3, <2>5, <3>1, SecondaryPreferred DEF S
    <3>2. CASE client.mode # "secondaryPreferred"
      BY <1>2, <2>2, <2>3, <2>5, <3>2, OtherReads DEF S
    <3> QED
      BY <3>1, <3>2
  <2> QED
    BY <2>4, <2>5
<1> QED
  BY <1>1, <1>2

\* A client of single servers or mongos.
LEMMA SeedReads ==
  ASSUME Typed, ~ReplSet,
         Outcome(Matching(Suitable))
  PROVE  IF Seeds = {} THEN chosen = NotChosen
         ELSE /\ chosen \in Seeds
              /\ client.mode \notin {"primaryPreferred", "secondaryPreferred"} =>
                   chosen \in Closest(Seeds)
<1> DEFINE S == Seeds
<1>1. Matching(Suitable) = S
  <2>1. Mode = "any" /\ DOMAIN TagSets = {}
    BY DEF Mode, TagSets
  <2>2. Suitable = S
    BY <2>1, SelectionAssumption DEF Suitable, TypesOf, Seeds, Typed
  <2> QED
    BY <2>1, <2>2 DEF Matching
<1>2. S \subseteq DOMAIN cons
  BY DEF Seeds
<1>3. Outcome(S)
  BY <1>1
<1> HIDE DEF S
<1>4. CASE S = {}
  BY <1>3, <1>4 DEF Outcome, Picked, S
<1>5. CASE S # {}
  <2>1. PICK first \in cands, last \in cands :
          /\ IsFirst(first) /\ IsLast(last) /\ Picked(S)
          /\ chosen \in Pickable(first, last)
    BY <1>3, <1>5 DEF Outcome
  <2>2. chosen \in cands /\ cands \subseteq S
    BY <2>1 DEF Pickable, Picked, Cut
  <2>3. client.mode \notin {"primaryPreferred", "secondaryPreferred"} =>
          chosen \in Closest(S)
    BY <1>2, <2>1, <2>2, ByPing
  <2> QED
    BY <1>5, <2>2, <2>3 DEF S
<1> QED
  BY <1>4, <1>5

LEMMA ReplicaSetWrites ==
  ASSUME Typed, ReplSet, purpose = "write",
         Outcome(Matching(Suitable))
  PROVE  IF Primaries = {} THEN chosen = NotChosen
         ELSE chosen \in Primaries
<1>1. Mode = "primary" /\ DOMAIN TagSets = {}
  BY DEF Mode, TagSets
<1>2. Matching(Suitable) = Primaries
  BY <1>1 DEF Matching, Suitable, TypesOf, AnyType, Primaries
<1> DEFINE S == Primaries
<1>3. Outcome(S)
  BY <1>2
<1> HIDE DEF S
<1>4. CASE S = {}
  BY <1>3, <1>4 DEF Outcome, Picked, S
<1>5. CASE S # {}
  BY <1>3, <1>5 DEF Outcome, Picked, Cut, Pickable, S
<1> QED
  BY <1>4, <1>5

-----------------------------------------------------------------------------
\* The candidates are places of the registry, whatever the servers are.
THEOREM CandidatesAreRegistered ==
  SelectionSpec => []SelectionTypeOK
<1>1. SelectionInvariant => SelectionTypeOK
  BY DEF SelectionInvariant, Typed
<1> QED
  BY <1>1, ChoiceIsSound, PTL

\* A read goes to a server the documented modes, tag sets and latency allow,
\* and fails only when there is none, but for the primary that tag sets
\* select (secondaryPreferred) or exclude (primary).
THEOREM ReadsGoWhereAllowed ==
  SelectionSpec => []ReadsGoWhereTheyShould
<1>1. SelectionInvariant => ReadsGoWhereTheyShould
  <2>1. SUFFICES ASSUME Typed, Outcome(Matching(Suitable)), purpose = "read"
                 PROVE  /\ ReplSet /\ OnePrimary =>
                             IF MayBeReadFrom = {} THEN chosen = NotChosen
                             ELSE chosen \in MayBeReadFrom
                        /\ ~ReplSet =>
                             IF Seeds = {} THEN chosen = NotChosen
                             ELSE /\ chosen \in Seeds
                                  /\ client.mode \notin {"primaryPreferred", "secondaryPreferred"}
                                       => chosen \in Closest(Seeds)
    BY DEF SelectionInvariant, Stage, ReadsGoWhereTheyShould
  <2>2. CASE ReplSet
    BY <2>1, <2>2, ReplicaSetReads
  <2>3. CASE ~ReplSet
    BY <2>1, <2>3, SeedReads
  <2> QED
    BY <2>2, <2>3
<1> QED
  BY <1>1, ChoiceIsSound, PTL

\* A write to a replica set goes to a primary, whatever the read preference,
\* and fails only when none is on record.
THEOREM WritesGoToAPrimary ==
  SelectionSpec => []WritesGoToPrimaries
<1>1. SelectionInvariant => WritesGoToPrimaries
  BY ReplicaSetWrites DEF SelectionInvariant, Stage, WritesGoToPrimaries
<1> QED
  BY <1>1, ChoiceIsSound, PTL

=============================================================================
