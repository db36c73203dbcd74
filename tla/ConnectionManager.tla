------------------------- MODULE ConnectionManager -------------------------
(***************************************************************************)
(* The connection manager of one PHP process: the registry of connections   *)
(* and the blacklist (mcon/manager.c), the intervals at which a connection  *)
(* is pinged and asked for its role (mcon/connections.c), and the choice of *)
(* a connection for a client.                                               *)
(*                                                                         *)
(* The registry outlives the clients, so it may hold connections of other   *)
(* clients and of the process this one was forked from.  One call takes     *)
(* many exchanges with servers; their roles may change between two of them, *)
(* and time may pass, so an exchange is a step of its own.  Instead of the  *)
(* time of the last ping the model keeps its age, up to the interval.       *)
(***************************************************************************)
EXTENDS Integers, Sequences, FiniteSets, SequencesExt

CONSTANTS
  Name,            \* host:port as written in a seed list or reported
  Machine,         \* the mongod behind each name: [Name -> machines]
  Me,              \* the name each machine gives itself in "me"
  MemberLists,     \* what members of the set may report in "hosts"
  Clients,         \* [seeds, set, repl, types]: the clients that may connect
  PingInterval,    \* manager->ping_interval, in ticks
  MasterInterval,  \* manager->ismaster_interval, in ticks
  Start,           \* the roles the machines may have at first
  MaxChanges,      \* bound on what happens to servers, new clients and forks
  MaxWait,         \* bound on the ticks one call takes
  MaxPid           \* bound on the processes of a chain of forks

Machines == {Machine[n] : n \in Name}
Pid == 1..MaxPid
NoSet == "-"
SetName == {"rs", "other", NoSet}
Role == {"primary", "secondary", "foreign", "invalid", "incompatible"}
NodeType == {"UNKNOWN", "PRIMARY", "SECONDARY"}
Horizon == MasterInterval + MaxWait

(* A server definition of a client, and what mongo_server_create_hash()      *)
(* makes of it; credentials are left out.                                   *)
ServerDef == [host : Name, set : SetName]
Hash == [host : Name, set : SetName, pid : Pid]

(* stale and dead are history: how long ago the server stopped having the    *)
(* role that is recorded, and how long ago the socket broke.                *)
Fresh == -1
Con == [type : {"UNKNOWN", "PRIMARY", "SECONDARY"}, ping : 0..PingInterval, ismaster : 0..MasterInterval,
        replcheck : 0..MasterInterval,
        stale : Fresh..Horizon, dead : Fresh..Horizon]
NoCon == [type |-> "NONE"]

ASSUME ManagerAssumption ==
  /\ PingInterval \in Nat \ {0} /\ MasterInterval \in Nat \ {0}
  /\ MaxChanges \in Nat /\ MaxWait \in Nat /\ MaxPid \in Nat \ {0}
  /\ Machine \in [Name -> Machines] /\ Me \in [Machines -> Name]
  /\ MemberLists \subseteq Seq(Name)
  /\ Start \subseteq [Machines -> Role]
  /\ Clients \subseteq
       [seeds : Seq(Name) \ {<<>>}, set : SetName, repl : BOOLEAN, types : SUBSET NodeType]

VARIABLES
  up, role, members,   \* the servers: reachable, role, reported "hosts"
  registry,            \* manager->connections
  blacklist,           \* manager->blacklist, in order
  pid,                 \* getpid()
  client, servers,     \* the client; its servers->server[]
  set_name,            \* servers->options.repl_set_name
  pc, flag,            \* where the call is; its connection_flags
  i, target, hosts,    \* loop counter; definition at hand; found_hosts to do
  connected,           \* found_connected_server > 0
  supported,           \* found_supported_wire_version
  answer,              \* the hash of the connection returned
  begun,               \* history: hashes of the list when the call began
  waited, changes      \* bounds: ticks in this call, changes of the servers

world == <<up, role, members, changes>>
manager == <<registry, blacklist, pid>>
call == <<pc, flag, i, target, hosts, connected, supported, answer, begun,
          waited>>
vars == <<world, manager, client, servers, set_name, call>>

-----------------------------------------------------------------------------
HashOf(def) == [host |-> def.host, set |-> def.set, pid |-> pid]

(* mongo_manager_connection_find_by_hash() *)
Known(def) == registry[HashOf(def)] # NoCon

(* What ismaster says of a server: its type and the name of its set. *)
TypeOf(r) == IF r = "secondary" THEN "SECONDARY" ELSE "PRIMARY"
SetOf(r) == IF r = "foreign" THEN "other" ELSE "rs"
Serving(r) == r \in {"primary", "secondary", "foreign"}

(* The type on record in a connection is the one the server has. *)
Confirms(type, r) == Serving(r) /\ TypeOf(r) = type

Older(age, limit) == IF age < limit THEN age + 1 ELSE limit
OlderSince(age) == IF age = Fresh THEN Fresh ELSE Older(age, Horizon)

(* mongo_connection_create() and the exchanges of a new connection with a    *)
(* server: ismaster (whose verdict 4 counts as success here), buildinfo,     *)
(* authentication and the first ping.                                       *)
NewCon(r) ==
  [type |-> IF r = "incompatible" THEN "UNKNOWN" ELSE TypeOf(r), ping |-> 0,
   ismaster |-> IF r = "incompatible" THEN MasterInterval ELSE 0,
   replcheck |-> MasterInterval, stale |-> Fresh, dead |-> Fresh]

Entries(hash) == {k \in DOMAIN blacklist : blacklist[k].hash = hash}
FirstEntry(hash) == CHOOSE k \in Entries(hash) : \A l \in Entries(hash) : k <= l

(* Mutant: whoever is on the blacklist is refused. *)
MutantBlacklisted(hash) == Entries(hash) # {}

(* mongo_connection_ping_check() of the entry that is found first. *)
Blacklisted(hash) ==
  Entries(hash) # {} /\ blacklist[FirstEntry(hash)].age < PingInterval

(* Mutant: the expired entry stays on the blacklist. *)
MutantForgiven(hash) == blacklist

Forgiven(hash) ==
  IF Entries(hash) = {} THEN blacklist
  ELSE RemoveAt(blacklist, FirstEntry(hash))

BlacklistRegister(list, hash) == Append(list, [hash |-> hash, age |-> 0])

(* Mutant: the connection that failed its ping or its ismaster is kept. *)
MutantDeregister(def) == UNCHANGED registry

Deregister(def) == registry' = [registry EXCEPT ![HashOf(def)] = NoCon]

(* mongo_get_connection_single() with flags f: registry and blacklist after  *)
(* it.  The connection, if it returns one, is the registered one.           *)
GetConnectionSingle(def, f) ==
  LET hash == HashOf(def)
      m == Machine[def.host]
      con == registry[hash]
  IN \/ Blacklisted(hash) /\ UNCHANGED <<registry, blacklist>>
     \/ ~Blacklisted(hash) /\ f = "dont_connect"
        /\ blacklist' = Forgiven(hash) /\ UNCHANGED registry
     \/ ~Blacklisted(hash) /\ f # "dont_connect" /\ con # NoCon
        /\ blacklist' = Forgiven(hash)
        /\ \/ con.ping < PingInterval /\ UNCHANGED registry
           \/ con.ping = PingInterval /\ con.dead = Fresh
              /\ registry' = [registry EXCEPT ![hash].ping = 0]
           \/ con.ping = PingInterval /\ con.dead # Fresh /\ Deregister(def)
     \/ ~Blacklisted(hash) /\ f # "dont_connect" /\ con = NoCon
        /\ \/ ~up[m] /\ UNCHANGED registry
              /\ blacklist' = BlacklistRegister(Forgiven(hash), hash)
           \/ up[m] /\ role[m] = "invalid"
              /\ blacklist' = Forgiven(hash) /\ UNCHANGED registry
           \/ up[m] /\ role[m] # "invalid" /\ blacklist' = Forgiven(hash)
              /\ registry' = [registry EXCEPT ![hash] = NewCon(role[m])]

(* What GetConnectionSingle() returned, from the state it left: a blacklist  *)
(* hit returns NULL even when a connection is registered.                   *)
Returned(def) == ~Blacklisted(HashOf(def)) /\ registry'[HashOf(def)] # NoCon

(* Mutant: the interval is compared with the time of the last ping. *)
MutantIsmaster(def, validate) ==
  LET con == registry[HashOf(def)]
  IN IF con = NoCon THEN "none"
     ELSE IF con.ping < MasterInterval THEN "skipped"
     ELSE "error"

(* The outcome of mongo_connection_ismaster(); validate says that a server   *)
(* definition is passed, and with it the checks of its name and its set.    *)
Ismaster(def, validate) ==
  LET con == registry[HashOf(def)]
      r == role[Machine[def.host]]
      last == IF validate THEN con.replcheck ELSE con.ismaster
  IN IF con = NoCon THEN "none"
     ELSE IF last < MasterInterval THEN "skipped"
     ELSE IF con.dead # Fresh THEN "error"
     ELSE IF r = "incompatible" THEN "unsupported"
     ELSE IF r = "invalid" THEN "error"
     ELSE IF ~validate THEN "ok"
     ELSE IF set_name \notin {NoSet, SetOf(r)} THEN "wrong set"
     ELSE IF Me[Machine[def.host]] # def.host THEN "renamed"
     ELSE "ok"

(* What a successful ismaster leaves in the connection. *)
Confirmed(def, validate) ==
  LET r == role[Machine[def.host]]
  IN [registry[HashOf(def)] EXCEPT
        !.type = TypeOf(r), !.ismaster = 0,
        !.replcheck = IF validate THEN 0 ELSE @,
        !.stale = Fresh]

-----------------------------------------------------------------------------
Init ==
  /\ up = [m \in Machines |-> TRUE]
  /\ role \in Start
  /\ members \in MemberLists
  /\ registry = [h \in Hash |-> NoCon] /\ blacklist = <<>> /\ pid = 1
  /\ client \in Clients
  /\ servers = [k \in DOMAIN client.seeds |->
                  [host |-> client.seeds[k], set |-> client.set]]
  /\ set_name = client.set
  /\ pc = "idle" /\ flag = "read" /\ i = 1 /\ target = servers[1]
  /\ hosts = <<>> /\ connected = FALSE /\ supported = TRUE
  /\ answer = NoCon /\ begun = {} /\ waited = 0 /\ changes = 0

(* Time passes, between calls and in a call that waits for a server. *)
Tick ==
  /\ pc # "idle" => waited < MaxWait
  /\ waited' = IF pc = "idle" THEN 0 ELSE waited + 1
  /\ registry' =
       [h \in Hash |->
          IF registry[h] = NoCon THEN NoCon
          ELSE [registry[h] EXCEPT
                  !.ping = Older(@, PingInterval),
                  !.ismaster = Older(@, MasterInterval),
                  !.replcheck = Older(@, MasterInterval),
                  !.stale = OlderSince(@), !.dead = OlderSince(@)]]
  /\ blacklist' = [k \in DOMAIN blacklist |->
                     [blacklist[k] EXCEPT !.age = Older(@, PingInterval)]]
  /\ UNCHANGED <<world, pid, client, servers, set_name, pc, flag, i, target,
                 hosts, connected, supported, answer, begun>>

(* A server crashes: its sockets break.  It may be started again. *)
Crash(m) ==
  /\ changes < MaxChanges /\ up[m]
  /\ up' = [up EXCEPT ![m] = FALSE] /\ changes' = changes + 1
  /\ registry' = [h \in Hash |->
       IF registry[h] # NoCon /\ Machine[h.host] = m /\ registry[h].dead = Fresh
       THEN [registry[h] EXCEPT !.dead = 0] ELSE registry[h]]
  /\ UNCHANGED <<role, members, blacklist, pid, client, servers, set_name, call>>

Restart(m) ==
  /\ ~up[m] /\ up' = [up EXCEPT ![m] = TRUE]
  /\ UNCHANGED <<role, members, changes, manager, client, servers, set_name, call>>

(* An election, a reconfiguration, an upgrade. *)
ChangeRole(m, r) ==
  /\ changes < MaxChanges /\ role[m] # r
  /\ role' = [role EXCEPT ![m] = r] /\ changes' = changes + 1
  /\ registry' = [h \in Hash |->
       IF registry[h] = NoCon \/ Machine[h.host] # m THEN registry[h]
       ELSE [registry[h] EXCEPT
               !.stale = IF Confirms(registry[h].type, r) THEN Fresh
                         ELSE IF @ = Fresh THEN 0 ELSE @]]
  /\ UNCHANGED <<up, members, blacklist, pid, client, servers, set_name, call>>

ChangeMembers(list) ==
  /\ changes < MaxChanges /\ members # list
  /\ members' = list /\ changes' = changes + 1
  /\ UNCHANGED <<up, role, manager, client, servers, set_name, call>>

World == \/ \E m \in Machines : Crash(m) \/ Restart(m)
         \/ \E m \in Machines, r \in Role : ChangeRole(m, r)
         \/ \E list \in MemberLists : ChangeMembers(list)

-----------------------------------------------------------------------------
(* Another MongoClient takes over; the registry and the blacklist stay. *)
NewClient(c) ==
  /\ pc = "idle" /\ c # client /\ changes < MaxChanges /\ changes' = changes + 1
  /\ client' = c /\ set_name' = c.set
  /\ servers' = [k \in DOMAIN c.seeds |-> [host |-> c.seeds[k], set |-> c.set]]
  /\ target' = servers'[1]
  /\ UNCHANGED <<up, role, members, manager, pc, flag, i, hosts, connected,
                 supported, answer, begun, waited>>

(* The process forks; the model follows the child, which has the registry of *)
(* its parent.                                                              *)
Fork ==
  /\ pc = "idle" /\ pid < MaxPid /\ pid' = pid + 1
  /\ changes < MaxChanges /\ changes' = changes + 1
  /\ UNCHANGED <<up, role, members, registry, blacklist, client, servers,
                 set_name, call>>

(* mongo_get_read_write_connection(), for a write, a read, connect() (which  *)
(* takes any server) or a look at what is connected (DONT_CONNECT).          *)
Begin(f) ==
  /\ pc = "idle"
  /\ pc' = "connect" /\ flag' = f /\ i' = 1 /\ waited' = 0
  /\ begun' = {HashOf(servers[k]) : k \in DOMAIN servers}
  /\ UNCHANGED <<world, manager, client, servers, set_name, target, hosts,
                 connected, supported, answer>>

(* The first loop: a connection to each server of the list. *)
Connect ==
  /\ pc = "connect" /\ i \in DOMAIN servers
  /\ GetConnectionSingle(servers[i], flag)
  /\ target' = servers[i]
  /\ \/ Returned(servers[i]) /\ ~client.repl
        /\ pc' = "verify" /\ UNCHANGED <<i, connected>>
     \/ Returned(servers[i]) /\ client.repl
        /\ connected' = TRUE /\ i' = i + 1 /\ UNCHANGED pc
     \/ ~Returned(servers[i]) /\ i' = i + 1 /\ UNCHANGED <<pc, connected>>
  /\ UNCHANGED <<world, pid, client, servers, set_name, flag, hosts, supported,
                 answer, begun, waited>>

(* The ismaster without a server definition that follows a connection: of a  *)
(* seed in mongo_get_connection_multiple(), of a new host in                *)
(* mongo_discover_topology().                                               *)
Verify ==
  /\ pc = "verify"
  /\ LET result == Ismaster(target, FALSE)
     IN /\ \/ result = "skipped" /\ UNCHANGED registry
           \/ result = "ok"
              /\ registry' = [registry EXCEPT ![HashOf(target)] = Confirmed(target, FALSE)]
           \/ result \in {"error", "unsupported"} /\ Deregister(target)
        /\ supported' = (supported /\ result # "unsupported")
        /\ IF client.repl
           THEN pc' = "hosts" /\ UNCHANGED <<i, connected>>
           ELSE /\ pc' = "connect" /\ i' = i + 1
                /\ connected' = (connected \/ result \in {"skipped", "ok"})
  /\ UNCHANGED <<world, blacklist, pid, client, servers, set_name, flag, target,
                 hosts, answer, begun, waited>>

ConnectDone ==
  /\ pc = "connect" /\ i \notin DOMAIN servers
  /\ i' = 1
  /\ pc' = IF ~supported THEN "done"
           ELSE IF ~connected /\ flag = "dont_connect" THEN "done"
           ELSE IF client.repl THEN "discover" ELSE "choose"
  /\ UNCHANGED <<world, manager, client, servers, set_name, flag, target, hosts,
                 connected, supported, answer, begun, waited>>

(* The loop of mongo_discover_topology(), over a list that grows. *)
Discover ==
  /\ pc = "discover" /\ i \in DOMAIN servers
  /\ LET def == servers[i]
         result == Ismaster(def, TRUE)
         r == role[Machine[def.host]]
         me == Me[Machine[def.host]]
     IN /\ target' = def
        /\ \/ /\ ~Known(def) \/ result = "skipped"
              /\ i' = i + 1
              /\ UNCHANGED <<registry, servers, set_name, pc, hosts, supported>>
           \/ /\ Known(def) /\ result \in {"error", "unsupported", "wrong set"}
              /\ Deregister(def) /\ i' = i + 1
              /\ supported' = (supported /\ result # "unsupported")
              /\ servers' = IF result = "wrong set"
                            THEN [servers EXCEPT ![i].host = me] ELSE servers
              /\ UNCHANGED <<set_name, pc, hosts>>
           \/ /\ Known(def) /\ result \in {"ok", "renamed"}
              /\ IF result = "renamed" THEN Deregister(def)
                 ELSE registry' = [registry EXCEPT ![HashOf(def)] = Confirmed(def, TRUE)]
              /\ servers' = [servers EXCEPT ![i] =
                   [host |-> me, set |-> IF def.set = NoSet THEN SetOf(r) ELSE def.set]]
              /\ set_name' = IF set_name = NoSet THEN SetOf(r) ELSE set_name
              /\ hosts' = IF r = "foreign" THEN <<me>> ELSE members
              /\ pc' = "hosts" /\ UNCHANGED <<i, supported>>
  /\ UNCHANGED <<world, blacklist, pid, client, flag, connected, answer, begun, waited>>

(* mongo_servers_contains() *)
ServersContain(list, def) == \E k \in DOMAIN list : list[k] = def

(* One host of the reply: connect to it and list it, if it is new; the role  *)
(* of the client's own call does not matter.                                *)
DiscoverHost ==
  /\ pc = "hosts" /\ hosts # <<>>
  /\ LET def == [host |-> Head(hosts), set |-> servers[i].set]
     IN /\ \/ Known(def) /\ UNCHANGED <<registry, blacklist, pc>>
           \/ ~Known(def) /\ GetConnectionSingle(def, "write")
              /\ pc' = IF Returned(def) THEN "verify" ELSE "hosts"
        /\ servers' = IF ServersContain(servers, def) THEN servers ELSE Append(servers, def)
        /\ target' = def
  /\ hosts' = Tail(hosts)
  /\ UNCHANGED <<world, pid, client, set_name, flag, i, connected, supported,
                 answer, begun, waited>>

DiscoverHostsDone ==
  /\ pc = "hosts" /\ hosts = <<>>
  /\ pc' = "discover" /\ i' = i + 1
  /\ UNCHANGED <<world, manager, client, servers, set_name, flag, target, hosts,
                 connected, supported, answer, begun, waited>>

DiscoverDone ==
  /\ pc = "discover" /\ i \notin DOMAIN servers
  /\ pc' = IF supported THEN "choose" ELSE "done"
  /\ UNCHANGED <<world, manager, client, servers, set_name, flag, i, target,
                 hosts, connected, supported, answer, begun, waited>>

(* The types of filter_connections(): "UNKNOWN" is registered as STANDALONE. *)
Types ==
  IF ~client.repl \/ flag = "connect" THEN NodeType
  ELSE IF flag = "write" THEN {"PRIMARY"}
  ELSE client.types

(* mongo_find_candidate_servers() without credentials and tag sets: by set   *)
(* name or by seed.                                                         *)
Candidates ==
  {h \in Hash :
     /\ registry[h] # NoCon /\ h.pid = pid /\ registry[h].type \in Types
     /\ IF client.repl THEN h.set # NoSet /\ set_name \in {NoSet, h.set}
        ELSE \E k \in DOMAIN servers : h = HashOf(servers[k])}

(* The choice among the candidates depends on ping times: any of them. *)
Choose ==
  /\ pc = "choose"
  /\ IF Candidates = {} THEN answer' = NoCon ELSE answer' \in Candidates
  /\ pc' = "done"
  /\ UNCHANGED <<world, manager, client, servers, set_name, flag, i, target,
                 hosts, connected, supported, begun, waited>>

Return ==
  /\ pc = "done" /\ pc' = "idle" /\ flag' = "read" /\ i' = 1
  /\ target' = servers[1] /\ connected' = FALSE /\ supported' = TRUE
  /\ answer' = NoCon /\ begun' = {} /\ waited' = 0
  /\ UNCHANGED <<world, manager, client, servers, set_name, hosts>>

Call == Connect \/ Verify \/ ConnectDone \/ Discover \/ DiscoverHost
        \/ DiscoverHostsDone \/ DiscoverDone \/ Choose \/ Return

Flag == {"write", "read", "connect", "dont_connect"}

Next == \/ Call \/ Tick \/ World \/ Fork
        \/ \E c \in Clients : NewClient(c)
        \/ \E f \in Flag : Begin(f)

Spec == Init /\ [][Next]_vars

-----------------------------------------------------------------------------
(* Every variable has its type; a list of servers has room for the seeds.   *)
TypeOK ==
  /\ up \in [Machines -> BOOLEAN] /\ role \in [Machines -> Role]
  /\ members \in MemberLists /\ changes \in 0..MaxChanges
  /\ registry \in [Hash -> Con \cup {NoCon}]
  /\ blacklist \in Seq([hash : Hash, age : 0..PingInterval]) /\ pid \in Pid
  /\ client \in Clients /\ servers \in Seq(ServerDef) /\ set_name \in SetName
  /\ pc \in {"idle", "connect", "verify", "discover", "hosts", "choose", "done"}
  /\ flag \in Flag /\ i \in Nat /\ target \in ServerDef /\ hosts \in Seq(Name)
  /\ connected \in BOOLEAN /\ supported \in BOOLEAN
  /\ answer \in Hash \cup {NoCon} /\ begun \subseteq Hash /\ waited \in 0..MaxWait

(* The blacklist has at most one entry for a server, and none for a server   *)
(* with a registered connection: mongo_manager_blacklist_register() appends  *)
(* without looking, and a registered connection that is blacklisted would be *)
(* unreachable until the entry expires (mcon/manager.c:50).                  *)
BlacklistSound ==
  \A k \in DOMAIN blacklist :
    /\ registry[blacklist[k].hash] = NoCon
    /\ \A l \in DOMAIN blacklist : blacklist[l].hash = blacklist[k].hash => k = l

(* A call returns only connections whose server told its role, though one of *)
(* an unsupported wire version is registered without (mcon/manager.c:93).  A  *)
(* server that was in the client's list when the call began is used only for  *)
(* a role it had less than a master interval before the call: stepping down   *)
(* is noticed, however many clients share the registry                       *)
(* (mcon/connections.c:293).                                                *)
RoleRecent ==
  /\ answer # NoCon => registry[answer].type # "UNKNOWN"
  /\ answer \in begun => registry[answer].stale < MasterInterval + waited

(* No call returns a connection that another process opened: two processes on *)
(* one socket mix replies (mcon/read_preference.c:96).  A call that may       *)
(* connect returns no socket that broke more than a ping interval before it,  *)
(* for a server that was in the list when it began (mcon/connections.c:229).  *)
SocketRecent ==
  /\ answer # NoCon => answer.pid = pid
  /\ answer \in begun /\ flag # "dont_connect" =>
       registry[answer].dead < PingInterval + waited

-----------------------------------------------------------------------------
(* A script that keeps writing, and a clock that keeps running.  The calls   *)
(* of the driver run to their end; other calls may come in between.          *)
Fairness ==
  /\ WF_vars(Call) /\ SF_vars(Begin("write")) /\ SF_vars(pc = "idle" /\ Tick)

LiveSpec == Spec /\ Fairness

Usable(n) ==
  /\ up[Machine[n]] /\ Me[Machine[n]] = n /\ role[Machine[n]] \in {"primary", "secondary"}

(* A server that is reachable again is connected to again: no entry of the   *)
(* blacklist and no dead connection keeps a usable server of the client's    *)
(* list out for ever (mcon/manager.c:50).                                   *)
ServersReturn ==
  \A n \in Name :
    <>[](Usable(n) /\ \E k \in DOMAIN servers : servers[k] = [host |-> n, set |-> "rs"])
    => <>[](registry[[host |-> n, set |-> "rs", pid |-> pid]] # NoCon)
=============================================================================
