----------------------- MODULE ConnectionManager_proofs ----------------------
(***************************************************************************)
(* Proofs about ConnectionManager: its types, that the blacklist never hides *)
(* a registered connection, and that a call answers with connections of its *)
(* own process only, checked less than an interval before the call; for any *)
(* names, machines, clients and intervals.                                  *)
(***************************************************************************)
EXTENDS ConnectionManager, SequenceTheorems, TLAPS

Entry == [hash : Hash, age : 0..PingInterval]

\* What the ages of a connection say about its server: a check that is not due
\* yet was made after the role was lost, or the socket broken, if they were.
Sound(c) ==
  /\ c.ping < PingInterval => c.dead <= c.ping
  /\ c.ismaster < MasterInterval => c.stale <= c.ismaster
  /\ c.replcheck < MasterInterval => c.stale <= c.replcheck
  /\ c.type = "UNKNOWN" => c.ismaster = MasterInterval /\ c.replcheck = MasterInterval

\* The places of the list the call has still to ask for their role, or to ping.
ToAsk(k) ==
  \/ pc = "connect" /\ (client.repl \/ k >= i)
  \/ pc = "verify" /\ (k > i \/ (~client.repl /\ k = i))
  \/ pc = "discover" /\ k >= i
  \/ pc = "hosts" /\ k > i

ToPing(k) ==
  \/ pc = "connect" /\ k >= i
  \/ pc = "verify" /\ ~client.repl /\ k > i

Unasked(h) == \E k \in DOMAIN servers : HashOf(servers[k]) = h /\ ToAsk(k)

Unpinged(h) == \E k \in DOMAIN servers : HashOf(servers[k]) = h /\ ToPing(k)

\* A connection c registered under h: its role is known unless the call will
\* ask for it, and what the call has asked of it is recent.
Recent(h, c) ==
  /\ Sound(c)
  /\ c.type = "UNKNOWN" =>
       \/ pc = "verify" /\ h = HashOf(target)
       \/ Unasked(h) /\ (pc = "connect" /\ client.repl => connected)
  /\ h \in begun /\ (pc = "done" => h = answer) =>
       /\ ~Unasked(h) => c.stale < MasterInterval + waited
       /\ flag # "dont_connect" /\ ~Unpinged(h) => c.dead < PingInterval + waited

AllRecent == \A h \in Hash : registry[h] # NoCon => Recent(h, registry[h])

Place ==
  /\ i >= 1 /\ 1 \in DOMAIN servers
  /\ pc \in {"discover", "hosts"} => client.repl
  /\ pc \in {"verify", "hosts"} => i \in DOMAIN servers
  /\ pc = "verify" /\ ~client.repl => target = servers[i]
  /\ pc = "connect" /\ client.repl => supported
  /\ pc = "idle" => begun = {} /\ ~connected /\ supported
  /\ answer # NoCon => pc = "done" /\ registry[answer] # NoCon /\ answer.pid = pid

Invariant == TypeOK /\ BlacklistSound /\ Place /\ AllRecent

-----------------------------------------------------------------------------
(* Connections.                                                             *)

LEMMA Numbers ==
  /\ PingInterval \in Nat \ {0} /\ MasterInterval \in Nat \ {0} /\ MaxWait \in Nat
  /\ Horizon \in Nat /\ Horizon >= MasterInterval /\ Fresh = -1
BY ManagerAssumption DEF Horizon, Fresh

LEMMA Fields ==
  ASSUME NEW c \in Con
  PROVE  /\ c # NoCon
         /\ c.ping \in 0..PingInterval
         /\ c.ismaster \in 0..MasterInterval /\ c.replcheck \in 0..MasterInterval
         /\ c.stale \in Fresh..Horizon /\ c.dead \in Fresh..Horizon
         /\ c.type \in NodeType
<1>1. c.type \in NodeType /\ NoCon.type = "NONE"
  BY DEF Con, NoCon, NodeType
<1>2. c # NoCon
  BY <1>1 DEF NodeType
<1> QED BY <1>1, <1>2 DEF Con

LEMMA NoConIsNoHash == NoCon \notin Hash
<1>1. DOMAIN NoCon = {"type"} /\ \A h \in Hash : DOMAIN h = {"host", "set", "pid"}
  BY DEF NoCon, Hash
<1>2. "type" \notin {"host", "set", "pid"}
  OBVIOUS
<1> QED BY <1>1, <1>2

LEMMA NewConSound ==
  ASSUME NEW r
  PROVE  /\ NewCon(r) \in Con /\ Sound(NewCon(r))
         /\ NewCon(r).stale = Fresh /\ NewCon(r).dead = Fresh
         /\ NewCon(r) # NoCon
<1> DEFINE c == NewCon(r)
<1>1. /\ c.ping = 0 /\ c.ismaster \in {0, MasterInterval} /\ c.replcheck = MasterInterval
      /\ c.stale = Fresh /\ c.dead = Fresh /\ c.type \in NodeType
      /\ c.type = "UNKNOWN" => c.ismaster = MasterInterval
      /\ c \in Con
  BY Numbers DEF NewCon, TypeOf, Con, NodeType
<1> HIDE DEF c
<1>2. Sound(c)
  BY <1>1, Numbers DEF Sound
<1> QED BY <1>1, <1>2, Fields DEF c

\* A tick later.
Aged(c) ==
  [c EXCEPT !.ping = Older(@, PingInterval),
            !.ismaster = Older(@, MasterInterval),
            !.replcheck = Older(@, MasterInterval),
            !.stale = OlderSince(@), !.dead = OlderSince(@)]

LEMMA AgedSound ==
  ASSUME NEW c \in Con, Sound(c)
  PROVE  /\ Aged(c) \in Con /\ Sound(Aged(c)) /\ Aged(c).type = c.type
         /\ Aged(c).stale <= c.stale + 1 /\ Aged(c).dead <= c.dead + 1
<1> DEFINE d == Aged(c)
<1>0. /\ c.ping \in 0..PingInterval
      /\ c.ismaster \in 0..MasterInterval /\ c.replcheck \in 0..MasterInterval
      /\ c.stale \in Fresh..Horizon /\ c.dead \in Fresh..Horizon
  BY Fields
<1>1. \A n, m \in Nat : n <= m => Older(n, m) \in 0..m /\ Older(n, m) <= n + 1
                                  /\ (Older(n, m) < m => Older(n, m) = n + 1)
  BY DEF Older
<1>2. \A n \in Fresh..Horizon : /\ OlderSince(n) \in Fresh..Horizon /\ OlderSince(n) <= n + 1
                                /\ (n = Fresh => OlderSince(n) = Fresh)
  BY <1>1, Numbers DEF OlderSince
<1>3. /\ d.type = c.type /\ d.ping = Older(c.ping, PingInterval)
      /\ d.ismaster = Older(c.ismaster, MasterInterval)
      /\ d.replcheck = Older(c.replcheck, MasterInterval)
      /\ d.stale = OlderSince(c.stale) /\ d.dead = OlderSince(c.dead)
  BY DEF Aged, Con
<1>4. /\ d.ping \in 0..PingInterval /\ d.ismaster \in 0..MasterInterval
      /\ d.replcheck \in 0..MasterInterval
      /\ d.stale \in Fresh..Horizon /\ d.dead \in Fresh..Horizon
  <2>1. PingInterval \in Nat /\ MasterInterval \in Nat
    BY Numbers
  <2>2. Older(c.ping, PingInterval) \in 0..PingInterval
    BY <1>0, <2>1 DEF Older
  <2>3. /\ Older(c.ismaster, MasterInterval) \in 0..MasterInterval
        /\ Older(c.replcheck, MasterInterval) \in 0..MasterInterval
    BY <1>0, <2>1 DEF Older
  <2> QED BY <1>0, <1>2, <1>3, <2>2, <2>3
<1>5. d \in Con
  BY <1>3, <1>4, Fields DEF Aged, Con
<1>6. d.stale <= c.stale + 1 /\ d.dead <= c.dead + 1
  BY <1>0, <1>2, <1>3
<1>7. Sound(d)
  <2>1. d.ping < PingInterval => d.ping = c.ping + 1
    BY <1>0, <1>3, Numbers DEF Older
  <2>2. d.ismaster < MasterInterval => d.ismaster = c.ismaster + 1
    BY <1>0, <1>3, Numbers DEF Older
  <2>3. d.replcheck < MasterInterval => d.replcheck = c.replcheck + 1
    BY <1>0, <1>3, Numbers DEF Older
  <2>4. c.ismaster = MasterInterval => d.ismaster = MasterInterval
    BY <1>0, <1>3, Numbers DEF Older
  <2>5. c.replcheck = MasterInterval => d.replcheck = MasterInterval
    BY <1>0, <1>3, Numbers DEF Older
  <2> HIDE DEF d
  <2> QED BY <1>0, <1>3, <1>4, <1>6, <2>1, <2>2, <2>3, <2>4, <2>5, Numbers DEF Sound
<1> QED BY <1>3, <1>5, <1>6, <1>7

\* A role change marks a connection stale, a crash breaks its socket.
LEMMA MarkedSound ==
  ASSUME NEW c \in Con, Sound(c)
  PROVE  /\ \A n \in {Fresh, 0, c.stale} :
              [c EXCEPT !.stale = n] \in Con /\ Sound([c EXCEPT !.stale = n])
         /\ [c EXCEPT !.dead = 0] \in Con /\ Sound([c EXCEPT !.dead = 0])
<1>1. \A n \in {Fresh, 0, c.stale} : n \in Fresh..Horizon
  BY Fields, Numbers
<1>2. [c EXCEPT !.dead = 0] \in Con /\ \A n \in Fresh..Horizon : [c EXCEPT !.stale = n] \in Con
  BY Numbers DEF Con
<1>3. ASSUME NEW n \in {Fresh, 0, c.stale} PROVE Sound([c EXCEPT !.stale = n])
  <2> DEFINE d == [c EXCEPT !.stale = n]
  <2>1. /\ d.type = c.type /\ d.ping = c.ping /\ d.ismaster = c.ismaster
        /\ d.replcheck = c.replcheck /\ d.dead = c.dead /\ d.stale = n
    BY DEF Con
  <2> HIDE DEF d
  <2>2. Sound(d)
    BY <2>1, Fields, Numbers DEF Sound
  <2> QED BY <2>2 DEF d
<1>4. Sound([c EXCEPT !.dead = 0])
  <2> DEFINE d == [c EXCEPT !.dead = 0]
  <2>1. /\ d.type = c.type /\ d.ping = c.ping /\ d.ismaster = c.ismaster
        /\ d.replcheck = c.replcheck /\ d.dead = 0 /\ d.stale = c.stale
    BY DEF Con
  <2> HIDE DEF d
  <2>2. Sound(d)
    BY <2>1, Fields, Numbers DEF Sound
  <2> QED BY <2>2 DEF d
<1> QED BY <1>1, <1>2, <1>3, <1>4

-----------------------------------------------------------------------------
(* The blacklist.                                                           *)

LEMMA Removed ==
  ASSUME NEW S, NEW s \in Seq(S), NEW k \in 1..Len(s)
  PROVE  /\ RemoveAt(s, k) \in Seq(S)
         /\ Len(RemoveAt(s, k)) = Len(s) - 1
         /\ \A j \in 1..(Len(s) - 1) : RemoveAt(s, k)[j] = IF j < k THEN s[j] ELSE s[j + 1]
<1> DEFINE a == SubSeq(s, 1, k - 1)
           b == SubSeq(s, k + 1, Len(s))
<1>1. Len(s) \in Nat /\ k \in Nat /\ 1 <= k /\ k <= Len(s) /\ \A j \in 1..Len(s) : s[j] \in S
  BY LenProperties, ElementOfSeq
<1>2. /\ a \in Seq(S) /\ Len(a) = k - 1
      /\ \A j \in 1..(k - 1) : a[j] = s[j]
  <2>1. /\ a \in Seq(S) /\ Len(a) = IF 1 <= k - 1 THEN (k - 1) - 1 + 1 ELSE 0
        /\ \A j \in 1..((k - 1) - 1 + 1) : a[j] = s[1 + j - 1]
    <3>1. 1 \in Int /\ k - 1 \in Int /\ \A j \in 1..(k - 1) : s[j] \in S
      BY <1>1
    <3> QED BY <3>1, SubSeqProperties
  <2> HIDE DEF a
  <2> QED BY <1>1, <2>1
<1>3. /\ b \in Seq(S) /\ Len(b) = Len(s) - k
      /\ \A j \in 1..(Len(s) - k) : b[j] = s[k + j]
  <2>1. /\ b \in Seq(S) /\ Len(b) = IF k + 1 <= Len(s) THEN Len(s) - (k + 1) + 1 ELSE 0
        /\ \A j \in 1..(Len(s) - (k + 1) + 1) : b[j] = s[(k + 1) + j - 1]
    <3>1. k + 1 \in Int /\ Len(s) \in Int /\ \A j \in (k + 1)..Len(s) : s[j] \in S
      BY <1>1
    <3> QED BY <3>1, SubSeqProperties
  <2> HIDE DEF b
  <2> QED BY <1>1, <2>1
<1> HIDE DEF a, b
<1>4. /\ a \o b \in Seq(S) /\ Len(a \o b) = Len(a) + Len(b)
      /\ \A j \in 1..(Len(a) + Len(b)) : (a \o b)[j] = IF j <= Len(a) THEN a[j] ELSE b[j - Len(a)]
  BY <1>2, <1>3, ConcatProperties
<1>5. ASSUME NEW j \in 1..(Len(s) - 1)
      PROVE  (a \o b)[j] = IF j < k THEN s[j] ELSE s[j + 1]
  <2>1. CASE j < k
    BY <1>1, <1>2, <1>3, <1>4, <2>1
  <2>2. CASE ~(j < k)
    <3>1. (a \o b)[j] = b[j - (k - 1)]
      <4>1. j \in 1..(Len(a) + Len(b)) /\ ~(j <= Len(a)) /\ Len(a) = k - 1
        BY <1>1, <1>2, <1>3, <2>2
      <4> QED BY <1>4, <4>1
    <3>2. j - (k - 1) \in 1..(Len(s) - k) /\ k + (j - (k - 1)) = j + 1
      BY <1>1, <2>2
    <3> QED BY <1>3, <2>2, <3>1, <3>2
  <2> QED BY <2>1, <2>2
<1>6. RemoveAt(s, k) = a \o b
  BY DEF RemoveAt, a, b
<1>7. Len(a \o b) = Len(s) - 1
  BY <1>1, <1>2, <1>3, <1>4
<1> QED BY <1>4, <1>5, <1>6, <1>7

LEMMA EntriesAre ==
  ASSUME NEW list \in Seq(Entry)
  PROVE  \A k \in DOMAIN list : list[k] \in Entry /\ list[k].hash \in Hash
<1>1. \A k \in DOMAIN list : list[k] \in Entry
  BY LenProperties, ElementOfSeq
<1> QED BY <1>1 DEF Entry

\* A blacklist that BlacklistSound would accept, were reg the registry.
Off(list, reg) == \A k \in DOMAIN list : reg[list[k].hash] = NoCon

Once(list) ==
  \A k, l \in DOMAIN list : list[k].hash = list[l].hash => k = l

LEMMA SoundIsOffOnce == BlacklistSound <=> Off(blacklist, registry) /\ Once(blacklist)
BY DEF BlacklistSound, Off, Once

LEMMA EntryFound ==
  ASSUME NEW hash, blacklist \in Seq(Entry), Entries(hash) # {}, Once(blacklist)
  PROVE  /\ FirstEntry(hash) \in 1..Len(blacklist)
         /\ blacklist[FirstEntry(hash)].hash = hash
<1>1. PICK k \in DOMAIN blacklist : blacklist[k].hash = hash
  BY DEF Entries
<1>2. \A l \in Entries(hash) : l = k /\ l \in DOMAIN blacklist
  BY <1>1 DEF Entries, Once
<1>3. Len(blacklist) \in Nat /\ DOMAIN blacklist = 1..Len(blacklist)
  BY LenProperties
<1>4. k \in Entries(hash) /\ \A l \in Entries(hash) : k <= l
  BY <1>1, <1>2, <1>3 DEF Entries
<1>5. FirstEntry(hash) \in Entries(hash)
  BY <1>4 DEF FirstEntry
<1> QED BY <1>3, <1>5 DEF Entries

\* What is left when a server is forgiven.
LEMMA ForgivenLeaves ==
  ASSUME NEW hash, blacklist \in Seq(Entry), Once(blacklist)
  PROVE  /\ Forgiven(hash) \in Seq(Entry) /\ Once(Forgiven(hash))
         /\ \A k \in DOMAIN Forgiven(hash) :
              /\ Forgiven(hash)[k].hash # hash
              /\ \E l \in DOMAIN blacklist : Forgiven(hash)[k] = blacklist[l]
<1>1. CASE Entries(hash) = {}
  BY <1>1 DEF Forgiven, Entries
<1>2. CASE Entries(hash) # {}
  <2> DEFINE f == FirstEntry(hash)
             s == blacklist
             t == RemoveAt(s, f)
  <2>1. f \in 1..Len(s) /\ s[f].hash = hash
    BY <1>2, EntryFound
  <2> HIDE DEF f
  <2>2. /\ t \in Seq(Entry) /\ Len(t) = Len(s) - 1
        /\ \A j \in 1..(Len(s) - 1) : t[j] = IF j < f THEN s[j] ELSE s[j + 1]
    BY <2>1, Removed
  <2>3. Len(s) \in Nat /\ DOMAIN s = 1..Len(s) /\ DOMAIN t = 1..(Len(s) - 1)
    BY <2>2, LenProperties
  <2>4. Forgiven(hash) = t
    BY <1>2 DEF Forgiven, f
  <2> HIDE DEF t
  <2> DEFINE from(j) == IF j < f THEN j ELSE j + 1
  <2>5. ASSUME NEW j \in DOMAIN t
        PROVE  from(j) \in DOMAIN s /\ from(j) # f /\ t[j] = s[from(j)]
    BY <2>1, <2>2, <2>3
  <2>6. ASSUME NEW j \in DOMAIN t, NEW k \in DOMAIN t, from(j) = from(k) PROVE j = k
    BY <2>1, <2>3, <2>6
  <2> HIDE DEF from
  <2>7. Once(t)
    BY <2>5, <2>6 DEF Once
  <2>8. \A k \in DOMAIN t : t[k].hash # hash /\ \E l \in DOMAIN s : t[k] = s[l]
    BY <2>1, <2>3, <2>5 DEF Once
  <2> QED BY <2>2, <2>4, <2>7, <2>8
<1> QED BY <1>1, <1>2

LEMMA RegisteredOnce ==
  ASSUME NEW hash \in Hash, NEW list \in Seq(Entry), Once(list),
         \A k \in DOMAIN list : list[k].hash # hash
  PROVE  /\ BlacklistRegister(list, hash) \in Seq(Entry)
         /\ Once(BlacklistRegister(list, hash))
         /\ \A k \in DOMAIN BlacklistRegister(list, hash) :
              \/ BlacklistRegister(list, hash)[k].hash = hash
              \/ \E l \in DOMAIN list : BlacklistRegister(list, hash)[k] = list[l]
<1> DEFINE e == [hash |-> hash, age |-> 0]
           t == Append(list, e)
<1>1. e \in Entry /\ e.hash = hash
  BY Numbers DEF Entry
<1> HIDE DEF e
<1>2. /\ t \in Seq(Entry) /\ Len(t) = Len(list) + 1
      /\ \A k \in 1..Len(list) : t[k] = list[k]
      /\ t[Len(list) + 1] = e
  BY <1>1, AppendProperties
<1>3. Len(list) \in Nat /\ DOMAIN list = 1..Len(list) /\ DOMAIN t = 1..(Len(list) + 1)
  BY <1>2, LenProperties
<1> HIDE DEF t
<1>4. \A k \in DOMAIN t : k = Len(list) + 1 \/ (k \in DOMAIN list /\ t[k] = list[k])
  BY <1>2, <1>3
<1>5. Once(t)
  BY <1>1, <1>2, <1>4 DEF Once
<1>6. BlacklistRegister(list, hash) = t
  BY DEF BlacklistRegister, t, e
<1> QED BY <1>1, <1>2, <1>4, <1>5, <1>6

-----------------------------------------------------------------------------
(* mongo_get_connection_single()                                            *)

Registry == registry \in [Hash -> Con \cup {NoCon}]

AllSound == \A h \in Hash : registry[h] # NoCon => Sound(registry[h])

LEMMA Listed ==
  ASSUME Registry, pid \in Pid, NEW def \in ServerDef
  PROVE  HashOf(def) \in Hash /\ Machine[def.host] \in Machines
<1>1. def.host \in Name /\ def.set \in SetName
  BY DEF ServerDef
<1> QED BY <1>1, ManagerAssumption DEF HashOf, Hash, Machines

LEMMA DeregisterKeeps ==
  ASSUME Registry, pid \in Pid, BlacklistSound, AllSound, NEW def \in ServerDef,
         Deregister(def)
  PROVE  /\ Registry' /\ AllSound' /\ registry'[HashOf(def)] = NoCon
         /\ \A h \in Hash \ {HashOf(def)} : registry'[h] = registry[h]
         /\ UNCHANGED blacklist /\ blacklist \in Seq(Entry) => BlacklistSound'
<1>1. HashOf(def) \in Hash
  BY Listed
<1>2. Registry' /\ registry'[HashOf(def)] = NoCon
      /\ \A h \in Hash \ {HashOf(def)} : registry'[h] = registry[h]
  BY <1>1 DEF Deregister, Registry
<1>3. AllSound'
  BY <1>2 DEF AllSound
<1>4. ASSUME UNCHANGED blacklist, blacklist \in Seq(Entry) PROVE BlacklistSound'
  <2>1. \A k \in DOMAIN blacklist : blacklist[k].hash \in Hash
    BY <1>4, EntriesAre
  <2> QED BY <1>2, <1>4, <2>1 DEF BlacklistSound
<1> QED BY <1>2, <1>3, <1>4

\* A connection it leaves registered is returned, and is one that was there and
\* answered its last ping in time, or a new one.
LEMMA Single ==
  ASSUME Registry, pid \in Pid, blacklist \in Seq(Entry), BlacklistSound, AllSound,
         NEW def \in ServerDef, NEW f, GetConnectionSingle(def, f)
  PROVE  /\ Registry' /\ blacklist' \in Seq(Entry) /\ BlacklistSound' /\ AllSound'
         /\ \A h \in Hash \ {HashOf(def)} : registry'[h] = registry[h]
         /\ registry'[HashOf(def)] # NoCon =>
              /\ Returned(def)
              /\ f # "dont_connect" => registry'[HashOf(def)].dead < PingInterval
              /\ \/ /\ registry[HashOf(def)] # NoCon
                    /\ registry'[HashOf(def)].type = registry[HashOf(def)].type
                    /\ registry'[HashOf(def)].stale = registry[HashOf(def)].stale
                 \/ f # "dont_connect" /\ registry'[HashOf(def)].stale = Fresh
<1> DEFINE hash == HashOf(def)
           m == Machine[def.host]
           con == registry[hash]
<1>1. hash \in Hash /\ m \in Machines
  BY Listed
<1>2. Off(blacklist, registry) /\ Once(blacklist)
  BY SoundIsOffOnce
<1>3. \A k \in DOMAIN blacklist : blacklist[k].hash \in Hash
  BY EntriesAre
<1>4. con # NoCon => con \in Con /\ Sound(con) /\ ~Blacklisted(hash)
  <2>1. con # NoCon => con \in Con /\ Sound(con)
    BY <1>1 DEF Registry, AllSound
  <2>2. con # NoCon => Entries(hash) = {}
    BY <1>2 DEF Off, Entries
  <2> QED BY <2>1, <2>2 DEF Blacklisted
<1>5. /\ Forgiven(hash) \in Seq(Entry) /\ Once(Forgiven(hash))
      /\ \A k \in DOMAIN Forgiven(hash) :
           /\ Forgiven(hash)[k].hash # hash
           /\ \E l \in DOMAIN blacklist : Forgiven(hash)[k] = blacklist[l]
  BY <1>2, ForgivenLeaves
<1>6. \A k \in DOMAIN Forgiven(hash) : Forgiven(hash)[k].hash \in Hash \ {hash}
                                       /\ registry[Forgiven(hash)[k].hash] = NoCon
  BY <1>2, <1>3, <1>5 DEF Off
<1> HIDE DEF hash
<1>7. ASSUME NEW c \in Con \cup {NoCon}, c # NoCon => Sound(c),
             registry' = [registry EXCEPT ![hash] = c],
             blacklist' = Forgiven(hash)
      PROVE  /\ Registry' /\ blacklist' \in Seq(Entry) /\ BlacklistSound' /\ AllSound'
             /\ \A h \in Hash \ {hash} : registry'[h] = registry[h]
             /\ registry'[hash] = c
  <2>1. Registry' /\ registry'[hash] = c /\ \A h \in Hash \ {hash} : registry'[h] = registry[h]
    BY <1>1, <1>7 DEF Registry
  <2>2. AllSound'
    BY <1>7, <2>1 DEF AllSound
  <2>3. Off(blacklist', registry')
    BY <1>6, <1>7, <2>1 DEF Off
  <2>4. BlacklistSound'
    BY <1>5, <1>7, <2>3 DEF BlacklistSound, Off, Once
  <2> QED BY <1>5, <1>7, <2>1, <2>2, <2>4
<1>8. ASSUME registry' = registry, blacklist' = Forgiven(hash)
      PROVE  /\ Registry' /\ blacklist' \in Seq(Entry) /\ BlacklistSound' /\ AllSound'
             /\ \A h \in Hash \ {hash} : registry'[h] = registry[h]
             /\ registry'[hash] = con
  <2>1. registry' = [registry EXCEPT ![hash] = con] /\ con \in Con \cup {NoCon}
    BY <1>1, <1>8 DEF Registry
  <2> QED BY <1>4, <1>7, <1>8, <2>1
<1> DEFINE Good ==
             /\ Registry' /\ blacklist' \in Seq(Entry) /\ BlacklistSound' /\ AllSound'
             /\ \A h \in Hash \ {hash} : registry'[h] = registry[h]
             /\ registry'[hash] # NoCon =>
                  /\ ~Blacklisted(hash)
                  /\ f # "dont_connect" => registry'[hash].dead < PingInterval
                  /\ \/ /\ con # NoCon /\ registry'[hash].type = con.type
                        /\ registry'[hash].stale = con.stale
                     \/ f # "dont_connect" /\ registry'[hash].stale = Fresh
<1> HIDE DEF con
<1> SUFFICES Good
  BY DEF Returned, hash, con
<1>9. CASE Blacklisted(hash) /\ UNCHANGED <<registry, blacklist>>
  <2>1. con = NoCon /\ registry'[hash] = NoCon
    BY <1>4, <1>9 DEF con
  <2>2. Registry' /\ AllSound' /\ BlacklistSound'
    BY <1>9 DEF Registry, AllSound, BlacklistSound
  <2> QED BY <1>9, <2>1, <2>2
<1>10. CASE /\ ~Blacklisted(hash) /\ f = "dont_connect"
            /\ blacklist' = Forgiven(hash) /\ UNCHANGED registry
  BY <1>8, <1>10
<1>11. CASE /\ ~Blacklisted(hash) /\ f # "dont_connect" /\ con # NoCon
            /\ blacklist' = Forgiven(hash)
            /\ con.ping < PingInterval /\ UNCHANGED registry
  <2>1. con.dead < PingInterval
    BY <1>4, <1>11, Fields, Numbers DEF Sound
  <2> QED BY <1>8, <1>11, <2>1
<1>12. CASE /\ ~Blacklisted(hash) /\ f # "dont_connect" /\ con # NoCon
            /\ blacklist' = Forgiven(hash) /\ con.dead = Fresh
            /\ registry' = [registry EXCEPT ![hash].ping = 0]
  <2> DEFINE c == [con EXCEPT !.ping = 0]
  <2>1. con \in Con /\ Sound(con)
    BY <1>4, <1>12
  <2>2. /\ c \in Con /\ c.type = con.type /\ c.stale = con.stale /\ c.dead = Fresh
        /\ c.ping = 0 /\ c.ismaster = con.ismaster /\ c.replcheck = con.replcheck
    BY <1>12, <2>1, Numbers DEF Con
  <2>3. registry' = [registry EXCEPT ![hash] = c]
    BY <1>12 DEF con
  <2> HIDE DEF c
  <2>4. Sound(c) /\ Fresh < PingInterval
    BY <2>1, <2>2, Numbers DEF Sound
  <2> QED BY <1>7, <1>12, <2>2, <2>3, <2>4
<1>13. CASE /\ ~Blacklisted(hash) /\ blacklist' = Forgiven(hash) /\ Deregister(def)
  <2>1. registry' = [registry EXCEPT ![hash] = NoCon]
    BY <1>13 DEF Deregister, hash
  <2> QED BY <1>7, <1>13, <2>1
<1>14. CASE /\ ~Blacklisted(hash) /\ con = NoCon /\ UNCHANGED registry
            /\ blacklist' = BlacklistRegister(Forgiven(hash), hash)
  <2>1. /\ blacklist' \in Seq(Entry) /\ Once(blacklist')
        /\ \A k \in DOMAIN blacklist' :
             \/ blacklist'[k].hash = hash
             \/ \E l \in DOMAIN Forgiven(hash) : blacklist'[k] = Forgiven(hash)[l]
    BY <1>1, <1>5, <1>14, RegisteredOnce
  <2>2. Off(blacklist', registry')
    BY <1>6, <1>14, <2>1 DEF Off, con
  <2>3. BlacklistSound'
    BY <2>1, <2>2 DEF BlacklistSound, Off, Once
  <2>4. Registry' /\ AllSound' /\ registry'[hash] = NoCon
    BY <1>14 DEF Registry, AllSound, con
  <2> QED BY <1>14, <2>1, <2>3, <2>4
<1>15. CASE /\ ~Blacklisted(hash) /\ con = NoCon
            /\ blacklist' = Forgiven(hash) /\ UNCHANGED registry
  BY <1>8, <1>15 DEF con
<1>16. CASE /\ ~Blacklisted(hash) /\ f # "dont_connect" /\ blacklist' = Forgiven(hash)
            /\ registry' = [registry EXCEPT ![hash] = NewCon(role[m])]
  <2> DEFINE c == NewCon(role[m])
  <2>1. c \in Con /\ Sound(c) /\ c # NoCon /\ c.stale = Fresh /\ c.dead = Fresh
    BY NewConSound
  <2>2. registry' = [registry EXCEPT ![hash] = c]
    BY <1>16
  <2> HIDE DEF c
  <2>3. /\ Registry' /\ blacklist' \in Seq(Entry) /\ BlacklistSound' /\ AllSound'
        /\ \A h \in Hash \ {hash} : registry'[h] = registry[h]
        /\ registry'[hash] = c
    BY <1>7, <1>16, <2>1, <2>2
  <2> QED BY <1>16, <2>1, <2>3, Numbers
<1> HIDE DEF Good
<1>17. \/ Blacklisted(hash) /\ UNCHANGED <<registry, blacklist>>
       \/ ~Blacklisted(hash) /\ f = "dont_connect"
          /\ blacklist' = Forgiven(hash) /\ UNCHANGED registry
       \/ ~Blacklisted(hash) /\ f # "dont_connect" /\ con # NoCon
          /\ blacklist' = Forgiven(hash)
          /\ \/ con.ping < PingInterval /\ UNCHANGED registry
             \/ con.ping = PingInterval /\ con.dead = Fresh
                /\ registry' = [registry EXCEPT ![hash].ping = 0]
             \/ con.ping = PingInterval /\ con.dead # Fresh /\ Deregister(def)
       \/ ~Blacklisted(hash) /\ f # "dont_connect" /\ con = NoCon
          /\ \/ ~up[m] /\ UNCHANGED registry
                /\ blacklist' = BlacklistRegister(Forgiven(hash), hash)
             \/ up[m] /\ role[m] = "invalid"
                /\ blacklist' = Forgiven(hash) /\ UNCHANGED registry
             \/ up[m] /\ role[m] # "invalid" /\ blacklist' = Forgiven(hash)
                /\ registry' = [registry EXCEPT ![hash] = NewCon(role[m])]
  BY DEF GetConnectionSingle, hash, con
<1> HIDE DEF m
<1>18. CASE Blacklisted(hash)
  BY <1>9, <1>17, <1>18
<1>19. CASE ~Blacklisted(hash) /\ f = "dont_connect"
  BY <1>10, <1>17, <1>19
<1>20. CASE ~Blacklisted(hash) /\ f # "dont_connect" /\ con # NoCon
  BY <1>11, <1>12, <1>13, <1>17, <1>20
<1>21. CASE ~Blacklisted(hash) /\ f # "dont_connect" /\ con = NoCon
  BY <1>14, <1>15, <1>16, <1>17, <1>21 DEF m
<1> QED BY <1>18, <1>19, <1>20, <1>21

-----------------------------------------------------------------------------
(* What happens around the calls.                                           *)

LEMMA Given ==
  ASSUME Invariant
  PROVE  /\ Registry /\ AllSound /\ BlacklistSound /\ blacklist \in Seq(Entry)
         /\ pid \in Pid /\ i \in Nat /\ waited \in Nat /\ begun \subseteq Hash
         /\ servers \in Seq(ServerDef) /\ Len(servers) \in Nat
         /\ DOMAIN servers = 1..Len(servers)
         /\ \A k \in DOMAIN servers : servers[k] \in ServerDef /\ HashOf(servers[k]) \in Hash
<1>1. /\ Registry /\ BlacklistSound /\ blacklist \in Seq(Entry)
      /\ pid \in Pid /\ i \in Nat /\ waited \in Nat /\ begun \subseteq Hash
      /\ servers \in Seq(ServerDef)
  BY Numbers DEF Invariant, TypeOK, Registry, Entry
<1>2. AllSound
  BY DEF Invariant, AllRecent, Recent, AllSound
<1>3. Len(servers) \in Nat /\ DOMAIN servers = 1..Len(servers)
  BY <1>1, LenProperties
<1>4. \A k \in DOMAIN servers : servers[k] \in ServerDef
  BY <1>1, <1>3, ElementOfSeq
<1>5. \A k \in DOMAIN servers : HashOf(servers[k]) \in Hash
  BY <1>1, <1>4, Listed
<1> QED BY <1>1, <1>2, <1>3, <1>4, <1>5

LEMMA SamePlace ==
  ASSUME UNCHANGED <<pid, client, servers, pc, i>>
  PROVE  /\ \A h : Unasked(h)' <=> Unasked(h)
         /\ \A h : Unpinged(h)' <=> Unpinged(h)
BY DEF Unasked, Unpinged, ToAsk, ToPing, HashOf

\* A tick makes the blacklist older, entry by entry.
LEMMA BlacklistAges ==
  ASSUME blacklist \in Seq(Entry),
         blacklist' = [k \in DOMAIN blacklist |->
                         [blacklist[k] EXCEPT !.age = Older(@, PingInterval)]]
  PROVE  /\ blacklist' \in Seq(Entry) /\ DOMAIN blacklist' = DOMAIN blacklist
         /\ \A k \in DOMAIN blacklist : blacklist'[k].hash = blacklist[k].hash
<1>1. \A k \in DOMAIN blacklist : blacklist[k] \in Entry
  BY EntriesAre
<1>2. ASSUME NEW e \in Entry
      PROVE  /\ [e EXCEPT !.age = Older(@, PingInterval)] \in Entry
             /\ [e EXCEPT !.age = Older(@, PingInterval)].hash = e.hash
  <2>1. e.age \in 0..PingInterval /\ e.hash \in Hash
    BY DEF Entry
  <2>2. Older(e.age, PingInterval) \in 0..PingInterval
    BY <2>1, Numbers DEF Older
  <2> QED BY <2>1, <2>2 DEF Entry
<1>3. DOMAIN blacklist = 1..Len(blacklist) /\ Len(blacklist) \in Nat
  BY LenProperties
<1>4. blacklist' \in [1..Len(blacklist) -> Entry]
  BY <1>1, <1>2, <1>3
<1> QED BY <1>1, <1>2, <1>3, <1>4, SeqDef

LEMMA TickKeeps == ASSUME Invariant, Tick PROVE Invariant'
<1>1. /\ Registry /\ AllSound /\ BlacklistSound /\ blacklist \in Seq(Entry) /\ waited \in Nat
  BY Given
<1>2. /\ registry' = [h \in Hash |-> IF registry[h] = NoCon THEN NoCon ELSE Aged(registry[h])]
      /\ UNCHANGED <<world, pid, client, servers, set_name, pc, flag, i, target,
                     hosts, connected, supported, answer, begun>>
      /\ pc # "idle" => waited < MaxWait
      /\ waited' = IF pc = "idle" THEN 0 ELSE waited + 1
  BY DEF Tick, Aged
<1>3. ASSUME NEW h \in Hash
      PROVE  /\ registry[h] = NoCon <=> registry'[h] = NoCon
             /\ registry[h] # NoCon => /\ registry[h] \in Con /\ registry'[h] = Aged(registry[h])
                                       /\ registry'[h] \in Con /\ Sound(registry'[h])
  <2>1. registry'[h] = IF registry[h] = NoCon THEN NoCon ELSE Aged(registry[h])
    BY <1>2
  <2>2. CASE registry[h] # NoCon
    <3>1. registry[h] \in Con /\ Sound(registry[h])
      BY <1>1, <2>2 DEF Registry, AllSound
    <3>2. Aged(registry[h]) \in Con /\ Sound(Aged(registry[h]))
      BY <3>1, AgedSound
    <3>3. Aged(registry[h]) # NoCon
      BY <3>2, Fields
    <3> QED BY <2>1, <2>2, <3>1, <3>2, <3>3
  <2> QED BY <2>1, <2>2
<1>4. /\ blacklist' \in Seq(Entry) /\ DOMAIN blacklist' = DOMAIN blacklist
      /\ \A k \in DOMAIN blacklist : blacklist'[k].hash = blacklist[k].hash
  BY <1>1, BlacklistAges DEF Tick
<1>5. TypeOK'
  <2>1. Registry' /\ waited' \in 0..MaxWait
    BY <1>1, <1>2, <1>3, Numbers DEF Registry
  <2> QED BY <1>2, <1>4, <2>1 DEF Invariant, TypeOK, world, Registry, Entry
<1>6. BlacklistSound'
  <2>1. \A k \in DOMAIN blacklist : blacklist[k].hash \in Hash
    BY <1>1, EntriesAre
  <2> QED BY <1>1, <1>3, <1>4, <2>1 DEF BlacklistSound
<1>7. Place'
  <2>1. answer # NoCon => answer \in Hash
    BY DEF Invariant, TypeOK
  <2> QED BY <1>2, <1>3, <2>1 DEF Invariant, Place
<1>8. AllRecent'
  <2> SUFFICES ASSUME NEW h \in Hash, NEW c, c = registry'[h], c # NoCon
               PROVE  Recent(h, c)'
    BY DEF AllRecent
  <2> DEFINE b == registry[h]
  <2>1. /\ b \in Con /\ b # NoCon /\ Sound(b) /\ Sound(c) /\ c \in Con
        /\ c.type = b.type /\ c.stale <= b.stale + 1 /\ c.dead <= b.dead + 1
    BY <1>1, <1>3, AgedSound DEF AllSound
  <2>2. Recent(h, b)
    BY <2>1 DEF Invariant, AllRecent
  <2> HIDE DEF b
  <2>3. (Unasked(h)' <=> Unasked(h)) /\ (Unpinged(h)' <=> Unpinged(h))
        /\ HashOf(target)' = HashOf(target)
    BY <1>2, SamePlace DEF HashOf
  <2>4. h \in begun => waited' = waited + 1
    BY <1>2 DEF Invariant, Place
  <2>5. b.stale \in Int /\ c.stale \in Int /\ b.dead \in Int /\ c.dead \in Int
    BY <2>1, Fields, Numbers
  <2>6. Sound(c)'
    BY <2>1 DEF Sound
  <2>7. c.type = "UNKNOWN" =>
          \/ pc' = "verify" /\ h = HashOf(target)'
          \/ Unasked(h)' /\ (pc' = "connect" /\ client'.repl => connected')
    BY <1>2, <2>1, <2>2, <2>3 DEF Recent
  <2>8. h \in begun' /\ (pc' = "done" => h = answer') =>
          /\ ~Unasked(h)' => c.stale < MasterInterval + waited'
          /\ flag' # "dont_connect" /\ ~Unpinged(h)' => c.dead < PingInterval + waited'
    BY <1>1, <1>2, <2>1, <2>2, <2>3, <2>4, <2>5, Numbers DEF Recent
  <2> QED BY <2>6, <2>7, <2>8 DEF Recent
<1> QED BY <1>5, <1>6, <1>7, <1>8 DEF Invariant

\* What happens to servers marks connections, and leaves the call where it is.
LEMMA MarksKeep ==
  ASSUME Invariant, TypeOK',
         UNCHANGED <<blacklist, pid, client, servers, set_name, call>>,
         \A h \in Hash :
           /\ registry[h] = NoCon => registry'[h] = NoCon
           /\ registry[h] # NoCon =>
                \/ registry'[h] = registry[h]
                \/ \E n \in {Fresh, 0, registry[h].stale} :
                     registry'[h] = [registry[h] EXCEPT !.stale = n]
                \/ registry'[h] = [registry[h] EXCEPT !.dead = 0]
  PROVE  Invariant'
<1>1. Registry /\ AllSound /\ BlacklistSound /\ blacklist \in Seq(Entry) /\ waited \in Nat
  BY Given
<1>2. ASSUME NEW h \in Hash, registry[h] # NoCon
      PROVE  /\ registry[h] \in Con /\ registry'[h] \in Con /\ registry'[h] # NoCon
             /\ Sound(registry'[h]) /\ registry'[h].type = registry[h].type
             /\ registry'[h].stale \in {Fresh, 0, registry[h].stale}
             /\ registry'[h].dead \in {0, registry[h].dead}
  <2> DEFINE b == registry[h]
             c == registry'[h]
  <2>1. b \in Con /\ Sound(b)
    BY <1>1, <1>2 DEF Registry, AllSound
  <2>2. \/ c = b
        \/ \E n \in {Fresh, 0, b.stale} : c = [b EXCEPT !.stale = n]
        \/ c = [b EXCEPT !.dead = 0]
    BY <1>2
  <2> HIDE DEF b, c
  <2>3. c \in Con /\ Sound(c)
    BY <2>1, <2>2, MarkedSound
  <2>4. /\ c.type = b.type
        /\ c.stale \in {Fresh, 0, b.stale} /\ c.dead \in {0, b.dead}
    BY <2>1, <2>2 DEF Con
  <2> QED BY <2>1, <2>3, <2>4, Fields DEF b, c
<1>3. BlacklistSound'
  <2>1. \A k \in DOMAIN blacklist : blacklist[k].hash \in Hash
    BY <1>1, EntriesAre
  <2> QED BY <1>1, <2>1 DEF BlacklistSound
<1>4. Place'
  <2>1. answer # NoCon => answer \in Hash
    BY DEF Invariant, TypeOK
  <2> QED BY <1>2, <2>1 DEF Invariant, Place, call
<1>5. AllRecent'
  <2> SUFFICES ASSUME NEW h \in Hash, NEW c, c = registry'[h], c # NoCon
               PROVE  Recent(h, c)'
    BY DEF AllRecent
  <2> DEFINE b == registry[h]
  <2>1. /\ b \in Con /\ c \in Con /\ Sound(c) /\ c.type = b.type
        /\ c.stale \in {Fresh, 0, b.stale} /\ c.dead \in {0, b.dead}
    BY <1>2
  <2>2. Recent(h, b)
    BY <2>1, Fields DEF Invariant, AllRecent
  <2> HIDE DEF b
  <2>3. (Unasked(h)' <=> Unasked(h)) /\ (Unpinged(h)' <=> Unpinged(h))
        /\ HashOf(target)' = HashOf(target)
    BY SamePlace DEF HashOf, call
  <2>4. UNCHANGED <<pc, flag, begun, answer, waited, connected, client>>
    BY DEF call
  <2>5. /\ c.stale < MasterInterval + waited \/ c.stale = b.stale
        /\ c.dead < PingInterval + waited \/ c.dead = b.dead
    BY <1>1, <2>1, Numbers
  <2>6. Sound(c)'
    BY <2>1 DEF Sound
  <2>7. c.type = "UNKNOWN" =>
          \/ pc' = "verify" /\ h = HashOf(target)'
          \/ Unasked(h)' /\ (pc' = "connect" /\ client'.repl => connected')
    BY <2>1, <2>2, <2>3, <2>4 DEF Recent
  <2>8. h \in begun' /\ (pc' = "done" => h = answer') =>
          /\ ~Unasked(h)' => c.stale < MasterInterval + waited'
          /\ flag' # "dont_connect" /\ ~Unpinged(h)' => c.dead < PingInterval + waited'
    BY <1>1, <2>1, <2>2, <2>3, <2>4, <2>5, Numbers DEF Recent
  <2> QED BY <2>6, <2>7, <2>8 DEF Recent
<1> QED BY <1>3, <1>4, <1>5 DEF Invariant

LEMMA WorldKeeps == ASSUME Invariant, World PROVE Invariant'
<1>1. Registry /\ AllSound
  BY Given
<1>2. ASSUME NEW h \in Hash, registry[h] # NoCon
      PROVE  /\ registry[h] \in Con /\ [registry[h] EXCEPT !.dead = 0] \in Con
             /\ \A n \in {Fresh, 0, registry[h].stale} : [registry[h] EXCEPT !.stale = n] \in Con
  BY <1>1, <1>2, MarkedSound DEF Registry, AllSound
<1>3. ASSUME NEW m \in Machines, Crash(m) PROVE Invariant'
  <2>1. /\ UNCHANGED <<role, members, blacklist, pid, client, servers, set_name, call>>
        /\ up' = [up EXCEPT ![m] = FALSE] /\ changes' = changes + 1 /\ changes < MaxChanges
        /\ registry' = [h \in Hash |->
             IF registry[h] # NoCon /\ Machine[h.host] = m /\ registry[h].dead = Fresh
             THEN [registry[h] EXCEPT !.dead = 0] ELSE registry[h]]
    BY <1>3 DEF Crash
  <2>2. \A h \in Hash :
          \/ registry'[h] = registry[h]
          \/ registry[h] # NoCon /\ registry'[h] = [registry[h] EXCEPT !.dead = 0]
    BY <2>1
  <2>3. Registry'
    BY <1>1, <1>2, <2>1, <2>2 DEF Registry
  <2>4. TypeOK'
    BY <2>1, <2>3, ManagerAssumption DEF Invariant, TypeOK, Registry, call
  <2> QED BY <2>1, <2>2, <2>4, MarksKeep
<1>4. ASSUME NEW m \in Machines, Restart(m) PROVE Invariant'
  <2>1. TypeOK'
    BY <1>4 DEF Restart, Invariant, TypeOK, call, manager
  <2> QED BY <1>4, <2>1, MarksKeep DEF Restart, manager
<1>5. ASSUME NEW m \in Machines, NEW r \in Role, ChangeRole(m, r) PROVE Invariant'
  <2>1. /\ UNCHANGED <<up, members, blacklist, pid, client, servers, set_name, call>>
        /\ role' = [role EXCEPT ![m] = r] /\ changes' = changes + 1 /\ changes < MaxChanges
        /\ registry' = [h \in Hash |->
             IF registry[h] = NoCon \/ Machine[h.host] # m THEN registry[h]
             ELSE [registry[h] EXCEPT
                     !.stale = IF Confirms(registry[h].type, r) THEN Fresh
                               ELSE IF @ = Fresh THEN 0 ELSE @]]
    BY <1>5 DEF ChangeRole
  <2>2. \A h \in Hash :
          \/ registry'[h] = registry[h]
          \/ /\ registry[h] # NoCon
             /\ \E n \in {Fresh, 0, registry[h].stale} :
                               registry'[h] = [registry[h] EXCEPT !.stale = n]
    BY <2>1
  <2>3. Registry'
    BY <1>1, <1>2, <2>1, <2>2 DEF Registry
  <2>4. TypeOK'
    BY <2>1, <2>3, ManagerAssumption DEF Invariant, TypeOK, Registry, call
  <2> QED BY <2>1, <2>2, <2>4, MarksKeep
<1>6. ASSUME NEW list \in MemberLists, ChangeMembers(list) PROVE Invariant'
  <2>1. TypeOK'
    BY <1>6, ManagerAssumption DEF ChangeMembers, Invariant, TypeOK, call, manager
  <2> QED BY <1>6, <2>1, MarksKeep DEF ChangeMembers, manager
<1> QED BY <1>3, <1>4, <1>5, <1>6 DEF World

-----------------------------------------------------------------------------
(* Steps that leave registry and blacklist alone.                           *)

LEMMA QuietKeeps ==
  ASSUME Invariant, UNCHANGED <<registry, blacklist>>, TypeOK', Place',
         \A h \in Hash : \A c \in Con : Recent(h, c) /\ c = registry[h] => Recent(h, c)'
  PROVE  Invariant'
<1>1. Registry /\ BlacklistSound
  BY Given
<1>2. BlacklistSound'
  BY <1>1 DEF BlacklistSound
<1>3. ASSUME NEW h \in Hash, NEW c, c = registry[h], c # NoCon PROVE Recent(h, c)'
  BY <1>1, <1>3 DEF Registry, Invariant, AllRecent
<1>4. AllRecent'
  BY <1>3 DEF AllRecent
<1> QED BY <1>2, <1>4 DEF Invariant

LEMMA SeedsListed ==
  ASSUME NEW c \in Clients
  PROVE  /\ [k \in DOMAIN c.seeds |-> [host |-> c.seeds[k], set |-> c.set]] \in Seq(ServerDef)
         /\ [host |-> c.seeds[1], set |-> c.set] \in ServerDef /\ 1 \in DOMAIN c.seeds
         /\ c.set \in SetName
<1>1. c.seeds \in Seq(Name) /\ c.seeds # <<>> /\ c.set \in SetName
  BY ManagerAssumption
<1>2. /\ DOMAIN c.seeds = 1..Len(c.seeds) /\ Len(c.seeds) \in Nat
      /\ \A k \in 1..Len(c.seeds) : c.seeds[k] \in Name
  BY <1>1, LenProperties, ElementOfSeq
<1>3. Len(c.seeds) # 0
  BY <1>1, EmptySeq
<1>4. [k \in DOMAIN c.seeds |-> [host |-> c.seeds[k], set |-> c.set]]
        \in [1..Len(c.seeds) -> ServerDef]
  BY <1>1, <1>2 DEF ServerDef
<1>5. [k \in DOMAIN c.seeds |-> [host |-> c.seeds[k], set |-> c.set]] \in Seq(ServerDef)
  BY <1>2, <1>4, SeqDef
<1>6. 1 \in DOMAIN c.seeds
  BY <1>2, <1>3
<1> QED BY <1>1, <1>2, <1>5, <1>6 DEF ServerDef

LEMMA NewClientKeeps == ASSUME Invariant, NEW c \in Clients, NewClient(c) PROVE Invariant'
<1>1. /\ pc = "idle" /\ client' = c /\ set_name' = c.set /\ changes' = changes + 1
      /\ changes < MaxChanges
      /\ servers' = [k \in DOMAIN c.seeds |-> [host |-> c.seeds[k], set |-> c.set]]
      /\ target' = servers'[1]
      /\ UNCHANGED <<up, role, members, manager, pc, flag, i, hosts, connected,
                     supported, answer, begun, waited>>
  BY DEF NewClient
<1>2. /\ servers' \in Seq(ServerDef) /\ target' \in ServerDef /\ set_name' \in SetName
      /\ 1 \in DOMAIN servers'
  <2>1. 1 \in DOMAIN c.seeds
    BY SeedsListed
  <2>2. servers'[1] = [host |-> c.seeds[1], set |-> c.set] /\ 1 \in DOMAIN servers'
    BY <1>1, <2>1
  <2> QED BY <1>1, <2>2, SeedsListed
<1>3. TypeOK'
  <2>1. /\ client' \in Clients /\ changes' \in 0..MaxChanges
        /\ UNCHANGED <<up, role, members, registry, blacklist, pid, pc, flag, i, hosts,
                       connected, supported, answer, begun, waited>>
    BY <1>1, ManagerAssumption DEF Invariant, TypeOK, manager
  <2> QED BY <1>2, <2>1 DEF Invariant, TypeOK
<1>4. Place'
  BY <1>1, <1>2 DEF Invariant, Place, manager
<1>5. \A h \in Hash : \A d \in Con : Recent(h, d) /\ d = registry[h] => Recent(h, d)'
  <2> SUFFICES ASSUME NEW h \in Hash, NEW d \in Con, Recent(h, d) PROVE Recent(h, d)'
    OBVIOUS
  <2>1. ~Unasked(h) /\ begun' = {} /\ Sound(d) /\ d.type # "UNKNOWN"
    BY <1>1 DEF Recent, Unasked, ToAsk, Invariant, Place
  <2> QED BY <2>1 DEF Recent, Sound
<1> QED BY <1>1, <1>3, <1>4, <1>5, QuietKeeps DEF manager

LEMMA ForkKeeps == ASSUME Invariant, Fork PROVE Invariant'
<1>1. /\ pc = "idle" /\ pid < MaxPid /\ pid' = pid + 1 /\ changes' = changes + 1
      /\ changes < MaxChanges
      /\ UNCHANGED <<up, role, members, registry, blacklist, client, servers, set_name, call>>
  BY DEF Fork
<1>2. TypeOK'
  BY <1>1, ManagerAssumption DEF Invariant, TypeOK, call, Pid
<1>3. Place'
  BY <1>1 DEF Invariant, Place, call
<1>4. \A h \in Hash : \A d \in Con : Recent(h, d) /\ d = registry[h] => Recent(h, d)'
  <2> SUFFICES ASSUME NEW h \in Hash, NEW d \in Con, Recent(h, d) PROVE Recent(h, d)'
    OBVIOUS
  <2>1. ~Unasked(h) /\ begun' = {} /\ Sound(d) /\ d.type # "UNKNOWN"
    BY <1>1 DEF Recent, Unasked, ToAsk, Invariant, Place, call
  <2> QED BY <2>1 DEF Recent, Sound
<1> QED BY <1>1, <1>2, <1>3, <1>4, QuietKeeps

LEMMA BeginKeeps == ASSUME Invariant, NEW f \in Flag, Begin(f) PROVE Invariant'
<1>1. /\ pc = "idle" /\ pc' = "connect" /\ flag' = f /\ i' = 1 /\ waited' = 0
      /\ begun' = {HashOf(servers[k]) : k \in DOMAIN servers}
      /\ UNCHANGED <<world, manager, client, servers, set_name, target, hosts,
                     connected, supported, answer>>
  BY DEF Begin
<1>2. TypeOK'
  <2>1. begun' \subseteq Hash
    BY <1>1, Given
  <2> QED BY <1>1, <2>1, Numbers DEF Invariant, TypeOK, manager, world
<1>3. Place'
  BY <1>1 DEF Invariant, Place, manager
<1>4. \A h \in Hash : \A d \in Con : Recent(h, d) /\ d = registry[h] => Recent(h, d)'
  <2> SUFFICES ASSUME NEW h \in Hash, NEW d \in Con, Recent(h, d) PROVE Recent(h, d)'
    OBVIOUS
  <2>1. Sound(d) /\ d.type # "UNKNOWN"
    BY <1>1 DEF Recent, Unasked, ToAsk
  <2>2. h \in begun' => Unasked(h)' /\ Unpinged(h)'
    <3> SUFFICES ASSUME h \in begun' PROVE Unasked(h)' /\ Unpinged(h)'
      OBVIOUS
    <3>1. PICK k \in DOMAIN servers : HashOf(servers[k]) = h
      BY <1>1
    <3>2. k >= 1
      BY Given
    <3> QED BY <1>1, <3>1, <3>2 DEF Unasked, Unpinged, ToAsk, ToPing, HashOf, manager
  <2> QED BY <2>1, <2>2 DEF Recent, Sound
<1> QED BY <1>1, <1>2, <1>3, <1>4, QuietKeeps DEF manager

\* Without an answer, or with one, nothing is left to ask.
LEMMA ConnectDoneKeeps == ASSUME Invariant, ConnectDone PROVE Invariant'
<1>1. /\ pc = "connect" /\ i \notin DOMAIN servers /\ i' = 1
      /\ pc' = IF ~supported THEN "done"
               ELSE IF ~connected /\ flag = "dont_connect" THEN "done"
               ELSE IF client.repl THEN "discover" ELSE "choose"
      /\ UNCHANGED <<world, manager, client, servers, set_name, flag, target, hosts,
                     connected, supported, answer, begun, waited>>
  BY DEF ConnectDone
<1>2. TypeOK'
  BY <1>1 DEF Invariant, TypeOK, manager, world
<1>3. Place'
  BY <1>1 DEF Invariant, Place, manager
<1>4. i \in Nat /\ i >= 1 /\ DOMAIN servers = 1..Len(servers) /\ Len(servers) \in Nat
  BY Given DEF Invariant, Place
<1>5. \A h \in Hash : \A d \in Con : Recent(h, d) /\ d = registry[h] => Recent(h, d)'
  <2> SUFFICES ASSUME NEW h \in Hash, NEW d \in Con, Recent(h, d) PROVE Recent(h, d)'
    OBVIOUS
  <2>1. answer' = NoCon /\ answer' # h
    <3>1. answer = NoCon
      BY <1>1 DEF Invariant, Place
    <3> QED BY <1>1, <3>1, NoConIsNoHash
  <2>2. ~Unpinged(h) /\ (~client.repl => ~Unasked(h))
    <3>1. \A k \in DOMAIN servers : k >= 1 /\ ~(k >= i)
      BY <1>1, <1>4
    <3> QED BY <1>1, <3>1 DEF Unasked, ToAsk, Unpinged, ToPing
  <2>3. CASE ~client.repl
    <3>1. d.type # "UNKNOWN" /\ (h \in begun => d.stale < MasterInterval + waited)
      BY <1>1, <2>2, <2>3 DEF Recent
    <3>2. flag # "dont_connect" /\ h \in begun => d.dead < PingInterval + waited
      BY <1>1, <2>2 DEF Recent
    <3> QED BY <1>1, <3>1, <3>2 DEF Recent, Sound
  <2>4. CASE client.repl /\ pc' = "done"
    <3>1. ~connected
      BY <1>1, <2>4 DEF Invariant, Place
    <3>2. d.type # "UNKNOWN"
      BY <1>1, <2>4, <3>1 DEF Recent
    <3> QED BY <2>1, <2>4, <3>2 DEF Recent, Sound
  <2>5. CASE client.repl /\ pc' = "discover"
    <3>1. Unasked(h) => Unasked(h)'
      <4>1. \A k \in DOMAIN servers : k >= 1
        BY <1>4
      <4> QED BY <1>1, <2>5, <4>1 DEF Unasked, ToAsk, HashOf, manager
    <3> QED BY <1>1, <2>2, <2>5, <3>1 DEF Recent, Sound
  <2> QED BY <1>1, <2>3, <2>4, <2>5
<1> QED BY <1>1, <1>2, <1>3, <1>5, QuietKeeps DEF manager

LEMMA DiscoverHostsDoneKeeps == ASSUME Invariant, DiscoverHostsDone PROVE Invariant'
<1>1. /\ pc = "hosts" /\ pc' = "discover" /\ i' = i + 1
      /\ UNCHANGED <<world, manager, client, servers, set_name, flag, target, hosts,
                     connected, supported, answer, begun, waited>>
  BY DEF DiscoverHostsDone
<1>2. TypeOK'
  BY <1>1 DEF Invariant, TypeOK, manager, world
<1>3. Place'
  BY <1>1, Given DEF Invariant, Place, manager
<1>4. i \in Nat /\ DOMAIN servers = 1..Len(servers) /\ Len(servers) \in Nat
  BY Given
<1>5. \A h \in Hash : \A d \in Con : Recent(h, d) /\ d = registry[h] => Recent(h, d)'
  <2> SUFFICES ASSUME NEW h \in Hash, NEW d \in Con, Recent(h, d) PROVE Recent(h, d)'
    OBVIOUS
  <2>1. Unasked(h)' <=> Unasked(h)
    <3>1. \A k \in DOMAIN servers : k > i <=> k >= i + 1
      BY <1>4
    <3> QED BY <1>1, <3>1 DEF Unasked, ToAsk, HashOf, manager
  <2>2. ~Unpinged(h)
    BY <1>1 DEF Unpinged, ToPing
  <2> QED BY <1>1, <2>1, <2>2 DEF Recent, Sound
<1> QED BY <1>1, <1>2, <1>3, <1>5, QuietKeeps DEF manager

LEMMA NothingLeft ==
  ASSUME Invariant, NEW h \in Hash, NEW d \in Con, Recent(h, d),
         pc \in {"choose", "done"} \/ (pc = "discover" /\ i \notin DOMAIN servers)
  PROVE  /\ Sound(d) /\ d.type # "UNKNOWN"
         /\ h \in begun /\ (pc = "done" => h = answer) =>
              /\ d.stale < MasterInterval + waited
              /\ flag # "dont_connect" => d.dead < PingInterval + waited
<1>1. i \in Nat /\ i >= 1 /\ DOMAIN servers = 1..Len(servers) /\ Len(servers) \in Nat
  BY Given DEF Invariant, Place
<1>2. i \notin DOMAIN servers => \A k \in DOMAIN servers : ~(k >= i)
  BY <1>1
<1>3. ~Unasked(h) /\ ~Unpinged(h) /\ pc # "verify"
  BY <1>2 DEF Unasked, ToAsk, Unpinged, ToPing
<1> QED BY <1>3 DEF Recent

LEMMA DiscoverDoneKeeps == ASSUME Invariant, DiscoverDone PROVE Invariant'
<1>1. /\ pc = "discover" /\ i \notin DOMAIN servers
      /\ pc' \in {"choose", "done"}
      /\ UNCHANGED <<world, manager, client, servers, set_name, flag, i, target,
                     hosts, connected, supported, answer, begun, waited>>
  BY DEF DiscoverDone
<1>2. TypeOK'
  BY <1>1 DEF Invariant, TypeOK, manager, world
<1>3. Place'
  BY <1>1 DEF Invariant, Place, manager
<1>4. \A h \in Hash : \A d \in Con : Recent(h, d) /\ d = registry[h] => Recent(h, d)'
  BY <1>1, NothingLeft DEF Recent, Sound
<1> QED BY <1>1, <1>2, <1>3, <1>4, QuietKeeps DEF manager

LEMMA ChooseKeeps == ASSUME Invariant, Choose PROVE Invariant'
<1>1. /\ pc = "choose" /\ pc' = "done" /\ answer' \in Candidates \cup {NoCon}
      /\ UNCHANGED <<world, manager, client, servers, set_name, flag, i, target,
                     hosts, connected, supported, begun, waited>>
  BY DEF Choose
<1>2. answer' \in Hash \cup {NoCon}
  BY <1>1 DEF Candidates
<1>3. TypeOK'
  BY <1>1, <1>2 DEF Invariant, TypeOK, manager, world
<1>4. Place'
  BY <1>1 DEF Invariant, Place, manager, Candidates
<1>5. \A h \in Hash : \A d \in Con : Recent(h, d) /\ d = registry[h] => Recent(h, d)'
  BY <1>1, NothingLeft DEF Recent, Sound
<1> QED BY <1>1, <1>3, <1>4, <1>5, QuietKeeps DEF manager

LEMMA ReturnKeeps == ASSUME Invariant, Return PROVE Invariant'
<1>1. /\ pc = "done" /\ pc' = "idle" /\ flag' = "read" /\ i' = 1
      /\ target' = servers[1] /\ connected' = FALSE /\ supported' = TRUE
      /\ answer' = NoCon /\ begun' = {} /\ waited' = 0
      /\ UNCHANGED <<world, manager, client, servers, set_name, hosts>>
  BY DEF Return
<1>2. TypeOK'
  <2>1. target' \in ServerDef
    BY <1>1, Given DEF Invariant, Place
  <2>2. waited' \in 0..MaxWait /\ i' \in Nat
    <3>1. waited' = 0 /\ i' = 1
      BY <1>1
    <3> QED BY <3>1, Numbers
  <2>3. flag' \in Flag /\ connected' \in BOOLEAN /\ supported' \in BOOLEAN
    BY <1>1 DEF Flag
  <2>4. answer' \in Hash \cup {NoCon} /\ begun' \subseteq Hash
    BY <1>1
  <2> QED BY <1>1, <2>1, <2>2, <2>3, <2>4 DEF Invariant, TypeOK, manager, world
<1>3. Place'
  BY <1>1 DEF Invariant, Place, manager
<1>4. \A h \in Hash : \A d \in Con : Recent(h, d) /\ d = registry[h] => Recent(h, d)'
  BY <1>1, NothingLeft DEF Recent, Sound
<1> QED BY <1>1, <1>2, <1>3, <1>4, QuietKeeps DEF manager

-----------------------------------------------------------------------------
(* The steps that ask servers.                                              *)

\* What is left to prove of a step, connection by connection.
LEMMA AskingKeeps ==
  ASSUME TypeOK', BlacklistSound', Place',
         \A h \in Hash : \A c : c = registry'[h] /\ c # NoCon =>
           /\ Sound(c)
           /\ c.type = "UNKNOWN" =>
                \/ pc' = "verify" /\ h = HashOf(target)'
                \/ Unasked(h)' /\ (pc' = "connect" /\ client'.repl => connected')
           /\ h \in begun' /\ (pc' = "done" => h = answer') =>
                /\ ~Unasked(h)' => c.stale < MasterInterval + waited'
                /\ flag' # "dont_connect" /\ ~Unpinged(h)' => c.dead < PingInterval + waited'
  PROVE  Invariant'
<1>1. ASSUME NEW h \in Hash, NEW c, c = registry'[h], c # NoCon PROVE Recent(h, c)'
  <2>1. Sound(c)'
    BY <1>1 DEF Sound
  <2> QED BY <1>1, <2>1 DEF Recent
<1>2. AllRecent'
  BY <1>1 DEF AllRecent
<1> QED BY <1>2 DEF Invariant

LEMMA ConnectKeeps == ASSUME Invariant, Connect PROVE Invariant'
<1> DEFINE def == servers[i]
           hash == HashOf(def)
<1>1. /\ pc = "connect" /\ i \in DOMAIN servers /\ GetConnectionSingle(def, flag)
      /\ target' = def
      /\ \/ Returned(def) /\ ~client.repl
            /\ pc' = "verify" /\ UNCHANGED <<i, connected>>
         \/ Returned(def) /\ client.repl
            /\ connected' = TRUE /\ i' = i + 1 /\ UNCHANGED pc
         \/ ~Returned(def) /\ i' = i + 1 /\ UNCHANGED <<pc, connected>>
      /\ UNCHANGED <<world, pid, client, servers, set_name, flag, hosts, supported,
                     answer, begun, waited>>
  BY DEF Connect
<1>2. /\ Registry /\ AllSound /\ BlacklistSound /\ blacklist \in Seq(Entry)
      /\ pid \in Pid /\ i \in Nat /\ waited \in Nat /\ DOMAIN servers = 1..Len(servers)
      /\ Len(servers) \in Nat /\ def \in ServerDef /\ hash \in Hash
  BY <1>1, Given
<1>3. /\ Registry' /\ blacklist' \in Seq(Entry) /\ BlacklistSound' /\ AllSound'
      /\ \A h \in Hash \ {hash} : registry'[h] = registry[h]
      /\ registry'[hash] # NoCon =>
           Returned(def) /\ (flag # "dont_connect" => registry'[hash].dead < PingInterval)
  BY <1>1, <1>2, Single
<1> HIDE DEF def
<1>4. TypeOK'
  <2>1. i' \in Nat /\ pc' \in {"connect", "verify"}
    BY <1>1, <1>2
  <2>2. connected' \in BOOLEAN
    BY <1>1 DEF Invariant, TypeOK
  <2>3. target' \in ServerDef
    BY <1>1, <1>2
  <2> QED BY <1>1, <1>2, <1>3, <2>1, <2>2, <2>3 DEF Invariant, TypeOK, world, Registry, Entry
<1>5. Place'
  BY <1>1, <1>2 DEF Invariant, Place, def
<1>6. ASSUME NEW h \in Hash \ {hash}
      PROVE  (Unasked(h) => Unasked(h)') /\ (Unpinged(h) => Unpinged(h)')
  <2>1. ASSUME NEW k \in DOMAIN servers, HashOf(servers[k]) = h
        PROVE  (ToAsk(k) => ToAsk(k)') /\ (ToPing(k) => ToPing(k)')
    <3>1. k # i /\ k \in Nat
      BY <1>2, <2>1 DEF def
    <3>2. k >= i => k > i /\ k >= i + 1
      BY <1>2, <3>1
    <3> QED BY <1>1, <3>2 DEF ToAsk, ToPing
  <2>2. \A k : HashOf(servers[k])' = HashOf(servers[k])
    BY <1>1 DEF HashOf
  <2> QED BY <1>1, <2>1, <2>2 DEF Unasked, Unpinged
<1>7. ASSUME NEW h, h = hash, registry'[h] # NoCon
      PROVE  Unasked(h)' /\ (pc' = "verify" \/ connected')
  <2>1. Returned(def)
    BY <1>3, <1>7
  <2>2. PICK k \in DOMAIN servers : k = i
    BY <1>1
  <2>3. ToAsk(k)'
    BY <1>1, <1>2, <2>1, <2>2 DEF ToAsk
  <2>4. HashOf(servers[k])' = h
    BY <1>1, <1>7, <2>2 DEF HashOf, def
  <2>5. pc' = "verify" \/ connected'
    BY <1>1, <2>1
  <2> QED BY <1>1, <2>3, <2>4, <2>5 DEF Unasked
<1> HIDE DEF hash
<1>8. ASSUME NEW h \in Hash, NEW c, c = registry'[h], c # NoCon
      PROVE  /\ Sound(c)
             /\ c.type = "UNKNOWN" =>
                  \/ pc' = "verify" /\ h = HashOf(target)'
                  \/ Unasked(h)' /\ (pc' = "connect" /\ client'.repl => connected')
             /\ h \in begun' /\ (pc' = "done" => h = answer') =>
                  /\ ~Unasked(h)' => c.stale < MasterInterval + waited'
                  /\ flag' # "dont_connect" /\ ~Unpinged(h)' => c.dead < PingInterval + waited'
  <2>1. Sound(c) /\ c \in Con
    BY <1>3, <1>8 DEF AllSound, Sound, Registry
  <2>2. CASE h = hash
    <3>1. c.dead \in Int
      BY <2>1, Fields, Numbers
    <3>2. flag' # "dont_connect" => c.dead < PingInterval + waited'
      BY <1>1, <1>2, <1>3, <1>8, <2>2, <3>1, Numbers
    <3>3. Unasked(h)' /\ (pc' = "verify" \/ connected')
      BY <1>7, <1>8, <2>2
    <3> QED BY <2>1, <3>2, <3>3
  <2>3. CASE h # hash
    <3>1. Recent(h, c)
      BY <1>3, <1>8, <2>3 DEF Invariant, AllRecent
    <3>2. (Unasked(h) => Unasked(h)') /\ (Unpinged(h) => Unpinged(h)')
      BY <1>6, <2>3
    <3> QED BY <1>1, <2>1, <3>1, <3>2 DEF Recent
  <2> QED BY <2>2, <2>3
<1> QED BY <1>3, <1>4, <1>5, <1>8, AskingKeeps

\* An ismaster that was made, or was not due.
LEMMA Checked ==
  ASSUME Registry, AllSound, NEW def, HashOf(def) \in Hash, NEW validate \in BOOLEAN,
         registry[HashOf(def)] # NoCon
  PROVE  /\ Ismaster(def, validate) = "skipped" =>
              registry[HashOf(def)].type # "UNKNOWN" /\ registry[HashOf(def)].stale < MasterInterval
         /\ /\ Confirmed(def, validate) \in Con /\ Sound(Confirmed(def, validate))
            /\ Confirmed(def, validate).type # "UNKNOWN"
            /\ Confirmed(def, validate).stale < MasterInterval
            /\ Confirmed(def, validate).dead = registry[HashOf(def)].dead
<1> DEFINE con == registry[HashOf(def)]
           d == Confirmed(def, validate)
<1>1. con \in Con /\ Sound(con)
  BY DEF Registry, AllSound
<1>2. /\ d \in Con /\ d.type \in {"PRIMARY", "SECONDARY"} /\ d.ismaster = 0
      /\ d.replcheck \in {0, con.replcheck} /\ d.stale = Fresh /\ d.dead = con.dead
      /\ d.ping = con.ping
  <2>1. TypeOf(role[Machine[def.host]]) \in {"PRIMARY", "SECONDARY"}
    BY DEF TypeOf
  <2>2. d = [con EXCEPT !.type = TypeOf(role[Machine[def.host]]), !.ismaster = 0,
                        !.replcheck = IF validate THEN 0 ELSE con.replcheck, !.stale = Fresh]
    <3>1. [con EXCEPT !.replcheck = IF validate THEN 0 ELSE @]
            = [con EXCEPT !.replcheck = IF validate THEN 0 ELSE con.replcheck]
      BY <1>1 DEF Con
    <3> QED BY <1>1, <3>1 DEF Confirmed, Con
  <2> HIDE DEF con, d
  <2>3. 0 \in 0..MasterInterval /\ Fresh \in Fresh..Horizon
    BY Numbers
  <2>4. (IF validate THEN 0 ELSE con.replcheck) \in 0..MasterInterval
    BY <1>1, <2>3, Fields
  <2> QED BY <1>1, <2>1, <2>2, <2>3, <2>4 DEF Con
<1>3. Ismaster(def, validate) = "skipped" => con.ismaster < MasterInterval
                                             \/ con.replcheck < MasterInterval
  BY DEF Ismaster
<1> HIDE DEF con, d
<1>4. Sound(d) /\ d.type # "UNKNOWN" /\ d.stale < MasterInterval
  BY <1>1, <1>2, Fields, Numbers DEF Sound
<1>5. con.ismaster < MasterInterval \/ con.replcheck < MasterInterval =>
        con.type # "UNKNOWN" /\ con.stale < MasterInterval
  BY <1>1, Fields, Numbers DEF Sound
<1> QED BY <1>2, <1>3, <1>4, <1>5 DEF con, d

\* Registering what a successful ismaster leaves hides nothing.
LEMMA ConfirmedKeeps ==
  ASSUME Registry, AllSound, BlacklistSound, blacklist \in Seq(Entry),
         NEW hash \in Hash, registry[hash] # NoCon, NEW c \in Con, Sound(c),
         registry' = [registry EXCEPT ![hash] = c], UNCHANGED blacklist
  PROVE  /\ Registry' /\ AllSound' /\ BlacklistSound' /\ registry'[hash] = c
         /\ \A h \in Hash \ {hash} : registry'[h] = registry[h]
<1>1. /\ Registry' /\ registry'[hash] = c
      /\ \A h \in Hash \ {hash} : registry'[h] = registry[h]
  BY DEF Registry
<1>2. AllSound'
  BY <1>1 DEF AllSound
<1>3. \A k \in DOMAIN blacklist : blacklist[k].hash \in Hash
  BY EntriesAre
<1>4. BlacklistSound'
  BY <1>1, <1>3 DEF BlacklistSound
<1> QED BY <1>1, <1>2, <1>4

LEMMA VerifyKeeps == ASSUME Invariant, Verify PROVE Invariant'
<1> DEFINE hash == HashOf(target)
           result == Ismaster(target, FALSE)
<1>1. /\ pc = "verify"
      /\ \/ result = "skipped" /\ UNCHANGED registry
         \/ result = "ok" /\ registry' = [registry EXCEPT ![hash] = Confirmed(target, FALSE)]
         \/ result \in {"error", "unsupported"} /\ Deregister(target)
      /\ supported' = (supported /\ result # "unsupported")
      /\ UNCHANGED <<world, blacklist, pid, client, servers, set_name, flag, target,
                     hosts, answer, begun, waited>>
  BY DEF Verify
<1>2. IF client.repl
      THEN pc' = "hosts" /\ UNCHANGED <<i, connected>>
      ELSE /\ pc' = "connect" /\ i' = i + 1
           /\ connected' = (connected \/ result \in {"skipped", "ok"})
  BY DEF Verify
<1>3. /\ Registry /\ AllSound /\ BlacklistSound /\ blacklist \in Seq(Entry)
      /\ pid \in Pid /\ i \in Nat /\ waited \in Nat /\ DOMAIN servers = 1..Len(servers)
      /\ Len(servers) \in Nat /\ target \in ServerDef /\ hash \in Hash
  BY Given, Listed DEF Invariant, TypeOK
<1>4. registry[hash] = NoCon => result = "none"
  BY DEF Ismaster
<1>5. /\ Registry' /\ AllSound' /\ BlacklistSound'
      /\ \A h \in Hash \ {hash} : registry'[h] = registry[h]
      /\ registry'[hash] # NoCon =>
           /\ registry[hash] # NoCon /\ registry'[hash].dead = registry[hash].dead
           /\ registry'[hash].type # "UNKNOWN" /\ registry'[hash].stale < MasterInterval
  <2>1. CASE result = "skipped" /\ UNCHANGED registry
    <3>1. registry[hash] # NoCon
      BY <1>4, <2>1
    <3>2. registry[hash].type # "UNKNOWN" /\ registry[hash].stale < MasterInterval
      BY <1>3, <2>1, <3>1, Checked
    <3> QED BY <1>1, <1>3, <2>1, <3>1, <3>2 DEF Registry, AllSound, BlacklistSound
  <2>2. CASE result = "ok" /\ registry' = [registry EXCEPT ![hash] = Confirmed(target, FALSE)]
    <3> DEFINE c == Confirmed(target, FALSE)
    <3>1. registry[hash] # NoCon
      BY <1>4, <2>2
    <3>2. /\ c \in Con /\ Sound(c) /\ c.type # "UNKNOWN" /\ c.stale < MasterInterval
          /\ c.dead = registry[hash].dead
      BY <1>3, <3>1, Checked
    <3> HIDE DEF c, hash
    <3>3. registry' = [registry EXCEPT ![hash] = c]
      BY <2>2 DEF c
    <3>4. /\ Registry' /\ AllSound' /\ BlacklistSound' /\ registry'[hash] = c
          /\ \A h \in Hash \ {hash} : registry'[h] = registry[h]
      BY <1>1, <1>3, <3>1, <3>2, <3>3, ConfirmedKeeps
    <3> QED BY <3>1, <3>2, <3>4
  <2>3. CASE Deregister(target)
    BY <1>1, <1>3, <2>3, DeregisterKeeps
  <2> QED BY <1>1, <2>1, <2>2, <2>3
<1> HIDE DEF result
<1>6. TypeOK'
  <2>1. i' \in Nat /\ pc' \in {"connect", "hosts"}
    BY <1>2, <1>3
  <2>2. connected' \in BOOLEAN /\ supported' \in BOOLEAN
    BY <1>1, <1>2 DEF Invariant, TypeOK
  <2> QED BY <1>1, <1>3, <1>5, <2>1, <2>2 DEF Invariant, TypeOK, world, Registry, Entry
<1>7. Place'
  <2>1. i' >= 1 /\ (pc' = "hosts" => client.repl /\ i' = i)
    BY <1>2, <1>3 DEF Invariant, Place
  <2>2. answer = NoCon /\ pc' \in {"connect", "hosts"} /\ (pc' = "connect" => ~client.repl)
    BY <1>1, <1>2 DEF Invariant, Place
  <2> QED BY <1>1, <2>1, <2>2 DEF Invariant, Place
<1>8. ASSUME NEW h \in Hash \ {hash}
      PROVE  Unasked(h) => Unasked(h)'
  <2>1. ASSUME NEW k \in DOMAIN servers, HashOf(servers[k]) = h, ToAsk(k)
        PROVE  ToAsk(k)'
    <3>1. k \in Nat /\ (~client.repl => k # i)
      BY <1>1, <1>3, <2>1 DEF Invariant, Place
    <3>2. k > i => k >= i + 1
      BY <1>3, <3>1
    <3> QED BY <1>1, <1>2, <2>1, <3>1, <3>2 DEF ToAsk
  <2>2. \A k : HashOf(servers[k])' = HashOf(servers[k])
    BY <1>1 DEF HashOf
  <2> QED BY <1>1, <2>1, <2>2 DEF Unasked
<1>9. ASSUME NEW h \in Hash PROVE Unpinged(h) => Unpinged(h)'
  <2>1. ASSUME NEW k \in DOMAIN servers, ToPing(k) PROVE ToPing(k)'
    <3>1. k > i => k >= i + 1
      BY <1>3
    <3> QED BY <1>1, <1>2, <2>1, <3>1 DEF ToPing
  <2>2. \A k : HashOf(servers[k])' = HashOf(servers[k])
    BY <1>1 DEF HashOf
  <2> QED BY <1>1, <2>1, <2>2 DEF Unpinged
<1> HIDE DEF hash
<1>10. ASSUME NEW h \in Hash, NEW c, c = registry'[h], c # NoCon
       PROVE  /\ Sound(c)
              /\ c.type = "UNKNOWN" =>
                   \/ pc' = "verify" /\ h = HashOf(target)'
                   \/ Unasked(h)' /\ (pc' = "connect" /\ client'.repl => connected')
              /\ h \in begun' /\ (pc' = "done" => h = answer') =>
                   /\ ~Unasked(h)' => c.stale < MasterInterval + waited'
                   /\ flag' # "dont_connect" /\ ~Unpinged(h)' => c.dead < PingInterval + waited'
  <2>1. Sound(c) /\ c \in Con
    BY <1>5, <1>10 DEF AllSound, Sound, Registry
  <2>2. pc # "done" /\ (pc' = "connect" => ~client'.repl)
    BY <1>1, <1>2
  <2>3. CASE h = hash
    <3> DEFINE b == registry[h]
    <3>1. b # NoCon /\ c.dead = b.dead /\ c.type # "UNKNOWN" /\ c.stale < MasterInterval
      BY <1>5, <1>10, <2>3
    <3>2. Recent(h, b)
      BY <3>1 DEF Invariant, AllRecent
    <3> HIDE DEF b
    <3>3. c.stale < MasterInterval + waited
      BY <1>3, <2>1, <3>1, Fields, Numbers
    <3>4. UNCHANGED <<begun, flag, waited>>
      BY <1>1
    <3> QED BY <1>9, <2>1, <2>2, <3>1, <3>2, <3>3, <3>4 DEF Recent
  <2>4. CASE h # hash
    <3>1. Recent(h, c)
      BY <1>5, <1>10, <2>4 DEF Invariant, AllRecent
    <3>2. (Unasked(h) => Unasked(h)') /\ (Unpinged(h) => Unpinged(h)')
      BY <1>8, <1>9, <2>4
    <3>3. UNCHANGED <<begun, flag, waited>>
      BY <1>1
    <3>4. c.type = "UNKNOWN" => Unasked(h)
      BY <2>4, <3>1 DEF Recent, hash
    <3> QED BY <2>1, <2>2, <3>1, <3>2, <3>3, <3>4 DEF Recent
  <2> QED BY <2>3, <2>4
<1> QED BY <1>5, <1>6, <1>7, <1>10, AskingKeeps

\* One server of the list is asked; it may change its entry.
LEMMA DiscoverKeeps == ASSUME Invariant, Discover PROVE Invariant'
<1> DEFINE def == servers[i]
           hash == HashOf(def)
           result == Ismaster(def, TRUE)
           r == role[Machine[def.host]]
           me == Me[Machine[def.host]]
<1>1. /\ pc = "discover" /\ i \in DOMAIN servers /\ target' = def
      /\ UNCHANGED <<world, blacklist, pid, client, flag, connected, answer, begun, waited>>
  BY DEF Discover
<1>2. \/ /\ ~Known(def) \/ result = "skipped"
         /\ i' = i + 1
         /\ UNCHANGED <<registry, servers, set_name, pc, hosts, supported>>
      \/ /\ Known(def) /\ Deregister(def) /\ i' = i + 1
         /\ supported' = (supported /\ result # "unsupported")
         /\ servers' = IF result = "wrong set" THEN [servers EXCEPT ![i].host = me] ELSE servers
         /\ UNCHANGED <<set_name, pc, hosts>>
      \/ /\ Known(def)
         /\ IF result = "renamed" THEN Deregister(def)
            ELSE registry' = [registry EXCEPT ![hash] = Confirmed(def, TRUE)]
         /\ servers' = [servers EXCEPT ![i] =
              [host |-> me, set |-> IF def.set = NoSet THEN SetOf(r) ELSE def.set]]
         /\ set_name' = IF set_name = NoSet THEN SetOf(r) ELSE set_name
         /\ hosts' = IF r = "foreign" THEN <<me>> ELSE members
         /\ pc' = "hosts" /\ UNCHANGED <<i, supported>>
  BY DEF Discover
<1> HIDE DEF result, r, me
<1>3. /\ Registry /\ AllSound /\ BlacklistSound /\ blacklist \in Seq(Entry)
      /\ pid \in Pid /\ i \in Nat /\ waited \in Nat /\ DOMAIN servers = 1..Len(servers)
      /\ Len(servers) \in Nat /\ def \in ServerDef /\ hash \in Hash
      /\ servers \in Seq(ServerDef)
  BY <1>1, Given
<1>4. me \in Name /\ SetOf(r) \in SetName /\ def.host \in Name /\ def.set \in SetName
  <2>1. def.host \in Name /\ def.set \in SetName
    BY <1>3 DEF ServerDef
  <2>2. me \in Name
    BY <2>1, ManagerAssumption DEF me
  <2> QED BY <2>1, <2>2 DEF SetOf, SetName
<1>5. /\ Registry' /\ AllSound' /\ BlacklistSound'
      /\ \A h \in Hash \ {hash} : registry'[h] = registry[h]
      /\ registry'[hash] # NoCon =>
           /\ registry[hash] # NoCon /\ registry'[hash].dead = registry[hash].dead
           /\ registry'[hash].type # "UNKNOWN" /\ registry'[hash].stale < MasterInterval
  <2>1. CASE (~Known(def) \/ result = "skipped") /\ UNCHANGED registry
    <3>1. registry[hash] # NoCon =>
            registry[hash].type # "UNKNOWN" /\ registry[hash].stale < MasterInterval
      BY <1>3, <2>1, Checked DEF Known, result
    <3> QED BY <1>1, <1>3, <2>1, <3>1 DEF Registry, AllSound, BlacklistSound
  <2>2. CASE Known(def) /\ registry' = [registry EXCEPT ![hash] = Confirmed(def, TRUE)]
    <3> DEFINE c == Confirmed(def, TRUE)
    <3>1. registry[hash] # NoCon
      BY <2>2 DEF Known
    <3>2. /\ c \in Con /\ Sound(c) /\ c.type # "UNKNOWN" /\ c.stale < MasterInterval
          /\ c.dead = registry[hash].dead
      BY <1>3, <3>1, Checked
    <3> HIDE DEF c, hash
    <3>3. registry' = [registry EXCEPT ![hash] = c]
      BY <2>2 DEF c
    <3>4. /\ Registry' /\ AllSound' /\ BlacklistSound' /\ registry'[hash] = c
          /\ \A h \in Hash \ {hash} : registry'[h] = registry[h]
      BY <1>1, <1>3, <3>1, <3>2, <3>3, ConfirmedKeeps
    <3> QED BY <3>1, <3>2, <3>4
  <2>3. CASE Deregister(def)
    BY <1>1, <1>3, <2>3, DeregisterKeeps
  <2> QED BY <1>2, <2>1, <2>2, <2>3
<1>6. \/ servers' = servers
      \/ \E d \in ServerDef : servers' = [servers EXCEPT ![i] = d]
  <2>1. [servers EXCEPT ![i].host = me] = [servers EXCEPT ![i] = [host |-> me, set |-> def.set]]
    <3>1. [def EXCEPT !.host = me] = [host |-> me, set |-> def.set]
      BY <1>3 DEF ServerDef
    <3> QED BY <3>1
  <2>2. [host |-> me, set |-> def.set] \in ServerDef
    BY <1>4 DEF ServerDef
  <2>3. [host |-> me, set |-> IF def.set = NoSet THEN SetOf(r) ELSE def.set] \in ServerDef
    BY <1>4 DEF ServerDef
  <2> HIDE DEF def, me, r, result
  <2> QED BY <1>2, <2>1, <2>2, <2>3
<1>7. /\ servers' \in Seq(ServerDef) /\ DOMAIN servers' = DOMAIN servers
      /\ \A k \in DOMAIN servers : k # i => servers'[k] = servers[k]
  <2>1. CASE servers' = servers
    BY <1>3, <2>1
  <2>2. CASE \E d \in ServerDef : servers' = [servers EXCEPT ![i] = d]
    <3>1. servers' \in [1..Len(servers) -> ServerDef]
      BY <1>3, <2>2, LenProperties
    <3> QED BY <1>3, <2>2, <3>1, SeqDef
  <2> QED BY <1>6, <2>1, <2>2
<1>8. \/ i' = i + 1 /\ pc' = "discover"
      \/ i' = i /\ pc' = "hosts"
  BY <1>1, <1>2
<1>9. TypeOK'
  <2>1. i' \in Nat /\ pc' \in {"discover", "hosts"}
    BY <1>3, <1>8
  <2>2. supported' \in BOOLEAN /\ set_name' \in SetName
    BY <1>2, <1>4 DEF Invariant, TypeOK
  <2>3. hosts' \in Seq(Name)
    <3>1. members \in Seq(Name) /\ hosts \in Seq(Name)
      BY ManagerAssumption DEF Invariant, TypeOK
    <3>2. <<me>> \in Seq(Name)
      BY <1>4
    <3> QED BY <1>2, <3>1, <3>2
  <2> QED BY <1>1, <1>3, <1>5, <1>7, <2>1, <2>2, <2>3
          DEF Invariant, TypeOK, world, Registry, Entry
<1>10. Place'
  <2>1. i' >= 1 /\ pc' \in {"discover", "hosts"} /\ (pc' = "hosts" => i' = i)
    BY <1>3, <1>8 DEF Invariant, Place
  <2>2. answer = NoCon /\ client.repl
    BY <1>1 DEF Invariant, Place
  <2> QED BY <1>1, <1>7, <2>1, <2>2 DEF Invariant, Place
<1>11. ASSUME NEW h \in Hash \ {hash} PROVE Unasked(h) => Unasked(h)'
  <2>1. ASSUME NEW k \in DOMAIN servers, HashOf(servers[k]) = h, ToAsk(k)
        PROVE  ToAsk(k)' /\ HashOf(servers[k])' = h /\ k \in DOMAIN servers'
    <3>1. k \in Nat /\ k # i /\ k >= i
      BY <1>1, <1>3, <2>1 DEF ToAsk
    <3>2. k > i /\ k >= i + 1
      BY <1>3, <3>1
    <3>3. ToAsk(k)'
      BY <1>1, <1>8, <3>2 DEF ToAsk
    <3> QED BY <1>1, <1>7, <2>1, <3>1, <3>3 DEF HashOf
  <2> QED BY <2>1 DEF Unasked
<1> HIDE DEF hash
<1>12. ASSUME NEW h \in Hash, NEW c, c = registry'[h], c # NoCon
       PROVE  /\ Sound(c)
              /\ c.type = "UNKNOWN" =>
                   \/ pc' = "verify" /\ h = HashOf(target)'
                   \/ Unasked(h)' /\ (pc' = "connect" /\ client'.repl => connected')
              /\ h \in begun' /\ (pc' = "done" => h = answer') =>
                   /\ ~Unasked(h)' => c.stale < MasterInterval + waited'
                   /\ flag' # "dont_connect" /\ ~Unpinged(h)' => c.dead < PingInterval + waited'
  <2>1. Sound(c) /\ c \in Con
    BY <1>5, <1>12 DEF AllSound, Sound, Registry
  <2>2. pc # "done" /\ pc # "verify" /\ pc' # "connect" /\ UNCHANGED <<begun, flag, waited>>
    BY <1>1, <1>8
  <2>3. ~Unpinged(h)
    BY <1>1 DEF Unpinged, ToPing
  <2>4. CASE h = hash
    <3> DEFINE b == registry[h]
    <3>1. b # NoCon /\ c.dead = b.dead /\ c.type # "UNKNOWN" /\ c.stale < MasterInterval
      BY <1>5, <1>12, <2>4
    <3>2. Recent(h, b)
      BY <3>1 DEF Invariant, AllRecent
    <3> HIDE DEF b
    <3>3. c.stale < MasterInterval + waited
      BY <1>3, <2>1, <3>1, Fields, Numbers
    <3> QED BY <2>1, <2>2, <2>3, <3>1, <3>2, <3>3 DEF Recent
  <2>5. CASE h # hash
    <3>1. Recent(h, c)
      BY <1>5, <1>12, <2>5 DEF Invariant, AllRecent
    <3>2. Unasked(h) => Unasked(h)'
      BY <1>11, <2>5
    <3> QED BY <2>1, <2>2, <2>3, <3>1, <3>2 DEF Recent
  <2> QED BY <2>4, <2>5
<1> QED BY <1>5, <1>9, <1>10, <1>12, AskingKeeps

\* One host of a reply is connected to, if it is new, and listed.
LEMMA DiscoverHostKeeps == ASSUME Invariant, DiscoverHost PROVE Invariant'
<1> DEFINE def == [host |-> Head(hosts), set |-> servers[i].set]
           hash == HashOf(def)
<1>1. /\ pc = "hosts" /\ hosts # <<>>
      /\ \/ Known(def) /\ UNCHANGED <<registry, blacklist, pc>>
         \/ ~Known(def) /\ GetConnectionSingle(def, "write")
            /\ pc' = IF Returned(def) THEN "verify" ELSE "hosts"
      /\ servers' = IF ServersContain(servers, def) THEN servers ELSE Append(servers, def)
      /\ target' = def /\ hosts' = Tail(hosts)
      /\ UNCHANGED <<world, pid, client, set_name, flag, i, connected, supported,
                     answer, begun, waited>>
  BY DEF DiscoverHost
<1>2. /\ Registry /\ AllSound /\ BlacklistSound /\ blacklist \in Seq(Entry)
      /\ pid \in Pid /\ i \in Nat /\ waited \in Nat /\ DOMAIN servers = 1..Len(servers)
      /\ Len(servers) \in Nat /\ servers \in Seq(ServerDef)
  BY Given
<1>3. def \in ServerDef /\ hash \in Hash /\ hosts' \in Seq(Name)
  <2>1. Head(hosts) \in Name /\ Tail(hosts) \in Seq(Name)
    BY <1>1, HeadTailProperties DEF Invariant, TypeOK
  <2>2. servers[i] \in ServerDef
    BY <1>1, Given DEF Invariant, Place
  <2>3. def \in ServerDef
    BY <2>1, <2>2 DEF ServerDef
  <2> QED BY <1>1, <1>2, <2>1, <2>3, Listed
<1> HIDE DEF def
<1>4. /\ servers' \in Seq(ServerDef) /\ DOMAIN servers \subseteq DOMAIN servers'
      /\ \A k \in DOMAIN servers : servers'[k] = servers[k]
  <2>1. CASE servers' = servers
    BY <1>2, <2>1
  <2>2. CASE servers' = Append(servers, def)
    <3>1. /\ servers' \in Seq(ServerDef) /\ Len(servers') = Len(servers) + 1
          /\ \A k \in 1..Len(servers) : servers'[k] = servers[k]
      BY <1>2, <1>3, <2>2, AppendProperties
    <3>2. DOMAIN servers' = 1..Len(servers')
      BY <3>1, LenProperties
    <3> QED BY <1>2, <3>1, <3>2
  <2> QED BY <1>1, <2>1, <2>2
<1>5. /\ Registry' /\ AllSound' /\ BlacklistSound' /\ blacklist' \in Seq(Entry)
      /\ \A h \in Hash \ {hash} : registry'[h] = registry[h]
      /\ \/ registry'[hash] = registry[hash] /\ registry[hash] # NoCon /\ pc' = "hosts"
         \/ registry'[hash] = NoCon
         \/ /\ pc' = "verify" /\ registry'[hash].stale = Fresh
            /\ registry'[hash].dead < PingInterval
  <2>1. CASE Known(def) /\ UNCHANGED <<registry, blacklist, pc>>
    BY <1>1, <1>2, <2>1 DEF Known, Registry, AllSound, BlacklistSound
  <2>2. CASE /\ ~Known(def) /\ GetConnectionSingle(def, "write")
             /\ pc' = IF Returned(def) THEN "verify" ELSE "hosts"
    <3>1. registry[hash] = NoCon
      BY <2>2 DEF Known
    <3>2. /\ Registry' /\ blacklist' \in Seq(Entry) /\ BlacklistSound' /\ AllSound'
          /\ \A h \in Hash \ {hash} : registry'[h] = registry[h]
          /\ registry'[hash] # NoCon =>
               /\ Returned(def) /\ registry'[hash].dead < PingInterval
               /\ registry[hash] # NoCon \/ registry'[hash].stale = Fresh
      BY <1>2, <1>3, <2>2, Single
    <3> QED BY <2>2, <3>1, <3>2
  <2> QED BY <1>1, <2>1, <2>2
<1>6. pc' \in {"hosts", "verify"}
  BY <1>1
<1>7. TypeOK'
  <2>1. target' \in ServerDef
    BY <1>1, <1>3
  <2> QED BY <1>1, <1>3, <1>4, <1>5, <1>6, <2>1 DEF Invariant, TypeOK, world, Registry, Entry
<1>8. Place'
  <2>1. answer = NoCon /\ client.repl /\ i >= 1 /\ i \in DOMAIN servers /\ 1 \in DOMAIN servers
    BY <1>1 DEF Invariant, Place
  <2> QED BY <1>1, <1>4, <1>6, <2>1 DEF Invariant, Place
<1>9. ASSUME NEW h PROVE Unasked(h) => Unasked(h)'
  <2>1. ASSUME NEW k \in DOMAIN servers, HashOf(servers[k]) = h, ToAsk(k)
        PROVE  ToAsk(k)' /\ HashOf(servers[k])' = h /\ k \in DOMAIN servers'
    BY <1>1, <1>4, <1>6, <2>1 DEF ToAsk, HashOf
  <2> QED BY <2>1 DEF Unasked
<1>10. HashOf(target)' = hash
  BY <1>1 DEF HashOf
<1> HIDE DEF hash
<1>11. ASSUME NEW h \in Hash, NEW c, c = registry'[h], c # NoCon
       PROVE  /\ Sound(c)
              /\ c.type = "UNKNOWN" =>
                   \/ pc' = "verify" /\ h = HashOf(target)'
                   \/ Unasked(h)' /\ (pc' = "connect" /\ client'.repl => connected')
              /\ h \in begun' /\ (pc' = "done" => h = answer') =>
                   /\ ~Unasked(h)' => c.stale < MasterInterval + waited'
                   /\ flag' # "dont_connect" /\ ~Unpinged(h)' => c.dead < PingInterval + waited'
  <2>1. Sound(c) /\ c \in Con
    BY <1>5, <1>11 DEF AllSound, Sound, Registry
  <2>2. pc = "hosts" /\ UNCHANGED <<begun, flag, waited>>
    BY <1>1
  <2>3. ~Unpinged(h)
    BY <2>2 DEF Unpinged, ToPing
  <2>4. CASE c = registry[h]
    <3>1. Recent(h, c)
      BY <1>11, <2>4 DEF Invariant, AllRecent
    <3> QED BY <1>6, <1>9, <2>1, <2>2, <2>3, <3>1 DEF Recent
  <2>5. CASE c # registry[h]
    <3>1. h = hash /\ pc' = "verify" /\ c.stale = Fresh /\ c.dead < PingInterval
      BY <1>5, <1>11, <2>5
    <3>2. c.stale < MasterInterval + waited /\ c.dead < PingInterval + waited
      BY <1>2, <2>1, <3>1, Fields, Numbers
    <3> QED BY <1>10, <2>1, <2>2, <3>1, <3>2
  <2> QED BY <2>4, <2>5
<1> QED BY <1>5, <1>7, <1>8, <1>11, AskingKeeps

-----------------------------------------------------------------------------
(* The theorems.                                                            *)

LEMMA InvariantAtFirst == Init => Invariant
<1> SUFFICES ASSUME Init PROVE Invariant
  OBVIOUS
<1>1. /\ client \in Clients /\ servers = [k \in DOMAIN client.seeds |->
                  [host |-> client.seeds[k], set |-> client.set]]
      /\ target = servers[1] /\ set_name = client.set
  BY DEF Init
<1>2. /\ servers \in Seq(ServerDef) /\ target \in ServerDef /\ set_name \in SetName
      /\ 1 \in DOMAIN servers
  <2>1. 1 \in DOMAIN client.seeds
    BY <1>1, SeedsListed
  <2>2. servers[1] = [host |-> client.seeds[1], set |-> client.set] /\ 1 \in DOMAIN servers
    BY <1>1, <2>1
  <2> QED BY <1>1, <2>2, SeedsListed
<1>3. /\ up \in [Machines -> BOOLEAN] /\ role \in [Machines -> Role]
      /\ members \in MemberLists /\ changes \in 0..MaxChanges
      /\ registry \in [Hash -> Con \cup {NoCon}] /\ pid \in Pid /\ waited \in 0..MaxWait
  BY ManagerAssumption DEF Init, Pid
<1>4. blacklist = <<>> /\ hosts = <<>> /\ blacklist \in Seq(Entry) /\ hosts \in Seq(Name)
  BY EmptySeq DEF Init
<1>5. TypeOK
  <2>1. /\ pc = "idle" /\ flag = "read" /\ i = 1 /\ answer = NoCon /\ begun = {}
    BY DEF Init
  <2>2. connected \in BOOLEAN /\ supported \in BOOLEAN
    BY DEF Init
  <2> QED BY <1>1, <1>2, <1>3, <1>4, <2>1, <2>2 DEF TypeOK, Flag, Entry
<1>6. BlacklistSound
  <2>1. DOMAIN blacklist = {}
    BY <1>4, EmptySeq
  <2> QED BY <2>1 DEF BlacklistSound
<1>7. Place
  BY <1>2 DEF Init, Place
<1>8. AllRecent
  BY DEF Init, AllRecent
<1> QED BY <1>5, <1>6, <1>7, <1>8 DEF Invariant

LEMMA InvariantStays == ASSUME Invariant, [Next]_vars PROVE Invariant'
<1>1. CASE UNCHANGED vars
  <2>1. TypeOK' /\ BlacklistSound' /\ Place'
    BY <1>1 DEF vars, world, manager, call, Invariant, TypeOK, BlacklistSound, Place
  <2>2. AllRecent'
    BY <1>1 DEF vars, world, manager, call, Invariant, AllRecent, Recent, Sound, Unasked,
                Unpinged, ToAsk, ToPing, HashOf
  <2> QED BY <2>1, <2>2 DEF Invariant
<1>2. CASE Call
  BY <1>2, ConnectKeeps, VerifyKeeps, ConnectDoneKeeps, DiscoverKeeps, DiscoverHostKeeps,
     DiscoverHostsDoneKeeps, DiscoverDoneKeeps, ChooseKeeps, ReturnKeeps DEF Call
<1>3. CASE Tick \/ World \/ Fork
  BY <1>3, TickKeeps, WorldKeeps, ForkKeeps
<1>4. ASSUME NEW c \in Clients, NewClient(c) PROVE Invariant'
  BY <1>4, NewClientKeeps
<1>5. ASSUME NEW f \in Flag, Begin(f) PROVE Invariant'
  BY <1>5, BeginKeeps
<1> QED BY <1>1, <1>2, <1>3, <1>4, <1>5 DEF Next

\* Every variable keeps its type: what is registered are connections, what is
\* listed are servers, through forks, discoveries and failures.
THEOREM TypeCorrect == Spec => []TypeOK
<1>1. Invariant => TypeOK
  BY DEF Invariant
<1> QED BY <1>1, InvariantAtFirst, InvariantStays, PTL DEF Spec

\* A server is blacklisted once at most, and never while a connection to it is
\* registered.
THEOREM BlacklistHidesNothing == Spec => []BlacklistSound
<1>1. Invariant => BlacklistSound
  BY DEF Invariant
<1> QED BY <1>1, InvariantAtFirst, InvariantStays, PTL DEF Spec

LEMMA AnswerIsRecent ==
  ASSUME Invariant, answer # NoCon
  PROVE  /\ answer \in Hash /\ answer.pid = pid /\ registry[answer].type # "UNKNOWN"
         /\ answer \in begun =>
              /\ registry[answer].stale < MasterInterval + waited
              /\ flag # "dont_connect" => registry[answer].dead < PingInterval + waited
<1>1. /\ answer \in Hash /\ pc = "done" /\ registry[answer] # NoCon /\ answer.pid = pid
  BY DEF Invariant, TypeOK, Place
<1>2. Recent(answer, registry[answer])
  BY <1>1 DEF Invariant, AllRecent
<1>3. ~Unasked(answer) /\ ~Unpinged(answer)
  BY <1>1 DEF Unasked, ToAsk, Unpinged, ToPing
<1> QED BY <1>1, <1>2, <1>3 DEF Recent

\* The role of a server that was listed when the call began was asked for less
\* than a master interval before the call, or in it; and a role is known.
THEOREM RolesAreRecent == Spec => []RoleRecent
<1>1. Invariant => RoleRecent
  BY AnswerIsRecent, NoConIsNoHash, Given DEF RoleRecent
<1> QED BY <1>1, InvariantAtFirst, InvariantStays, PTL DEF Spec

\* The connection belongs to this process, and one of a server that was listed
\* when the call began answered a ping within the interval, or in the call.
THEOREM SocketsAreRecent == Spec => []SocketRecent
<1>1. Invariant => SocketRecent
  BY AnswerIsRecent, NoConIsNoHash, Given DEF SocketRecent
<1> QED BY <1>1, InvariantAtFirst, InvariantStays, PTL DEF Spec
=============================================================================
