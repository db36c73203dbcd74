-------------------------- MODULE ServerSelection --------------------------
(***************************************************************************)
(* How a connection is chosen among the registered ones                     *)
(* (mcon/read_preference.c): a pipeline of filters, a sort, a cut by ping   *)
(* time and a random pick.  The choice for a read uses the read preference  *)
(* of the client throughout; the choice for a write, for connect() and for  *)
(* a client that is not in a replica set filters with another one but still *)
(* sorts and picks with that of the client.                                 *)
(***************************************************************************)
EXTENDS Integers, Sequences, FiniteSets

CONSTANTS
  Connections,  \* registries to choose from: sequences of connections
  Clients,      \* [con_type, set, user, seeds, mode, tagsets]
  Latency       \* options.secondaryAcceptableLatencyMS

(* MONGO_NODE_*: the sort compares them as numbers. *)
STANDALONE == 1
PRIMARY == 2
SECONDARY == 4
ARBITER == 8
MONGOS == 16
AnyType == {STANDALONE, PRIMARY, SECONDARY, ARBITER, MONGOS}

Modes == {"primary", "primaryPreferred", "secondary", "secondaryPreferred", "nearest"}
Purpose == {"read", "write", "connect"}
NotChosen == 0

(* A latency below zero, which the connection string lets through, leaves    *)
(* not even the nearest near, and picks from an empty list: it is left out.  *)
ASSUME SelectionAssumption ==
  /\ Latency \in Nat
  /\ \A r \in Connections : \A k \in DOMAIN r :
       r[k].type \in AnyType /\ r[k].ping \in Int
  /\ \A c \in Clients :
       /\ c.mode \in Modes /\ DOMAIN c.tagsets = 1..Len(c.tagsets) /\ Len(c.tagsets) \in Nat
       /\ \A j \in DOMAIN c.tagsets : IsFiniteSet(c.tagsets[j])

VARIABLES
  cons,     \* the connections of this process, in the order of the list
  client,   \* who asks
  purpose,  \* what for: "read", "write" or "connect"
  step,       \* the next filter
  cands,    \* the places of the connections handed from one filter to the next
  rank,     \* of each candidate, in the array qsort() left
  chosen    \* the place of the connection that was picked, or NotChosen

selectionVars == <<cons, client, purpose, step, cands, rank, chosen>>
asked == <<cons, client, purpose>>

ReplSet == client.con_type = "replset"
Keep(Test(_)) == {k \in cands : Test(k)}

-----------------------------------------------------------------------------
SelectionInit ==
  /\ cons \in Connections /\ client \in Clients /\ purpose \in Purpose
  /\ step = "collect" /\ cands = {} /\ rank = <<>> /\ chosen = NotChosen

(* Mutant: the preference of the client also filters for a write. *)
MutantMode ==
  IF ~ReplSet \/ purpose = "connect" THEN "any" ELSE client.mode

(* The preference the filters work with: tmp_rp has no tag sets. *)
Mode ==
  IF ~ReplSet \/ purpose = "connect" THEN "any"
  ELSE IF purpose = "write" THEN "primary" ELSE client.mode
TagSets == IF ReplSet /\ purpose = "read" THEN client.tagsets ELSE <<>>

(* mongo_find_all_candidate_servers() *)
TypesOf(mode) ==
  {t \in AnyType : \/ mode = "any"
                   \/ t = PRIMARY /\ mode # "secondary"
                   \/ t = SECONDARY /\ mode # "primary"}

Collect ==
  /\ step = "collect" /\ step' = "limit"
  /\ cands' = {k \in DOMAIN cons : cons[k].type \in TypesOf(Mode)}
  /\ UNCHANGED <<asked, rank, chosen>>

(* By the name of the set, where the hash has one. *)
BySetName(k) == cons[k].set # "-" /\ client.set \in {"-", cons[k].set}

(* By the hashes of the seeds. *)
BySeed(k) ==
  /\ \E j \in DOMAIN client.seeds : cons[k].host = client.seeds[j]
  /\ cons[k].user = client.user /\ cons[k].set = client.set

Limit ==
  /\ step = "limit" /\ step' = "credentials"
  /\ cands' = IF ReplSet THEN Keep(BySetName) ELSE Keep(BySeed)
  /\ UNCHANGED <<asked, rank, chosen>>

(* A client without credentials takes connections of every user. *)
Credentials ==
  /\ step = "credentials" /\ step' = "tags"
  /\ cands' = Keep(LAMBDA k : client.user = "-" \/ cons[k].user = client.user)
  /\ UNCHANGED <<asked, rank, chosen>>

(* Mutant: one matching tag is enough. *)
MutantMatchesTags(k, tagset) ==
  \/ Mode = "primaryPreferred" /\ cons[k].type = PRIMARY
  \/ tagset = {} \/ tagset \cap cons[k].tags # {}

(* candidate_matches_tags() and the exemption of the primary. *)
MatchesTags(k, tagset) ==
  \/ Mode = "primaryPreferred" /\ cons[k].type = PRIMARY
  \/ Cardinality(tagset \cap cons[k].tags) = Cardinality(tagset)

(* The first tag set that any candidate matches decides. *)
Decides(j) == \A l \in DOMAIN TagSets : l < j => \A k \in cands : ~MatchesTags(k, TagSets[l])

Tags ==
  /\ step = "tags" /\ step' = "sort"
  /\ cands' =
       IF DOMAIN TagSets = {} THEN cands
       ELSE {k \in cands : \E j \in DOMAIN TagSets : Decides(j) /\ MatchesTags(k, TagSets[j])}
  /\ UNCHANGED <<asked, rank, chosen>>

(* "No candidate servers found" *)
GiveUp ==
  /\ step = "sort" /\ cands = {} /\ step' = "done"
  /\ UNCHANGED <<asked, cands, rank, chosen>>

(* The comparison functions, by the preference of the client. *)
Precedes(a, b) ==
  LET byType == client.mode \in {"primaryPreferred", "secondaryPreferred"}
  IN \/ client.mode = "primaryPreferred" /\ cons[a].type < cons[b].type
     \/ client.mode = "secondaryPreferred" /\ cons[a].type > cons[b].type
     \/ (byType => cons[a].type = cons[b].type) /\ cons[a].ping <= cons[b].ping

(* qsort() is not stable: any order the comparison allows. *)
Sort ==
  /\ step = "sort" /\ cands # {} /\ step' = "nearest"
  /\ rank' \in
       {r \in [cands -> 1..Cardinality(cands)] :
          \A a, b \in cands : a # b => r[a] # r[b] /\ (r[a] < r[b] => Precedes(a, b))}
  /\ UNCHANGED <<asked, cands, chosen>>

IsFirst(k) == k \in cands /\ \A l \in cands : rank[k] <= rank[l]
IsLast(k) == k \in cands /\ \A l \in cands : rank[l] <= rank[k]

(* mongo_select_nearest_servers(): near the first of the sorted list. *)
Near(k, first) == cons[k].ping <= cons[first].ping + Latency

Nearest ==
  /\ step = "nearest" /\ step' = "pick"
  /\ \E first \in cands : IsFirst(first) /\ cands' = Keep(LAMBDA k : Near(k, first))
  /\ UNCHANGED <<asked, rank, chosen>>

(* A seed that is named twice is on the list twice. *)
ListedTwice(k) ==
  /\ ~ReplSet
  /\ \E i, j \in DOMAIN client.seeds :
       i # j /\ client.seeds[i] = cons[k].host /\ client.seeds[j] = cons[k].host

(* mongo_pick_server_from_set() *)
Pickable(first, last) ==
  IF client.mode = "primaryPreferred" /\ cons[first].type = PRIMARY
  THEN {first}
  ELSE IF client.mode = "secondaryPreferred" /\ cons[last].type = PRIMARY
          /\ ~ListedTwice(last) /\ cands # {last}
  THEN cands \ {last}
  ELSE cands

Pick ==
  /\ step = "pick" /\ step' = "done"
  /\ \E first, last \in cands :
       IsFirst(first) /\ IsLast(last) /\ chosen' \in Pickable(first, last)
  /\ UNCHANGED <<asked, cands, rank>>

SelectionNext == Collect \/ Limit \/ Credentials \/ Tags \/ GiveUp \/ Sort \/ Nearest \/ Pick

SelectionSpec == SelectionInit /\ [][SelectionNext]_selectionVars

-----------------------------------------------------------------------------
(* Where a read may go, said of all connections at once and without an order *)
(* of filters: first what docs/mongo.readpreferences.html promises, then the *)
(* two places where the code keeps to something else.                       *)
Mine(k) ==
  /\ client.user = "-" \/ cons[k].user = client.user
  /\ IF ReplSet THEN cons[k].set # "-" /\ client.set \in {"-", cons[k].set}
     ELSE /\ \E j \in DOMAIN client.seeds : client.seeds[j] = cons[k].host
          /\ cons[k].user = client.user /\ cons[k].set = client.set

Primaries == {k \in DOMAIN cons : Mine(k) /\ cons[k].type = PRIMARY}
Secondaries == {k \in DOMAIN cons : Mine(k) /\ cons[k].type = SECONDARY}

(* The members that match the first tag set that any of S matches. *)
HasTags(k, j) == client.tagsets[j] \subseteq cons[k].tags
FirstTagged(S) ==
  IF DOMAIN client.tagsets = {} THEN S
  ELSE {k \in S : \E j \in DOMAIN client.tagsets :
          HasTags(k, j) /\ \A l \in DOMAIN client.tagsets : l < j => \A c \in S : ~HasTags(c, l)}

Closest(S) == {k \in S : \A l \in S : cons[k].ping <= cons[l].ping + Latency}

(* The document: tag sets select among secondaries only, except in the mode  *)
(* nearest, and where they match none the read fails (lines 82-85, 111-131,  *)
(* 138-151, 200-203).  With the mode primary they are refused (68-69): of    *)
(* them it says nothing more.                                               *)
Documented ==
  CASE client.mode = "primary" -> Primaries
    [] client.mode = "primaryPreferred" ->
         IF Primaries # {} THEN Primaries ELSE Closest(FirstTagged(Secondaries))
    [] client.mode = "secondary" -> Closest(FirstTagged(Secondaries))
    [] client.mode = "secondaryPreferred" ->
         IF DOMAIN client.tagsets = {} /\ Secondaries = {} THEN Primaries
         ELSE Closest(FirstTagged(Secondaries))
    [] client.mode = "nearest" -> Closest(FirstTagged(Primaries \cup Secondaries))

(* The code departs from it with secondaryPreferred, where the tag sets are  *)
(* put to the primary too (read_preference.c:192): when the first tag set    *)
(* that any member matches is one that only the primary matches, it is read  *)
(* from, where the document has a secondary of a later tag set or, when      *)
(* there is none, an exception.                                             *)
PrimaryDecides ==
  LET first == FirstTagged(Primaries \cup Secondaries)
  IN /\ client.mode = "secondaryPreferred" /\ DOMAIN client.tagsets # {}
     /\ first # {} /\ first \subseteq Primaries

(* And with tag sets for the mode primary, which setReadPreference() refuses *)
(* (php_mongo.c:617) and a connection string does not: the primary has to    *)
(* match one.                                                               *)
MayBeReadFrom ==
  IF PrimaryDecides THEN Primaries
  ELSE IF client.mode = "primary" THEN FirstTagged(Primaries)
  ELSE Documented

(* What a client that is not in a replica set may use. *)
Seeds == {k \in DOMAIN cons : Mine(k)}

(* The candidates are places of the registry, the chosen one a candidate. *)
SelectionTypeOK ==
  /\ purpose \in Purpose
  /\ step \in {"collect", "limit", "credentials", "tags", "sort", "nearest", "pick", "done"}
  /\ cands \subseteq DOMAIN cons /\ chosen \in {NotChosen} \cup cands

OnePrimary == \A a, b \in Primaries : a = b

(* A read of a replica set goes to a server the documentation allows, and    *)
(* fails only when there is none, but for the two departures above: with the *)
(* filters, the sort and the cut in this order nothing else is lost          *)
(* (mcon/read_preference.c:340).  Only one of the primaries on record is     *)
(* left out when a secondary is preferred, so a second one, a former         *)
(* primary, may be read from (read_preference.c:552): one is assumed.        *)
(* A client of single servers or mongos gets one of its seeds, within the    *)
(* latency of the nearest unless its read preference sorts by type.          *)
ReadsGoWhereTheyShould ==
  step = "done" /\ purpose = "read" =>
    /\ ReplSet /\ OnePrimary =>
         IF MayBeReadFrom = {} THEN chosen = NotChosen ELSE chosen \in MayBeReadFrom
    /\ ~ReplSet =>
         IF Seeds = {} THEN chosen = NotChosen
         ELSE /\ chosen \in Seeds
              /\ client.mode \notin {"primaryPreferred", "secondaryPreferred"} =>
                   chosen \in Closest(Seeds)

(* The preference for reads does not keep a write from a primary, whatever   *)
(* the order in which it sorts (mcon/manager.c:384).                        *)
WritesGoToPrimaries ==
  step = "done" /\ purpose = "write" /\ ReplSet =>
    IF Primaries = {} THEN chosen = NotChosen ELSE chosen \in Primaries

=============================================================================
