------------------------- MODULE MCServerSelection -------------------------
(* Values for model checking ServerSelection: three connections out of a     *)
(* small catalogue, the nearest 0 ms and the furthest 40 ms away.           *)
EXTENDS ServerSelection

C(type, ping, tags, set, user, host) ==
  [type |-> type, ping |-> ping, tags |-> tags, set |-> set, user |-> user, host |-> host]

Catalogue ==
  {C(t, p, g, "rs", "-", "a") : t \in {PRIMARY, SECONDARY}, p \in {0, 10, 40},
                               g \in {{}, {"east"}, {"east", "ssd"}}}
  \cup {C(ARBITER, 0, {}, "rs", "-", "b"), C(SECONDARY, 0, {"east"}, "other", "-", "b"),
        C(SECONDARY, 10, {}, "rs", "u", "b"), C(MONGOS, 0, {}, "-", "-", "a"),
        C(STANDALONE, 40, {}, "-", "u", "b"), C(PRIMARY, 10, {}, "-", "-", "b"),
        C(MONGOS, 40, {}, "-", "-", "b")}

MCConnections ==
  {<<c>> : c \in Catalogue}
  \cup {<<c, d, e>> : c \in {x \in Catalogue : x.type = SECONDARY /\ x.ping = 10},
                      d \in Catalogue, e \in {x \in Catalogue : x.ping # 10}}

Client(con_type, set, user, mode, tagsets) ==
  [con_type |-> con_type, set |-> set, user |-> user, seeds |-> <<"b", "a">>, mode |-> mode,
   tagsets |-> tagsets]

MCClients ==
  {Client("replset", "rs", "-", m, ts) : m \in Modes \ {"primary"},
     ts \in {<<>>, <<{"ssd"}>>, <<{"east", "ssd"}, {"east"}>>, <<{"ssd"}, {}>>}}
  \cup {Client("replset", "rs", "-", "primary", ts) : ts \in {<<>>, <<{"ssd"}>>}}
  \cup {Client("replset", "rs", "u", "nearest", <<>>)}
  \cup {[Client("multiple", "-", u, m, <<>>) EXCEPT !.seeds = s] :
         u \in {"-", "u"}, m \in Modes, s \in {<<"b", "a">>, <<"b", "b">>}}

=============================================================================
