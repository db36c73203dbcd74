------------------------ MODULE MCConnectionManager ------------------------
(* Values for model checking ConnectionManager: two machines, one of which   *)
(* has a second name "x" that is not the name it gives itself.              *)
EXTENDS ConnectionManager

MCName == {"a", "b", "x"}
MCMachine == [n \in MCName |-> IF n = "b" THEN "B" ELSE "A"]
MCMe == [m \in {"A", "B"} |-> IF m = "B" THEN "b" ELSE "a"]
MCMemberLists == {<<"a">>, <<"a", "b">>}
Roles(a, b) == [m \in {"A", "B"} |-> IF m = "A" THEN a ELSE b]
MCStart == {Roles("primary", "secondary")}
StartWithForeign == {Roles("primary", "secondary"), Roles("primary", "foreign")}

MCClients ==
  {[seeds |-> <<"x">>, set |-> "-", repl |-> TRUE, types |-> {"PRIMARY", "SECONDARY"}],
   [seeds |-> <<"a">>, set |-> "rs", repl |-> TRUE, types |-> {"SECONDARY"}],
   [seeds |-> <<"x", "b">>, set |-> "-", repl |-> FALSE, types |-> {"PRIMARY"}]}

(* For liveness and for the counterexamples: one client, one process. *)
OneClient ==
  {[seeds |-> <<"b", "a">>, set |-> "rs", repl |-> TRUE, types |-> {"SECONDARY"}]}

=============================================================================
