----------------------------- MODULE MCCommands -----------------------------
\* Two servers of the same or of different versions in a replica set, whichever
\* is the primary at first, and two mongos of different versions.
EXTENDS Commands

MCServers == {"s1", "s2"}
MCTagged == {"s2"}
MCPreferences ==
  { [mode |-> "primary", tagged |-> FALSE], [mode |-> "secondary", tagged |-> FALSE],
    [mode |-> "nearest", tagged |-> TRUE] }
Of(r, v1, v2) == [replset |-> r, version |-> [s1 |-> v1, s2 |-> v2] ]
MCDeployments ==
  { Of(TRUE, "old", "old"), Of(TRUE, "old", "new"), Of(TRUE, "new", "mid"), Of(FALSE, "mid", "new") }
=============================================================================
