------------------------ MODULE MCCursorConnections ------------------------
(***************************************************************************)
(* Instances of CursorConnections for TLC.  Slots of cursors, slots of      *)
(* connections and servers are interchangeable each.                      *)
(***************************************************************************)
EXTENDS CursorConnections, TLC

Symmetric == Permutations(Cursor) \cup Permutations(Conn) \cup Permutations(Server)

=============================================================================
