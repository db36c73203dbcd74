---------------------------- MODULE MCGridStream ----------------------------
(* A file of eight bytes in chunks of three. *)
EXTENDS GridStream
=============================================================================
