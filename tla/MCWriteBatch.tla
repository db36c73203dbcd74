---------------------------- MODULE MCWriteBatch ----------------------------
(* Values for model checking WriteBatch: an operation that leaves room, one  *)
(* that fills a batch to its last byte, and one that fits nowhere.          *)
EXTENDS WriteBatch

MCSizes == {1, 2, 5}

=============================================================================
