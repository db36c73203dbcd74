-------------------------- MODULE MCCommandCursor --------------------------
(* Small results and batches for CommandCursorIteration.  *)
EXTENDS CommandCursorIteration

MCBatchSizes == {0, 1, 2, -1}

=============================================================================
