------------------------- MODULE MCCursorIteration -------------------------
(* Small limits, batches and results for CursorIteration.  *)
EXTENDS CursorIteration

MCLimits == {0, 2, 3, -2}
MCBatchSizes == {0, 1, 2, 3, -1}

=============================================================================
