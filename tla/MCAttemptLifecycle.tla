------------------------- MODULE MCAttemptLifecycle -------------------------
(* AttemptLifecycle for TLC.  One reconciler that comes back is enough for the *)
(* promises that need one; the others may die half-way.                        *)
EXTENDS AttemptLifecycle
CONSTANTS p1, p2
=============================================================================
