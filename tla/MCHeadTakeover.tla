--------------------------- MODULE MCHeadTakeover ---------------------------
(* HeadTakeover for TLC. *)
EXTENDS HeadTakeover, TLC

\* Sessions, keys and tasks are interchangeable.
HeadSymmetry == Permutations(Sessions) \cup Permutations(Keys) \cup Permutations(Tasks)
=============================================================================
