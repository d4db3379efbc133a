----------------------------- MODULE MCSliceLock -----------------------------
(* SliceLock on a small instance.  Three runs are the fewest that show a    *)
(* reclaim overtaken by another: one that leaves a lock and two contenders. *)
EXTENDS SliceLock, TLC

RunSymmetry == Permutations(Runs)
==============================================================================
