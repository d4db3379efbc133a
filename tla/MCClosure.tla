------------------------------ MODULE MCClosure ------------------------------
(* A slice whose execution is complete, one about to be executed, and one     *)
(* being planned.                                                             *)
EXTENDS Closure, TLC

MCSlice(spec, plan, landed, live) ==
  [status |-> [d \in Documents |-> IF d = "spec" THEN spec ELSE plan],
   branch |-> [exists |-> landed > 0, commits |-> landed, merged |-> 0,
               complete |-> landed],
   run |-> live]

MCSlices ==
  { MCSlice("PLAN_GENERATED", "EXECUTION_COMPLETE", 1, "none"),
    MCSlice("PLAN_GENERATED", "PLAN_APPROVED", 1, "none"),
    MCSlice("PLANNING", NoDocument, 0, "planner") }

ASSUME MCOrderlyStart == OrderlyStart

MCSymmetry == Permutations(Closers)
==============================================================================
