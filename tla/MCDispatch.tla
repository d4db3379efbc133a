------------------------------ MODULE MCDispatch ------------------------------
(* Dispatch on a small instance: a slice about to be planned, and one about   *)
(* to be executed.                                                            *)
EXTENDS Dispatch, TLC

Starts ==
  { [spec |-> "SPEC_APPROVED", plan |-> NoDocument],
    [spec |-> "PLAN_GENERATED", plan |-> "PLAN_APPROVED"] }

\* Exploration stops at a slip: SliceLock promises nothing from there on.
UntilSlip == slips = {}

RunSymmetry == Permutations(Runs)
==============================================================================
