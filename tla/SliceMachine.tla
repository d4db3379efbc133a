---------------------------- MODULE SliceMachine ----------------------------
(***************************************************************************)
(* The default state machine of a slice's documents and the two default    *)
(* roles (DEFAULT_CONFIG in scripts/config.py), with the rule by which     *)
(* update_frontmatter_status (scripts/frontmatter.py) accepts a new status.*)
(***************************************************************************)

\* A slice has a spec and, once a planner wrote one, a plan.
Documents == {"spec", "plan"}
NoDocument == "no document"

Edges ==
  [ DRAFT_SPEC         |-> {"SPEC_APPROVED"},
    SPEC_APPROVED      |-> {"PLANNING", "DRAFT_SPEC"},
    PLANNING           |-> {"PLAN_GENERATED", "SPEC_APPROVED", "FAILED"},
    PLAN_DRAFTING      |-> {"PLAN_GENERATED"},
    PLAN_GENERATED     |-> {"PLAN_APPROVED", "PLANNING"},
    PLAN_APPROVED      |-> {"EXECUTING", "PLAN_GENERATED"},
    EXECUTING          |-> {"EXECUTION_COMPLETE", "MERGE_CONFLICT", "PLAN_APPROVED",
                            "FAILED"},
    EXECUTION_COMPLETE |-> {"VERIFIED_CLOSED", "EXECUTING", "MERGE_CONFLICT"},
    FAILED             |-> {"SPEC_APPROVED", "PLAN_APPROVED"},
    VERIFIED_CLOSED    |-> {},
    MERGE_CONFLICT     |-> {"VERIFIED_CLOSED", "EXECUTING", "PLAN_APPROVED"} ]

ValidStatuses == DOMAIN Edges

\* Whether a document at `current` takes the status `new`.  Writing the status a
\* document already has is always accepted.
CanMove(current, new) ==
  /\ current # NoDocument
  /\ new \in ValidStatuses
  /\ current \in DOMAIN Edges => new = current \/ new \in Edges[current]

Roles == {"planner", "executor"}

\* The document a role is dispatched at.
DocumentOf(role) == IF role = "planner" THEN "spec" ELSE "plan"

AllowedStatuses(role) == IF role = "planner" THEN {"SPEC_APPROVED"} ELSE {"PLAN_APPROVED"}
InProgressStatus(role) == IF role = "planner" THEN "PLANNING" ELSE "EXECUTING"
SuccessStatus(role) == IF role = "planner" THEN "PLAN_GENERATED" ELSE "EXECUTION_COMPLETE"
Isolated(role) == role = "executor"

\* What a produced document is born with.
ProducedStatus == "PLAN_DRAFTING"

InProgressStatuses == {InProgressStatus(role) : role \in Roles}

\* gate_for_in_progress: both default roles have a single gate to return to.
GateForInProgress(status) ==
  CHOOSE gate \in ValidStatuses :
    \E role \in Roles : InProgressStatus(role) = status /\ gate \in AllowedStatuses(role)
==============================================================================
