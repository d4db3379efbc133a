------------------------------ MODULE MCSandbox ------------------------------
(* Two branches whose searches start at the same address, two addresses.      *)
EXTENDS Sandbox, TLC

MCBranches == {"feat/a", "feat/b"}
MCNames == {"feat-a", "feat-b"}
MCProjectName == [b \in MCBranches |-> IF b = "feat/a" THEN "feat-a" ELSE "feat-b"]

\* _sanitize_id admits dots and capitals, project_name_for folds them: feat/x.1 and
\* feat/x-1 are one project.
MCOneName == {"feat-x-1"}
MCFolded == [b \in MCBranches |-> "feat-x-1"]

MCStart == [b \in MCBranches |-> 1]
MCSymmetry == Permutations(Commands)
==============================================================================
