CONSTANTS
  Declared = {f1, f2}
  MaxVersions = 2
  MaxCommits = 4
  MaxDispatches = 3
SPECIFICATION ProvisionSpec
INVARIANT CopiesStayUncommitted
PROPERTY AgentStartsComplete
SYMMETRY MCSymmetry
CHECK_DEADLOCK FALSE
