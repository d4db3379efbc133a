CONSTANTS
  Slices <- MCSlices
  Milestones <- MCMilestones
  Within <- MCWithin
  Projects <- MCProjects
  MaxSetbacks = 1
SPECIFICATION GateLiveSpec
PROPERTIES StartsAfterDependencies WhatIsOrderedCloses
CHECK_DEADLOCK FALSE
