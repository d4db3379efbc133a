SPECIFICATION SandboxSpec
CONSTANTS
  Branches <- MCBranches
  Names <- MCNames
  ProjectName <- MCProjectName
  Octets = 2
  Start <- MCStart
  Commands = {c1, c2}
  Nobody = Nobody
  Orphan = Orphan
SYMMETRY MCSymmetry
INVARIANTS  VolumesKeepTheirRecord 
PROPERTY SameDataSameAddress
