CONSTANTS
  Procs = {p1, p2}
  Slices = {"s1", "s2"}
  Tracks = {"t1", "t2"}
  FirstBriefs <- MCBriefs
  REQUIRED_SECTIONS <- MCSections
  MaxMishaps = 1
SPECIFICATION MilestoneSpec
INVARIANTS MilestoneTypeOK RegionInOrder RecordedOrSaid
PROPERTIES ClosedIsTerminal ClosedMeansDone ActiveMeansWritten
SYMMETRY MCSymmetry
