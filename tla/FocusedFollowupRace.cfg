\* Two supervisors started on one study, no fault.
CONSTANTS
  Supervisors = {s1, s2}
  Cells = 1
  MaxFaults = 0
  MaxStarts = 2
  None = None
SPECIFICATION FairSpec
CHECK_DEADLOCK FALSE
PROPERTY AnalysisCloses
