\* The first run whose cell is retried and then ends valid.
CONSTANTS
  Supervisors = {s1}
  StudyRuns = {1}
  Cells = 1
  MaxFaults = 1
  MaxStarts = 2
SPECIFICATION Spec
CHECK_DEADLOCK FALSE
INVARIANTS RecoveryCounts
