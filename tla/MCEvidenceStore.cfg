\* Two callers, two keys and one adverse event at any step.
CONSTANTS
  Keys = {k1, k2}
  Candidates = {c1, c2, c3}
  Procs = {p1, p2}
  None = None
  MaxFaults = 1
SPECIFICATION FairSpec
INVARIANTS
  MarkersSound
  ProjectionExact
PROPERTIES
  EvidenceKept
  RegisterSpec
  EventuallySettled
