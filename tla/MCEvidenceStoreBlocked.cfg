\* One key and one adverse event are enough for the disagreement.
CONSTANTS
  Keys = {k1}
  Candidates = {c1, c2}
  Procs = {p1, p2}
  None = None
  MaxFaults = 1
SPECIFICATION Spec
SYMMETRY Symmetry
PROPERTY BlockedNeverReruns
