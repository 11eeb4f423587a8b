\* Two of the four cases of two families in two waves with two bad attempts;
\* two cells a block; a gate of one cell and two behind it, two supervisors;
\* as many starts of the next study as it has phases; the three models of the
\* protocol with two troubles; one report directory and three moves of the
\* developer about two commands of the attestor; every office task as written and
\* those of one ordinal (workload 3, two distractors, the second policy) played; two
\* cycles of the spike with two files each; two appends to a memory, one of them torn;
\* the schedules of three families with two cases each, one family in B1a.
CONSTANTS
  Families = 2
  Waves = 2
  MaxCases = 2
  Selected <- Conditions
  MaxFailures = 2
  MaxRestarts = 1
  Supervisors = {s1}
  Rivals = {s1, s2}
  BlockCells = 2
  GateCells = 1
  StudyCells = 3
  MaxFaults = 2
  MaxStarts = 2
  StudyRuns = {1}
  StudyStarts = 5
  ProbeModels = 3
  MaxTrouble = 2
  ReportDirs = {d1}
  MaxMoves = 3
  Attestors = 2
  PlayedOrdinals = {24}
  MaxSlips = 1
  Torn = Torn
  SpikeCycles = 2
  SpikeMembers = 2
  MaxWrites = 2
  MaxTears = 1
  MemoryFacts = {{1}, {1, 2}}
  MaxAge = 1
  PlannedFamilies = 3
  PlannedCases = 2
  PlannedFirst = 1
  None = None
  Nil = Nil
SPECIFICATION StudiesSpec
CHECK_DEADLOCK FALSE
INVARIANTS
  StudiesTypeOK
  NoReroll
  StrictIsEarned
  SummaryIsFinal
  
  ClaimEarned
  NothingEarly
  SealsStand
PROPERTIES
  
  StudiesEnd
