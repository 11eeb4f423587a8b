\* Two proposals on two leads of two tenants with two proposers and a reader;
\* two runs in a row, two requests at once and the end of the server;
\* a task of four model calls; two callers on the directory of one run;
\* two analysts of a run of two cells that is started again once;
\* three cases to review, two of them twice, with one publication cut short.
CONSTANTS
  amy = amy
  ben = ben
  cara = cara
  l1001 = l1001
  l2001 = l2001
  Actors = {amy, ben, cara}
  Agents = {amy, cara}
  Approvers = {ben}
  Leads = {l1001, l2001}
  Bodies = {x1, x2}
  TenantOf <- Tenant
  AssignedTo <- Assigned
  Eligible = {l1001, l2001}
  Writers = {p1, p2}
  Readers = {r1}
  MaxProposals = 2
  MaxAudit = 5
  Runs = {x1, x2}
  Handlers = {p1, p2}
  Main = Main
  MaxCalls = 4
  VerifierRounds = 1
  StreakBreak = 3
  RepeatLimit = 2
  RepeatLimitWrite = 1
  Callers = {p1, p2}
  Metadata = {x1, x2}
  Torn = Torn
  Analysts = {p1, p2}
  Failures = 2
  Restarts = 1
  ReviewCases = {1, 2, 3}
  Fixed = {1, 2}
  Pilot = {1, 2}
  Desks = {d1}
  MaxFaults = 1
  None = None
SPECIFICATION ServicesSpec
SYMMETRY Symmetry
CHECK_DEADLOCK FALSE
INVARIANTS
  ServicesTypeOK
  OneAtATime
  NoFutileRepeat
  
  CloseIsTrue
  OneLineage
  StatesTold
  OneDocument
  DecisionStands
  VerdictStands
PROPERTIES
  OutboxSpec
