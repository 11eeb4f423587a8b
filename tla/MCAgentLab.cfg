\* Three questions; three tabs for two places, a queue of two and a replay of
\* three of four events; one writer of conversations with crashes; two runs, one
\* request at a time and the end of the server; two servers; a page with two agents and two
\* clicks.
CONSTANTS
  MaxAsks = 3
  Streams = {s1, s2, s3}
  MaxEvents = 3
  QueueSize = 2
  MaxSubscribers = 2
  Closing = 3
  Resume = FALSE
  Callers = {a}
  Threads = {t1, t2}
  MaxOps = 5
  Runs = {r1, r2}
  Handlers = {h1}
  Main = Main
  Servers = 2
  MaxRequests = 2
  Agents = {a1, a2}
  Chats = {c1, c2}
  PageRuns = {p1, p2}
  MaxClicks = 2
  InFlight = 0
  None = None
SPECIFICATION LabSpec
CHECK_DEADLOCK FALSE
INVARIANTS
  LabTypeOK
  ConsentOnly
  YesObeyed
  DecidedOnce
  StreamHolds
  NothingUnasked
  OwnAnswer
PROPERTIES
  
  LabEnds
