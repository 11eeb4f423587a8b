\* One agent, one conversation, one run; two clicks.
CONSTANTS
  Agents = {a1}
  Threads = {t1}
  Runs = {r1}
  MaxClicks = 2
  InFlight = 1
  None = None
SPECIFICATION Spec
CHECK_DEADLOCK FALSE
INVARIANT StopTerminates
