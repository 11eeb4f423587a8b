\* Two servers and one request.
CONSTANTS
  Servers = 2
  MaxRequests = 1
SPECIFICATION Spec
CHECK_DEADLOCK FALSE
INVARIANT AccountNamed
