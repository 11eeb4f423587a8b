\* Two subepisodes that harness_full can just finish within ten calls.
CONSTANTS
  Roles = {"plan", "completion", "driver"}
  MaxCalls = 10
  MaxTokens = 5
  PerRequest = 2
  Budgets <- RoleBudgets
  Mechanisms <- Conditions
  Mutations = {m1, m2}
  Episodes = 2
  Spent = {0, 2}
  None = None
SPECIFICATION FairSpec
CHECK_DEADLOCK FALSE
INVARIANTS
  CeilingHolds
  Accounted
  AppliedOnce
PROPERTIES
  DoneReviewed
  AttemptSpec
