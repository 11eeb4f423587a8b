---------------------------- MODULE MCAttemptLoop ----------------------------
(* The conditions of experiment.py, and budgets in proportion, for TLC.     *)
EXTENDS AttemptLoop

\* native_tools and raw_json, harness_full, no_plan, no_recovery, no_completion_guard.
Conditions ==
  {{}, {"plan", "suppress", "guard"}, {"suppress", "guard"}, {"plan", "guard"}, {"plan", "suppress"}}

\* No role budgets, budgets that sum to the attempt's, and one for a role alone.
RoleBudgets ==
  {[r \in {} |-> [calls |-> 1, tokens |-> 1, each |-> 1]],
   [plan |-> [calls |-> 2, tokens |-> 1, each |-> 1],
    completion |-> [calls |-> 2, tokens |-> 1, each |-> 1],
    driver |-> [calls |-> 6, tokens |-> 3, each |-> 2]],
   [driver |-> [calls |-> 10, tokens |-> 5, each |-> 2]]}
=============================================================================
