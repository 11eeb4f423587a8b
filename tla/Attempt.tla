-------------------------------- MODULE Attempt --------------------------------
(***************************************************************************)
(* What one model attempt promises to whoever schedules it: it ends once,  *)
(* with an outcome that says on which side the failure lies.  AttemptLoop  *)
(* implements it; CellScheduler uses nothing else of it.                   *)
(***************************************************************************)
CONSTANTS None

VARIABLE result  \* None while the attempt runs

\* Only an answer that never came and a server error are marked retryable: a
\* model's failure, the runner's own, and a failure of a tool never are.
Outcomes ==
  {[status |-> s, origin |-> "model", retryable |-> FALSE] : s \in {"budget_exhausted", "model_error"}}
  \cup {[status |-> "environment_unstable", origin |-> "environment", retryable |-> b] : b \in BOOLEAN}
  \cup {[status |-> "done", origin |-> "none", retryable |-> FALSE],
        [status |-> "runner_error", origin |-> "runner", retryable |-> FALSE]}

Init == result = None
Next == result = None /\ result' \in Outcomes
Spec == Init /\ [][Next]_result /\ WF_result(Next)
=============================================================================
