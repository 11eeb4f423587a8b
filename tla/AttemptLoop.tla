----------------------------- MODULE AttemptLoop -----------------------------
(***************************************************************************)
(* run_attempt and run_raw_json_attempt of harness/experiment.py: the      *)
(* ordered subepisodes of one attempt, each a loop of one request, one     *)
(* answer and one tool call, under one OpportunityLedger.  A tool call is  *)
(* the name of its tool, a mutating one also its arguments: a member of    *)
(* Mutations is one tool with one set of arguments.  A read-only tool      *)
(* changes nothing here and is a Feedback.  The raw loop is the condition  *)
(* without mechanisms: "driver" is its only role.                          *)
(***************************************************************************)
EXTENDS OpportunityLedger

CONSTANTS
  Mutations,   \* the mutating calls a model can make
  Mechanisms,  \* the sets of mechanisms of the conditions
  Episodes,    \* the number of ordered subepisodes
  Spent        \* the token counts an answer may report

ASSUME LoopAssumption ==
  /\ Episodes \in Nat \ {0}
  /\ {"plan", "completion", "driver"} \subseteq Roles
  /\ Mutations \cap {"think", "done"} = {}
  /\ \A m \in Mechanisms : m \subseteq {"plan", "suppress", "guard"}
  /\ Spent \subseteq Nat

VARIABLES
  has,        \* condition.has: the mechanisms of this attempt
  at,         \* "ask": top of the inner loop, "wait": in transport.chat, "over"
  episode,    \* the subepisode, 1 .. Episodes
  planned, reviewed, required,  \* planned, completion_reviewed, review_required
  mutated,    \* _public_completion_ready: a mutation of this subepisode succeeded
  duplicates, \* duplicate_mutations
  result,     \* execution_status, failure_origin, failure.retryable
  applied,    \* how often the executor has applied each mutation
  last        \* what happened last in this subepisode, of a change, a refused done and a review

flags == <<planned, reviewed, required, mutated>>
vars  == <<ledger, has, at, episode, flags, duplicates, result, applied, last>>

TypeOK ==
  /\ LedgerTypeOK
  /\ has \in Mechanisms
  /\ at \in {"ask", "wait", "over"}
  /\ episode \in 1 .. Episodes
  /\ planned \in BOOLEAN /\ reviewed \in BOOLEAN /\ required \in BOOLEAN /\ mutated \in BOOLEAN
  /\ duplicates \subseteq Mutations
  /\ applied \in [Mutations -> Nat]
  /\ last \in {"nothing", "mutated", "refused", "reviewed"}

Init ==
  /\ LedgerInit
  /\ has \in Mechanisms
  /\ at = "ask" /\ episode = 1
  /\ planned = ("plan" \notin has) /\ reviewed = ("guard" \notin has)
  /\ required = FALSE /\ mutated = FALSE
  /\ duplicates = {} /\ result = None
  /\ applied = [m \in Mutations |-> 0] /\ last = "nothing"

\* role_name of the next request.
Role == IF ~planned THEN "plan" ELSE IF required THEN "completion" ELSE "driver"

\* The attempt ends here: no later subepisode runs.
End(status, origin, retryable) ==
  /\ at' = "over"
  /\ result' = [status |-> status, origin |-> origin, retryable |-> retryable]

-----------------------------------------------------------------------------
(* The request                                                              *)

Ask ==
  /\ at = "ask" /\ at' = "wait"
  /\ BeginRequest(Role)
  /\ UNCHANGED <<has, episode, flags, duplicates, result, applied, last>>

OutOfBudget ==
  /\ at = "ask" /\ Exhausted(Role)
  /\ End("budget_exhausted", "model", FALSE)
  /\ UNCHANGED <<ledger, has, episode, flags, duplicates, applied, last>>

\* ModelOutputProtocolError: the provider could not parse what the model wrote.
RejectedByProvider ==
  /\ at = "wait"
  /\ \E n \in Spent : FinishRequestUnknown(n)
  /\ End("model_error", "model", FALSE)
  /\ UNCHANGED <<has, episode, flags, duplicates, applied, last>>

\* _transport_failure, and a reply that _validate_response refuses: the request
\* is left unaccounted, and the attempt with it.
NoUsableReply ==
  /\ at = "wait"
  /\ \/ End("environment_unstable", "environment", TRUE)
     \/ End("environment_unstable", "environment", FALSE)
     \/ End("runner_error", "runner", FALSE)
  /\ UNCHANGED <<ledger, has, episode, flags, duplicates, applied, last>>

-----------------------------------------------------------------------------
(* What is done with a reply                                                *)

\* The model is told something and asked again: it made not one call or wrote
\* no JSON, called out of turn, repeated a mutation, gave arguments the executor
\* refuses, or read something.
Feedback ==
  /\ at' = "ask"
  /\ UNCHANGED <<has, episode, flags, duplicates, result, applied, last>>

OutOfTurn(call) == (~planned \/ required) /\ call # "think"

\* done before anything was changed (completion_guard).
Premature(call) == call = "done" /\ "guard" \in has /\ ~mutated

\* done before the review: the next call must be the review.
Unreviewed(call) == call = "done" /\ "guard" \in has /\ mutated /\ ~reviewed

\* An identical call has succeeded in this attempt.
Suppressed(call) == call \in duplicates /\ "suppress" \in has

RefuseDone ==
  /\ at' = "ask" /\ required' = TRUE
  /\ last' = IF last = "mutated" THEN "refused" ELSE last
  /\ UNCHANGED <<has, episode, planned, reviewed, mutated, duplicates, result, applied>>

\* registry.invoke passes: the flags follow the call.
Think ==
  /\ at' = "ask"
  /\ planned' = (planned \/ ~required)
  /\ reviewed' = (reviewed \/ required)
  /\ required' = FALSE
  /\ last' = IF last = "refused" THEN "reviewed" ELSE last
  /\ UNCHANGED <<has, episode, mutated, duplicates, result, applied>>

\* Slip: a mutation after the review leaves the review standing.
MutateReviewed(m) ==
  /\ at' = "ask"
  /\ applied' = [applied EXCEPT ![m] = @ + 1]
  /\ duplicates' = duplicates \cup {m}
  /\ mutated' = TRUE /\ last' = "mutated"
  /\ UNCHANGED <<has, episode, planned, reviewed, required, result>>

Mutate(m) ==
  /\ at' = "ask"
  /\ applied' = [applied EXCEPT ![m] = @ + 1]
  /\ duplicates' = duplicates \cup {m}
  /\ mutated' = TRUE /\ reviewed' = FALSE
  /\ last' = "mutated"
  /\ UNCHANGED <<has, episode, planned, required, result>>

\* Slip: the status of the fault itself is reported.
AbortInTime(call) ==
  /\ End("timeout", "runner", FALSE)
  /\ UNCHANGED <<has, episode, flags, duplicates, applied, last>>

\* aborts_attempt: a runner or environment fault, before or after the effect.
Abort(call) ==
  /\ \/ End("environment_unstable", "environment", FALSE)
     \/ End("runner_error", "runner", FALSE)
  /\ applied' \in {applied} \cup {[applied EXCEPT ![m] = @ + 1] : m \in Mutations \cap {call}}
  /\ UNCHANGED <<has, episode, flags, duplicates, last>>

\* Slip: each subepisode has its own fingerprints.
DoneForgetting ==
  /\ IF episode < Episodes
       THEN /\ at' = "ask" /\ episode' = episode + 1
            /\ planned' = ("plan" \notin has) /\ reviewed' = ("guard" \notin has)
            /\ required' = FALSE /\ mutated' = FALSE /\ last' = "nothing"
            /\ UNCHANGED result
       ELSE End("done", "none", FALSE) /\ UNCHANGED <<episode, flags, last>>
  /\ duplicates' = {}
  /\ UNCHANGED <<has, applied>>

\* done is accepted: the next subepisode starts with its own flags and a fresh
\* conversation, or the attempt is done.
Done ==
  /\ IF episode < Episodes
       THEN /\ at' = "ask" /\ episode' = episode + 1
            /\ planned' = ("plan" \notin has) /\ reviewed' = ("guard" \notin has)
            /\ required' = FALSE /\ mutated' = FALSE /\ last' = "nothing"
            /\ UNCHANGED result
       ELSE End("done", "none", FALSE) /\ UNCHANGED <<episode, flags, last>>
  /\ UNCHANGED <<has, duplicates, applied>>

Invoke(call) ==
  \/ Feedback
  \/ Abort(call)
  \/ call = "think" /\ Think
  \/ call = "done" /\ Done
  \/ call \in Mutations /\ Mutate(call)

Handle(call) ==
  \/ OutOfTurn(call) /\ Feedback
  \/ /\ ~OutOfTurn(call)
     /\ \/ Premature(call) /\ Feedback
        \/ Unreviewed(call) /\ RefuseDone
        \/ ~Premature(call) /\ ~Unreviewed(call) /\ Suppressed(call) /\ Feedback
        \/ ~Premature(call) /\ ~Unreviewed(call) /\ ~Suppressed(call) /\ Invoke(call)

Reply ==
  /\ at = "wait"
  /\ \E n \in Spent : FinishRequest(n)
  /\ \/ Feedback
     \/ \E call \in {"think", "done"} \cup Mutations : Handle(call)

Next == Ask \/ OutOfBudget \/ RejectedByProvider \/ NoUsableReply \/ Reply

Spec == Init /\ [][Next]_vars

\* The loop goes on, and transport.chat returns or times out.
FairSpec == Spec /\ WF_vars(Next)

-----------------------------------------------------------------------------
\* A request is sent only when every earlier one is accounted and metered: an
\* answer that never came or had no token count is the last of its attempt
\* ("this uncertainty can never create additional model opportunity",
\* experiment.py:258), and begin_request never finds an active role.
NothingUnaccounted == at = "ask" => active = None /\ exact

\* Both: no token is unaccounted for while the attempt can still ask.
Accounted == BracketHolds /\ NothingUnaccounted

\* With identical_mutation_suppression a mutation takes effect once in the
\* attempt, however its subepisodes, refusals and failures are interleaved.
AppliedOnce == "suppress" \in has => \A m \in Mutations : applied[m] <= 1

\* With public_completion_guard no subepisode ends well unless, after its last
\* successful change, done was refused once and a review was made.
Closed       == episode' # episode \/ (result' # result /\ result'.status = "done")
DoneReviewed == [][Closed /\ "guard" \in has => last = "reviewed"]_vars

\* The loop implements the abstract attempt: one outcome, of the right side,
\* and always an outcome, because every request costs a call of the budget.
A == INSTANCE Attempt
AttemptSpec == A!Spec
=============================================================================
