--------------------------- MODULE OpportunityLedger ---------------------------
(***************************************************************************)
(* OpportunityLedger of harness/experiment.py: the budget of one attempt,  *)
(* shared by all its subepisodes.  A request reserves its limit when it    *)
(* begins; its answer is accounted with the tokens it really generated, or *)
(* with the whole limit when the provider withheld the count.              *)
(***************************************************************************)
EXTENDS Integers

CONSTANTS
  Roles,        \* model roles a request may have
  MaxCalls,     \* maximum_calls
  MaxTokens,    \* maximum_tokens
  PerRequest,   \* per_request
  Budgets,      \* what role_budgets may be: functions from roles to [calls, tokens, each],
                \* the empty one for a protocol without role budgets
  None

ASSUME BudgetAssumption ==
  /\ MaxCalls \in Nat \ {0} /\ MaxTokens \in Nat \ {0} /\ PerRequest \in Nat \ {0}
  /\ \A b \in Budgets :
       /\ DOMAIN b \subseteq Roles /\ b = [r \in DOMAIN b |-> b[r]]
       /\ \A r \in DOMAIN b : b[r].calls \in Nat \ {0} /\ b[r].tokens \in Nat \ {0} /\ b[r].each \in Nat \ {0}
  /\ None \notin Roles

VARIABLES
  budgets,     \* role_budgets, and whether it is None: no role has a budget
  calls,       \* calls
  tokens,      \* generated_tokens: the lower bound
  upper,       \* generated_tokens_upper_bound
  exact,       \* generated_tokens_exact
  roleCalls,   \* call_roles
  roleTokens,  \* role_generated_tokens
  roleUpper,   \* role_generated_tokens_upper_bound
  active,      \* _active_role
  limit,       \* the limit begin_request returned for the active request
  spent        \* the tokens the provider has really generated, metered or not

ledger == <<budgets, calls, tokens, upper, exact, roleCalls, roleTokens, roleUpper, active, limit, spent>>

LedgerTypeOK ==
  /\ budgets \in Budgets
  /\ calls \in Nat /\ tokens \in Nat /\ upper \in Nat /\ limit \in Nat /\ spent \in Nat
  /\ exact \in BOOLEAN
  /\ roleCalls \in [Roles -> Nat] /\ roleTokens \in [Roles -> Nat] /\ roleUpper \in [Roles -> Nat]
  /\ active \in Roles \cup {None}

Least(a, b) == IF a <= b THEN a ELSE b

LedgerInit ==
  /\ budgets \in Budgets
  /\ calls = 0 /\ tokens = 0 /\ upper = 0 /\ exact = TRUE /\ spent = 0
  /\ roleCalls = [r \in Roles |-> 0]
  /\ roleTokens = [r \in Roles |-> 0] /\ roleUpper = [r \in Roles |-> 0]
  /\ active = None /\ limit = 0

-----------------------------------------------------------------------------
\* begin_request raises BudgetExhausted.
Exhausted(role) ==
  \/ calls >= MaxCalls \/ upper >= MaxTokens
  \/ DOMAIN budgets # {} /\ role \notin DOMAIN budgets
  \/ /\ role \in DOMAIN budgets
     /\ roleCalls[role] >= budgets[role].calls \/ roleUpper[role] >= budgets[role].tokens

\* Slip: the tokens left to the role are not a limit.
LimitOfRequest(role) ==
  LET ofAttempt == Least(PerRequest, MaxTokens - upper) IN
  IF role \in DOMAIN budgets THEN Least(ofAttempt, budgets[role].each) ELSE ofAttempt

\* What begin_request returns: num_predict of the request.
RequestLimit(role) ==
  LET ofAttempt == Least(PerRequest, MaxTokens - upper) IN
  IF role \in DOMAIN budgets
    THEN Least(Least(ofAttempt, budgets[role].each), budgets[role].tokens - roleUpper[role])
    ELSE ofAttempt

BeginRequest(role) ==
  /\ active = None /\ ~Exhausted(role)
  /\ limit' = RequestLimit(role)
  /\ calls' = calls + 1
  /\ roleCalls' = [roleCalls EXCEPT ![role] = @ + 1]
  /\ active' = role
  /\ UNCHANGED <<budgets, tokens, upper, exact, roleTokens, roleUpper, spent>>

FinishRequest(n) ==
  /\ active # None /\ n \in 0 .. limit
  /\ tokens' = tokens + n /\ upper' = upper + n /\ spent' = spent + n
  /\ roleTokens' = [roleTokens EXCEPT ![active] = @ + n]
  /\ roleUpper' = [roleUpper EXCEPT ![active] = @ + n]
  /\ active' = None /\ limit' = 0
  /\ UNCHANGED <<budgets, calls, exact, roleCalls>>

\* Slip: an unmetered answer costs nothing.
FinishFree(n) ==
  /\ active # None /\ n \in 0 .. limit
  /\ spent' = spent + n
  /\ exact' = FALSE /\ active' = None /\ limit' = 0
  /\ UNCHANGED <<budgets, calls, tokens, upper, roleCalls, roleTokens, roleUpper>>

\* The provider rejected the generation and did not say how long it was.
FinishRequestUnknown(n) ==
  /\ active # None /\ n \in 0 .. limit
  /\ spent' = spent + n
  /\ upper' = upper + limit
  /\ roleUpper' = [roleUpper EXCEPT ![active] = @ + limit]
  /\ exact' = FALSE /\ active' = None /\ limit' = 0
  /\ UNCHANGED <<budgets, calls, tokens, roleCalls, roleTokens>>

-----------------------------------------------------------------------------
\* What a request in flight may still cost its role.
Reserved(r) == IF active = r THEN limit ELSE 0

\* The budget is a ceiling whatever the answers cost: with the reservation of
\* the request in flight neither the attempt nor a role exceeds its tokens or
\* its calls, so the checks after the addition (experiment.py:246, 274) never
\* raise, and no request is sent with nothing left to generate.
CeilingHolds ==
  /\ calls <= MaxCalls /\ upper + limit <= MaxTokens
  /\ active # None => limit >= 1
  /\ \A r \in DOMAIN budgets :
       /\ roleCalls[r] <= budgets[r].calls
       /\ roleUpper[r] + Reserved(r) <= budgets[r].tokens

\* The record does not flatter: once every request is accounted, what the
\* provider really generated is between the two bounds and, if the record says
\* exact, is the count.
BracketHolds ==
  /\ active = None => tokens <= spent /\ spent <= upper
  /\ active = None /\ exact => tokens = spent /\ tokens = upper
  /\ \A r \in Roles : roleTokens[r] <= roleUpper[r]
=============================================================================
