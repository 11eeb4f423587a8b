-------------------------- MODULE AttemptLoopProofs --------------------------
(***************************************************************************)
(* Proofs about AttemptLoop, for any budgets, mechanisms, mutating calls   *)
(* and number of subepisodes.  The first half is about the ledger alone:   *)
(* each of its three operations keeps LedgerInv.  The second half adds     *)
(* what the loop knows of its flags, and shows that every action keeps it. *)
(***************************************************************************)
EXTENDS AttemptLoop, TLAPS

-----------------------------------------------------------------------------
(* The ledger                                                               *)

\* Bracket is BracketHolds without the exception for a request in flight: its
\* tokens are not in spent before it is accounted.
Bracket ==
  /\ tokens <= spent /\ spent <= upper
  /\ exact => tokens = spent /\ tokens = upper
  /\ \A r \in Roles : roleTokens[r] <= roleUpper[r]

LedgerInv ==
  /\ LedgerTypeOK
  /\ CeilingHolds
  /\ Bracket
  /\ active = None => limit = 0

\* The constants, read off BudgetAssumption for the budgets of this attempt.
LEMMA BudgetType ==
  ASSUME LedgerTypeOK
  PROVE  /\ MaxCalls \in Nat /\ MaxTokens \in Nat /\ PerRequest \in Nat
         /\ MaxCalls > 0 /\ MaxTokens > 0 /\ PerRequest > 0
         /\ DOMAIN budgets \subseteq Roles
         /\ \A r \in DOMAIN budgets :
              /\ budgets[r].calls \in Nat /\ budgets[r].tokens \in Nat /\ budgets[r].each \in Nat
              /\ budgets[r].calls > 0 /\ budgets[r].tokens > 0 /\ budgets[r].each > 0
         /\ None \notin Roles
  <1>1. budgets \in Budgets
    BY DEF LedgerTypeOK
  <1>2. DOMAIN budgets \subseteq Roles
    BY <1>1, BudgetAssumption
  <1>3. \A r \in DOMAIN budgets :
          /\ budgets[r].calls \in Nat \ {0}
          /\ budgets[r].tokens \in Nat \ {0}
          /\ budgets[r].each \in Nat \ {0}
    BY <1>1, BudgetAssumption
  <1> QED
    BY <1>2, <1>3, BudgetAssumption

\* What begin_request reserves: at least one token, and no more than is left
\* to the attempt and to the role.
LEMMA LimitFits ==
  ASSUME LedgerTypeOK, NEW role \in Roles, ~Exhausted(role)
  PROVE  /\ RequestLimit(role) \in Nat /\ RequestLimit(role) >= 1
         /\ upper + RequestLimit(role) <= MaxTokens
         /\ role \in DOMAIN budgets =>
              roleUpper[role] + RequestLimit(role) <= budgets[role].tokens
  <1>1. upper \in Nat /\ roleUpper[role] \in Nat /\ upper < MaxTokens
    BY BudgetType DEF LedgerTypeOK, Exhausted
  <1>2. CASE role \in DOMAIN budgets
    <2>1. roleUpper[role] < budgets[role].tokens
      BY <1>1, <1>2, BudgetType DEF Exhausted
    <2> DEFINE t == budgets[role].tokens
               e == budgets[role].each
    <2>2. t \in Nat /\ e \in Nat /\ e > 0 /\ roleUpper[role] < t
      BY <1>2, <2>1, BudgetType
    <2>3. RequestLimit(role) =
            Least(Least(Least(PerRequest, MaxTokens - upper), e), t - roleUpper[role])
      BY <1>2 DEF RequestLimit
    <2> HIDE DEF t, e
    <2>4. /\ RequestLimit(role) \in Nat /\ RequestLimit(role) >= 1
          /\ upper + RequestLimit(role) <= MaxTokens
          /\ roleUpper[role] + RequestLimit(role) <= t
      BY <1>1, <2>2, <2>3, BudgetType DEF Least
    <2> QED
      BY <2>4 DEF t
  <1>3. CASE role \notin DOMAIN budgets
    <2>1. RequestLimit(role) = Least(PerRequest, MaxTokens - upper)
      BY <1>3 DEF RequestLimit
    <2> QED
      BY <1>1, <1>3, <2>1, BudgetType DEF Least
  <1> QED
    BY <1>2, <1>3

LEMMA BeginKeeps ==
  ASSUME LedgerInv, NEW role \in Roles, BeginRequest(role)
  PROVE  LedgerInv'
  <1> USE DEF LedgerInv, BeginRequest
  <1>1. ~Exhausted(role)
    OBVIOUS
  <1>2. /\ limit' \in Nat /\ limit' >= 1 /\ upper + limit' <= MaxTokens
        /\ role \in DOMAIN budgets => roleUpper[role] + limit' <= budgets[role].tokens
    BY <1>1, LimitFits
  <1>3. LedgerTypeOK'
    BY <1>2 DEF LedgerTypeOK
  <1>4. active' = role /\ active' # None
    BY BudgetType
  <1>5. calls' <= MaxCalls
    BY BudgetType DEF LedgerTypeOK, Exhausted
  <1>6. ASSUME NEW r \in DOMAIN budgets
        PROVE  /\ roleCalls'[r] <= budgets[r].calls
               /\ roleUpper[r] + Reserved(r)' <= budgets[r].tokens
    <2>1. /\ r \in Roles /\ roleCalls[r] \in Nat /\ roleUpper[r] \in Nat
          /\ budgets[r].calls \in Nat /\ budgets[r].tokens \in Nat
      BY <1>6, BudgetType DEF LedgerTypeOK
    <2>2. roleCalls[r] <= budgets[r].calls /\ roleUpper[r] + Reserved(r) <= budgets[r].tokens
      BY <1>6 DEF CeilingHolds
    <2>3. CASE r = role
      <3>1. roleCalls'[r] = roleCalls[r] + 1 /\ Reserved(r)' = limit'
        BY <2>1, <2>3, <1>4 DEF LedgerTypeOK, Reserved
      <3>2. roleCalls[r] < budgets[r].calls
        BY <1>1, <1>6, <2>1, <2>3 DEF Exhausted
      <3> QED
        BY <1>2, <1>6, <2>1, <2>3, <3>1, <3>2
    <2>4. CASE r # role
      <3>1. roleCalls'[r] = roleCalls[r] /\ Reserved(r)' = 0
        BY <2>1, <2>4, <1>4 DEF LedgerTypeOK, Reserved
      <3>2. Reserved(r) = 0
        BY <2>1, BudgetType DEF Reserved
      <3> QED
        BY <2>1, <2>2, <3>1, <3>2
    <2> QED
      BY <2>3, <2>4
  <1>7. CeilingHolds'
    BY <1>2, <1>4, <1>5, <1>6 DEF CeilingHolds
  <1>8. Bracket'
    BY DEF Bracket
  <1> QED
    BY <1>3, <1>4, <1>7, <1>8

\* An answer is accounted with tokens of the reservation: n of them, or, when
\* the count is withheld, all of it.
LEMMA FinishKeeps ==
  ASSUME LedgerInv, NEW n \in Nat, FinishRequest(n) \/ FinishRequestUnknown(n)
  PROVE  LedgerInv' /\ active' = None /\ (FinishRequest(n) => exact' = exact)
  <1> USE DEF LedgerInv
  <1> DEFINE spill == IF FinishRequest(n) THEN n ELSE limit
  <1>1. /\ active \in Roles /\ n <= limit /\ limit \in Nat
        /\ active' = None /\ limit' = 0
        /\ UNCHANGED <<budgets, calls, roleCalls>> /\ spent' = spent + n
    BY DEF FinishRequest, FinishRequestUnknown, LedgerTypeOK
  <1>2. /\ spill \in Nat /\ n <= spill /\ spill <= limit
        /\ upper' = upper + spill
        /\ roleUpper' = [roleUpper EXCEPT ![active] = @ + spill]
    BY <1>1 DEF FinishRequest, FinishRequestUnknown
  <1>3. \/ /\ spill = n /\ tokens' = tokens + n /\ exact' = exact
           /\ roleTokens' = [roleTokens EXCEPT ![active] = @ + n]
        \/ tokens' = tokens /\ exact' = FALSE /\ roleTokens' = roleTokens
    BY DEF FinishRequest, FinishRequestUnknown
  <1> HIDE DEF spill
  <1>4. LedgerTypeOK'
    <2>1. tokens' \in Nat /\ roleTokens' \in [Roles -> Nat]
      BY <1>1, <1>3 DEF LedgerTypeOK
    <2>3. exact' \in BOOLEAN
      BY <1>3, Zenon DEF LedgerTypeOK
    <2>2. upper' \in Nat /\ spent' \in Nat /\ roleUpper' \in [Roles -> Nat]
      BY <1>1, <1>2 DEF LedgerTypeOK
    <2> QED
      BY <1>1, <2>1, <2>2, <2>3 DEF LedgerTypeOK
  <1>5. ASSUME NEW r \in Roles
        PROVE  /\ roleUpper'[r] = roleUpper[r] + (IF r = active THEN spill ELSE 0)
               /\ roleTokens'[r] <= roleTokens[r] + (IF r = active THEN spill ELSE 0)
    <2>1. roleUpper'[r] = roleUpper[r] + (IF r = active THEN spill ELSE 0)
      BY <1>1, <1>2 DEF LedgerTypeOK
    <2>2. roleTokens'[r] <= roleTokens[r] + (IF r = active THEN spill ELSE 0)
      BY <1>1, <1>2, <1>3 DEF LedgerTypeOK
    <2> QED
      BY <2>1, <2>2
  <1>6. CeilingHolds'
    <2>1. calls' <= MaxCalls /\ upper' + limit' <= MaxTokens
      BY <1>1, <1>2, BudgetType DEF CeilingHolds, LedgerTypeOK
    <2>2. ASSUME NEW r \in DOMAIN budgets
          PROVE  roleUpper'[r] + Reserved(r)' <= budgets[r].tokens
      <3>1. /\ r \in Roles /\ roleUpper[r] \in Nat /\ budgets[r].tokens \in Nat /\ r # None
        BY <2>2, BudgetType DEF LedgerTypeOK
      <3>2. roleUpper[r] + Reserved(r) <= budgets[r].tokens
        BY <2>2 DEF CeilingHolds
      <3>3. Reserved(r)' = 0
        BY <1>1, <3>1 DEF Reserved
      <3> QED
        BY <1>1, <1>2, <1>5, <3>1, <3>2, <3>3 DEF Reserved
    <2>3. \A r \in DOMAIN budgets : roleCalls[r] <= budgets[r].calls
      BY DEF CeilingHolds
    <2> QED
      BY <1>1, <2>1, <2>2, <2>3 DEF CeilingHolds
  <1>7. Bracket'
    <2>1. tokens' <= spent' /\ spent' <= upper'
      BY <1>1, <1>2, <1>3 DEF Bracket, LedgerTypeOK
    <2>2. exact' => tokens' = spent' /\ tokens' = upper'
      BY <1>1, <1>2, <1>3 DEF Bracket, LedgerTypeOK
    <2>3. ASSUME NEW r \in Roles
          PROVE  roleTokens'[r] <= roleUpper'[r]
      BY <1>1, <1>2, <1>4, <1>5 DEF Bracket, LedgerTypeOK
    <2> QED
      BY <2>1, <2>2, <2>3 DEF Bracket
  <1> QED
    BY <1>1, <1>4, <1>6, <1>7 DEF FinishRequest

-----------------------------------------------------------------------------
(* The loop                                                                 *)

\* What the flags of a subepisode know of its history, under
\* public_completion_guard and as long as the attempt runs.
FlagsTell ==
  "guard" \in has /\ at # "over" =>
    /\ reviewed <=> last = "reviewed"
    /\ required <=> last = "refused"
    /\ mutated <=> last # "nothing"

\* A mutation that has been applied is suppressed from then on; only an attempt
\* that ends on it forgets it.
Remembered ==
  "suppress" \in has =>
    \A m \in Mutations : /\ applied[m] <= 1
                         /\ at # "over" /\ m \notin duplicates => applied[m] = 0

\* The inductive invariant.
IInv ==
  /\ TypeOK
  /\ LedgerInv
  /\ NothingUnaccounted
  /\ at = "wait" => exact
  /\ at # "over" => result = None
  /\ FlagsTell
  /\ Remembered

LEMMA RoleType == ASSUME TypeOK PROVE Role \in Roles
  BY LoopAssumption DEF TypeOK, Role

\* Every call a model can make is one of the three kinds.
LEMMA Kinds ==
  ASSUME NEW m \in Mutations PROVE m # "think" /\ m # "done"
  BY LoopAssumption

LEMMA InitHolds == Init => IInv
  <1> SUFFICES ASSUME Init PROVE IInv
    OBVIOUS
  <1> USE DEF Init, LedgerInit
  <1>1. LedgerTypeOK
    BY DEF LedgerTypeOK
  <1>2. TypeOK
    <2>1. planned \in BOOLEAN /\ reviewed \in BOOLEAN /\ required \in BOOLEAN /\ mutated \in BOOLEAN
      BY Zenon
    <2>2. episode \in 1 .. Episodes
      BY LoopAssumption
    <2>3. applied \in [Mutations -> Nat]
      OBVIOUS
    <2> QED
      BY <1>1, <2>1, <2>2, <2>3, Zenon DEF TypeOK
  <1>3. CeilingHolds
    <2>1. ASSUME NEW r \in DOMAIN budgets
          PROVE  roleCalls[r] <= budgets[r].calls /\ roleUpper[r] + Reserved(r) <= budgets[r].tokens
      <3>1. r \in Roles /\ budgets[r].calls \in Nat /\ budgets[r].tokens \in Nat /\ Reserved(r) = 0
        BY <1>1, <2>1, BudgetType DEF Reserved
      <3> QED
        BY <3>1
    <2> QED
      BY <1>1, <2>1, BudgetType DEF CeilingHolds
  <1>4. LedgerInv
    BY <1>1, <1>3 DEF LedgerInv, Bracket
  <1>5. FlagsTell /\ Remembered /\ NothingUnaccounted
    <2>1. "guard" \in has => ~reviewed
      BY Zenon
    <2> QED
      BY <2>1 DEF FlagsTell, Remembered, NothingUnaccounted
  <1> QED
    BY <1>2, <1>4, <1>5 DEF IInv

\* What Reply does to everything but the ledger, one disjunct for each way a
\* reply is handled, with what is known of the call.
Handled ==
  \/ Feedback
  \/ "guard" \in has /\ mutated /\ ~reviewed /\ planned /\ ~required /\ RefuseDone
  \/ Think
  \/ planned /\ ~required /\ ("guard" \in has => mutated /\ reviewed) /\ Done
  \/ \E m \in Mutations :
       /\ ~required /\ ("suppress" \in has => m \notin duplicates)
       /\ Mutate(m)
  \/ \E call \in {"think", "done"} \cup Mutations :
       /\ "suppress" \in has => call \notin duplicates
       /\ Abort(call)

LEMMA HandledCases ==
  ASSUME TypeOK, NEW call \in {"think", "done"} \cup Mutations, Handle(call)
  PROVE  Handled
  <1>1. CASE OutOfTurn(call) \/ Premature(call) \/ Suppressed(call)
    BY <1>1, Kinds, LoopAssumption DEF Handle, Handled, OutOfTurn, Premature, Unreviewed, Suppressed, TypeOK
  <1>2. CASE Unreviewed(call) /\ ~OutOfTurn(call) /\ ~Premature(call)
    BY <1>2 DEF Handle, Handled, OutOfTurn, Unreviewed
  <1>3. CASE ~OutOfTurn(call) /\ ~Premature(call) /\ ~Unreviewed(call) /\ ~Suppressed(call)
    <2>1. Invoke(call)
      BY <1>3 DEF Handle
    <2>2. "suppress" \in has => call \notin duplicates
      BY <1>3 DEF Suppressed
    <2>3. CASE call = "think" /\ Think
      BY <2>3 DEF Handled
    <2>4. CASE call = "done" /\ Done
      BY <1>3, <2>4 DEF Handled, OutOfTurn, Premature, Unreviewed
    <2>5. CASE call \in Mutations /\ Mutate(call)
      BY <1>3, <2>2, <2>5, Kinds DEF Handled, OutOfTurn
    <2>6. CASE Feedback \/ Abort(call)
      BY <2>2, <2>6 DEF Handled
    <2> QED
      BY <2>1, <2>3, <2>4, <2>5, <2>6 DEF Invoke
  <1> QED
    BY <1>1, <1>2, <1>3 DEF Handle

\* The part of the invariant that is not the ledger's.
LoopInv ==
  /\ has \in Mechanisms /\ at \in {"ask", "wait", "over"} /\ episode \in 1 .. Episodes
  /\ planned \in BOOLEAN /\ reviewed \in BOOLEAN /\ required \in BOOLEAN /\ mutated \in BOOLEAN
  /\ duplicates \subseteq Mutations /\ applied \in [Mutations -> Nat]
  /\ last \in {"nothing", "mutated", "refused", "reviewed"}
  /\ at # "over" => result = None
  /\ FlagsTell /\ Remembered

LEMMA HandledKeeps ==
  ASSUME LoopInv, at = "wait", Handled
  PROVE  LoopInv' /\ at' \in {"ask", "over"}
  <1> USE DEF LoopInv
  <1>1. CASE Feedback
    BY <1>1 DEF Feedback, FlagsTell, Remembered, flags
  <1>2. CASE "guard" \in has /\ mutated /\ ~reviewed /\ ~required /\ RefuseDone
    BY <1>2 DEF RefuseDone, FlagsTell, Remembered
  <1>3. CASE Think
    BY <1>3 DEF Think, FlagsTell, Remembered
  <1>4. CASE Done
    <2>1. CASE episode < Episodes
      <3>1. planned' \in BOOLEAN /\ reviewed' \in BOOLEAN /\ ("guard" \in has => ~reviewed')
        BY <1>4, <2>1, Zenon DEF Done
      <3>2. /\ at' = "ask" /\ episode' = episode + 1 /\ ~required' /\ ~mutated'
            /\ required' \in BOOLEAN /\ mutated' \in BOOLEAN /\ last' = "nothing"
            /\ UNCHANGED <<result, has, duplicates, applied>>
        BY <1>4, <2>1 DEF Done
      <3> QED
        BY <2>1, <3>1, <3>2, LoopAssumption DEF FlagsTell, Remembered
    <2>2. CASE ~(episode < Episodes)
      BY <1>4, <2>2 DEF Done, End, FlagsTell, Remembered, flags
    <2> QED
      BY <2>1, <2>2
  <1>5. ASSUME NEW m \in Mutations, ~required, "suppress" \in has => m \notin duplicates, Mutate(m)
        PROVE  LoopInv' /\ at' \in {"ask", "over"}
    <2>1. applied' \in [Mutations -> Nat] /\ duplicates' \subseteq Mutations
      BY <1>5 DEF Mutate
    <2>2. FlagsTell'
      BY <1>5 DEF Mutate, FlagsTell
    <2>3. Remembered'
      BY <1>5 DEF Mutate, Remembered
    <2> QED
      BY <1>5, <2>1, <2>2, <2>3 DEF Mutate
  <1>6. ASSUME NEW call, "suppress" \in has => call \notin duplicates, Abort(call)
        PROVE  LoopInv' /\ at' \in {"ask", "over"}
    <2>1. at' = "over" /\ UNCHANGED <<has, episode, flags, duplicates, last>>
      BY <1>6 DEF Abort, End
    <2>2. \/ applied' = applied
          \/ call \in Mutations /\ applied' = [applied EXCEPT ![call] = @ + 1]
      BY <1>6 DEF Abort
    <2>3. Remembered' /\ applied' \in [Mutations -> Nat]
      BY <1>6, <2>1, <2>2 DEF Remembered
    <2> QED
      BY <2>1, <2>3 DEF FlagsTell, flags
  <1> QED
    BY <1>1, <1>2, <1>3, <1>4, <1>5, <1>6 DEF Handled

LEMMA StepKeeps == IInv /\ [Next]_vars => IInv'
  <1> SUFFICES ASSUME IInv, [Next]_vars PROVE IInv'
    OBVIOUS
  <1>0. LoopInv /\ LedgerInv
    BY DEF IInv, LoopInv, TypeOK
  <1>a. ASSUME LoopInv', LedgerInv', NothingUnaccounted', at' = "wait" => exact'
        PROVE  IInv'
    BY <1>a DEF IInv, LoopInv, LedgerInv, TypeOK
  <1>1. CASE Ask
    <2>1. LedgerInv' /\ exact' = exact
      BY <1>0, <1>1, BeginKeeps, RoleType DEF Ask, IInv, BeginRequest
    <2>2. LoopInv'
      BY <1>0, <1>1 DEF Ask, LoopInv, FlagsTell, Remembered, flags
    <2> QED
      BY <1>1, <1>a, <2>1, <2>2 DEF Ask, IInv, NothingUnaccounted
  <1>2. CASE OutOfBudget
    <2>1. LoopInv' /\ at' = "over"
      BY <1>0, <1>2 DEF OutOfBudget, End, LoopInv, FlagsTell, Remembered, flags
    <2>2. LedgerInv'
      BY <1>0, <1>2 DEF OutOfBudget, ledger, LedgerInv, LedgerTypeOK, CeilingHolds, Reserved, Bracket
    <2> QED
      BY <1>a, <2>1, <2>2 DEF NothingUnaccounted
  <1>3. CASE RejectedByProvider
    <2>1. LoopInv' /\ at' = "over"
      BY <1>0, <1>3 DEF RejectedByProvider, End, LoopInv, FlagsTell, Remembered, flags
    <2>2. LedgerInv'
      BY <1>0, <1>3, FinishKeeps, LoopAssumption DEF RejectedByProvider
    <2> QED
      BY <1>a, <2>1, <2>2 DEF NothingUnaccounted
  <1>4. CASE NoUsableReply
    <2>1. LoopInv' /\ at' = "over"
      BY <1>0, <1>4 DEF NoUsableReply, End, LoopInv, FlagsTell, Remembered, flags
    <2>2. LedgerInv'
      BY <1>0, <1>4 DEF NoUsableReply, ledger, LedgerInv, LedgerTypeOK, CeilingHolds, Reserved, Bracket
    <2> QED
      BY <1>a, <2>1, <2>2 DEF NothingUnaccounted
  <1>5. CASE Reply
    <2>1. LedgerInv' /\ active' = None /\ exact' = exact
      BY <1>0, <1>5, FinishKeeps, LoopAssumption DEF Reply
    <2>2. at = "wait" /\ exact
      BY <1>5 DEF Reply, IInv
    <2>3. Handled
      BY <1>5, HandledCases DEF Reply, Handled, IInv
    <2>4. LoopInv' /\ at' \in {"ask", "over"}
      BY <1>0, <2>2, <2>3, HandledKeeps
    <2> QED
      BY <1>a, <2>1, <2>2, <2>4 DEF NothingUnaccounted
  <1>6. CASE UNCHANGED vars
    BY <1>6 DEF IInv, vars, ledger, flags, TypeOK, LedgerInv, LedgerTypeOK, CeilingHolds, Reserved,
                Bracket, NothingUnaccounted, FlagsTell, Remembered
  <1> QED
    BY <1>1, <1>2, <1>3, <1>4, <1>5, <1>6 DEF Next

\* The inductive invariant holds in every reachable state.
THEOREM Invariance == Spec => []IInv
  BY InitHolds, StepKeeps, PTL DEF Spec

\* The type invariant.
THEOREM TypeCorrect == Spec => []TypeOK
  <1>1. IInv => TypeOK
    BY DEF IInv
  <1> QED
    BY <1>1, Invariance, PTL

\* The budgets of the attempt and of its roles are ceilings (begin_request,
\* finish_request and finish_request_unknown of OpportunityLedger).
THEOREM Ceiling == Spec => []CeilingHolds
  <1>1. IInv => CeilingHolds
    BY DEF IInv, LedgerInv
  <1> QED
    BY <1>1, Invariance, PTL

\* The record brackets what was generated, and nothing is asked for while a
\* token is unaccounted for (run_attempt, experiment.py:1182-1218).
THEOREM EveryTokenAccounted == Spec => []Accounted
  <1>1. IInv => Accounted
    BY DEF IInv, LedgerInv, Bracket, BracketHolds, Accounted
  <1> QED
    BY <1>1, Invariance, PTL

\* identical_mutation_suppression lets no mutation take effect twice.
THEOREM MutationsOnce == Spec => []AppliedOnce
  <1>1. IInv => AppliedOnce
    BY DEF IInv, Remembered, AppliedOnce
  <1> QED
    BY <1>1, Invariance, PTL

\* public_completion_guard: no subepisode ends well without a review after its
\* last change.
THEOREM ReviewedBeforeDone == Spec => DoneReviewed
  <1>1. IInv /\ [Next]_vars => [Closed /\ "guard" \in has => last = "reviewed"]_vars
    <2> SUFFICES ASSUME IInv, Next, Closed, "guard" \in has
                 PROVE  last = "reviewed"
      BY DEF vars, ledger, flags
    <2>1. CASE Reply
      <3>1. Handled /\ at = "wait"
        BY <2>1, HandledCases DEF Reply, Handled, IInv
      <3>2. CASE mutated /\ reviewed
        BY <3>1, <3>2 DEF IInv, FlagsTell, TypeOK
      <3>3. CASE Feedback \/ RefuseDone \/ Think \/ \E m \in Mutations : Mutate(m)
        BY <3>3 DEF Closed, Feedback, RefuseDone, Think, Mutate
      <3>4. CASE \E call \in {"think", "done"} \cup Mutations : Abort(call)
        BY <3>4 DEF Closed, Abort, End
      <3> QED
        BY <3>1, <3>2, <3>3, <3>4 DEF Handled
    <2>2. CASE Ask \/ OutOfBudget \/ RejectedByProvider \/ NoUsableReply
      BY <2>2 DEF Closed, Ask, OutOfBudget, RejectedByProvider, NoUsableReply, End
    <2> QED
      BY <2>1, <2>2 DEF Next
  <1> QED
    BY <1>1, Invariance, PTL DEF Spec, DoneReviewed

\* The safety half of AttemptSpec: the loop refines the abstract attempt, which
\* takes one of the outcomes and never another.
THEOREM Implements == Spec => A!Init /\ [][A!Next]_result
  <1>1. Init => A!Init
    BY DEF Init, A!Init
  <1>2. IInv /\ [Next]_vars => [A!Next]_result
    <2> SUFFICES ASSUME IInv, Next, result' # result
                 PROVE  A!Next
      BY DEF vars
    <2>1. at # "over"
      BY DEF Next, Ask, OutOfBudget, RejectedByProvider, NoUsableReply, Reply
    <2>2. result' \in A!Outcomes
      <3>1. CASE Reply
        <4>1. Handled
          BY <3>1, HandledCases DEF Reply, Handled, IInv
        <4> QED
          BY <4>1 DEF Handled, Feedback, RefuseDone, Think, Mutate, Done, Abort, End, A!Outcomes
      <3>2. CASE Ask \/ OutOfBudget \/ RejectedByProvider \/ NoUsableReply
        BY <3>2 DEF Ask, OutOfBudget, RejectedByProvider, NoUsableReply, End, A!Outcomes
      <3> QED
        BY <3>1, <3>2 DEF Next
    <2> QED
      BY <2>1, <2>2 DEF IInv, A!Next
  <1> QED
    BY <1>1, <1>2, Invariance, PTL DEF Spec
=============================================================================
