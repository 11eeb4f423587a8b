---------------------------- MODULE CellScheduler ----------------------------
(***************************************************************************)
(* _run of bench/s6_run.py with _waves, _condition_order and what its      *)
(* producer makes of an attempt: every cell of the schedule, an instance   *)
(* under a condition, is attempted, committed to the evidence store and    *)
(* attempted again only after a retryable failure of the environment.  A   *)
(* run that dies, raises or is over may be started again under its run id: *)
(* create_run takes the store of a run with the same metadata, and the     *)
(* schedule begins anew over what is committed.                            *)
(***************************************************************************)
EXTENDS Integers, Sequences, FiniteSets

CONSTANTS
  Families,    \* the number of scenario families, in sorted order 0, 1, ...
  Waves,       \* instances of each family, in the order of their ids
  MaxCases,    \* --max-cases
  Selected,    \* the sequence of selected conditions
  MaxFailures, \* bound: attempts of a run that do not end well
  MaxRestarts, \* bound: how often the run is started again
  None

ASSUME ScheduleAssumption ==
  /\ Families \in Nat \ {0} /\ Waves \in Nat \ {0} /\ MaxCases \in Nat \ {0}
  /\ Selected \in Seq({Selected[i] : i \in DOMAIN Selected})
  /\ \A i, j \in DOMAIN Selected : i # j => Selected[i] # Selected[j]
  /\ Selected # <<>> /\ MaxFailures \in Nat /\ MaxRestarts \in Nat

VARIABLES
  policy,   \* grading_mode, verify_transport_health_before_retry, instrument_retry_limit
  at,       \* "run", "publish", "judge", "recover", "summary", "over", "raised"
  cell,     \* the number of the current cell, from 1
  repeat,   \* the repeat of the current attempt, from 0
  record,   \* what the producer has made, as long as it is not committed
  store,    \* store[c]: the committed attempts of cell c, by repeat
  cells,    \* the cells of the summary
  healthy,  \* the health check has passed since the last attempt
  restarts, \* how often the run was started again
  summary   \* the cells of the last summary that was printed, or None

vars == <<policy, at, cell, repeat, record, store, cells, healthy, restarts, summary>>

Outcome == INSTANCE Attempt WITH result <- record

-----------------------------------------------------------------------------
(* The schedule                                                             *)

Order(wave, family) ==
  IF (wave + family) % 2 = 0 THEN <<"native_tools", "harness_full">>
                             ELSE <<"harness_full", "native_tools">>

\* _waves, cut to MaxCases: wave by wave, each family once.
Cases    == IF MaxCases < Families * Waves THEN MaxCases ELSE Families * Waves
Wave(i)   == (i - 1) \div Families
Family(i) == (i - 1) % Families

PerCase == Len(Selected)

\* _condition_order: the selected primaries in the order of the case, then the
\* descriptive conditions as they were selected.
Place(i, p) ==
  LET order == Order(Wave(i), Family(i)) IN
  IF Selected[p] = order[1] THEN -1 ELSE IF Selected[p] = order[2] THEN 0 ELSE p

Before(i, p)      == {q \in 1 .. PerCase : Place(i, q) < Place(i, p)}
ConditionOrder(i) ==
  [n \in 1 .. PerCase |-> Selected[CHOOSE p \in 1 .. PerCase : Cardinality(Before(i, p)) = n - 1]]

AllCells  == 1 .. Cases * PerCase
CaseOf(c) == ((c - 1) \div PerCase) + 1
Condition(c) == ConditionOrder(CaseOf(c))[((c - 1) % PerCase) + 1]

-----------------------------------------------------------------------------
\* RunPolicy() of S6, and the score-masked one of s7_run.
Policies == {[deferred |-> masked, verify |-> masked, limit |-> n] : masked \in BOOLEAN, n \in {0, 1}}

Records ==
  [status : {"done", "budget_exhausted", "model_error", "environment_unstable", "runner_error"},
   origin : {"none", "model", "environment", "runner"}, retryable : BOOLEAN,
   strict : {TRUE, FALSE, None}, verified : BOOLEAN]

ASSUME NoneAssumption == None \notin BOOLEAN \cup Records

Cells == [case : 1 .. Cases, condition : {Selected[i] : i \in DOMAIN Selected}, final : Records]

TypeOK ==
  /\ policy \in Policies
  /\ at \in {"run", "publish", "judge", "recover", "summary", "over", "raised"}
  /\ cell \in AllCells \cup {Cases * PerCase + 1} /\ (cell \in AllCells \/ at \in {"summary", "over", "raised"})
  /\ repeat \in 0 .. policy.limit
  /\ record \in Records \cup {None}
  /\ store \in [AllCells -> Seq(Records)]
  /\ cells \in Seq(Cells) /\ (summary \in Seq(Cells) \/ summary = None)
  /\ healthy \in BOOLEAN /\ restarts \in 0 .. MaxRestarts

Init ==
  /\ policy \in Policies
  /\ at = "run" /\ cell = 1 /\ repeat = 0 /\ record = None
  /\ store = [c \in AllCells |-> <<>>] /\ cells = <<>> /\ healthy = FALSE
  /\ restarts = 0 /\ summary = None

Failed ==
  Cardinality({a \in AllCells \X {1, 2} :
                 a[2] \in DOMAIN store[a[1]] /\ store[a[1]][a[2]].origin # "none"})

\* The key of the current attempt is committed, and its record.
Known == repeat < Len(store[cell])
Final == store[cell][repeat + 1]

Graded(o, strict) ==
  [status |-> o.status, origin |-> o.origin, retryable |-> o.retryable, strict |-> strict,
   verified |-> healthy]

\* Slip: a model that ran out of budget keeps the grade of its partial state.
GradePartial(o) ==
  IF policy.deferred \/ o.origin \notin {"none", "model"} THEN {Graded(o, None)}
  ELSE {Graded(o, strict) : strict \in BOOLEAN}

\* The producer grades an attempt that is the model's own, unless grading is
\* deferred; a grader that fails makes it the runner's failure, and only an
\* attempt that was done can pass.
Grade(o) ==
  IF policy.deferred \/ o.origin \notin {"none", "model"} THEN {Graded(o, None)}
  ELSE {Graded([status |-> "runner_error", origin |-> "runner", retryable |-> FALSE], None)}
       \cup {Graded(o, strict) : strict \in IF o.origin = "none" THEN BOOLEAN ELSE {FALSE}}

Produce ==
  /\ at = "run" /\ ~Known
  /\ \E o \in Outcome!Outcomes :
       /\ o.origin = "none" \/ Failed < MaxFailures
       /\ record' \in {r \in Grade(o) : r.origin = "none" \/ Failed < MaxFailures}
  /\ at' = "publish" /\ healthy' = FALSE
  /\ UNCHANGED <<policy, cell, repeat, store, cells, restarts, summary>>

\* execute_or_resume answers committed for what the producer has made.
Publish ==
  /\ at = "publish"
  /\ store' = [store EXCEPT ![cell] = Append(@, record)]
  /\ at' = "judge" /\ record' = None
  /\ UNCHANGED <<policy, cell, repeat, cells, healthy, restarts, summary>>

\* execute_or_resume finds the key committed and calls no producer.
Resume ==
  /\ at = "run" /\ Known
  /\ at' = "judge" /\ healthy' = FALSE
  /\ UNCHANGED <<policy, cell, repeat, record, store, cells, restarts, summary>>

\* publish_blocked, before or after the producer: the run ends with a
\* RuntimeError.
NotCommitted ==
  /\ at \in {"run", "publish"} /\ at' = "raised"
  /\ UNCHANGED <<policy, cell, repeat, record, store, cells, healthy, restarts, summary>>

\* Slip: whatever the instrument did wrong is tried again.
RetryInstrument == Final.origin \in {"environment", "runner"} /\ repeat < policy.limit

Retryable == Final.origin = "environment" /\ Final.retryable /\ repeat < policy.limit

\* The cooldown, which is a sleep, and the next repeat.
Retry ==
  /\ at = "judge" /\ Retryable
  /\ repeat' = repeat + 1
  /\ at' = IF policy.verify THEN "recover" ELSE "run"
  /\ UNCHANGED <<policy, cell, record, store, cells, healthy, restarts, summary>>

\* Slip: a server that is not well is waited for.
VerifyPatiently ==
  /\ at = "recover"
  /\ \/ at' = "run" /\ healthy' = TRUE /\ UNCHANGED repeat
     \/ at' = "judge" /\ repeat' = repeat - 1 /\ UNCHANGED healthy
  /\ UNCHANGED <<policy, cell, record, store, cells, restarts, summary>>

\* verify_health passes or raises.
VerifyHealth ==
  /\ at = "recover"
  /\ \/ at' = "run" /\ healthy' = TRUE
     \/ at' = "raised" /\ UNCHANGED healthy
  /\ UNCHANGED <<policy, cell, repeat, record, store, cells, restarts, summary>>

Described(r) == [case |-> CaseOf(cell), condition |-> Condition(cell), final |-> r]

\* Slip: the cell is described by its first attempt.
CompleteFirst ==
  /\ at = "judge" /\ ~Retryable
  /\ cells' = Append(cells, Described(store[cell][1]))
  /\ cell' = cell + 1 /\ repeat' = 0
  /\ at' = IF cell' \in AllCells THEN "run" ELSE "summary"
  /\ UNCHANGED <<policy, record, store, healthy, restarts, summary>>

\* Slip: the loop does not stop at the last cell.
CompleteOnward ==
  /\ at = "judge" /\ ~Retryable
  /\ cells' = Append(cells, Described(Final))
  /\ cell' = cell + 1 /\ repeat' = 0 /\ at' = "run"
  /\ UNCHANGED <<policy, record, store, healthy, restarts, summary>>

Complete ==
  /\ at = "judge" /\ ~Retryable
  /\ cells' = Append(cells, Described(Final))
  /\ cell' = cell + 1 /\ repeat' = 0
  /\ at' = IF cell' \in AllCells THEN "run" ELSE "summary"
  /\ UNCHANGED <<policy, record, store, healthy, restarts, summary>>

\* The count of the cells, then read_committed, which halts on damaged evidence.
Summarise ==
  /\ at = "summary"
  /\ \/ at' = "over" /\ summary' = cells
     \/ at' = "raised" /\ UNCHANGED summary
  /\ UNCHANGED <<policy, cell, repeat, record, store, cells, healthy, restarts>>

\* The process dies, or it has ended, and the run is started again.  What was
\* made and not committed is lost, or adopted by the store if it was prepared.
Restart ==
  /\ restarts < MaxRestarts /\ restarts' = restarts + 1
  /\ \/ UNCHANGED store
     \/ record # None /\ store' = [store EXCEPT ![cell] = Append(@, record)]
  /\ at' = "run" /\ cell' = 1 /\ repeat' = 0 /\ record' = None
  /\ cells' = <<>> /\ healthy' = FALSE
  /\ UNCHANGED <<policy, summary>>

Next == \/ Produce \/ Publish \/ Resume \/ NotCommitted \/ Retry \/ VerifyHealth
        \/ Complete \/ Summarise \/ Restart

Spec     == Init /\ [][Next]_vars
FairSpec == Spec /\ WF_vars(Next)

-----------------------------------------------------------------------------
\* "One logical cell receives at most one preregistered retry only when an
\* environment-origin failure carries the runtime's explicit retryable=true
\* marker ... Runner failures and valid model failures ... are never rerun"
\* (docs/PROJECT_SETUP.md:1092): no answer of the model is ever rerolled, and
\* where the policy says so the server was verified in between.
NoReroll ==
  \A c \in AllCells :
    /\ Len(store[c]) <= policy.limit + 1
    /\ \A i \in 1 .. Len(store[c]) - 1 :
         /\ store[c][i].origin = "environment" /\ store[c][i].retryable
         /\ policy.verify => store[c][i + 1].verified

\* A cell passes only if its attempt was done and graded at once; a failure
\* of the grader or of the environment is never a score, and a masked run has
\* no score in its evidence at all.
StrictIsEarned ==
  \A c \in AllCells : \A i \in DOMAIN store[c] :
    LET r == store[c][i] IN
    /\ r.strict = TRUE => r.origin = "none" /\ r.status = "done"
    /\ r.strict # None => ~policy.deferred /\ r.origin \in {"none", "model"}

Settled(c) ==
  /\ store[c] # <<>>
  /\ LET r == store[c][Len(store[c])] IN
     ~(r.origin = "environment" /\ r.retryable /\ Len(store[c]) <= policy.limit)

\* The summary: every cell once, in the order of the schedule, told by its
\* last attempt, and no cell begun before the one before it was settled, over
\* all lives of the run; what a summary has said stays true in the next ones.
SummaryIsFinal ==
  /\ at = "over" => Len(cells) = Cases * PerCase
  /\ \A n \in DOMAIN cells :
       /\ cells[n].case = CaseOf(n) /\ cells[n].final = store[n][Len(store[n])]
       /\ \A k \in 1 .. n - 1 : cells[k].case = cells[n].case => cells[k].condition # cells[n].condition
  /\ \A c \in AllCells : store[c] # <<>> => \A b \in 1 .. c - 1 : Settled(b)
  /\ summary # None => \A n \in DOMAIN summary : summary[n].final = store[n][Len(store[n])]

\* The run has come to a summary or to an error.
RunEnded == at \in {"over", "raised"}
=============================================================================
