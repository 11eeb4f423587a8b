------------------------------ MODULE MCServices ------------------------------
(* Parts that share no state, each explored by itself: the follow-up service *)
(* (the two tenants of services.py, one lead each), the run lifecycle of     *)
(* Agent Lab, the agent's own loop, the directory of a run, the decision of  *)
(* a masked run and the human review of its cases.                           *)
EXTENDS FollowupService, TLC

CONSTANTS amy, ben, cara, l1001, l2001, Runs, Handlers, Main,
          MaxCalls, VerifierRounds, StreakBreak, RepeatLimit, RepeatLimitWrite,
          Callers, Metadata, Torn, Analysts, Failures, Restarts,
          ReviewCases, Fixed, Pilot, Desks, MaxFaults

ASSUME LoopAssumption ==
  /\ MaxCalls \in Nat \ {0} /\ VerifierRounds \in Nat /\ StreakBreak \in Nat
  /\ RepeatLimit \in Nat \ {0} /\ RepeatLimitWrite \in Nat \ {0}

Tenant == [x \in {amy, ben, l1001} |-> "northwind"] @@ [x \in {cara, l2001} |-> "sterling"]
Assigned == [l \in {l1001, l2001} |-> IF l = l1001 THEN amy ELSE cara]
Conditions == <<"harness_full", "native_tools">>
\* The parts share the names of their processes, and those of what they make.
Symmetry == Permutations(Handlers) \cup Permutations(Runs)

VARIABLES unit, current, leader, child, status, pump, replied, said, at, of,
          runsLock, runLock, treeLock, gone,
          condition, step, calls, plan, call, streak, verified, world, seen, guard, log, asked, end,
          there, lockfile, holder, run, attempts, results, temp, pc, doc, listed,
          policy, store, sAt, cell, repeat, record, cells, healthy, restarts, summary,
          files, content, analyst,
          exported, sealed, pilot, receipts, ledger, outcomes, desk, faults

\* With the theorems about them, so that they can be cited of the composition.
Lab  == INSTANCE AgentLabRunProofs
Dir  == INSTANCE RunDirectory WITH seen <- listed
Loop == INSTANCE AgentLoop WITH at <- step, version <- world
D0   == INSTANCE DecisionArtifactsProofs
          WITH Families <- 1, Waves <- 1, MaxCases <- 1, Selected <- Conditions,
               MaxFailures <- Failures, MaxRestarts <- Restarts, at <- sAt
Rev  == INSTANCE ReviewLedger WITH Cases <- ReviewCases, asked <- exported

ASSUME RunConstants       == Lab!RunsAssumption
ASSUME DirectoryConstants == Dir!DirectoryAssumption
ASSUME DecisionConstants  == D0!ScheduleAssumption /\ D0!NoneAssumption
ASSUME ReviewConstants    == Rev!ReviewAssumption

lab  == <<current, leader, child, status, pump, replied, said, at, of, runsLock, runLock,
          treeLock, gone>>
loop == <<condition, step, calls, plan, call, streak, verified, world, seen, guard, log,
          asked, end>>
dir  == <<there, lockfile, holder, run, attempts, results, temp, pc, doc, listed>>
d0   == <<policy, store, sAt, cell, repeat, record, cells, healthy, restarts, summary,
          files, content, analyst>>
rev  == <<exported, sealed, pilot, receipts, ledger, outcomes, desk, faults>>

ServicesInit == /\ unit \in {"followup", "lab", "loop", "directory", "decision", "review"}
                /\ Init /\ Lab!Init /\ Loop!Init /\ Dir!Init /\ D0!DecisionsInit /\ Rev!Init
                /\ unit # "loop" => condition = "raw"
ServicesNext ==
  \/ unit = "followup"  /\ Next             /\ UNCHANGED <<unit, lab, loop, dir, d0, rev>>
  \/ unit = "lab"       /\ Lab!Next         /\ UNCHANGED <<unit, vars, loop, dir, d0, rev>>
  \/ unit = "loop"      /\ Loop!Next        /\ UNCHANGED <<unit, vars, lab, dir, d0, rev>>
  \/ unit = "directory" /\ Dir!Next         /\ UNCHANGED <<unit, vars, lab, loop, d0, rev>>
  \/ unit = "decision"  /\ D0!DecisionsNext /\ UNCHANGED <<unit, vars, lab, loop, dir, rev>>
  \/ unit = "review"    /\ Rev!Next         /\ UNCHANGED <<unit, vars, lab, loop, dir, d0>>
ServicesSpec == ServicesInit /\ [][ServicesNext]_<<unit, vars, lab, loop, dir, d0, rev>>

\* The part a behaviour is about keeps its types.
ServicesTypeOK == CASE unit = "followup"  -> TypeOK
                    [] unit = "lab"       -> Lab!TypeOK
                    [] unit = "loop"      -> Loop!TypeOK
                    [] unit = "directory" -> Dir!TypeOK
                    [] unit = "decision"  -> D0!TypeOK /\ D0!DecisionsTypeOK
                    [] unit = "review"    -> Rev!TypeOK

\* One runner at a time, and no reset under a live one.
OneAtATime == Lab!OneAtATime

\* What a run's closed event says is so, and nothing of the run outlives it.
CloseIsTrue == Lab!CloseIsTrue

\* No call is executed over and over while nothing has changed.
NoFutileRepeat == Loop!NoFutileRepeat

\* In a guarded run the doubtful writes were questioned before they ran.
AskedFirst == Loop!AskedFirst

\* A run has one document, and no look at its directory outside the lock sees
\* anything else or is undone.
OneDocument == Dir!OneDocument

\* What was decided of a masked run is about the evidence as it will stay.
DecisionStands == D0!DecisionStands

\* A published verdict of the review is what its receipts say for ever.
VerdictStands == Rev!VerdictStands
=============================================================================
