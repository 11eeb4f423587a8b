------------------------------ MODULE MCStudies ------------------------------
(* The programs of the studies: the feasibility gate that comes before      *)
(* them, those that run cells of a schedule over the evidence store (the    *)
(* scheduler of s6_run, the focused follow-up, its recovery successor, the  *)
(* product validation and the next study), the attestation of a release,    *)
(* the storage spike, the schedules, the office tasks with their grader and *)
(* the memories of an agent.  They share no state, so a behaviour is one    *)
(* of a single program, and TLC explores each.                              *)
EXTENDS CellScheduler, StudyPrograms

CONSTANTS ProbeModels, PlayedOrdinals, MaxSlips, MaxWrites, MaxTears,
          MemoryFacts, MaxAge, PlannedFamilies, PlannedCases, PlannedFirst

Conditions == <<"harness_full", "native_tools">>

ASSUME StudiesAssumption ==
  /\ None \notin Supervisors
  /\ ProbeModels \in Nat \ {0} /\ MaxSlips \in Nat /\ MaxWrites \in Nat /\ MaxTears \in Nat
  /\ PlannedFirst \in 1 .. PlannedFamilies - 1
  /\ PlannedCases \in Nat \ {0} /\ PlannedCases % 2 = 0

\* Two agents in two attempts of one subject, or in two subjects, one without an attempt.
Scopings == {<<<<"ours", "first">>, g>> : g \in {<<"ours", "second">>, <<"theirs", None>>}}

VARIABLES
  unit,
  clock, evidence, paper, lease, sup, faults, starts,
  fAt, pull, gate, unpulled, installed, answered, model, now, row, before, after, failures,
  passing, prepared, fCommitted, whole, trouble,
  family, ordinal, condition, records, recorded, lists, memory, files, inspected, effects, slips,
  oStatus,
  form, scope, lines, ended, opened, mClock, writes, told, mFaults,
  purpose, half, clash, xAt, plan, played, cut

Focused   == INSTANCE FocusedFollowup WITH Cells <- BlockCells
Gate      == INSTANCE FeasibilityProbe WITH Models <- ProbeModels, at <- fAt, committed <- fCommitted
Office    == INSTANCE OfficeGrading WITH status <- oStatus
Memories  == INSTANCE MemoryStores
               WITH Users <- {1, 2}, Facts <- MemoryFacts, MaxFaults <- MaxTears,
                    MaxClock <- MaxAge, store <- opened, clock <- mClock, faults <- mFaults
Plans     == INSTANCE Schedules
               WITH Families <- PlannedFamilies, Cases <- PlannedCases, FirstBlock <- PlannedFirst,
                    study <- purpose, at <- xAt, records <- plan

\* The constants of the programs, as their modules want them.
ASSUME ProgramConstants ==
  /\ None \notin Focused!Reasons /\ Gate!ProbeAssumption
  /\ Office!GradingAssumption /\ Memories!MemoryAssumption

focused   == <<clock, evidence, paper, lease, sup, faults, starts>>
probe     == <<fAt, pull, gate, unpulled, installed, answered, model, now, row, before, after,
               failures, passing, prepared, fCommitted, whole, trouble>>
office    == <<family, ordinal, condition, records, recorded, lists, memory, files, inspected,
               effects, slips, oStatus>>
memories  == <<form, scope, lines, ended, opened, mClock, writes, told, mFaults>>
plans     == <<purpose, half, clash, xAt, plan, played, cut>>
all       == <<unit, vars, focused, successor, product, study, probe, release, office,
               spike, memories, plans>>

InCells     == /\ unit = "cells"
               /\ UNCHANGED <<unit, focused, successor, product, study, probe, release,
                              office, spike, memories, plans>>
InFocused   == /\ unit = "focused"
               /\ UNCHANGED <<unit, vars, successor, product, study, probe, release,
                              office, spike, memories, plans>>
InSuccessor == /\ unit = "successor"
               /\ UNCHANGED <<unit, vars, focused, product, study, probe, release,
                              office, spike, memories, plans>>
InProduct   == /\ unit = "product"
               /\ UNCHANGED <<unit, vars, focused, successor, study, probe, release,
                              office, spike, memories, plans>>
InStudy     == /\ unit = "study"
               /\ UNCHANGED <<unit, vars, focused, successor, product, probe, release,
                              office, spike, memories, plans>>
InProbe     == /\ unit = "probe"
               /\ UNCHANGED <<unit, vars, focused, successor, product, study, release,
                              office, spike, memories, plans>>
InRelease   == /\ unit = "release"
               /\ UNCHANGED <<unit, vars, focused, successor, product, study, probe,
                              office, spike, memories, plans>>
InOffice    == /\ unit = "office"
               /\ UNCHANGED <<unit, vars, focused, successor, product, study, probe,
                              release, spike, memories, plans>>
InStorage   == /\ unit = "storage"
               /\ UNCHANGED <<unit, vars, focused, successor, product, study, probe,
                              release, office, memories, plans>>
InMemory    == /\ unit = "memory"
               /\ UNCHANGED <<unit, vars, focused, successor, product, study, probe,
                              release, office, spike, plans>>
InSchedule  == /\ unit = "schedule"
               /\ UNCHANGED <<unit, vars, focused, successor, product, study, probe,
                              release, office, spike, memories>>

\* The program a behaviour is about; one initial state of the others.
StudiesInit ==
  /\ unit \in {"cells", "focused", "successor", "product", "study", "probe", "release", "office",
              "storage", "memory", "schedule"}
  /\ (\/ unit = "office"
      \/ unit # "office" /\ family = "cal_add" /\ ordinal = 0 /\ condition = "native_tools")
  /\ Office!Init
  /\ Init            /\ (unit # "cells" => policy = [deferred |-> TRUE, verify |-> TRUE, limit |-> 0])
  /\ Gate!Init       /\ (unit # "probe" => pull)
  /\ Release!Init    /\ (unit # "release" => remote = 1)
  /\ Storage!Init    /\ (unit # "storage" => \A i \in 1 .. SpikeCycles : kinds[i] = "normal")
  /\ Memories!Init   /\ (unit # "memory" => form = "facts" /\ scope[2] = <<"ours", "second">>)
  /\ Plans!Init      /\ (unit # "schedule" => /\ purpose = "primary"
                                             /\ \A f \in 1 .. PlannedFamilies : 1 \in half[f])
  /\ Focused!Init /\ Successor!Init /\ Product!Init /\ Study!Init

StudiesNext == \/ InCells /\ Next
               \/ InFocused /\ Focused!Next
               \/ InSuccessor /\ Successor!Next
               \/ InProduct /\ Product!Next
               \/ InStudy /\ Study!Next
               \/ InProbe /\ Gate!Next
               \/ InRelease /\ Release!Next
               \/ InOffice /\ Office!Next
               \/ InStorage /\ Storage!Next
               \/ InMemory /\ Memories!Next
               \/ InSchedule /\ Plans!Next

\* The fairness of every program, as its module states it.
StudiesSpec ==
  /\ StudiesInit /\ [][StudiesNext]_all
  /\ WF_all(\/ InCells /\ Next
            \/ InProbe /\ Gate!Probe
            \/ InRelease /\ Release!Run
            \/ InStorage /\ Storage!Spike)
  /\ WF_all(InRelease /\ Release!Verify)
  /\ WF_all(InStorage /\ Storage!Release)
  /\ \A s \in Rivals : WF_all(\/ s \in Supervisors /\ InFocused /\ Focused!Step(s)
                              \/ s \in Supervisors /\ InSuccessor /\ Successor!Step(s)
                              \/ InProduct /\ Product!Step(s)
                              \/ InStudy /\ Study!Step(s))

-----------------------------------------------------------------------------
\* The program a behaviour is about keeps its types; the others do not move.
StudiesTypeOK == CASE unit = "cells"     -> TypeOK
                   [] unit = "focused"   -> Focused!TypeOK
                   [] unit = "successor" -> Successor!TypeOK
                   [] unit = "product"   -> Product!TypeOK
                   [] unit = "study"     -> Study!TypeOK
                   [] unit = "probe"     -> Gate!TypeOK
                   [] unit = "release"   -> Release!TypeOK
                   [] unit = "office"    -> Office!TypeOK
                   [] unit = "storage"   -> Storage!TypeOK
                   [] unit = "memory"    -> Memories!TypeOK
                   [] unit = "schedule"  -> Plans!TypeOK

\* What the follow-up claims was earned, and so was a gate that verifies as passed,
\* what an attestation of the release says, a strict pass of an office task, a spike
\* that passed; and what a scoped search finds belongs to the one who asks.
ClaimEarned == /\ unit = "focused" => Focused!ClaimEarned
               /\ unit = "probe"   => Gate!PassEarned /\ Gate!FailureNamed
               /\ unit = "release" => Release!AttestationEarned
               /\ unit = "office"  => Office!PassIsEarned
               /\ unit = "storage" => Storage!PassIsEarned
               /\ unit = "memory"  => Memories!NoBleed

\* What a program has concluded, sealed, terminated, analysed, follows from its
\* evidence for ever, in the follow-up and in the two lanes of the successor; and the
\* outcome an office task is graded by follows from what its agent can see; no attempt
\* of the spike has two visible candidates, a memory loses no more than its torn lines,
\* and a schedule that was played, recovered or not, has compared like with like.
ConclusionsHold == /\ unit = "focused"   => Focused!ConclusionsStand
                   /\ unit = "successor" => Successor!TerminalsStand
                   /\ unit = "office"    => Office!OneOutcome
                   /\ unit = "storage"   => Storage!OneVisible
                   /\ unit = "memory"    => Memories!LossIsBounded /\ Memories!NoFactTwice
                   /\ unit = "schedule"  => /\ Plans!EvenAtAnyStop /\ Plans!Counterbalanced
                                           /\ Plans!PlayedOnce

\* Nothing is computed of the successor's results before both lanes are terminal,
\* and no primary cell of the product validation runs before its gate is sealed.
NothingEarly == /\ unit = "successor" => Successor!Embargoed
                /\ unit = "product"   => Product!GateFirst

\* No cell of the successor or of the next study is run a second time without
\* having earned it.
NoSecondChance == Successor!NoSecondChance /\ []Study!RetryEarned

\* A sealed phase of the next study rests on a run that ended valid for good,
\* nothing is committed behind the seal of the product validation, and a release
\* that verified is the code that was tested.
SealsStand == /\ unit = "study"   => Study!SealedStands
              /\ unit = "product" => Product!SealedIsFinal
              /\ unit = "release" => Release!ReleaseIsTested

\* Every program comes to an end: the run of cells to a summary or an error,
\* the starts of the follow-up and of the product validation to their exit, the
\* commands of the next study and of the release to theirs, the gate and
\* the storage spike to their report or an error,
\* the successor, which is started again and again, to its verified release or
\* to a file that only a hand can repair.  (What ends an attempt at an office task is the
\* budget of AttemptLoop.)
StudiesEnd ==
  <>[](CASE unit = "cells"     -> RunEnded
         [] unit = "focused"   -> Focused!SupervisorsEnded
         [] unit = "successor" -> Successor!Concluded
         [] unit = "product"   -> Product!ValidationOver
         [] unit = "study"     -> Study!CommandsEnd
         [] unit = "probe"     -> Gate!ProbeOver
         [] unit = "release"   -> Release!AttestorsRest
         [] unit = "storage"   -> Storage!SpikeOver
         [] OTHER              -> TRUE)
=============================================================================
