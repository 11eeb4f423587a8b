----------------------------- MODULE StudyPrograms -----------------------------
(* The programs that publish what others rest on: the recovery successor,     *)
(* the product validation, the next study, the attestation of a release and   *)
(* the storage spike, each over its own variables.                            *)
EXTENDS Integers, Sequences, FiniteSets

CONSTANTS Supervisors, Rivals, BlockCells, GateCells, StudyCells, MaxFaults, MaxStarts,
          StudyRuns, StudyStarts, MaxTrouble, ReportDirs, MaxMoves, Attestors,
          SpikeCycles, SpikeMembers,
          Nil, Torn    \* no lease, document, directory or candidate; half a file

ASSUME ProgramsAssumption ==
  /\ Nil \notin Rivals \cup Nat \cup BOOLEAN /\ "stale" \notin Rivals
  /\ Supervisors \subseteq Rivals /\ BlockCells \in Nat \ {0}
  /\ StudyCells \in Nat \ {0} /\ GateCells \in 1 .. StudyCells
  /\ MaxFaults \in Nat /\ MaxStarts \in Nat /\ StudyRuns \subseteq Nat \ {0} /\ StudyStarts \in Nat

VARIABLES
  rLate, rEvidence, rPaper, rLease, own, rSup, rFaults,
  pEvidence, attested, physical, pPaper, pLease, pSup, pFaults, pStarts,
  nEvidence, nAttested, shaken, states, ledgers, analyses, nLease, cmd, nFaults, nStarts,
  log, head, remote, tree, tag, host, dirs, aAt, round, aBefore, seen, candidate, dir, look,
  collected, vAt, vDir, value, inventory, binding, calm, verified, moves, aStarts,
  kinds, cycle, number, sCandidate, sAt, by, stop, held, sRecords, passed, sTrouble

Successor == INSTANCE RecoverySuccessor
               WITH Cells <- BlockCells, late <- rLate, evidence <- rEvidence, paper <- rPaper,
                    lease <- rLease, sup <- rSup, faults <- rFaults, None <- Nil
Product   == INSTANCE ProductValidation
               WITH Cells <- StudyCells, Supervisors <- Rivals, evidence <- pEvidence,
                    paper <- pPaper, lease <- pLease, sup <- pSup, faults <- pFaults,
                    starts <- pStarts, None <- Nil
Study     == INSTANCE NextStudy
               WITH Cells <- BlockCells, Supervisors <- Rivals, MaxStarts <- StudyStarts,
                    evidence <- nEvidence, attested <- nAttested, lease <- nLease,
                    faults <- nFaults, starts <- nStarts
Release   == INSTANCE ReleaseAttestation
               WITH Dirs <- ReportDirs, MaxStarts <- Attestors, at <- aAt, before <- aBefore,
                    starts <- aStarts, None <- Nil
Storage   == INSTANCE StorageProbe
               WITH Cycles <- SpikeCycles, Members <- SpikeMembers, candidate <- sCandidate,
                    at <- sAt, records <- sRecords, trouble <- sTrouble, None <- Nil

ASSUME PublishersAssumption == Release!AttestationAssumption /\ Storage!SpikeAssumption

successor == <<rLate, rEvidence, rPaper, rLease, own, rSup, rFaults>>
product   == <<pEvidence, attested, physical, pPaper, pLease, pSup, pFaults, pStarts>>
study     == <<nEvidence, nAttested, shaken, states, ledgers, analyses, nLease, cmd, nFaults,
               nStarts>>
release   == <<log, head, remote, tree, tag, host, dirs, aAt, round, aBefore, seen, candidate, dir,
               look, collected, vAt, vDir, value, inventory, binding, calm, verified, moves,
               aStarts>>
spike     == <<kinds, cycle, number, sCandidate, sAt, by, stop, held, sRecords, passed, sTrouble>>
=============================================================================
