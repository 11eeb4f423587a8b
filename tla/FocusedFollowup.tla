--------------------------- MODULE FocusedFollowup ---------------------------
(***************************************************************************)
(* The focused follow-up study (bench/focused_followup.py) under its       *)
(* supervisor (scripts/run-focused-followup.ps1): three blocks of cells,   *)
(* each sealed or terminated, then one analysis and one report.  Every     *)
(* conclusion is a file followed by a marker and is derived again from the *)
(* evidence whenever it is read.  Core commands die at any point, leaving  *)
(* the machine-wide lease behind; the cutoffs pass while they run.         *)
(***************************************************************************)
EXTENDS Naturals, FiniteSets, FiniteSetsExt

CONSTANTS
  Supervisors, \* supervisors started on this study
  Cells,       \* scheduled cells of a block
  MaxFaults,   \* bound: commands and supervisors killed
  MaxStarts,   \* bound: starts of a supervisor
  None

B1a == 1
B1b == 2
B2  == 3
Blocks == {B1a, B1b, B2}
Ids    == 1 .. Cells

\* What is committed of a cell: nothing; a first attempt that may be retried,
\* without, with half and with a whole health attestation; or the last attempt.
Open      == {"retry", "attesting", "attested"}
Committed == {"valid", "environment", "instrument"} \cup Open
Reasons   == {"deadline", "B2_start_cutoff", "environment_failure", "instrument_failure"}
Papers    == ({"start", "seal", "term"} \X Blocks) \cup {<<"analysis", 0>>, <<"report", 0>>}
Analysis  == <<"analysis", 0>>
Report    == <<"report", 0>>

VARIABLES
  clock,    \* 0 before the B2 start cutoff, 1 after it, 2 after the hard stop
  evidence, \* evidence[b][c]: what the evidence store has of the cell
  paper,    \* published files: absent, written without a marker, or marked
  lease,    \* holder of the machine-wide lease; "stale" when the holder died
  sup,      \* sup[s]: where the supervisor and its command are
  faults, starts

vars == <<clock, evidence, paper, lease, sup, faults, starts>>

Absent  == [file |-> "absent", doc |-> None]
Idle(a) == [at |-> a, block |-> B1a, cmd |-> "run", cell |-> 1, out |-> None, doc |-> None,
            fallback |-> None]

Init ==
  /\ clock = 0 /\ evidence = [b \in Blocks |-> [c \in Ids |-> "none"]]
  /\ paper = [n \in Papers |-> Absent] /\ lease = None
  /\ sup = [s \in Supervisors |-> Idle("closed")] /\ faults = 0 /\ starts = 0

TypeOK ==
  /\ clock \in 0 .. 2 /\ evidence \in [Blocks -> [Ids -> Committed \cup {"none"}]]
  /\ \A n \in Papers : paper[n].file \in {"absent", "torn", "done"}
  /\ lease \in Supervisors \cup {None, "stale"} /\ DOMAIN sup = Supervisors
  /\ \A s \in Supervisors :
       /\ sup[s].at \in {"closed", "look", "check", "lease", "environment", "mark", "cell",
                         "execute", "attest", "second", "post", "seal", "term", "payload", "marker",
                         "analyze", "report", "judge", "finished"}
       /\ sup[s].block \in Blocks /\ sup[s].cell \in 1 .. Cells + 1
       /\ sup[s].out \in Papers \cup {None} /\ sup[s].fallback \in Reasons \cup {None}
  /\ faults \in 0 .. MaxFaults /\ starts \in 0 .. MaxStarts

-----------------------------------------------------------------------------
\* What the evidence says of a block.
Missing(b)    == {c \in Ids : evidence[b][c] = "none"}
Invalid(b)    == {c \in Ids : evidence[b][c] \notin {"none", "valid"}}
Instrument(b) == {c \in Ids : evidence[b][c] = "instrument"}
\* The records a document binds: attestations are not among them.
Attempts(b)   == [c \in Ids |-> IF evidence[b][c] \in Open THEN "retry" ELSE evidence[b][c]]

Done(n)   == paper[n].file = "done"
Exists(n) == paper[n].file # "absent"
Closed    == Exists(Analysis)

\* What derive_seal asks of the cells.
\* Slip: it is enough that each of them was run.
WholeCommitted(b) == Missing(b) = {}
Whole(b)          == Missing(b) = {} /\ Invalid(b) = {}

\* load_block_seal and load_termination: the marker is there and the document
\* follows from the evidence of now.
SealStands(b) ==
  LET n == <<"seal", b>> IN
  /\ Done(n) /\ Done(<<"start", b>>)
  /\ Whole(b) /\ paper[n].doc.attempts = Attempts(b)

SealedLate == paper[<<"seal", B1b>>].doc.clock >= 1

Grounds(b, reason) ==
  CASE reason = "deadline"            -> Missing(b) # {} /\ Invalid(b) = {}
    [] reason = "environment_failure" -> Cardinality(Invalid(b)) = 1 /\ Instrument(b) = {}
    [] reason = "instrument_failure"  -> Instrument(b) # {}
    [] OTHER -> b = B2 /\ SealStands(B1b) /\ SealedLate /\ Missing(b) = Ids

TermStands(b) ==
  LET n == <<"term", b>> IN
  Done(n) /\ paper[n].doc.attempts = Attempts(b) /\ Grounds(b, paper[n].doc.reason)

PriorSeals(b)   == \A p \in Blocks : p < b => SealStands(p)
SealSequence(b) == PriorSeals(b) /\ (b = B2 => ~SealedLate)
Sealable(b)     == Whole(b) /\ Done(<<"start", b>>)

\* The clock half of a reason.
Due(reason) == CASE reason = "deadline" -> clock = 2 [] reason = "B2_start_cutoff" -> clock >= 1
                 [] OTHER -> TRUE

-----------------------------------------------------------------------------
\* Commands follow each other while the block has no disposition.
First(b)   == IF b = B2 THEN "B2_start_cutoff" ELSE "run"
After(cmd) == CASE cmd = "B2_start_cutoff" -> "run" [] cmd = "run" -> "seal"
                [] cmd = "seal" -> "environment_failure"
                [] cmd = "environment_failure" -> "instrument_failure"
                [] cmd = "instrument_failure" -> "deadline" [] OTHER -> "none"
Commanding == {"check", "lease", "environment", "mark", "cell", "execute", "attest",
               "second", "post", "seal", "term", "payload", "marker"}

Goto(s, at) == sup' = [sup EXCEPT ![s].at = at]

\* The command has ended: the supervisor looks at what it published.
Ended(s) == [sup[s] EXCEPT !.at = IF sup[s].out \in {Analysis, Report} THEN "judge" ELSE "look",
                           !.cmd = After(@), !.cell = 1]
\* The command ends by itself, in success or with an error, and gives its lease back.
Over(s)  == sup' = [sup EXCEPT ![s] = Ended(s)] /\ lease' = IF lease = s THEN None ELSE lease

\* Get-BlockDisposition and the steps of Start-Run that follow from it.
Disposed(s, b) ==
  IF SealStands(b)
  THEN sup' = [sup EXCEPT ![s] = IF b = B2 THEN [@ EXCEPT !.at = "analyze"]
                                 ELSE [@ EXCEPT !.block = b + 1, !.cmd = First(b + 1)]]
  ELSE sup' = [sup EXCEPT ![s] = [@ EXCEPT !.at = "analyze",
                 !.fallback = IF b = B1b /\ paper[<<"term", b>>].doc.reason # "instrument_failure"
                              THEN paper[<<"term", b>>].doc.reason ELSE None]]

Look(s) ==
  /\ sup[s].at = "look"
  /\ LET b == sup[s].block
         seal == paper[<<"seal", b>>].file
         term == paper[<<"term", b>>].file
     IN CASE "torn" \in {seal, term} \/ (seal = "done" /\ term = "done") -> Goto(s, "closed")
          [] seal = "done" /\ term # "done" ->
               IF SealStands(b) THEN Disposed(s, b) ELSE Goto(s, "closed")
          [] term = "done" /\ seal # "done" ->
               IF TermStands(b) THEN Disposed(s, b) ELSE Goto(s, "closed")
          [] OTHER -> Goto(s, CASE sup[s].cmd = "none" -> "closed" [] sup[s].cmd = "run" -> "check"
                                [] sup[s].cmd = "seal" -> "lease" [] OTHER -> "term")
  /\ UNCHANGED <<clock, evidence, paper, lease, faults, starts>>

-----------------------------------------------------------------------------
\* run_block before the lease.
MayRun(b) == /\ ~Closed /\ ~Exists(<<"seal", b>>) /\ ~Exists(<<"term", b>>)
             /\ SealSequence(b) /\ clock < 2

Check(s) ==
  /\ sup[s].at = "check"
  /\ IF MayRun(sup[s].block) THEN Goto(s, "lease") /\ UNCHANGED lease ELSE Over(s)
  /\ UNCHANGED <<clock, evidence, paper, faults, starts>>

Lease(s) ==
  /\ sup[s].at = "lease"
  /\ IF lease = None THEN lease' = s /\ Goto(s, "environment") ELSE Over(s)
  /\ UNCHANGED <<clock, evidence, paper, faults, starts>>

\* validate_current_environment: the host, the models or the sources may have
\* drifted.
Environment(s) ==
  /\ sup[s].at \in {"environment", "post"}
  /\ \/ Over(s)
     \/ /\ UNCHANGED lease
        /\ Goto(s, IF sup[s].at = "post" \/ sup[s].cmd = "seal" THEN "seal" ELSE "mark")
  /\ UNCHANGED <<clock, evidence, paper, faults, starts>>

Write(s, n, d) == sup' = [sup EXCEPT ![s] = [@ EXCEPT !.at = "payload", !.out = n, !.doc = d]]

\* The start of the block is published once and reused by every resumption.
Mark(s) ==
  /\ sup[s].at = "mark"
  /\ LET n == <<"start", sup[s].block>> IN
     \/ Done(n) /\ Goto(s, "cell") /\ UNCHANGED lease
     \/ paper[n].file = "torn" /\ Over(s)
     \/ ~Exists(n) /\ Write(s, n, None) /\ UNCHANGED lease
  /\ UNCHANGED <<clock, evidence, paper, faults, starts>>

\* terminate_block(reason), called by run_block or as a command of its own.
Terminate(s, reason) ==
  sup' = [sup EXCEPT ![s] = [@ EXCEPT !.at = "term", !.doc = [reason |-> reason]]]

Commit(b, c, o) == evidence' = [evidence EXCEPT ![b][c] = o]

\* One turn of run_block's loop: the hard stop is looked at before every cell,
\* also before one that only has to be read again.
Cell(s) ==
  /\ sup[s].at = "cell"
  /\ CASE sup[s].cell > Cells -> Goto(s, "post")
       [] sup[s].cell <= Cells /\ clock = 2 -> Terminate(s, "deadline")
       [] OTHER -> Goto(s, "execute")
  /\ UNCHANGED <<clock, evidence, paper, lease, faults, starts>>

\* _execute_cell, and what its record means for the block.
Execute(s) ==
  /\ sup[s].at = "execute"
  /\ LET b == sup[s].block
         c == sup[s].cell
     IN CASE evidence[b][c] = "none" ->
               /\ \E o \in Committed \ {"attesting", "attested"} : Commit(b, c, o)
               /\ UNCHANGED sup
          [] evidence[b][c] = "valid" ->
               /\ sup' = [sup EXCEPT ![s] = [@ EXCEPT !.at = "cell", !.cell = c + 1]]
               /\ UNCHANGED evidence
          [] evidence[b][c] \in Open -> Goto(s, "attest") /\ UNCHANGED evidence
          [] OTHER -> /\ Terminate(s, IF Instrument(b) # {} THEN "instrument_failure"
                                      ELSE "environment_failure")
                      /\ UNCHANGED evidence
  /\ UNCHANGED <<clock, paper, lease, faults, starts>>

\* The retry of a first attempt that the environment failed: after a health
\* check, attested in a marked document of its own.
Attest(s) ==
  /\ sup[s].at = "attest"
  /\ LET b == sup[s].block
         c == sup[s].cell
     IN \/ /\ evidence[b][c] = "retry"
           /\ \/ Over(s) /\ UNCHANGED evidence                         \* not healthy
              \/ Commit(b, c, "attesting") /\ Goto(s, "second") /\ UNCHANGED lease
        \/ evidence[b][c] = "attesting" /\ Over(s) /\ UNCHANGED evidence
        \/ /\ evidence[b][c] = "attested" /\ Goto(s, "execute") /\ UNCHANGED lease
           /\ \E o \in {"valid", "environment", "instrument"} : Commit(b, c, o)
  /\ UNCHANGED <<clock, paper, faults, starts>>

Second(s) ==
  /\ sup[s].at = "second" /\ Commit(sup[s].block, sup[s].cell, "attested")
  /\ Goto(s, "attest") /\ UNCHANGED <<clock, paper, lease, faults, starts>>

-----------------------------------------------------------------------------
\* seal_block: an existing seal is loaded, a new one is derived.
Seal(s) ==
  /\ sup[s].at = "seal"
  /\ LET b == sup[s].block
         n == <<"seal", b>>
     IN IF ~Exists(n) /\ SealSequence(b) /\ ~Closed /\ Sealable(b)
        THEN /\ Write(s, n, [attempts |-> Attempts(b), clock |-> clock])
             /\ UNCHANGED lease
        ELSE Over(s)
  /\ UNCHANGED <<clock, evidence, paper, faults, starts>>

\* Slip: a deadline may be declared of a block with every cell committed.
MayTerminateComplete(b, reason) ==
  /\ ~Exists(<<"term", b>>) /\ ~Exists(<<"seal", b>>) /\ PriorSeals(b) /\ ~Closed
  /\ (reason = "deadline" \/ Grounds(b, reason)) /\ Due(reason)
MayTerminate(b, reason) ==
  /\ ~Exists(<<"term", b>>) /\ ~Exists(<<"seal", b>>) /\ PriorSeals(b) /\ ~Closed
  /\ Grounds(b, reason) /\ Due(reason)

\* The lease is held when run_block terminates and not for the command.
Term(s) ==
  /\ sup[s].at = "term"
  /\ LET b == sup[s].block
         reason == IF sup[s].cmd = "run" THEN sup[s].doc.reason ELSE sup[s].cmd
     IN IF MayTerminate(b, reason)
        THEN /\ Write(s, <<"term", b>>, [attempts |-> Attempts(b), reason |-> reason])
             /\ UNCHANGED lease
        ELSE Over(s)
  /\ UNCHANGED <<clock, evidence, paper, faults, starts>>

\* _publish_marker_last: the file is created exclusively, then its marker.
Payload(s) ==
  /\ sup[s].at = "payload"
  /\ IF Exists(sup[s].out) THEN Over(s) /\ UNCHANGED paper
     ELSE /\ paper' = [paper EXCEPT ![sup[s].out] = [file |-> "torn", doc |-> sup[s].doc]]
          /\ Goto(s, "marker") /\ UNCHANGED lease
  /\ UNCHANGED <<clock, evidence, faults, starts>>

Marker(s) ==
  /\ sup[s].at = "marker" /\ paper' = [paper EXCEPT ![sup[s].out].file = "done"]
  /\ IF sup[s].out[1] = "start" THEN Goto(s, "cell") /\ UNCHANGED lease ELSE Over(s)
  /\ UNCHANGED <<clock, evidence, faults, starts>>

-----------------------------------------------------------------------------
\* analyze_followup: what the dispositions allow to be said.
Sealed     == {b \in Blocks : Done(<<"seal", b>>)}
Terminated == {b \in Blocks : Done(<<"term", b>>)}
Consistent == /\ Sealed \cap Terminated = {}
              /\ \A b \in Sealed : SealStands(b)
              /\ \A b \in Terminated : TermStands(b)

ReasonOf(b) == paper[<<"term", b>>].doc.reason

Claim(fallback) ==
  CASE {B1a, B1b} \subseteq Sealed -> IF B2 \in Sealed \cup Terminated THEN "primary" ELSE "refused"
    [] ~({B1a, B1b} \subseteq Sealed) /\ fallback # None ->
         IF B1a \in Sealed /\ B1b \in Terminated /\ ReasonOf(B1b) = fallback
         THEN "fallback" ELSE "refused"
    [] OTHER ->
         IF \/ B1a \in Terminated
            \/ B1a \in Sealed /\ B1b \in Terminated /\ ReasonOf(B1b) = "instrument_failure"
         THEN "nothing" ELSE "refused"

Findings(fallback) == [claim |-> IF Consistent THEN Claim(fallback) ELSE "refused",
                       seals |-> Sealed, terms |-> Terminated, fallback |-> fallback]

\* Derived again with the fallback the document declares.
AnalysisStands == /\ Done(Analysis) /\ paper[Analysis].doc.claim # "refused"
                  /\ paper[Analysis].doc = Findings(paper[Analysis].doc.fallback)

\* Invoke-WriterThenValidate: analyze, then report.
Final(s) ==
  /\ sup[s].at \in {"analyze", "report"}
  /\ LET n == IF sup[s].at = "analyze" THEN Analysis ELSE Report
         d == IF n = Analysis THEN Findings(sup[s].fallback) ELSE paper[Analysis].doc
     IN IF Exists(n) THEN sup' = [sup EXCEPT ![s] = [@ EXCEPT !.at = "judge", !.out = n]]
        ELSE IF d.claim = "refused" \/ (n = Report /\ ~AnalysisStands) THEN Goto(s, "closed")
        ELSE Write(s, n, d)
  /\ UNCHANGED <<clock, evidence, paper, lease, faults, starts>>

Judge(s) ==
  /\ sup[s].at = "judge"
  /\ IF ~(Done(sup[s].out) /\ AnalysisStands) THEN Goto(s, "closed")
     ELSE Goto(s, IF sup[s].out = Analysis THEN "report" ELSE "finished")
  /\ UNCHANGED <<clock, evidence, paper, lease, faults, starts>>

-----------------------------------------------------------------------------
Start(s) ==
  /\ sup[s].at = "closed" /\ starts < MaxStarts /\ starts' = starts + 1
  /\ sup' = [sup EXCEPT ![s] = Idle("look")]
  /\ UNCHANGED <<clock, evidence, paper, lease, faults>>

\* The command is killed, or the supervisor with it; nothing is cleaned up.
Kill(s) ==
  /\ faults < MaxFaults /\ faults' = faults + 1 /\ sup[s].at \in Commanding
  /\ lease' = IF lease = s THEN "stale" ELSE lease
  /\ \/ sup' = [sup EXCEPT ![s] = Ended(s)]
     \/ Goto(s, "closed")
  /\ UNCHANGED <<clock, evidence, paper, starts>>

Tick == clock < 2 /\ clock' = clock + 1
        /\ UNCHANGED <<evidence, paper, lease, sup, faults, starts>>

\* External: the operator removes the lease of a dead command.
ClearLease == lease = "stale" /\ lease' = None
              /\ UNCHANGED <<clock, evidence, paper, sup, faults, starts>>

Step(s) == \/ Look(s) \/ Check(s) \/ Lease(s) \/ Environment(s) \/ Mark(s) \/ Cell(s) \/ Execute(s)
           \/ Attest(s) \/ Second(s) \/ Seal(s) \/ Term(s) \/ Payload(s) \/ Marker(s)
           \/ Final(s) \/ Judge(s)

Next == \/ Tick \/ ClearLease
        \/ \E s \in Supervisors :
             \/ Look(s) \/ Check(s) \/ Lease(s) \/ Environment(s) \/ Mark(s) \/ Cell(s) \/ Execute(s)
             \/ Attest(s) \/ Second(s) \/ Seal(s) \/ Term(s) \/ Payload(s) \/ Marker(s)
             \/ Final(s) \/ Judge(s) \/ Start(s) \/ Kill(s)

Spec     == Init /\ [][Next]_vars
FairSpec == Spec /\ \A s \in Supervisors : WF_vars(Step(s))

-----------------------------------------------------------------------------
\* A conclusion stands: what a marked seal, termination or analysis says can be
\* derived from the evidence for ever after, through crashes and resumptions,
\* and no block is both complete and terminated.
ConclusionsStand ==
  /\ \A b \in Blocks : /\ Done(<<"seal", b>>) => SealStands(b)
                       /\ Done(<<"term", b>>) => TermStands(b)
                       /\ ~(Done(<<"seal", b>>) /\ Done(<<"term", b>>))
  /\ Done(Analysis) => AnalysisStands
  /\ Done(Report) => paper[Report].doc = paper[Analysis].doc

\* What is claimed was earned: the primary result rests on valid cells only
\* and waits for the fate of the second trial, which ran only if the first was
\* sealed in time; the fallback is used only when B1b is really incomplete.
ClaimEarned ==
  LET a == paper[Analysis].doc IN
  Exists(Analysis) =>
    /\ a.claim = "primary" =>
         /\ \A b \in {B1a, B1b}, c \in Ids : evidence[b][c] = "valid"
         /\ SealedLate => evidence[B2] = [c \in Ids |-> "none"]
         /\ ~SealedLate => Done(<<"seal", B2>>) \/ Done(<<"term", B2>>)
    /\ a.claim = "fallback" =>
         /\ \A c \in Ids : evidence[B1a][c] = "valid"
         /\ \E c \in Ids : evidence[B1b][c] # "valid"
         /\ Instrument(B1b) = {} /\ Missing(B2) = Ids
    /\ a.claim \in {"primary", "fallback", "nothing"}

\* The analysis "closes further execution" (focused_followup.py:1146): once it
\* is there no cell is executed and no block is sealed or terminated.
AnalysisCloses ==
  [][Closed => /\ evidence' = evidence
               /\ \A b \in Blocks : /\ paper'[<<"seal", b>>] = paper[<<"seal", b>>]
                                  /\ paper'[<<"term", b>>] = paper[<<"term", b>>]]_vars

\* Every supervisor has ended, finished or closed, whatever its commands met.
SupervisorsEnded == \A s \in Supervisors : sup[s].at \in {"closed", "finished"}
=============================================================================
