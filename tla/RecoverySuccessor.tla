-------------------------- MODULE RecoverySuccessor --------------------------
(***************************************************************************)
(* The successor of the focused study (bench/focused_recovery_successor.py *)
(* under scripts/run-focused-recovery-successor.ps1): two lanes run under  *)
(* a machine-wide lease that a later start may recover from a dead holder, *)
(* and a chain of conclusions embargoed until both lanes are terminal.     *)
(* Unlike its predecessor it completes a publication that lacks only its   *)
(* marker, records that a cell was started before starting it, and never   *)
(* runs a cell again whose attempt was abandoned.                          *)
(***************************************************************************)
EXTENDS Naturals, Sequences, FiniteSets

CONSTANTS
  Supervisors, \* supervisors started on the study
  Cells,       \* scheduled cells of a lane
  MaxFaults,   \* bound: kills and transient failures of the environment
  None

Lanes  == {1, 2}             \* B1b_recovery, B2_repeatability
Ids    == 1 .. Cells
Finals == <<"analysis", "report", "archive", "manifest", "verification">>
Papers == ({"start", "seal", "term"} \X Lanes) \cup ({Finals[i] : i \in DOMAIN Finals} \X {0})
Files  == {"absent", "torn", "whole", "done"}

\* A cell: never started; its start record torn, unmarked or published; an
\* attempt abandoned or prepared and not committed; a first attempt that may be
\* retried, with half of or the whole health attestation; its last attempt;
\* a second candidate beside the one of an attempt that was abandoned.
Uncommitted == {"run1", "prep1", "run2", "prep2"}
Retrying    == {"retry", "attesting", "attested", "run2", "prep2"}
States      == {"none", "torn", "starting", "started", "valid", "environment", "instrument"}
               \cup Uncommitted \cup Retrying \cup {"again"}

VARIABLES
  late,     \* the hard stop has passed
  evidence, \* evidence[l][c]: the evidence store and the cell starts
  paper,    \* published files of the study
  lease,    \* the lease file: None, or which lease it is and its recovery audit
  own,      \* own[s]: the lease the running command of s took, 0 for none
  sup,      \* sup[s]: where the supervisor and its command are
  faults

vars == <<late, evidence, paper, lease, own, sup, faults>>

Absent == [file |-> "absent", doc |-> None]
Begin(a) == [at |-> a, lane |-> 1, cell |-> 1, out |-> None, doc |-> None, seen |-> 0,
             terminal |-> FALSE, mine |-> FALSE, final |-> 1]

Init ==
  /\ late = FALSE /\ evidence = [l \in Lanes |-> [c \in Ids |-> "none"]]
  /\ paper = [n \in Papers |-> Absent] /\ lease = None /\ own = [s \in Supervisors |-> 0]
  /\ sup = [s \in Supervisors |-> Begin("closed")] /\ faults = 0

Leases == 1 .. 2 * Cardinality(Supervisors) + 1

TypeOK ==
  /\ late \in BOOLEAN /\ evidence \in [Lanes -> [Ids -> States]]
  /\ \A n \in Papers : paper[n].file \in Files
  /\ lease = None \/ (lease.id \in Leases /\ lease.audit \in Files)
  /\ own \in [Supervisors -> Leases \cup {0}] /\ faults \in 0 .. MaxFaults
  /\ \A s \in Supervisors :
       /\ sup[s].at \in {"closed", "look", "recover", "audit", "recheck", "unlink", "check",
                         "lease", "terminal", "environment", "start", "cell", "attempt",
                         "post", "seal", "term", "payload", "marker", "validate", "final",
                         "finished"}
       /\ sup[s].lane \in Lanes /\ sup[s].cell \in 1 .. Cells + 1
       /\ sup[s].final \in 1 .. Len(Finals) + 1

-----------------------------------------------------------------------------
Missing(l) == {c \in Ids : evidence[l][c] \in {"none", "torn", "starting", "started", "run1", "prep1"}}
Invalid(l) == {c \in Ids : evidence[l][c] \in Retrying \cup {"environment", "instrument"}}
Orphans(l) == {c \in Ids : evidence[l][c] \in {"torn", "starting", "started"}}
Pending(l) == {c \in Ids : evidence[l][c] \in Uncommitted}
HasInstrument(l) == \E c \in Ids : evidence[l][c] = "instrument"
Done(n)    == paper[n].file = "done"
Inventory(l) == [c \in Ids |-> IF evidence[l][c] \in {"attesting", "attested"} THEN "retry"
                               ELSE evidence[l][c]]

\* The start markers can be read, and an attempt is never without one.
Readable(l)  == \A c \in Ids : evidence[l][c] \notin {"torn", "starting"}

\* load_block_seal and load_termination, from the evidence of now.
SealStands(l) ==
  /\ Done(<<"start", l>>) /\ Readable(l) /\ \A c \in Ids : evidence[l][c] = "valid"
  /\ paper[<<"seal", l>>].doc.inventory = Inventory(l)

Grounds(l, reason) ==
  CASE reason = "environment_failure" ->
         Cardinality(Invalid(l)) = 1 /\ ~HasInstrument(l) /\ Pending(l) \cup Orphans(l) = {}
    [] reason = "instrument_failure" -> HasInstrument(l) \/ Pending(l) \cup Orphans(l) # {}
    [] OTHER -> Missing(l) # {} /\ Invalid(l) = {} /\ Pending(l) \cup Orphans(l) = {}

TermStands(l) ==
  LET d == paper[<<"term", l>>].doc IN
  /\ Done(<<"start", l>>) /\ Readable(l) /\ d.inventory = Inventory(l) /\ Grounds(l, d.reason)

Terminals(l) == {k \in {"seal", "term"} : Done(<<k, l>>)}
\* _terminal: the lane has exactly one terminal, and it stands.
Terminal(l)  == \/ Terminals(l) = {"seal"} /\ SealStands(l)
                \/ Terminals(l) = {"term"} /\ TermStands(l)
\* _terminal_marker_present: one terminal, and nothing half published.
Marked(l)    == /\ Cardinality(Terminals(l)) = 1
                /\ \A k \in {"seal", "term"} : paper[<<k, l>>].file \in {"absent", "done"}

-----------------------------------------------------------------------------
Goto(s, at) == sup' = [sup EXCEPT ![s].at = at]
\* The command ends and gives its lease back; release() leaves another's alone.
Release(s)  == /\ own' = [own EXCEPT ![s] = 0]
               /\ lease' = IF own[s] # 0 /\ lease # None /\ lease.id = own[s] THEN None ELSE lease
Over(s)     == Goto(s, "validate") /\ Release(s)
Dead(id)    == \A s \in Supervisors : own[s] # id
Quiet       == <<late, evidence, faults>>

\* Invoke-BlockOrResume: what is published, before the lease is recovered.
Look(s) ==
  /\ sup[s].at = "look"
  /\ LET l == sup[s].lane
         f == {paper[<<k, l>>].file : k \in {"seal", "term"}}
     IN IF f = {"done"} THEN Goto(s, "closed")
        ELSE sup' = [sup EXCEPT ![s] = [@ EXCEPT !.at = "recover",
                                        !.terminal = "done" \in f /\ f \cap {"torn", "whole"} = {}]]
  /\ UNCHANGED <<Quiet, paper, lease, own>>

AfterRecovery(s) == IF sup[s].terminal THEN "validate" ELSE "check"

\* recover_stale_lease: the holder must be dead.
Recover(s) ==
  /\ sup[s].at = "recover"
  /\ sup' = [sup EXCEPT ![s] =
       IF lease = None THEN [@ EXCEPT !.at = AfterRecovery(s)]
       ELSE IF ~Dead(lease.id) THEN [@ EXCEPT !.at = "closed"]
       ELSE [@ EXCEPT !.at = "audit", !.seen = lease.id]]
  /\ UNCHANGED <<Quiet, paper, lease, own>>

\* The recovery is written down, marker last, before the lease is removed.
Audit(s) ==
  /\ sup[s].at = "audit"
  /\ IF lease = None \/ lease.id # sup[s].seen THEN Goto(s, "recheck") /\ UNCHANGED lease
     ELSE CASE lease.audit = "torn" -> Goto(s, "closed") /\ UNCHANGED lease
            [] lease.audit = "done" -> Goto(s, "recheck") /\ UNCHANGED lease
            [] OTHER -> /\ lease' = [lease EXCEPT !.audit = IF @ = "whole" THEN "done" ELSE "whole"]
                        /\ UNCHANGED sup
  /\ UNCHANGED <<Quiet, paper, own>>

Recheck(s) ==
  /\ sup[s].at = "recheck"
  /\ IF lease # None /\ lease.id = sup[s].seen /\ Dead(sup[s].seen)
     THEN Goto(s, "unlink") ELSE Goto(s, "closed")
  /\ UNCHANGED <<Quiet, paper, lease, own>>

\* The file of that name is removed, whichever lease it holds by now.
Unlink(s) ==
  /\ sup[s].at = "unlink"
  /\ sup' = [sup EXCEPT ![s] = [@ EXCEPT !.seen = 0,
                                !.at = IF lease = None THEN "closed" ELSE AfterRecovery(s)]]
  /\ lease' = None /\ UNCHANGED <<Quiet, paper, own>>

-----------------------------------------------------------------------------
Published(i) == paper[<<Finals[i], 0>>].file # "absent"

\* run_block before the lease.
Check(s) ==
  /\ sup[s].at = "check"
  /\ LET l == sup[s].lane IN
     IF /\ ~Published(1) /\ (l = 2 => Terminal(1))
        /\ Terminals(l) = {} \/ Terminal(l)
     THEN Goto(s, "lease") /\ UNCHANGED <<lease, own>> ELSE Over(s)
  /\ UNCHANGED <<Quiet, paper>>

Fresh == CHOOSE i \in Leases : \A s \in Supervisors : own[s] # i /\ sup[s].seen # i

Lease(s) ==
  /\ sup[s].at = "lease"
  /\ IF lease = None
     THEN /\ lease' = [id |-> Fresh, audit |-> "absent"] /\ own' = [own EXCEPT ![s] = Fresh]
          /\ Goto(s, "terminal")
     ELSE Over(s)
  /\ UNCHANGED <<Quiet, paper>>

\* Under the lease the terminal is looked at again and a publication that only
\* lacks its marker is completed, if it stands.
Completes(l, k) == /\ paper[<<k, l>>].file = "whole"
                   /\ IF k = "seal" THEN SealStands(l) ELSE TermStands(l)

ReadTerminal(s) ==
  /\ sup[s].at = "terminal"
  /\ LET l == sup[s].lane
         half == {k \in {"seal", "term"} : paper[<<k, l>>].file \in {"torn", "whole"}}
     IN \/ /\ half # {}
           /\ IF \E k \in half : Completes(l, k)
              THEN /\ \E k \in half : /\ Completes(l, k)
                                      /\ paper' = [paper EXCEPT ![<<k, l>>].file = "done"]
                   /\ UNCHANGED <<sup, lease, own>>
              ELSE Over(s) /\ UNCHANGED paper
        \/ /\ half = {} /\ UNCHANGED paper
           /\ IF Terminals(l) # {} \/ (l = 2 /\ ~Terminal(1)) THEN Over(s)
              ELSE Goto(s, "environment") /\ UNCHANGED <<lease, own>>
  /\ UNCHANGED Quiet

\* validate_current_environment, before the lane and after it.
Environment(s) ==
  /\ sup[s].at \in {"environment", "post"}
  /\ \/ /\ faults < MaxFaults /\ faults' = faults + 1 /\ Over(s)
     \/ /\ Goto(s, IF sup[s].at = "post" THEN "seal" ELSE "start")
        /\ UNCHANGED <<faults, lease, own>>
  /\ UNCHANGED <<late, evidence, paper>>

Write(s, n, d) == sup' = [sup EXCEPT ![s] = [@ EXCEPT !.at = "payload", !.out = n, !.doc = d]]

BlockStart(s) ==
  /\ sup[s].at = "start"
  /\ LET n == <<"start", sup[s].lane>> IN
     CASE paper[n].file = "torn" -> Over(s)
       [] paper[n].file = "absent" -> Write(s, n, None) /\ UNCHANGED <<lease, own>>
       [] paper[n].file = "whole" ->
            /\ sup' = [sup EXCEPT ![s] = [@ EXCEPT !.at = "marker", !.out = n]]
            /\ UNCHANGED <<lease, own>>
       [] OTHER -> Goto(s, "cell") /\ UNCHANGED <<lease, own>>
  /\ UNCHANGED <<Quiet, paper>>

-----------------------------------------------------------------------------
Commit(l, c, o)   == evidence' = [evidence EXCEPT ![l][c] = o]
Terminate(s, why) == sup' = [sup EXCEPT ![s] = [@ EXCEPT !.at = "term", !.doc = [reason |-> why]]]

\* What a cell found by the loop calls for: _cell_resume_disposition.  A start
\* is published before the cell; a started cell is finished past the hard stop;
\* an attempt that was abandoned is an instrument failure.
\* Slip: it is run again.
AbandonedRerun(o) == FALSE
Abandoned(o)      == o \in {"run1", "run2"}

Cell(s) ==
  /\ sup[s].at = "cell" /\ UNCHANGED <<late, paper, faults>>
  /\ LET l == sup[s].lane
         c == sup[s].cell
         o == IF c > Cells THEN "end" ELSE evidence[l][c]
     IN IF o = "torn" THEN Over(s) /\ UNCHANGED evidence
        ELSE /\ UNCHANGED <<lease, own>>
             /\ CASE o = "end" -> Goto(s, "post") /\ UNCHANGED evidence
                  [] o = "none" -> IF late THEN Terminate(s, "deadline") /\ UNCHANGED evidence
                                   ELSE Commit(l, c, "starting") /\ UNCHANGED sup
                  [] o = "starting" -> Commit(l, c, "started") /\ UNCHANGED sup
                  [] o = "valid" -> /\ sup' = [sup EXCEPT ![s].cell = c + 1]
                                    /\ UNCHANGED evidence
                  [] o = "environment" ->
                       Terminate(s, "environment_failure") /\ UNCHANGED evidence
                  [] o = "instrument" \/ Abandoned(o) ->
                       Terminate(s, "instrument_failure") /\ UNCHANGED evidence
                  [] OTHER -> Goto(s, "attempt") /\ UNCHANGED evidence

\* This command is the one that began what is under way.
Mine(s, b) == sup' = [sup EXCEPT ![s].mine = b]

\* _execute_cell: an attempt creates its candidate, prepares and commits it; a
\* first one that the environment failed is retried once, after an attested
\* health check.
Attempt(s) ==
  /\ sup[s].at = "attempt" /\ UNCHANGED <<late, paper>>
  /\ LET l == sup[s].lane
         c == sup[s].cell
         o == evidence[l][c]
         Ends(os) == \E x \in os : Commit(l, c, x) /\ Goto(s, "cell")
     IN \/ /\ o = "retry" /\ faults < MaxFaults /\ faults' = faults + 1     \* not healthy
           /\ Over(s) /\ UNCHANGED evidence
        \/ /\ UNCHANGED faults
           /\ IF o = "attesting" /\ ~sup[s].mine THEN Over(s) /\ UNCHANGED evidence
              ELSE /\ UNCHANGED <<lease, own>>
                   /\ CASE o \in {"started", "attested"} ->
                             /\ Commit(l, c, IF o = "started" THEN "run1" ELSE "run2")
                             /\ Mine(s, TRUE)
                        [] o \in {"run1", "run2"} ->
                             /\ Commit(l, c, CASE ~sup[s].mine -> "again"
                                               [] sup[s].mine /\ o = "run1" -> "prep1"
                                               [] sup[s].mine /\ o = "run2" -> "prep2")
                             /\ Mine(s, FALSE)
                        [] o = "prep1" -> \/ Ends({"valid", "environment", "instrument"})
                                          \/ Commit(l, c, "retry") /\ UNCHANGED sup
                        [] o = "retry" -> Commit(l, c, "attesting") /\ Mine(s, TRUE)
                        [] o = "attesting" -> Commit(l, c, "attested") /\ Mine(s, FALSE)
                        [] OTHER -> Ends({"valid", "environment", "instrument"})

-----------------------------------------------------------------------------
\* _seal_block and _terminate_block derive what they publish.
Conclude(s) ==
  /\ sup[s].at \in {"seal", "term"}
  /\ LET l == sup[s].lane
         reason == sup[s].doc.reason
         d == [inventory |-> Inventory(l)]
     IN IF sup[s].at = "seal"
        THEN IF \A c \in Ids : evidence[l][c] = "valid"
             THEN Write(s, <<"seal", l>>, d) /\ UNCHANGED <<lease, own>> ELSE Over(s)
        ELSE IF /\ Pending(l) \cup Orphans(l) # {} => reason = "instrument_failure"
                /\ reason = "deadline" => Missing(l) # {}
             THEN /\ Write(s, <<"term", l>>, [inventory |-> Inventory(l), reason |-> reason])
                  /\ UNCHANGED <<lease, own>>
             ELSE Over(s)
  /\ UNCHANGED <<Quiet, paper>>

Chain(s) == [sup EXCEPT ![s].at = "final"]

\* _publish_marker_last: the document, then the marker.
Payload(s) ==
  /\ sup[s].at = "payload"
  /\ IF paper[sup[s].out].file # "absent" THEN Over(s) /\ UNCHANGED paper
     ELSE /\ paper' = [paper EXCEPT ![sup[s].out] = [file |-> "whole", doc |-> sup[s].doc]]
          /\ Goto(s, "marker") /\ UNCHANGED <<lease, own>>
  /\ UNCHANGED Quiet

Marker(s) ==
  /\ sup[s].at = "marker" /\ paper' = [paper EXCEPT ![sup[s].out].file = "done"]
  /\ CASE sup[s].out[1] = "start" -> Goto(s, "cell") /\ UNCHANGED <<lease, own>>
       [] sup[s].out[1] \in {"seal", "term"} -> Over(s)
       [] OTHER -> sup' = Chain(s) /\ UNCHANGED <<lease, own>>
  /\ UNCHANGED Quiet

\* Validate-BlockTerminal, then the next lane or the conclusions.
Validate(s) ==
  /\ sup[s].at = "validate"
  /\ IF Marked(sup[s].lane) /\ Terminal(sup[s].lane)
     THEN sup' = IF sup[s].lane = 2 THEN Chain(s)
                 ELSE [sup EXCEPT ![s] = [@ EXCEPT !.at = "look", !.lane = 2, !.cell = 1]]
     ELSE Goto(s, "closed")
  /\ UNCHANGED <<Quiet, paper, lease, own>>

\* What analyze() binds, and every later document through it.
Embargo         == \A l \in Lanes : Marked(l) /\ Terminal(l)
Dispositions    == [kinds |-> [l \in Lanes |-> Terminals(l)],
                    evidence |-> [l \in Lanes |-> Inventory(l)]]

Finished(file)      == file = "done"

\* _publish_generated for each document of the chain: built, or read again and
\* completed, and always derived anew.
Final(s) ==
  /\ sup[s].at = "final"
  /\ IF sup[s].final > Len(Finals) THEN Goto(s, "finished")
     ELSE LET n == <<Finals[sup[s].final], 0>> IN
          CASE paper[n].file = "torn" \/ ~Embargo -> Goto(s, "closed")
            [] paper[n].file = "absent" /\ Embargo -> Write(s, n, Dispositions)
            [] paper[n].file \in {"whole", "done"} /\ Embargo ->
                 IF paper[n].doc # Dispositions THEN Goto(s, "closed")
                 ELSE sup' = [sup EXCEPT ![s] =
                        IF Finished(paper[n].file) THEN [@ EXCEPT !.final = sup[s].final + 1]
                        ELSE [@ EXCEPT !.at = "marker", !.out = n]]
  /\ UNCHANGED <<Quiet, paper, lease, own>>

-----------------------------------------------------------------------------
Start(s) == sup[s].at = "closed" /\ sup' = [sup EXCEPT ![s] = Begin("look")]
            /\ UNCHANGED <<Quiet, paper, lease, own>>

\* Everything is killed; a file being written may be left torn.
Kill(s) ==
  /\ faults < MaxFaults /\ faults' = faults + 1
  /\ sup[s].at \notin {"closed", "finished"} /\ own' = [own EXCEPT ![s] = 0]
  /\ sup' = [sup EXCEPT ![s] = Begin("closed")]
  /\ \/ UNCHANGED <<evidence, paper, lease>>
     \/ /\ sup[s].at = "payload" /\ paper[sup[s].out].file = "absent"
        /\ paper' = [paper EXCEPT ![sup[s].out].file = "torn"] /\ UNCHANGED <<evidence, lease>>
     \/ /\ sup[s].at = "cell" /\ sup[s].cell <= Cells /\ ~late
        /\ evidence[sup[s].lane][sup[s].cell] = "none"
        /\ Commit(sup[s].lane, sup[s].cell, "torn") /\ UNCHANGED <<paper, lease>>
     \/ /\ sup[s].at = "audit" /\ lease # None
        /\ lease.id = sup[s].seen /\ lease.audit = "absent"
        /\ lease' = [lease EXCEPT !.audit = "torn"] /\ UNCHANGED <<evidence, paper>>
  /\ UNCHANGED late

HardStop == ~late /\ late' = TRUE /\ UNCHANGED <<evidence, paper, lease, own, sup, faults>>

Step(s) == \/ Look(s) \/ Recover(s) \/ Audit(s) \/ Recheck(s) \/ Unlink(s) \/ Check(s)
           \/ Lease(s) \/ ReadTerminal(s) \/ Environment(s) \/ BlockStart(s) \/ Cell(s)
           \/ Attempt(s) \/ Conclude(s) \/ Payload(s) \/ Marker(s) \/ Validate(s)
           \/ Final(s) \/ Start(s)

Next == \/ HardStop
        \/ \E s \in Supervisors :
             \/ Look(s) \/ Recover(s) \/ Audit(s) \/ Recheck(s) \/ Unlink(s) \/ Check(s)
             \/ Lease(s) \/ ReadTerminal(s) \/ Environment(s) \/ BlockStart(s) \/ Cell(s)
             \/ Attempt(s) \/ Conclude(s) \/ Payload(s) \/ Marker(s) \/ Validate(s)
             \/ Final(s) \/ Start(s) \/ Kill(s)

Spec     == Init /\ [][Next]_vars
FairSpec == Spec /\ \A s \in Supervisors : WF_vars(Step(s))

-----------------------------------------------------------------------------
\* A terminal is for ever: once marked it can be derived from the evidence, it
\* is the only one of its lane, and what is concluded from both lanes is what
\* they show.
TerminalsStand ==
  /\ \A l \in Lanes : Terminals(l) # {} => Terminal(l)
  /\ \A i \in DOMAIN Finals : Done(<<Finals[i], 0>>) =>
       paper[<<Finals[i], 0>>].doc = Dispositions

\* "No efficacy field may be computed ... until both lanes have independently
\* validated terminal markers" (FOCUSED_RECOVERY_SUCCESSOR.md:51), and each
\* document of the chain follows the one before it.
Embargoed ==
  \A i \in DOMAIN Finals : Published(i) =>
    /\ \A l \in Lanes : Marked(l)
    /\ i > 1 => Done(<<Finals[i - 1], 0>>)

\* No cell is given a second chance that was not earned: a committed attempt
\* stays, and one that was begun is never begun again.
Rank(o) == CASE o = "none" -> 0 [] o \in {"torn", "starting"} -> 1 [] o = "started" -> 2
             [] o = "run1" -> 3 [] o = "prep1" -> 4 [] o = "retry" -> 5 [] o = "attesting" -> 6
             [] o = "attested" -> 7 [] o = "run2" -> 8 [] o = "prep2" -> 9 [] OTHER -> 10
NoSecondChance ==
  [][\A l \in Lanes, c \in Ids :
       \/ evidence'[l][c] = evidence[l][c]
       \/ /\ Rank(evidence[l][c]) < Rank(evidence'[l][c]) /\ Terminals(l) = {}
          /\ evidence'[l][c] # "again"]_vars

\* What only a hand can repair: a file whose writing was cut short, or half of
\* a health attestation, which neither program completes.
Wedged == \/ \E n \in Papers : paper[n].file = "torn"
          \/ lease # None /\ lease.audit = "torn"
          \/ \E l \in Lanes, c \in Ids : evidence[l][c] \in {"torn", "attesting"}

\* Where the study comes to, started again and again whatever was killed in
\* between: a verified release, unless such a file is in the way.
Concluded == Wedged \/ Done(<<"verification", 0>>)
=============================================================================
