-------------------------- MODULE ProductValidation --------------------------
(***************************************************************************)
(* The product validation (bench/llama8_product_validation.py under        *)
(* scripts/run-llama8-product-validation.ps1): a score-free gate of the    *)
(* first cells, the primary cells behind it, one seal, the analysis of a   *)
(* complete seal and its report.  A command holds the machine-wide lease   *)
(* while it executes or seals; the supervisor answers a run that failed    *)
(* with an attempt to seal what is there.                                  *)
(***************************************************************************)
EXTENDS Naturals, FiniteSets

CONSTANTS
  Supervisors, \* starts of the script that may overlap
  GateCells,   \* cells of the instrument gate, the first of the schedule
  Cells,       \* scheduled cells
  MaxFaults,   \* bound: kills and environments that differ from the authorized one
  MaxStarts,   \* bound: starts of the script
  None

Ids      == 1 .. Cells
Gate     == 1 .. GateCells
Ceiling  == 2 * Cells                \* maximum_physical_attempts
Outcomes == {"valid", "environment", "instrument"}
Papers   == {"gate", "seal", "analysis", "report"}

VARIABLES
  evidence,  \* evidence[c]: committed attempts of the cell: none, a first one that
             \*   the environment failed ("retry"), or the final one
  attested,  \* attested[c]: the recovery attestation of the cell
  physical,  \* candidate directories, the abandoned ones included
  paper,     \* published files: absent, "half" without their marker, or "done"
  lease,     \* the lease file: None, its holder, or "stale" when the holder died
  sup,       \* sup[s]: the command the script runs, where it is, the document in hand
  faults, starts

vars == <<evidence, attested, physical, paper, lease, sup, faults, starts>>

Absent == [file |-> "absent", doc |-> None]
Enter(cmd, at) == [cmd |-> cmd, at |-> at, cell |-> 1, name |-> None, doc |-> None]
Closed == Enter("none", "closed")

Init ==
  /\ evidence = [c \in Ids |-> "none"] /\ attested = [c \in Ids |-> "absent"]
  /\ physical = 0 /\ paper = [n \in Papers |-> Absent] /\ lease = None
  /\ sup = [s \in Supervisors |-> Closed] /\ faults = 0 /\ starts = 0

TypeOK ==
  /\ evidence \in [Ids -> Outcomes \cup {"none", "retry"}]
  /\ attested \in [Ids -> {"absent", "half", "done"}]
  /\ physical \in 0 .. Ceiling + MaxFaults + 1
  /\ \A n \in Papers : paper[n].file \in {"absent", "half", "done"}
  /\ lease \in Supervisors \cup {None, "stale"}
  /\ \A s \in Supervisors :
       /\ sup[s].cmd \in {"none", "run", "seal", "analyze", "report", "verify"}
       /\ sup[s].cell \in 1 .. Cells + 1 /\ sup[s].name \in Papers \cup {None}
       /\ sup[s].at \in {"closed", "check", "lease", "environment", "opening", "cell", "attest",
                         "mark", "execute", "running", "derive", "payload", "marker"}
  /\ faults \in 0 .. MaxFaults /\ starts \in 0 .. MaxStarts

-----------------------------------------------------------------------------
Finals    == {c \in Ids : evidence[c] \in Outcomes}
Invalid   == {c \in Ids : evidence[c] \in {"environment", "instrument"}}
Complete  == \A c \in Ids : evidence[c] = "valid"
GateValid == \A c \in Gate : evidence[c] = "valid"
InCeiling == physical <= Ceiling                 \* or the extraction raises
Exists(n) == paper[n].file # "absent"

\* Slip: a document without its marker is loaded all the same.
LoadedAnyhow(n) == Exists(n)
Loaded(n)       == paper[n].file = "done"

\* Each document is derived again from the evidence whenever it is loaded.
GateDoc         == [c \in Gate |-> evidence[c]]
GateStands      == InCeiling /\ GateValid /\ Loaded("gate") /\ paper["gate"].doc = GateDoc
SealDoc(status) == [status |-> status, evidence |-> evidence, physical |-> physical]
MaySeal(status) ==
  /\ InCeiling /\ (Exists("gate") => GateStands)
  /\ IF status = "complete" THEN Complete /\ Exists("gate") ELSE ~Complete
SealStands ==
  /\ Loaded("seal")
  /\ LET doc == paper["seal"].doc IN MaySeal(doc.status) /\ doc = SealDoc(doc.status)
AnalysisStands ==
  /\ SealStands /\ paper["seal"].doc.status = "complete"
  /\ Loaded("analysis") /\ paper["analysis"].doc = paper["seal"].doc
ReportStands == AnalysisStands /\ Loaded("report") /\ paper["report"].doc = paper["analysis"].doc

-----------------------------------------------------------------------------
Goto(s, at) == sup' = [sup EXCEPT ![s].at = at]
Leave(s)    == lease' = IF lease = s THEN None ELSE lease
Files       == <<evidence, attested, physical, paper>>
Bounds      == <<faults, starts>>

\* The script: after run, analyze; a run that failed tries to seal what is
\* there; any other command that fails ends it.
Turn(s, cmd) == sup' = [sup EXCEPT ![s] = Enter(cmd, IF cmd = "seal" THEN "lease" ELSE "derive")]
Fails(s)     == /\ Leave(s)
                /\ IF sup[s].cmd = "run" THEN Turn(s, "seal") ELSE sup' = [sup EXCEPT ![s] = Closed]

\* Publication, marker last, of the document just derived.
Publish(s, n, doc) == sup' = [sup EXCEPT ![s].at = "payload", ![s].name = n, ![s].doc = doc]
PublishSeal(s, status) ==
  IF MaySeal(status) THEN Publish(s, "seal", SealDoc(status)) /\ lease' = lease ELSE Fails(s)

\* run_study, before it has the lease: an analysis refuses, a seal is returned.
Check(s) ==
  /\ sup[s].at = "check"
  /\ CASE Exists("analysis") -> Fails(s)
       [] ~Exists("analysis") /\ Exists("seal") ->
            IF Loaded("seal") /\ paper["seal"].doc.status = "complete"
            THEN Turn(s, "analyze") /\ lease' = lease ELSE Fails(s)
       [] ~Exists("analysis") /\ ~Exists("seal") -> Goto(s, "lease") /\ lease' = lease
  /\ UNCHANGED <<Files, Bounds>>

Acquire(s) ==
  /\ sup[s].at = "lease"
  /\ IF lease = None THEN lease' = s /\ Goto(s, "environment") ELSE Fails(s)
  /\ UNCHANGED <<Files, Bounds>>

\* The environment is compared before the first cell and before a complete seal.
Environment(s) ==
  /\ sup[s].at = "environment" /\ UNCHANGED <<Files, starts>>
  /\ \/ /\ CASE sup[s].cmd = "seal" -> Goto(s, "derive") /\ lease' = lease
             [] sup[s].cmd = "run" /\ sup[s].cell <= Cells -> Goto(s, "opening") /\ lease' = lease
             [] sup[s].cmd = "run" /\ sup[s].cell > Cells -> PublishSeal(s, "complete")
        /\ UNCHANGED faults
     \/ faults < MaxFaults /\ faults' = faults + 1 /\ Fails(s)

Opening(s) ==
  /\ sup[s].at = "opening"
  /\ CASE ~InCeiling -> Fails(s)
       [] InCeiling /\ Exists("gate") ->
            IF GateStands THEN Goto(s, "cell") /\ lease' = lease ELSE Fails(s)
       [] InCeiling /\ ~Exists("gate") /\ GateValid -> Publish(s, "gate", GateDoc) /\ lease' = lease
       [] InCeiling /\ ~Exists("gate") /\ ~GateValid ->
            IF Finals \subseteq Gate THEN Goto(s, "cell") /\ lease' = lease ELSE Fails(s)
  /\ UNCHANGED <<Files, Bounds>>

\* The head of the loop over the schedule.
Head(s) ==
  LET c == sup[s].cell IN
  CASE c > Cells -> Goto(s, "environment") /\ lease' = lease
    [] c \in Ids /\ ~((c \in Gate \/ GateStands) /\ InCeiling) -> Fails(s)
    [] c \in Ids /\ (c \in Gate \/ GateStands) /\ InCeiling ->
         CASE Invalid # {} -> PublishSeal(s, "terminated")
           [] Invalid = {} /\ c \in Finals -> sup' = [sup EXCEPT ![s].cell = c + 1] /\ lease' = lease
           [] Invalid = {} /\ c \notin Finals ->
                IF physical >= Ceiling THEN Fails(s)
                ELSE Goto(s, IF evidence[c] = "retry" THEN "attest" ELSE "execute") /\ lease' = lease

Cell(s) == sup[s].at = "cell" /\ Head(s) /\ UNCHANGED <<Files, Bounds>>

\* A same-seed retry wants an attestation that the environment is healthy again.
Attest(s) ==
  /\ sup[s].at = "attest" /\ UNCHANGED <<evidence, physical, paper, starts>>
  /\ LET c == sup[s].cell IN
     \/ attested[c] = "done" /\ Goto(s, "execute") /\ UNCHANGED <<attested, lease, faults>>
     \/ attested[c] = "half" /\ Fails(s) /\ UNCHANGED <<attested, faults>>
     \/ /\ attested[c] = "absent" /\ attested' = [attested EXCEPT ![c] = "half"]
        /\ Goto(s, "mark") /\ UNCHANGED <<lease, faults>>
     \/ /\ attested[c] = "absent" /\ faults < MaxFaults /\ faults' = faults + 1
        /\ Fails(s) /\ UNCHANGED attested

Mark(s) ==
  /\ sup[s].at = "mark" /\ attested' = [attested EXCEPT ![sup[s].cell] = "done"]
  /\ Goto(s, "execute") /\ UNCHANGED <<evidence, physical, paper, lease, Bounds>>

\* The attempt of the cell; a kill leaves its candidate behind, abandoned.
Execute(s) ==
  /\ sup[s].at = "execute" /\ physical' = physical + 1
  /\ Goto(s, "running") /\ UNCHANGED <<evidence, attested, paper, lease, Bounds>>

\* What the loop does with the evidence it has just committed: a retry follows
\* at once, without another look at the capacity.
After(s, now) ==
  LET c == sup[s].cell IN
  CASE ~InCeiling -> Fails(s)
    [] InCeiling /\ now = "retry" -> Goto(s, "attest") /\ lease' = lease
    [] InCeiling /\ now \in {"environment", "instrument"} ->
         /\ lease' = lease
         /\ Publish(s, "seal", [status |-> "terminated", physical |-> physical,
                                evidence |-> [evidence EXCEPT ![c] = now]])
    [] InCeiling /\ now = "valid" /\ (c # GateCells \/ Exists("gate")) ->
         sup' = [sup EXCEPT ![s].at = "cell", ![s].cell = c + 1] /\ lease' = lease
    [] InCeiling /\ now = "valid" /\ c = GateCells /\ ~Exists("gate") ->
         Publish(s, "gate", [g \in Gate |-> "valid"]) /\ lease' = lease

Commit(s) ==
  /\ sup[s].at = "running"
  /\ \E out \in Outcomes :
       LET c   == sup[s].cell
           now == IF evidence[c] = "none" /\ out = "environment" THEN "retry" ELSE out
       IN evidence' = [evidence EXCEPT ![c] = now] /\ After(s, now)
  /\ UNCHANGED <<attested, physical, paper, Bounds>>

\* seal, analyze, report and validate: load what is there or derive it.
Derive(s) ==
  /\ sup[s].at = "derive" /\ UNCHANGED <<Files, Bounds>>
  /\ \/ /\ sup[s].cmd = "seal" /\ Exists("seal")
        /\ IF SealStands THEN Turn(s, "analyze") /\ Leave(s) ELSE Fails(s)
     \/ sup[s].cmd = "seal" /\ ~Exists("seal") /\ PublishSeal(s, "complete")
     \/ /\ sup[s].cmd = "analyze"
        /\ CASE Exists("analysis") ->
                  IF AnalysisStands THEN Turn(s, "report") /\ Leave(s) ELSE Fails(s)
             [] ~Exists("analysis") ->
                  IF SealStands /\ paper["seal"].doc.status = "complete"
                  THEN Publish(s, "analysis", paper["seal"].doc) /\ lease' = lease ELSE Fails(s)
     \/ /\ sup[s].cmd = "report"
        /\ CASE ~AnalysisStands -> Fails(s)
             [] AnalysisStands /\ Exists("report") ->
                  IF ReportStands THEN Turn(s, "verify") /\ Leave(s) ELSE Fails(s)
             [] AnalysisStands /\ ~Exists("report") ->
                  Publish(s, "report", paper["analysis"].doc) /\ lease' = lease
     \/ /\ sup[s].cmd = "verify" /\ lease' = lease
        /\ sup' = [sup EXCEPT ![s] = Closed]

\* A name that somebody else has published meanwhile is never replaced.
Payload(s) ==
  /\ sup[s].at = "payload" /\ UNCHANGED <<evidence, attested, physical, Bounds>>
  /\ LET n == sup[s].name IN
     \/ Exists(n) /\ Fails(s) /\ UNCHANGED paper
     \/ /\ ~Exists(n) /\ paper' = [paper EXCEPT ![n] = [file |-> "half", doc |-> sup[s].doc]]
        /\ Goto(s, "marker") /\ UNCHANGED lease

Marker(s) ==
  /\ sup[s].at = "marker" /\ UNCHANGED <<evidence, attested, physical, Bounds>>
  /\ LET n == sup[s].name IN
     /\ paper' = [paper EXCEPT ![n].file = "done"]
     /\ CASE n = "gate" ->
               /\ sup' = [sup EXCEPT ![s].at = "cell", ![s].name = None, ![s].doc = None]
               /\ lease' = lease
          [] n = "seal" ->
               IF sup[s].doc.status = "complete" THEN Turn(s, "analyze") /\ Leave(s) ELSE Fails(s)
          [] n = "analysis" -> Turn(s, "report") /\ Leave(s)
          [] n = "report" -> Turn(s, "verify") /\ Leave(s)

-----------------------------------------------------------------------------
Start(s) ==
  /\ sup[s].at = "closed" /\ starts < MaxStarts /\ starts' = starts + 1
  /\ sup' = [sup EXCEPT ![s] = Enter("run", "check")] /\ UNCHANGED <<Files, lease, faults>>

Kill(s) ==
  /\ sup[s].at # "closed" /\ faults < MaxFaults /\ faults' = faults + 1
  /\ sup' = [sup EXCEPT ![s] = Closed] /\ lease' = IF lease = s THEN "stale" ELSE lease
  /\ UNCHANGED <<Files, starts>>

\* An operator removes the lease of a dead process: nothing in the code does.
ClearLease == lease = "stale" /\ lease' = None /\ UNCHANGED <<Files, sup, Bounds>>

Step(s) ==
  \/ Check(s) \/ Acquire(s) \/ Environment(s) \/ Opening(s) \/ Cell(s) \/ Attest(s) \/ Mark(s)
  \/ Execute(s) \/ Commit(s) \/ Derive(s) \/ Payload(s) \/ Marker(s)

Next == ClearLease \/ \E s \in Supervisors : Step(s) \/ Start(s) \/ Kill(s)
Spec == Init /\ [][Next]_vars
FairSpec == Spec /\ \A s \in Supervisors : WF_vars(Step(s))

-----------------------------------------------------------------------------
\* No primary cell has run unless the score-free gate is sealed, marker and
\* all, over the gate cells as they are: neither a crash between the two files
\* nor a second supervisor opens the study early (run_study, load_gate_seal).
GateFirst ==
  (\E c \in Ids \ Gate : evidence[c] # "none") =>
    paper["gate"] = [file |-> "done", doc |-> GateDoc] /\ GateValid

\* A seal is final although run_study looks for it before it has the lease:
\* whoever had passed that look commits nothing more, so the seal, and the
\* analysis and the report over it, say what the store says.
SealedIsFinal ==
  /\ paper["seal"].file = "done" =>
       /\ paper["seal"].doc.evidence = evidence
       /\ (paper["seal"].doc.status = "complete") <=> Complete
  /\ \A n \in {"analysis", "report"} :
       Exists(n) => Complete /\ paper["seal"].file = "done" /\ paper[n].doc = paper["seal"].doc

\* No command is under way; every start of the script comes to this again.
ValidationOver == \A s \in Supervisors : sup[s].at = "closed"
=============================================================================
