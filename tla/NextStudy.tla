----------------------------- MODULE NextStudy -----------------------------
(***************************************************************************)
(* The sealed program of the next study (next_study_live.py, _program.py   *)
(* and _runtime.py): a shakeout, then six phases, each run into an         *)
(* evidence store of its own and sealed by another command, which publishes *)
(* an artifact and the next program state.  Every output is a new file, so *)
(* an old state stays usable; only run-phase takes the machine's lease.    *)
(***************************************************************************)
EXTENDS Naturals, Sequences

CONSTANTS
  Supervisors,  \* command lines open at the same time
  StudyRuns,    \* bound: run ids, from 1, the operator gives the runs of one phase
  Cells,        \* logical cells of every phase that is run
  MaxFaults,    \* bound: attempts that do not end valid, and kills
  MaxStarts     \* bound: run commands

Phases == <<"calibration", "sentinel", "primary", "primary_analysis", "descriptives", "release">>
Sealable == {"calibration", "sentinel", "primary"}
Executed == Sealable \cup {"shakeout", "descriptives"}
\* How an attempt ends: completed or failed by the model, by the environment
\* with and without retryable=true, by the instrument.
Origins == {"valid", "environment", "permanent", "instrument"}

VARIABLES
  evidence,  \* evidence[<<p, r>>][c]: origins of the committed repeats of a cell
  attested,  \* attested[<<p, r>>][c]: its recovery attestation: none, half or whole
  shaken,    \* shakeout runs whose decision is published as passed
  states,    \* published program states; a state is the sequence of its gates
  ledgers,   \* primary runs whose masked grade ledger is published
  analyses,  \* primary runs whose grade ledger and analysis are published
  lease,     \* does benchmark.lease exist
  cmd,       \* cmd[s]: the command supervisor s has open
  faults, starts

vars == <<evidence, attested, shaken, states, ledgers, analyses, lease, cmd, faults, starts>>

Verified == 0  \* the release gate, which rests on no run of its own
Idle == [at |-> "idle", phase |-> "none", state |-> <<>>, run |-> 0, cell |-> 1, repeat |-> 1]
Current(st) == IF Len(st) < Len(Phases) THEN Phases[Len(st) + 1] ELSE "none"

Init ==
  /\ evidence = [k \in Executed \X StudyRuns |-> [c \in 1 .. Cells |-> <<>>]]
  /\ attested = [k \in Executed \X StudyRuns |-> [c \in 1 .. Cells |-> "none"]]
  /\ shaken = {} /\ states = {} /\ ledgers = {} /\ analyses = {} /\ lease = FALSE
  /\ cmd = [s \in Supervisors |-> Idle] /\ faults = 0 /\ starts = 0

TypeOK ==
  /\ \A k \in Executed \X StudyRuns, c \in 1 .. Cells :
       /\ evidence[k][c] \in Seq(Origins) /\ Len(evidence[k][c]) <= 2
       /\ attested[k][c] \in {"none", "half", "whole"}
  /\ \A st \in states : st \in Seq(StudyRuns \cup {Verified}) /\ Len(st) <= Len(Phases)
  /\ shaken \subseteq StudyRuns /\ ledgers \subseteq StudyRuns /\ analyses \subseteq StudyRuns /\ lease \in BOOLEAN
  /\ \A s \in Supervisors :
       cmd[s].at \in {"idle", "cell", "health", "attest", "mark", "release", "artifact", "state"}
  /\ faults \in 0 .. MaxFaults /\ starts \in 0 .. MaxStarts

-----------------------------------------------------------------------------
(* run-shakeout and run-phase: execute_schedule                             *)

\* The phase a run may be started in: the shakeout, or that of any published
\* state; the descriptives need a published analysis, whichever it is.
Startable == {<<"shakeout", <<>>>>} \cup {<<Current(st), st>> : st \in states}

\* The lease is taken with O_EXCL, or the command fails.
StartRun(s) ==
  /\ cmd[s] = Idle /\ starts < MaxStarts /\ ~lease
  /\ \E t \in Startable, r \in StudyRuns :
       /\ t[1] \in Executed /\ (t[1] = "descriptives" => analyses # {})
       /\ cmd' = [cmd EXCEPT ![s] =
                    [Idle EXCEPT !.at = "cell", !.phase = t[1], !.state = t[2], !.run = r]]
  /\ lease' = TRUE /\ starts' = starts + 1
  /\ UNCHANGED <<evidence, attested, shaken, states, ledgers, analyses, faults>>

Store(s) == <<cmd[s].phase, cmd[s].run>>

\* Where the command goes after a repeat with this origin: into the recovery
\* of the cell, on to the next cell, or to the end.
After(s, origin) ==
  LET c == cmd[s] IN
  IF origin = "environment" /\ c.repeat = 1 THEN [c EXCEPT !.at = "health"]
  ELSE IF c.cell = Cells THEN [c EXCEPT !.at = "release"]
  ELSE [c EXCEPT !.cell = @ + 1, !.repeat = 1]

\* What the producer commits: how the loop ended, or a fault of the instrument when
\* the grader gives no grade, the environment's failure included; the sentinel has
\* no grader.
Produced(phase) == {IF phase = "sentinel" \/ graded THEN o ELSE "instrument" :
                      o \in Origins, graded \in BOOLEAN}

\* execute_or_resume: the committed repeat is taken as it is, or a new one is
\* run; the call may also fail.
Attempt(s) ==
  /\ cmd[s].at = "cell"
  /\ LET done == evidence[Store(s)][cmd[s].cell] IN
     \/ /\ cmd[s].repeat <= Len(done)
        /\ cmd' = [cmd EXCEPT ![s] = After(s, done[cmd[s].repeat])]
        /\ UNCHANGED <<evidence, faults>>
     \/ /\ cmd[s].repeat > Len(done)
        /\ \E o \in Produced(cmd[s].phase) :
             /\ o # "valid" => faults < MaxFaults
             /\ faults' = IF o = "valid" THEN faults ELSE faults + 1
             /\ evidence' = [evidence EXCEPT ![Store(s)][cmd[s].cell] = Append(@, o)]
             /\ cmd' = [cmd EXCEPT ![s] = After(s, o)]
     \/ /\ faults < MaxFaults /\ faults' = faults + 1
        /\ cmd' = [cmd EXCEPT ![s].at = "release"] /\ UNCHANGED evidence
  /\ UNCHANGED <<attested, shaken, states, ledgers, analyses, lease, starts>>

\* After a second the transport is asked for its health, and raises when it has
\* none.
VerifyHealth(s) ==
  /\ cmd[s].at = "health"
  /\ \E at \in {"attest", "release"} : cmd' = [cmd EXCEPT ![s].at = at]
  /\ UNCHANGED <<evidence, attested, shaken, states, ledgers, analyses, lease, faults, starts>>

\* The recovery attestation, payload before marker; one that is there already,
\* the half of a killed command included, is refused and fails the command.
Attest(s) ==
  /\ cmd[s].at = "attest"
  /\ IF attested[Store(s)][cmd[s].cell] = "none"
     THEN /\ attested' = [attested EXCEPT ![Store(s)][cmd[s].cell] = "half"]
          /\ cmd' = [cmd EXCEPT ![s].at = "mark"]
     ELSE cmd' = [cmd EXCEPT ![s].at = "release"] /\ UNCHANGED attested
  /\ UNCHANGED <<evidence, shaken, states, ledgers, analyses, lease, faults, starts>>

Mark(s) ==
  /\ cmd[s].at = "mark"
  /\ attested' = [attested EXCEPT ![Store(s)][cmd[s].cell] = "whole"]
  /\ cmd' = [cmd EXCEPT ![s].at = "cell", ![s].repeat = 2]
  /\ UNCHANGED <<evidence, shaken, states, ledgers, analyses, lease, faults, starts>>

\* The finally clause, whatever became of the run.
Release(s) == /\ cmd[s].at = "release" /\ lease' = FALSE
              /\ cmd' = [cmd EXCEPT ![s] = Idle]
              /\ UNCHANGED <<evidence, attested, shaken, states, ledgers, analyses, faults, starts>>

Running(s) == cmd[s].at \in {"cell", "health", "attest", "mark", "release"}

\* A command is killed; the lease of a run stays.
Kill(s) == /\ cmd[s].at # "idle" /\ faults < MaxFaults /\ faults' = faults + 1
           /\ cmd' = [cmd EXCEPT ![s] = Idle]
           /\ UNCHANGED <<evidence, attested, shaken, states, ledgers, analyses, lease, starts>>

\* The operator removes the lease of a command that is dead; no code does.
RemoveLease == /\ lease /\ \A s \in Supervisors : ~Running(s)
               /\ lease' = FALSE
               /\ UNCHANGED <<evidence, attested, shaken, states, ledgers, analyses, cmd, faults, starts>>

-----------------------------------------------------------------------------
(* The commands that seal: they read a store while its run may be going on  *)

\* The last repeat of the cell.
Final(p, r, c) == evidence[<<p, r>>][c][Len(evidence[<<p, r>>][c])]

\* extract_attempt_records: every attestation is loaded, and every record of a
\* cell that has one must be its failed first repeat.
Extractable(p, r) ==
  \A c \in 1 .. Cells :
    /\ attested[<<p, r>>][c] # "half"
    /\ attested[<<p, r>>][c] = "whole" =>
         \A k \in DOMAIN evidence[<<p, r>>][c] : k = 1 /\ evidence[<<p, r>>][c][k] = "environment"

\* retry_decision on the first repeat: extraction calls it retryable when it is
\* attested.
Eligible(p, r, c) == /\ evidence[<<p, r>>][c] # <<>> /\ evidence[<<p, r>>][c][1] = "environment"
                     /\ attested[<<p, r>>][c] = "whole"

\* resume_queue: what is left to run, and whether it raises.
Queue(p, r) == {c \in 1 .. Cells : \/ evidence[<<p, r>>][c] = <<>>
                                   \/ Eligible(p, r, c) /\ Len(evidence[<<p, r>>][c]) = 1}
Unearned(p, r) == {c \in 1 .. Cells : ~Eligible(p, r, c) /\ Len(evidence[<<p, r>>][c]) = 2}

\* The decision on the last repeat of every cell.
\* Slip: a cell that the environment failed passes for the model's failure.
DecidesLenient(p, r) ==
  \A c \in 1 .. Cells : evidence[<<p, r>>][c] # <<>> /\ Final(p, r, c) \in {"valid", "environment"}
Decides(p, r) == \A c \in 1 .. Cells : evidence[<<p, r>>][c] # <<>> /\ Final(p, r, c) = "valid"

\* What seal-phase, analyze-primary and seal-descriptives ask of a run: its
\* records are extracted, nothing of it is left to run and its cells are valid.
Complete(p, r) ==
  Extractable(p, r) /\ Queue(p, r) = {} /\ Unearned(p, r) = {} /\ Decides(p, r)

\* A sealing command has read what it needs, which may since change, and goes on
\* to publish.
Sealing(s, phase, st, r) ==
  /\ cmd[s] = Idle
  /\ cmd' = [cmd EXCEPT ![s] =
               [Idle EXCEPT !.at = "artifact", !.phase = phase, !.state = st, !.run = r]]
  /\ UNCHANGED <<evidence, attested, shaken, states, ledgers, analyses, lease, faults, starts>>

\* seal-shakeout, which has no use for attestations; the decision that it failed
\* opens nothing.
ShakeoutPasses(r) == Decides("shakeout", r)
SealShakeout(s)   == \E r \in StudyRuns \ shaken :
                       ShakeoutPasses(r) /\ Sealing(s, "shakeout", <<>>, r)

\* authorize-research: a decision that says the shakeout passed gives the
\* authorization and, behind it, the initial state.
ShakenOut == shaken # {}
Authorize ==
  /\ states = {} /\ ShakenOut /\ states' = {<<>>}
  /\ UNCHANGED <<evidence, attested, shaken, ledgers, analyses, lease, cmd, faults, starts>>

\* seal-phase on a published state and a run of its phase; a phase that fails
\* its decision leaves no state behind.
PhaseSeals(st, r) == Current(st) \in Sealable /\ Complete(Current(st), r)
Seal(s) == \E st \in states, r \in StudyRuns :
             /\ Append(st, r) \notin states
             /\ PhaseSeals(st, r) /\ Sealing(s, Current(st), st, r)

\* analyze-primary: unmask_primary holds the masked ledger against the attempts
\* of the run that is named, not against the gate of the state.
Unmasks(r)      == r \in ledgers /\ Complete("primary", r)
Analyzes(st, r) == Current(st) = "primary_analysis" /\ Unmasks(r)
Analyze(s) == \E st \in states, r \in StudyRuns :
                /\ Append(st, r) \notin states
                /\ Analyzes(st, r) /\ Sealing(s, Current(st), st, r)

\* seal-descriptives: the analysis must be the one the state has sealed.
Describes(st, r) == /\ Current(st) = "descriptives" /\ st[4] \in analyses
                    /\ Complete("descriptives", r)
Describe(s) == \E st \in states, r \in StudyRuns :
                 /\ Append(st, r) \notin states
                 /\ Describes(st, r) /\ Sealing(s, Current(st), st, r)

\* The artifact of a seal is published before the state; the shakeout has none.
PublishArtifact(s) ==
  /\ cmd[s].at = "artifact"
  /\ LET Now(phase, set) == IF cmd[s].phase = phase THEN set \cup {cmd[s].run} ELSE set
     IN  /\ shaken'   = Now("shakeout", shaken)
         /\ ledgers'  = Now("primary", ledgers)
         /\ analyses' = Now("primary_analysis", analyses)
  /\ cmd' = [cmd EXCEPT ![s] = IF cmd[s].phase = "shakeout" THEN Idle ELSE [@ EXCEPT !.at = "state"]]
  /\ UNCHANGED <<evidence, attested, states, lease, faults, starts>>

\* advance_program on the state the command was given.
PublishState(s) ==
  /\ cmd[s].at = "state" /\ cmd' = [cmd EXCEPT ![s] = Idle]
  /\ states' = states \cup {Append(cmd[s].state, cmd[s].run)}
  /\ UNCHANGED <<evidence, attested, shaken, ledgers, analyses, lease, faults, starts>>

\* verify-release: the archived documents are those of the gates.
Verifies(st) == Current(st) = "release" /\ st[3] \in ledgers /\ st[4] \in analyses
VerifyRelease ==
  /\ \E st \in states : /\ Append(st, Verified) \notin states /\ Verifies(st)
                        /\ states' = states \cup {Append(st, Verified)}
  /\ UNCHANGED <<evidence, attested, shaken, ledgers, analyses, lease, cmd, faults, starts>>

Step(s) == \/ Attempt(s) \/ VerifyHealth(s) \/ Attest(s) \/ Mark(s) \/ Release(s)
           \/ PublishArtifact(s) \/ PublishState(s)

Next == \/ Authorize \/ VerifyRelease \/ RemoveLease
        \/ \E s \in Supervisors : \/ StartRun(s) \/ SealShakeout(s) \/ Seal(s) \/ Analyze(s)
                                 \/ Describe(s) \/ Step(s) \/ Kill(s)

Spec     == Init /\ [][Next]_vars
FairSpec == Spec /\ \A s \in Supervisors : WF_vars(Step(s))

-----------------------------------------------------------------------------
\* Every gate of every published state rests on a run of its phase in which all
\* cells ended valid, and so does the decision on a shakeout, without which there is
\* no state; and that stays so however long the run's commands go on: the sealing
\* commands take no lease.
Ended(p, r) == \A c \in 1 .. Cells : evidence[<<p, r>>][c] # <<>> /\ Final(p, r, c) = "valid"
SealedStands ==
  /\ \A st \in states : \A i \in DOMAIN st : Phases[i] \in Executed => Ended(Phases[i], st[i])
  /\ \A r \in shaken : Ended("shakeout", r)
  /\ states # {} => shaken # {}

\* A second repeat is run only for an environment failure, and only behind its
\* whole attestation.
RetryEarned ==
  \A k \in Executed \X StudyRuns, c \in 1 .. Cells : Len(evidence[k][c]) = 2 =>
    evidence[k][c][1] = "environment" /\ attested[k][c] = "whole"

\* Every command comes to its end.
CommandsEnd == \A s \in Supervisors : cmd[s] = Idle

\* "attested same-seed recovery" (CHANGELOG.md:726): a run whose cells all
\* ended valid, attested retries among them, can be sealed.
RecoveryCounts ==
  \A p \in Sealable, r \in StudyRuns :
    Decides(p, r) => Complete(p, r)
=============================================================================
