---------------------------- MODULE EvidenceStore ----------------------------
(***************************************************************************)
(* The marker-last evidence store of harness/evidence.py: several          *)
(* processes call execute_or_resume(key, producer) and read_committed() on *)
(* one run directory.  A call holds run.lock from its recovery scan to its *)
(* projection; a process may die, an artifact may change on disk and an    *)
(* operating-system error may outlast the retry deadline at every step.    *)
(***************************************************************************)
EXTENDS Naturals

CONSTANTS
  Keys,        \* complete attempt keys, one logical directory each
  Candidates,  \* physical attempt directories, never-reused UUIDs
  Procs,       \* caller processes (or threads: run.lock excludes both)
  None,        \* no key, no candidate, no process
  MaxFaults    \* bound on the adverse events of one behaviour

ASSUME NoneAssumption   == None \notin Keys \cup Candidates \cup Procs
ASSUME FaultsAssumption == MaxFaults \in Nat

VARIABLES
  owner,     \* owner[c]: logical directory that holds c, None before mkdir
  evidence,  \* evidence[c]: the evidence files in c
  prepared,  \* prepared[c]: PREPARED.json of c
  intact,    \* intact[c]: the bytes in c are the ones the manifest hashes
  marker,    \* marker[c]: the empty file COMMITTED is in c
  results,   \* rows of results.json: the candidates it reports
  temp,      \* results.json.tmp
  lock,      \* holder of run.lock
  pc,        \* pc[p]: where the call of p is
  goal,      \* goal[p]: key of execute_or_resume, None for read_committed
  called,    \* called[p]: this call has invoked its producer
  target,    \* target[p]: the candidate p writes, publishes or adopts
  todo,      \* todo[p]: logical directories recover_all has still to scan
  rows,      \* rows[p]: the records recover_all has gathered
  ret,       \* ret[p]: the AttemptResolution of p's last call
  faults     \* adverse events so far

disk  == <<owner, evidence, prepared, intact, marker>>
view  == <<results, temp>>
local == <<goal, called, target, todo, rows>>
vars  == <<disk, view, lock, pc, local, ret, faults>>

Pc == {"idle", "resolve", "begin", "produce", "commit", "manifest", "publish",
       "marker", "verify", "recover", "temp", "flush", "replace", "return"}

\* AttemptResolution, with "raised" for a call an exception or a crash ended
\* and "running" while there is no answer.
Resolutions == [state  : {"running", "committed", "publish_blocked", "raised"},
                called : BOOLEAN]

TypeOK ==
  /\ owner \in [Candidates -> Keys \cup {None}]
  /\ evidence \in [Candidates -> {"none", "partial", "malformed", "complete"}]
  /\ prepared \in [Candidates -> {"absent", "torn", "written"}]
  /\ intact \in [Candidates -> BOOLEAN]
  /\ marker \in [Candidates -> BOOLEAN]
  /\ results \in SUBSET Candidates
  /\ temp \in {"absent", "partial", "full"}
  /\ lock \in Procs \cup {None}
  /\ pc \in [Procs -> Pc]
  /\ goal \in [Procs -> Keys \cup {None}]
  /\ called \in [Procs -> BOOLEAN]
  /\ target \in [Procs -> Candidates \cup {None}]
  /\ todo \in [Procs -> SUBSET Keys]
  /\ rows \in [Procs -> SUBSET Candidates]
  /\ ret \in [Procs -> Resolutions]
  /\ faults \in Nat

Init ==
  /\ owner = [c \in Candidates |-> None]
  /\ evidence = [c \in Candidates |-> "none"]
  /\ prepared = [c \in Candidates |-> "absent"]
  /\ intact = [c \in Candidates |-> TRUE]
  /\ marker = [c \in Candidates |-> FALSE]
  /\ results = {}
  /\ temp = "absent"
  /\ lock = None
  /\ pc = [p \in Procs |-> "idle"]
  /\ goal = [p \in Procs |-> None]
  /\ called = [p \in Procs |-> FALSE]
  /\ target = [p \in Procs |-> None]
  /\ todo = [p \in Procs |-> {}]
  /\ rows = [p \in Procs |-> {}]
  /\ ret = [p \in Procs |-> [state |-> "running", called |-> FALSE]]
  /\ faults = 0

-----------------------------------------------------------------------------
(* What a recovery scan concludes from the disk.                            *)

\* validate_prepared: the manifest is readable, declares exactly the files
\* that are there, every size and digest matches and the evidence validates.
Valid(c) == prepared[c] = "written" /\ evidence[c] = "complete" /\ intact[c]

\* The candidates that a scan meets in the directory of the key.
Of(k) == {c \in Candidates : owner[c] = k}

\* Slip: a scan for which only marked candidates count.
MarkedOf(k) == {c \in Of(k) : Valid(c) /\ marker[c]}

ValidOf(k) == {c \in Of(k) : Valid(c)}

\* Slips: damage under a marker is not looked for; an abandoned candidate is
\* taken for damage.
HaltsOnDuplicates(k) == \E c, d \in ValidOf(k) : c # d
HaltsOnAbandoned(k)  == \/ \E c \in Of(k) : ~Valid(c)
                        \/ \E c, d \in ValidOf(k) : c # d

\* The scan raises: a marker over evidence that does not validate, or two
\* valid candidates for one logical attempt.
Halts(k) == \/ \E c \in Of(k) : marker[c] /\ ~Valid(c)
            \/ \E c, d \in ValidOf(k) : c # d

\* Slip: the damaged committed candidate counts as abandoned.
NoValid(k) == ValidOf(k) = {}

NotStarted(k) == ~Halts(k) /\ ValidOf(k) = {}

Prepared(k) == ~Halts(k) /\ \E c \in ValidOf(k) : ~marker[c]

\* Slip: a valid prepared candidate is reported before it is published.
Publishable(k) == ~Halts(k) /\ ValidOf(k) # {}

Committed(k) == ~Halts(k) /\ \E c \in ValidOf(k) : marker[c]

-----------------------------------------------------------------------------
Goto(p, l) == pc' = [pc EXCEPT ![p] = l]

\* The with-block ends: run.lock is released, the memory of the call is gone.
Leave(p, s) ==
  /\ lock' = None
  /\ Goto(p, "idle")
  /\ ret' = [ret EXCEPT ![p] = [state |-> s, called |-> called[p]]]
  /\ todo' = [todo EXCEPT ![p] = {}]
  /\ rows' = [rows EXCEPT ![p] = {}]
  /\ target' = [target EXCEPT ![p] = None]
  /\ UNCHANGED <<goal, called>>

\* recover_all starts on the complete inventory of logical directories.
StartRecovery(p) ==
  /\ Goto(p, "recover")
  /\ todo' = [todo EXCEPT ![p] = Keys]
  /\ rows' = [rows EXCEPT ![p] = {}]

Fault == faults < MaxFaults /\ faults' = faults + 1

\* store.locked().__enter__ for execute_or_resume(k) or, with None, for
\* read_committed(); a call that finds the lock taken changes nothing.
Enter(p, k) ==
  /\ pc[p] = "idle"
  /\ lock = None
  /\ lock' = p
  /\ goal' = [goal EXCEPT ![p] = k]
  /\ called' = [called EXCEPT ![p] = FALSE]
  /\ ret' = [ret EXCEPT ![p] = [state |-> "running", called |-> FALSE]]
  /\ IF k = None THEN StartRecovery(p)
                 ELSE Goto(p, "resolve") /\ UNCHANGED <<todo, rows>>
  /\ UNCHANGED <<disk, view, target, faults>>

\* session.resolve(key): nothing valid, a committed candidate, or a prepared
\* one that is adopted.
Resolve(p) ==
  /\ pc[p] = "resolve"
  /\ \/ NotStarted(goal[p]) /\ Goto(p, "begin") /\ UNCHANGED <<target, todo, rows>>
     \/ Committed(goal[p]) /\ StartRecovery(p) /\ UNCHANGED target
     \/ /\ Prepared(goal[p])
        /\ \E c \in ValidOf(goal[p]) : target' = [target EXCEPT ![p] = c]
        /\ Goto(p, "publish")
        /\ UNCHANGED <<todo, rows>>
  /\ UNCHANGED <<disk, view, lock, goal, called, ret, faults>>

\* A new UUID: mkdir(exist_ok=False) never opens an existing directory.
Fresh(c, k) == owner[c] = None

\* begin_attempt scans again, then makes the directory of a fresh UUID.
BeginAttempt(p) ==
  /\ pc[p] = "begin"
  /\ NotStarted(goal[p])
  /\ \E c \in Candidates :
       /\ Fresh(c, goal[p])
       /\ owner' = [owner EXCEPT ![c] = goal[p]]
       /\ evidence' = [evidence EXCEPT ![c] = "partial"]
       /\ target' = [target EXCEPT ![p] = c]
  /\ called' = [called EXCEPT ![p] = TRUE]
  /\ Goto(p, "produce")
  /\ UNCHANGED <<prepared, intact, marker, view, lock, goal, todo, rows, ret, faults>>

\* producer(writer) writes and captures every required file.
Produce(p) ==
  /\ pc[p] = "produce"
  /\ evidence' = [evidence EXCEPT ![target[p]] = "complete"]
  /\ Goto(p, "commit")
  /\ UNCHANGED <<owner, prepared, intact, marker, view, lock, local, ret, faults>>

\* The producer returns with a file missing, not captured or not valid.
ProduceBadly(p) ==
  /\ pc[p] = "produce"
  /\ Fault
  /\ \E e \in {"partial", "malformed"} :
       evidence' = [evidence EXCEPT ![target[p]] = e]
  /\ Goto(p, "commit")
  /\ UNCHANGED <<owner, prepared, intact, marker, view, lock, local, ret>>

\* writer.commit(): look at COMMITTED, then at PREPARED.json; when neither is
\* there, check the ledger and start the exclusive write of PREPARED.json.
Commit(p) ==
  LET c == target[p] IN
  /\ pc[p] = "commit"
  /\ \/ /\ marker[c] /\ Valid(c)
        /\ StartRecovery(p)
        /\ UNCHANGED prepared
     \/ /\ ~marker[c] /\ prepared[c] # "absent"
        /\ Goto(p, "publish")
        /\ UNCHANGED <<prepared, todo, rows>>
     \/ /\ ~marker[c] /\ prepared[c] = "absent" /\ evidence[c] = "complete"
        /\ prepared' = [prepared EXCEPT ![c] = "torn"]
        /\ Goto(p, "manifest")
        /\ UNCHANGED <<todo, rows>>
  /\ UNCHANGED <<owner, evidence, intact, marker, view, lock, goal, called, target, ret, faults>>

\* PREPARED.json is flushed and closed.
WriteManifest(p) ==
  /\ pc[p] = "manifest"
  /\ prepared' = [prepared EXCEPT ![target[p]] = "written"]
  /\ Goto(p, "publish")
  /\ UNCHANGED <<owner, evidence, intact, marker, view, lock, local, ret, faults>>

\* publish_once, first half: validate the prepared bundle.
ValidatePrepared(p) ==
  /\ pc[p] = "publish"
  /\ Valid(target[p])
  /\ Goto(p, "marker")
  /\ UNCHANGED <<disk, view, lock, local, ret, faults>>

\* _create_commit_marker, or the FileExistsError of a retry.
CreateMarker(p) ==
  /\ pc[p] = "marker"
  /\ marker' = [marker EXCEPT ![target[p]] = TRUE]
  /\ Goto(p, "verify")
  /\ UNCHANGED <<owner, evidence, prepared, intact, view, lock, local, ret, faults>>

\* publish_once, second half: validate_committed.  Inside recover_all the
\* record joins the projection; otherwise the projection starts.
ValidateCommitted(p) ==
  LET c == target[p] IN
  /\ pc[p] = "verify"
  /\ Valid(c)
  /\ IF todo[p] # {}
       THEN /\ todo' = [todo EXCEPT ![p] = @ \ {owner[c]}]
            /\ rows' = [rows EXCEPT ![p] = @ \cup {c}]
            /\ Goto(p, "recover")
       ELSE StartRecovery(p)
  /\ UNCHANGED <<disk, view, lock, goal, called, target, ret, faults>>

\* A producer that committed its own writer: execute_or_resume commits again.
CommitAgain(p) ==
  /\ pc[p] \in {"publish", "marker", "verify"}
  /\ called[p] /\ todo[p] = {}
  /\ Fault
  /\ Goto(p, "commit")
  /\ UNCHANGED <<disk, view, lock, local, ret>>

\* A retryable error inside publish_once before the deadline: run it again.
RetryPublish(p) ==
  /\ pc[p] \in {"marker", "verify"}
  /\ Fault
  /\ Goto(p, "publish")
  /\ UNCHANGED <<disk, view, lock, local, ret>>

-----------------------------------------------------------------------------
(* rebuild_results                                                          *)

\* recover_all scans one logical directory and adopts what is prepared.
Recover(p) ==
  /\ pc[p] = "recover"
  /\ \E k \in todo[p] :
       \/ /\ NotStarted(k)
          /\ todo' = [todo EXCEPT ![p] = @ \ {k}]
          /\ UNCHANGED <<pc, target, rows>>
       \/ /\ Committed(k)
          /\ todo' = [todo EXCEPT ![p] = @ \ {k}]
          /\ rows' = [rows EXCEPT ![p] = @ \cup ValidOf(k)]
          /\ UNCHANGED <<pc, target>>
       \/ /\ Prepared(k)
          /\ \E c \in ValidOf(k) : target' = [target EXCEPT ![p] = c]
          /\ Goto(p, "publish")
          /\ UNCHANGED <<todo, rows>>
  /\ UNCHANGED <<disk, view, lock, goal, called, ret, faults>>

OpenTemp(p) ==
  /\ pc[p] = "recover" /\ todo[p] = {}
  /\ temp' = "partial"
  /\ Goto(p, "flush")
  /\ UNCHANGED <<disk, results, lock, local, ret, faults>>

FlushTemp(p) ==
  /\ pc[p] = "flush"
  /\ temp' = "full"
  /\ Goto(p, "replace")
  /\ UNCHANGED <<disk, results, lock, local, ret, faults>>

ReplaceResults(p) ==
  /\ pc[p] = "replace"
  /\ results' = rows[p]
  /\ temp' = "absent"
  /\ Goto(p, "return")
  /\ UNCHANGED <<disk, lock, local, ret, faults>>

Return(p) ==
  /\ pc[p] = "return"
  /\ Leave(p, "committed")
  /\ UNCHANGED <<disk, view, faults>>

-----------------------------------------------------------------------------
(* Failures                                                                 *)

\* EvidenceIntegrityError, SchemaError, DuplicateCandidateError: the call ends
\* with an exception.
Raise(p) ==
  /\ \/ pc[p] = "resolve" /\ Halts(goal[p])
     \/ pc[p] = "recover" /\ \E k \in todo[p] : Halts(k)
     \/ pc[p] \in {"publish", "verify"} /\ ~Valid(target[p])
     \/ pc[p] = "commit" /\ marker[target[p]] /\ ~Valid(target[p])
     \/ /\ pc[p] = "commit" /\ ~marker[target[p]]
        /\ prepared[target[p]] = "absent" /\ evidence[target[p]] # "complete"
  /\ Leave(p, "raised")
  /\ UNCHANGED <<disk, view, faults>>

\* A retryable operating-system error outlasts the deadline.  recover_all
\* (todo # {}) and begin_attempt turn publish_blocked into an exception.
Exhausted(p) ==
  /\ pc[p] \in {"resolve", "begin", "commit", "publish", "marker", "verify", "recover"}
  /\ Fault
  /\ Leave(p, IF pc[p] \in {"begin", "recover"} \/ todo[p] # {}
                THEN "raised" ELSE "publish_blocked")
  /\ UNCHANGED <<disk, view>>

\* The process dies, or an error that is not retried escapes: the disk stays
\* as it is, the operating system or the with-block frees the lock.
Crash(p) ==
  /\ pc[p] # "idle"
  /\ Fault
  /\ Leave(p, "raised")
  /\ UNCHANGED <<disk, view>>

\* A file changes behind the store's back: an artifact after its capture, a
\* late write through a held handle.
Tamper(c) ==
  /\ owner[c] # None /\ intact[c]
  /\ Fault
  /\ intact' = [intact EXCEPT ![c] = FALSE]
  /\ UNCHANGED <<owner, evidence, prepared, marker, view, lock, pc, local, ret>>

Step(p) == \/ Resolve(p) \/ BeginAttempt(p) \/ Produce(p) \/ Commit(p)
           \/ WriteManifest(p) \/ ValidatePrepared(p) \/ CreateMarker(p)
           \/ ValidateCommitted(p) \/ Recover(p) \/ OpenTemp(p) \/ FlushTemp(p)
           \/ ReplaceResults(p) \/ Return(p) \/ Raise(p)

Adverse(p) == ProduceBadly(p) \/ CommitAgain(p) \/ RetryPublish(p) \/ Exhausted(p) \/ Crash(p)

Next == \/ \E p \in Procs : Step(p) \/ Adverse(p) \/ \E k \in Keys \cup {None} : Enter(p, k)
        \/ \E c \in Candidates : Tamper(c)

Spec == Init /\ [][Next]_vars

\* A running process is scheduled, and the callers of a study come back for
\* every key (bench/s6_run.py iterates its schedule and is restarted by hand).
Fairness == /\ \A p \in Procs : WF_vars(Step(p))
            /\ \A k \in Keys \cup {None} : SF_vars(\E p \in Procs : Enter(p, k))

FairSpec == Spec /\ Fairness

-----------------------------------------------------------------------------
(* What the store promises                                                  *)

\* At most one candidate of a logical attempt ever carries COMMITTED, even
\* when callers crash, race for the lock, retry and files are damaged.
AtMostOneMarker ==
  \A c, d \in Candidates :
    marker[c] /\ marker[d] /\ owner[c] = owner[d] => c = d

\* Marker-last: COMMITTED is only ever seen beside complete evidence and a
\* completely written PREPARED.json, whatever instant a process dies at.
MarkerLast ==
  \A c \in Candidates :
    marker[c] => prepared[c] = "written" /\ evidence[c] = "complete"

\* What a reader may rely on who finds a COMMITTED file.
MarkersSound == AtMostOneMarker /\ MarkerLast

\* results.json reports committed evidence only, and when execute_or_resume
\* answers "committed" it reports every committed attempt, the answered one
\* included.
ProjectionExact ==
  /\ \A c \in results : marker[c]
  /\ \A p \in Procs : pc[p] = "return" =>
       /\ results = {c \in Candidates : marker[c]}
       /\ goal[p] # None => \E c \in results : owner[c] = goal[p]

\* The producer is not run for a key that has a complete valid PREPARED.json
\* or a COMMITTED (docs/PROJECT_SETUP.md: the no-rerun guarantee).
NoRerun ==
  [][\A c \in Candidates : owner[c] = None /\ owner'[c] # None =>
       \A d \in Candidates : owner[d] = owner'[c] => ~Valid(d) /\ ~marker[d]]_vars

\* A candidate that does not validate and has lost its writer is preserved:
\* the store never writes into it, publishes it or reuses its directory.
AbandonedPreserved ==
  [][\A c \in Candidates :
       owner[c] # None /\ ~Valid(c) /\ (\A p \in Procs : target[p] # c) =>
         /\ owner'[c] = owner[c] /\ evidence'[c] = evidence[c]
         /\ prepared'[c] = prepared[c] /\ marker'[c] = marker[c]]_vars

\* Whatever was produced is either taken up or left as it is.
EvidenceKept == NoRerun /\ AbandonedPreserved

\* A projection never loses a row: damaged or unreadable evidence stops the
\* rebuild before results.json is replaced.
ProjectionMonotone == [][results \subseteq results']_vars

\* Once the adverse events are over every key called for gets its marker,
\* also when evidence of another key halts every projection.
EventuallyCommitted ==
  \A k \in Keys : <>(\E c \in Of(k) : marker[c])

\* Every committed candidate is eventually reported, unless damaged
\* committed evidence halts the run.
EventuallyReported ==
  \A c \in Candidates : marker[c] ~> (c \in results \/ \E k \in Keys : Halts(k))

\* Both, for a run whose adverse events are finite.
EventuallySettled == EventuallyCommitted /\ EventuallyReported

\* An exhausted deadline answers "publish_blocked, not a model rerun"
\* (docs/FIXES.md, docs/PROJECT_SETUP.md): after a call whose producer ran and
\* that answered publish_blocked, the producer of that key is not run again.
BlockedNeverReruns ==
  [][\A p \in Procs, c \in Candidates :
       /\ ret[p] = [state |-> "publish_blocked", called |-> TRUE]
       /\ owner[c] = None
       => owner'[c] # goal[p]]_vars

-----------------------------------------------------------------------------
(* The abstract register the store implements: one candidate per key.       *)

decided == [k \in Keys |-> IF \E c \in Of(k) : marker[c]
                             THEN CHOOSE c \in Of(k) : marker[c]
                             ELSE None]

Register == INSTANCE AttemptRegister WITH reported <- results

RegisterSpec == Register!Spec
=============================================================================
