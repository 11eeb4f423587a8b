----------------------------- MODULE StorageProbe -----------------------------
(***************************************************************************)
(* The storage spike of the feasibility gate (bench/f0_storage.py): cycles  *)
(* that prepare a candidate and mark it committed, some of them in a worker *)
(* that exits at a write boundary and is recovered from, some while another *)
(* process holds one of the files, and the scan that decides whether the    *)
(* spike has passed.  The file system refuses a call for a while or for     *)
(* good, and a file may be damaged, MaxTrouble times in all.                *)
(***************************************************************************)
EXTENDS Naturals, Sequences, FiniteSets

CONSTANTS
  Cycles,     \* how many cycles
  Members,    \* how many files a candidate has, PREPARED.json and COMMITTED aside
  MaxTrouble,
  None

SpikeAssumption == Cycles \in Nat \ {0} /\ Members \in Nat \ {0} /\ MaxTrouble \in Nat

VARIABLES
  kinds,     \* kinds[i]: what cycle i is about
  cycle,     \* the current one
  number,    \* its candidate: 1, or 2 for the replacement of an abandoned one
  candidate, \* candidate[i][n]: what there is on disk of it, None before mkdir
  at,        \* the next step
  by,        \* who publishes: prepare_candidate, _exercise_held_handle, recover_candidate
  stop,      \* the boundary at which the worker exits, None in the spike itself
  held,      \* another process has one of the files open and shares it with nobody
  records,   \* the state in the record of every cycle so far
  passed,    \* what the summary says, None before
  trouble

vars == <<kinds, cycle, number, candidate, at, by, stop, held, records, passed, trouble>>

Kinds      == <<"normal", "forced_exit", "held_handle">>
\* BOUNDARIES: the directory, every file, the manifest, its validation, the marker.
PreparedWritten   == Members + 1
PreparedValidated == Members + 2
CommittedCreated  == Members + 3
Boundaries        == 0 .. CommittedCreated
States     == {"committed", "prepared", "abandoned", "corrupt_committed", "corrupt_prepared",
               "publish_blocked"}

\* The candidate of the current cycle, and another in its place.
Here   == candidate[cycle][number]
Put(c) == candidate' = [candidate EXCEPT ![cycle][number] = c]

Empty == [files |-> 0, manifest |-> FALSE, marker |-> FALSE, whole |-> TRUE]

\* Normal cycles first, then the forced exits, then the held handles.
Init ==
  /\ \E n \in 0 .. Cycles : \E f \in 0 .. Cycles - n :
       kinds = [i \in 1 .. Cycles |-> Kinds[IF i <= n THEN 1 ELSE IF i <= n + f THEN 2 ELSE 3]]
  /\ cycle = 1 /\ number = 1 /\ candidate = [i \in 1 .. Cycles |-> <<None, None>>]
  /\ at = "cycle" /\ by = "prepare" /\ stop = None /\ held = FALSE
  /\ records = <<>> /\ passed = None /\ trouble = 0

Trouble == trouble < MaxTrouble /\ trouble' = trouble + 1
Calm    == UNCHANGED trouble

rest    == <<kinds, cycle, number, by, stop, held, records, passed>>
Raise   == at' = "raised" /\ UNCHANGED <<candidate, rest>>
Goto(s) == at' = s /\ UNCHANGED rest

\* The worker is gone at its boundary, and everybody else goes on.
Boundary(b, next) == Goto(IF stop = b THEN "exited" ELSE next)

-----------------------------------------------------------------------------
(* prepare_candidate                                                        *)

\* The worker of a forced exit is told at which boundary to stop.
Worker == IF kinds[cycle] = "forced_exit" THEN Boundaries ELSE {None}

Begin ==
  /\ at = "cycle" /\ at' = "create" /\ by' = "prepare" /\ stop' \in Worker
  /\ UNCHANGED <<kinds, cycle, number, candidate, held, records, passed, trouble>>

Create == at = "create" /\ Put(Empty) /\ Boundary(0, "write") /\ Calm

Write ==
  /\ at = "write"
  /\ LET n == Here.files + 1
     IN  /\ Put([Here EXCEPT !.files = n])
         /\ Boundary(n, IF n = Members THEN "manifest" ELSE "write")
  /\ Calm

\* PREPARED.json takes the hashes of the files as they are now.
Manifest ==
  /\ at = "manifest" /\ Put([Here EXCEPT !.manifest = TRUE, !.whole = TRUE])
  /\ Boundary(PreparedWritten, "read") /\ Calm

Valid(c) == c.manifest /\ c.files = Members /\ c.whole

\* The first validation, which is retried until the deadline.
Read ==
  /\ at = "read" /\ UNCHANGED candidate
  /\ \/ /\ Valid(Here) /\ Calm
        /\ Boundary(PreparedValidated,
                    IF kinds[cycle] = "held_handle" THEN "hold" ELSE "validate")
     \/ Trouble /\ Goto("read")

\* The process that will hold the file says that it does.
Hold ==
  /\ at = "hold" /\ at' = "validate" /\ by' = "hold" /\ held' = TRUE
  /\ UNCHANGED <<kinds, cycle, number, candidate, stop, records, passed, trouble>>

-----------------------------------------------------------------------------
(* publish_prepared                                                         *)

\* A refusal that may go away: again from the top, unless the deadline is over.
Retry == Goto("validate") \/ Goto("blocked")

Validate ==
  /\ at = "validate" /\ UNCHANGED candidate
  /\ \/ ~held /\ Valid(Here) /\ Goto("mark") /\ Calm
     \/ held /\ Retry /\ Calm
     \/ Trouble /\ Retry

\* COMMITTED is created exclusively; one that is there already is validated.
Mark ==
  /\ at = "mark"
  /\ \/ Put([Here EXCEPT !.marker = TRUE]) /\ Goto("check") /\ Calm
     \/ ~Here.marker /\ Trouble /\ Retry /\ UNCHANGED candidate

Check ==
  /\ at = "check" /\ UNCHANGED candidate
  /\ \/ Valid(Here) /\ Calm
        /\ CASE by = "prepare" -> Boundary(CommittedCreated, "classify")
             [] by = "hold"    -> Goto("release")
             [] by = "recover" -> Goto("recovered")
     \/ Trouble /\ Retry

\* A publication that outlasted its deadline is an error, but in a recovery.
Unpublished == at = "blocked" /\ by # "recover"

\* A file that is not the one of the manifest is an error at once, and so is a
\* refusal for good.
Refuse ==
  /\ at # "raised"
  /\ \/ at \in {"read", "validate", "check"} /\ ~held /\ ~Valid(Here) /\ Calm
     \/ Unpublished /\ Calm
     \/ at \notin {"exited", "blocked", "next", "over"} /\ Trouble
  /\ Raise

\* The file that has just been created cannot be flushed.
RefuseFlush ==
  /\ at = "mark" /\ ~Here.marker /\ Trouble
  /\ Put([Here EXCEPT !.marker = TRUE]) /\ Goto("raised")

-----------------------------------------------------------------------------
(* run_spike                                                                *)

Classify(c) ==
  CASE c.marker /\ Valid(c)                 -> "committed"
    [] c.marker /\ ~Valid(c)                -> "corrupt_committed"
    [] ~c.marker /\ c.manifest /\ Valid(c)  -> "prepared"
    [] ~c.marker /\ c.manifest /\ ~Valid(c) -> "corrupt_prepared"
    [] OTHER                                -> "abandoned"

\* The holder lets go.
Release ==
  /\ held /\ held' = FALSE
  /\ UNCHANGED <<kinds, cycle, number, candidate, at, by, stop, records, passed, trouble>>

\* The holder has exited, and the publication took as long as it should have.
AwaitHolder == at = "release" /\ ~held /\ Goto("classify") /\ UNCHANGED candidate /\ Calm

Record(state) ==
  /\ records' = Append(records, state) /\ at' = "next"
  /\ UNCHANGED <<kinds, cycle, number, candidate, by, stop, held, passed, trouble>>

ClassifyOwn ==
  /\ at = "classify"
  /\ LET corrupt == Classify(Here) \in {"corrupt_prepared", "corrupt_committed"}
     IN  IF kinds[cycle] = "forced_exit" /\ corrupt THEN Raise /\ Calm ELSE Record(Classify(Here))

\* After the exit of the worker: what is prepared is published, and what is not
\* is replaced by a candidate of its own, which the spike prepares itself.
Recover ==
  /\ at = "exited" /\ stop' = None
  /\ IF Here.manifest
     THEN at' = "validate" /\ by' = "recover" /\ UNCHANGED number
     ELSE at' = "create" /\ by' = "prepare" /\ number' = 2
  /\ UNCHANGED <<kinds, cycle, candidate, held, records, passed, trouble>>

Recovered ==
  \/ at = "recovered" /\ Record("committed")
  \/ at = "blocked" /\ by = "recover" /\ Record("publish_blocked")

NextCycle ==
  /\ at = "next"
  /\ IF cycle < Cycles THEN cycle' = cycle + 1 /\ number' = 1 /\ at' = "cycle"
                       ELSE at' = "scan" /\ UNCHANGED <<cycle, number>>
  /\ UNCHANGED <<kinds, candidate, by, stop, held, records, passed, trouble>>

Made         == {c \in (1 .. Cycles) \X {1, 2} : candidate[c[1]][c[2]] # None}
State(c)     == Classify(candidate[c[1]][c[2]])
Committed    == {c \in Made : State(c) = "committed"}
Duplicates   == {i \in 1 .. Cycles : {<<i, 1>>, <<i, 2>>} \subseteq Committed}

\* Every candidate is committed or abandoned, and the counts decide.
Scan ==
  /\ at = "scan"
  /\ IF \E c \in Made : State(c) \notin {"committed", "abandoned"}
     THEN Raise
     ELSE /\ at' = "over"
          /\ passed' = /\ Len(records) = Cycles /\ Cardinality(Committed) = Cycles
                       /\ Cardinality({c[1] : c \in Committed}) = Cycles
                       /\ Duplicates = {}
          /\ UNCHANGED <<kinds, cycle, number, candidate, by, stop, held, records>>
  /\ Calm

\* A file of a candidate is not any more what it was.
Damage ==
  /\ at \notin {"over", "raised"}
  /\ \E c \in Made :
       /\ candidate[c[1]][c[2]].whole /\ candidate[c[1]][c[2]].files > 0 /\ Trouble
       /\ candidate' = [candidate EXCEPT ![c[1]][c[2]].whole = FALSE]
  /\ UNCHANGED <<at, rest>>

Spike == \/ Begin \/ Create \/ Write \/ Manifest \/ Read \/ Hold \/ Validate \/ Mark \/ Check
         \/ Refuse \/ RefuseFlush \/ AwaitHolder \/ ClassifyOwn \/ Recover \/ Recovered
         \/ NextCycle \/ Scan
Next == Spike \/ Release \/ Damage
Spec == Init /\ [][Next]_vars /\ WF_vars(Spike) /\ WF_vars(Release)

-----------------------------------------------------------------------------
Candidate == [files : 0 .. Members, manifest : BOOLEAN, marker : BOOLEAN, whole : BOOLEAN]

TypeOK ==
  /\ kinds \in [1 .. Cycles -> {Kinds[k] : k \in 1 .. 3}]
  /\ cycle \in 1 .. Cycles /\ number \in {1, 2}
  /\ \A i \in 1 .. Cycles, n \in {1, 2} : candidate[i][n] \in Candidate \cup {None}
  /\ at \in {"cycle", "create", "write", "manifest", "read", "hold", "validate", "mark", "check",
             "blocked", "exited", "release", "classify", "recovered", "next", "scan",
             "over", "raised"}
  /\ by \in {"prepare", "hold", "recover"} /\ stop \in Boundaries \cup {None} /\ held \in BOOLEAN
  /\ \A i \in DOMAIN records : records[i] \in States
  /\ passed \in BOOLEAN \cup {None} /\ trouble \in 0 .. MaxTrouble

\* "a candidate becomes visible only after an empty COMMITTED marker is created
\* exclusively and every prepared hash validates" (f0_storage.py:5-7): wherever a
\* worker exits, whatever the file system refuses, no logical attempt ever has the
\* marker in two candidates, none has it before its manifest is written, and what was
\* replaced has no manifest that a later recovery could publish.
OneVisible ==
  \A i \in 1 .. Cycles :
    LET c == candidate[i]
    IN  /\ \A n \in {1, 2} : c[n] # None /\ c[n].marker => c[n].manifest /\ c[n].files = Members
        /\ c[2] # None => ~c[1].manifest /\ ~c[1].marker

\* A spike that passed has left one valid committed candidate of every cycle, the
\* damaged, the blocked and the half written ones notwithstanding.
PassIsEarned ==
  passed = TRUE => \A i \in 1 .. Cycles :
    Cardinality({n \in {1, 2} : candidate[i][n] # None /\ candidate[i][n].marker
                                /\ Valid(candidate[i][n])}) = 1

\* The spike comes to an end.
SpikeOver == at \in {"over", "raised"}
=============================================================================
