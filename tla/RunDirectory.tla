---------------------------- MODULE RunDirectory ----------------------------
(***************************************************************************)
(* The directory of a run (harness/evidence.py): create_run, open_run and   *)
(* the layout both look at outside run.lock, and the sessions that look at  *)
(* it again under the lock before they write.  A caller is a process or a   *)
(* thread; it may die at any step and what it has written stays.            *)
(***************************************************************************)

CONSTANTS
  Callers,
  Metadata,  \* what a run may be created with
  Torn,      \* a run.json that was opened and not flushed
  None

DirectoryAssumption == None \notin Callers \cup Metadata /\ Torn \notin Metadata \cup {None}

VARIABLES
  there,     \* does the run directory exist
  lockfile,  \* does run.lock, which is never removed
  holder,    \* who holds the lock on it
  run,       \* run.json: None, Torn or the metadata it holds
  attempts,  \* does the attempts directory exist
  results,   \* does results.json
  temp,      \* does results.json.tmp
  pc,        \* pc[p]: the next step of the caller
  doc,       \* doc[p]: the document the caller creates the run with, or has read
  seen       \* seen[p]: the listing of the directory shows results.json.tmp

vars  == <<there, lockfile, holder, run, attempts, results, temp, pc, doc, seen>>
files == <<there, lockfile, run, attempts, results, temp>>

TypeOK ==
  /\ there \in BOOLEAN /\ lockfile \in BOOLEAN /\ attempts \in BOOLEAN
  /\ results \in BOOLEAN /\ temp \in BOOLEAN
  /\ holder \in Callers \cup {None} /\ run \in Metadata \cup {Torn, None}
  /\ pc \in [Callers -> {"out", "mkdir", "lock", "read", "write", "flush", "attempts", "layout",
                         "scan", "stat", "open", "enter", "rescan", "restat", "rebuild", "replace"}]
  /\ doc \in [Callers -> Metadata \cup {None}]
  /\ seen \in [Callers -> BOOLEAN]

Init ==
  /\ there = FALSE /\ lockfile = FALSE /\ holder = None /\ run = None
  /\ attempts = FALSE /\ results = FALSE /\ temp = FALSE
  /\ pc = [p \in Callers |-> "out"] /\ doc = [p \in Callers |-> None]
  /\ seen = [p \in Callers |-> FALSE]

Goto(p, step) == pc' = [pc EXCEPT ![p] = step]

\* The call raises, or its process dies: a lock it held is free.
Leave(p) ==
  /\ Goto(p, "out") /\ doc' = [doc EXCEPT ![p] = None]
  /\ holder' = IF holder = p THEN None ELSE holder
  /\ UNCHANGED <<files, seen>>

Die(p) == pc[p] # "out" /\ Leave(p)

-----------------------------------------------------------------------------
(* create_run                                                               *)

Create(p) ==
  /\ pc[p] = "out"
  /\ \E m \in Metadata : doc' = [doc EXCEPT ![p] = m]
  /\ Goto(p, IF there THEN "lock" ELSE "mkdir")
  /\ UNCHANGED <<files, holder, seen>>

\* mkdir(exist_ok=False)
MakeDirectory(p) ==
  /\ pc[p] = "mkdir"
  /\ \/ there /\ Leave(p)
     \/ /\ ~there /\ there' = TRUE /\ Goto(p, "lock")
        /\ UNCHANGED <<lockfile, holder, run, attempts, results, temp, doc, seen>>

\* Slip: a lock that many can hold.
AcquireShared(p, step) ==
  /\ lockfile' = TRUE /\ holder' = p /\ Goto(p, step)
  /\ UNCHANGED <<there, run, attempts, results, temp, doc, seen>>

\* RunLock.acquire: run.lock is made if it is not there.
Acquire(p, step) ==
  /\ holder = None /\ holder' = p /\ lockfile' = TRUE /\ Goto(p, step)
  /\ UNCHANGED <<there, run, attempts, results, temp, doc, seen>>

\* A lock another one holds is an error, which ends a create_run; a store that
\* was open stays so.
Lock(p) ==
  /\ pc[p] = "lock"
  /\ \/ Acquire(p, "read")
     \/ holder # None /\ Leave(p)

\* An existing document must be the requested one.
ReadRun(p) ==
  /\ pc[p] = "read"
  /\ \/ run \notin {None, doc[p]} /\ Leave(p)
     \/ /\ run \in {None, doc[p]} /\ Goto(p, IF run = None THEN "write" ELSE "attempts")
        /\ UNCHANGED <<files, holder, doc, seen>>

\* The exclusive open of run.json ...
OpenNew(p) ==
  /\ pc[p] = "write"
  /\ \/ run # None /\ Leave(p)
     \/ /\ run = None /\ run' = Torn /\ Goto(p, "flush")
        /\ UNCHANGED <<there, lockfile, holder, attempts, results, temp, doc, seen>>

\* ... and its flush.
Flush(p) ==
  /\ pc[p] = "flush" /\ run' = doc[p] /\ Goto(p, "attempts")
  /\ UNCHANGED <<there, lockfile, holder, attempts, results, temp, doc, seen>>

\* The attempts directory, and the end of the lock.
MakeAttempts(p) ==
  /\ pc[p] = "attempts" /\ attempts' = TRUE /\ holder' = None /\ Goto(p, "layout")
  /\ UNCHANGED <<there, lockfile, run, results, temp, doc, seen>>

-----------------------------------------------------------------------------
(* open_run and _validate_layout                                            *)

OpenRun(p) ==
  /\ pc[p] = "out" /\ run \in Metadata
  /\ doc' = [doc EXCEPT ![p] = run] /\ Goto(p, "layout")
  /\ UNCHANGED <<files, holder, seen>>

Whole(p) == there /\ lockfile /\ attempts /\ run = doc[p]

\* The members that must be there, and run.json once more: outside the lock for
\* a store that is being opened, under it ("enter" and on) for a session.
Layout(p) ==
  /\ pc[p] \in {"layout", "enter"}
  /\ \/ ~Whole(p) /\ Leave(p)
     \/ /\ Whole(p) /\ Goto(p, IF pc[p] = "enter" THEN "rescan" ELSE "scan")
        /\ UNCHANGED <<files, holder, doc, seen>>

\* The directory is listed ...
Scan(p) ==
  /\ pc[p] \in {"scan", "rescan"} /\ seen' = [seen EXCEPT ![p] = temp]
  /\ Goto(p, IF pc[p] = "rescan" THEN "restat" ELSE "stat")
  /\ UNCHANGED <<files, holder, doc>>

Vanished(p) == seen[p] /\ ~temp

\* ... and every member looked at, where one that has vanished raises.
Stat(p) ==
  /\ pc[p] \in {"stat", "restat"}
  /\ \/ Vanished(p) /\ Leave(p)
     \/ /\ ~Vanished(p) /\ Goto(p, IF pc[p] = "restat" THEN "rebuild" ELSE "open")
        /\ UNCHANGED <<files, holder, doc, seen>>

-----------------------------------------------------------------------------
(* RunSession                                                               *)

Enter(p) == pc[p] = "open" /\ Acquire(p, "enter")

\* rebuild_results writes the temporary file, over one a dead caller left ...
Rebuild(p) ==
  /\ pc[p] = "rebuild" /\ temp' = TRUE /\ Goto(p, "replace")
  /\ UNCHANGED <<there, lockfile, holder, run, attempts, results, doc, seen>>

\* ... and puts it in the place of results.json; the session ends.
Replace(p) ==
  /\ pc[p] = "replace" /\ temp' = FALSE /\ results' = TRUE
  /\ holder' = None /\ Goto(p, "open")
  /\ UNCHANGED <<there, lockfile, run, attempts, doc, seen>>

Step(p) ==
  \/ Create(p) \/ MakeDirectory(p) \/ Lock(p) \/ ReadRun(p) \/ OpenNew(p) \/ Flush(p)
  \/ MakeAttempts(p) \/ OpenRun(p) \/ Layout(p) \/ Scan(p) \/ Stat(p) \/ Enter(p)
  \/ Rebuild(p) \/ Replace(p) \/ Die(p)

Next == \E p \in Callers : Step(p)

Spec == Init /\ [][Next]_vars

-----------------------------------------------------------------------------
Opened(p) == pc[p] \in {"scan", "stat", "open", "enter", "rescan", "restat", "rebuild", "replace"}

\* "One immutable run descriptor" (harness/evidence.py:2142), looked at outside
\* the lock: whoever has a store of the run has the document of run.json, for
\* good, in a whole directory; a session is never refused for what another one
\* or a dead one left; and a run whose document was torn by a death never gets
\* an attempt or a result.
OneDocument ==
  /\ \A p \in Callers : Opened(p) => Whole(p)
  /\ \A p \in Callers : pc[p] = "restat" => ~Vanished(p)
  /\ attempts \/ results \/ temp => run \in Metadata
=============================================================================
