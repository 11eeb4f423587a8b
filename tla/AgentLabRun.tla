----------------------------- MODULE AgentLabRun -----------------------------
(***************************************************************************)
(* The life of the agent subprocesses of webui/server.py: HTTP handler     *)
(* threads start, stop and reset; a pump thread per run follows it to its  *)
(* end; the main thread cleans up when serving ends.  Every thread may be  *)
(* overtaken between two statements unless a lock says otherwise.          *)
(***************************************************************************)
EXTENDS Naturals, FiniteSets

CONSTANTS
  Runs,      \* run ids, each started at most once
  Handlers,  \* HTTP handler threads
  Main,      \* the thread of serve_until_stopped
  None

ServerThreads == Handlers \cup {Main}

RunsAssumption ==
  /\ Main \notin Handlers
  /\ None \notin Runs \cup ServerThreads \cup {"stopped", "finished", "failed"}

VARIABLES
  current,   \* Runs.current
  leader,    \* leader[r]: the runner process of r
  child,     \* child[r]: a descendant in its process group is alive
  status,    \* Run.status
  pump,      \* pump[r]: where Runs._pump is
  replied,   \* replied[r]: the assistant turn of r is in its conversation
  said,      \* said[r]: the status of the closed event of r, None before it
  at,        \* at[t]: where thread t is
  of,        \* of[t]: the run t acts on
  runsLock,  \* holder of Runs.lock
  runLock,   \* holder of Run.lock
  treeLock,  \* holder of ProcessTree._lock
  gone       \* the server process has exited

tree  == <<leader, child>>
locks == <<runsLock, runLock, treeLock>>
vars  == <<current, tree, status, pump, replied, said, at, of, locks, gone>>

Exits == {"ok", "bad", "killed"}

TypeOK ==
  /\ current \in Runs \cup {None}
  /\ leader \in [Runs -> {"none", "alive"} \cup Exits]
  /\ child \in [Runs -> BOOLEAN]
  /\ status \in [Runs -> {"running", "stopped", "finished", "failed"}]
  /\ pump \in [Runs -> {"none", "reading", "waited", "swept", "settling", "settled",
                        "replied", "closed"}]
  /\ replied \in [Runs -> BOOLEAN]
  /\ said \in [Runs -> {"stopped", "finished", "failed", None}]
  /\ at \in [ServerThreads -> {"idle", "checked", "spawned", "polled", "marked", "signalled",
                         "resetting", "cleanup"}]
  /\ of \in [ServerThreads -> Runs \cup {None}]
  /\ runsLock \in ServerThreads \cup {None}
  /\ runLock \in [Runs -> ServerThreads \cup {None}]
  /\ treeLock \in [Runs -> ServerThreads \cup {None}]
  /\ gone \in BOOLEAN

Init ==
  /\ current = None
  /\ leader = [r \in Runs |-> "none"] /\ child = [r \in Runs |-> FALSE]
  /\ status = [r \in Runs |-> "running"] /\ pump = [r \in Runs |-> "none"]
  /\ replied = [r \in Runs |-> FALSE] /\ said = [r \in Runs |-> None]
  /\ at = [t \in ServerThreads |-> "idle"] /\ of = [t \in ServerThreads |-> None]
  /\ runsLock = None
  /\ runLock = [r \in Runs |-> None] /\ treeLock = [r \in Runs |-> None]
  /\ gone = FALSE

\* Popen.poll() is None.
Alive(r) == leader[r] = "alive"

\* Slip: a run counts as over when its status says so.
IdleByStatus == \A r \in Runs : current = r => status[r] # "running"

Idle == \A r \in Runs : current = r => ~Alive(r)

Goto(t, l) == at' = [at EXCEPT ![t] = l]
Pump(r, l) == pump' = [pump EXCEPT ![r] = l]

-----------------------------------------------------------------------------
(* The runner's process group                                               *)

\* The runner starts a connector process.
SpawnChild(r) ==
  /\ Alive(r) /\ ~child[r]
  /\ child' = [child EXCEPT ![r] = TRUE]
  /\ UNCHANGED <<current, leader, status, pump, replied, said, at, of, locks, gone>>

\* A descendant ends by itself, or on SIGTERM or its closed pipes.
ChildExit(r) ==
  /\ child[r]
  /\ child' = [child EXCEPT ![r] = FALSE]
  /\ UNCHANGED <<current, leader, status, pump, replied, said, at, of, locks, gone>>

\* The runner ends with code 0 or another one; a descendant may remain.
LeaderExit(r) ==
  /\ Alive(r)
  /\ \E code \in {"ok", "bad"} : leader' = [leader EXCEPT ![r] = code]
  /\ UNCHANGED <<current, child, status, pump, replied, said, at, of, locks, gone>>

-----------------------------------------------------------------------------
(* Runs.start                                                               *)

\* Under Runs.lock: reject while the current runner is alive.
StartCheck(t) ==
  /\ ~gone /\ at[t] = "idle" /\ t \in Handlers /\ runsLock = None
  /\ Idle
  /\ runsLock' = t
  /\ Goto(t, "checked")
  /\ UNCHANGED <<current, tree, status, pump, replied, said, of, runLock, treeLock, gone>>

\* ProcessTree.start.
Spawn(t, r) ==
  /\ ~gone /\ at[t] = "checked" /\ leader[r] = "none"
  /\ leader' = [leader EXCEPT ![r] = "alive"]
  /\ of' = [of EXCEPT ![t] = r]
  /\ Goto(t, "spawned")
  /\ UNCHANGED <<current, child, status, pump, replied, said, locks, gone>>

\* self.current = run, the lock is released, the pump thread is started.
Publish(t) ==
  /\ ~gone /\ at[t] = "spawned"
  /\ current' = of[t]
  /\ runsLock' = None
  /\ Pump(of[t], "reading")
  /\ of' = [of EXCEPT ![t] = None]
  /\ Goto(t, "idle")
  /\ UNCHANGED <<tree, status, replied, said, runLock, treeLock, gone>>

-----------------------------------------------------------------------------
(* Run.stop and ProcessTree.terminate                                       *)

\* Under Run.lock: poll; a run that has exited is left alone.
StopPoll(t, r) ==
  /\ ~gone /\ current = r /\ runLock[r] = None
  /\ at[t] = IF t = Main THEN "cleanup" ELSE "idle"
  /\ Alive(r)
  /\ runLock' = [runLock EXCEPT ![r] = t]
  /\ of' = [of EXCEPT ![t] = r]
  /\ Goto(t, "polled")
  /\ UNCHANGED <<current, tree, status, pump, replied, said, runsLock, treeLock, gone>>

\* The status is set, the runner's stdin closed, Run.lock released.
Mark(t) ==
  /\ ~gone /\ at[t] = "polled"
  /\ status' = [status EXCEPT ![of[t]] = "stopped"]
  /\ runLock' = [runLock EXCEPT ![of[t]] = None]
  /\ Goto(t, "marked")
  /\ UNCHANGED <<current, tree, pump, replied, said, of, runsLock, treeLock, gone>>

\* terminate, under the tree's lock: SIGTERM to the group of a live runner.
Signal(t) ==
  /\ ~gone /\ at[t] = "marked" /\ treeLock[of[t]] = None
  /\ treeLock' = [treeLock EXCEPT ![of[t]] = t]
  /\ Goto(t, "signalled")
  /\ UNCHANGED <<current, tree, status, pump, replied, said, of, runsLock, runLock, gone>>

\* The runner dies of SIGTERM in time ...
DieOfTerm(t) ==
  /\ at[t] = "signalled" /\ Alive(of[t])
  /\ leader' = [leader EXCEPT ![of[t]] = "killed"]
  /\ UNCHANGED <<current, child, status, pump, replied, said, at, of, locks, gone>>

\* Slip: the runner is given SIGTERM and no deadline.
TermOnly(t) == ~gone /\ at[t] = "signalled" /\ ~Alive(of[t]) /\ UNCHANGED vars

\* ... or SIGKILL takes the whole group after the grace period.
Kill(t) ==
  /\ ~gone /\ at[t] = "signalled" /\ Alive(of[t])
  /\ leader' = [leader EXCEPT ![of[t]] = "killed"]
  /\ child' = [child EXCEPT ![of[t]] = FALSE]
  /\ UNCHANGED <<current, status, pump, replied, said, at, of, locks, gone>>

\* The runner has been waited for; close() kills what is left of the group.
Terminated(t) ==
  /\ ~gone /\ at[t] = "signalled" /\ ~Alive(of[t])
  /\ child' = [child EXCEPT ![of[t]] = FALSE]
  /\ treeLock' = [treeLock EXCEPT ![of[t]] = None]
  /\ of' = [of EXCEPT ![t] = None]
  /\ Goto(t, IF t = Main THEN "cleanup" ELSE "idle")
  /\ UNCHANGED <<current, leader, status, pump, replied, said, runsLock, runLock, gone>>

-----------------------------------------------------------------------------
(* Runs._pump                                                               *)

\* End of stdout, then proc.wait().
Wait(r) ==
  /\ ~gone /\ pump[r] = "reading" /\ leader[r] \in Exits
  /\ Pump(r, "waited")
  /\ UNCHANGED <<current, tree, status, replied, said, at, of, locks, gone>>

\* Slip: the tree is closed by those who stop it.
SweepNothing(r) ==
  /\ ~gone /\ pump[r] = "waited" /\ treeLock[r] = None
  /\ Pump(r, "swept")
  /\ UNCHANGED <<current, tree, status, replied, said, at, of, locks, gone>>

\* process_tree.close(): descendants of an exited runner are killed.
Sweep(r) ==
  /\ ~gone /\ pump[r] = "waited" /\ treeLock[r] = None
  /\ child' = [child EXCEPT ![r] = FALSE]
  /\ Pump(r, "swept")
  /\ UNCHANGED <<current, leader, status, replied, said, at, of, locks, gone>>

\* Slip: the exit code is not looked at.
LookAway(r) ==
  /\ ~gone /\ pump[r] = "swept"
  /\ Pump(r, "settled")
  /\ UNCHANGED <<current, tree, status, replied, said, at, of, locks, gone>>

\* if run.status == "running": ... without Run.lock.
Look(r) ==
  /\ ~gone /\ pump[r] = "swept"
  /\ Pump(r, IF status[r] = "running" THEN "settling" ELSE "settled")
  /\ UNCHANGED <<current, tree, status, replied, said, at, of, locks, gone>>

Settle(r) ==
  /\ ~gone /\ pump[r] = "settling"
  /\ status' = [status EXCEPT ![r] = IF leader[r] = "ok" THEN "finished" ELSE "failed"]
  /\ Pump(r, "settled")
  /\ UNCHANGED <<current, tree, replied, said, at, of, locks, gone>>

\* chat.append of the assistant turn.
Reply(r) ==
  /\ ~gone /\ pump[r] = "settled"
  /\ replied' = [replied EXCEPT ![r] = TRUE]
  /\ Pump(r, "replied")
  /\ UNCHANGED <<current, tree, status, said, at, of, locks, gone>>

\* The closed event.
Close(r) ==
  /\ ~gone /\ pump[r] = "replied"
  /\ said' = [said EXCEPT ![r] = status[r]]
  /\ Pump(r, "closed")
  /\ UNCHANGED <<current, tree, status, replied, at, of, locks, gone>>

-----------------------------------------------------------------------------
(* Reset and shutdown                                                       *)

\* Runs.with_idle: the operation runs under Runs.lock.
Reset(t) ==
  /\ ~gone /\ at[t] = "idle" /\ t \in Handlers /\ runsLock = None
  /\ Idle
  /\ runsLock' = t
  /\ Goto(t, "resetting")
  /\ UNCHANGED <<current, tree, status, pump, replied, said, of, runLock, treeLock, gone>>

ResetDone(t) ==
  /\ ~gone /\ at[t] = "resetting"
  /\ runsLock' = None
  /\ Goto(t, "idle")
  /\ UNCHANGED <<current, tree, status, pump, replied, said, of, runLock, treeLock, gone>>

\* serve_forever returns: Ctrl-C or an error.  StopPoll(Main) may follow.
Interrupt ==
  /\ ~gone /\ at[Main] = "idle"
  /\ Goto(Main, "cleanup")
  /\ UNCHANGED <<current, tree, status, pump, replied, said, of, locks, gone>>

\* No live current run: the socket is closed and the process exits, with its
\* daemon handler and pump threads wherever they are.
Quit ==
  /\ ~gone /\ at[Main] = "cleanup" /\ Idle
  /\ gone' = TRUE
  /\ UNCHANGED <<current, tree, status, pump, replied, said, at, of, locks>>

StopStep(t) == Mark(t) \/ Signal(t) \/ Kill(t) \/ Terminated(t)
PumpStep(r) == Wait(r) \/ Sweep(r) \/ Look(r) \/ Settle(r) \/ Reply(r) \/ Close(r)
ServerStep(t) == \/ StartCheck(t) \/ Publish(t) \/ Reset(t) \/ ResetDone(t)
                 \/ \E r \in Runs : Spawn(t, r) \/ StopPoll(t, r)

Next == \/ \E r \in Runs : SpawnChild(r) \/ ChildExit(r) \/ LeaderExit(r) \/ PumpStep(r)
        \/ \E t \in ServerThreads : ServerStep(t) \/ StopStep(t) \/ DieOfTerm(t)
        \/ Interrupt \/ Quit

\* The threads of a live server are scheduled; runners and descendants may run
\* for ever, requests may never come.
Fairness == /\ \A t \in ServerThreads : WF_vars(StopStep(t)) /\ WF_vars(Publish(t) \/ ResetDone(t))
            /\ \A r \in Runs : WF_vars(PumpStep(r))

Spec     == Init /\ [][Next]_vars
FairSpec == Spec /\ Fairness

-----------------------------------------------------------------------------
\* One agent run at a time: two starts, or a start and a stop that has not yet
\* killed, never leave two live runners.
OneRunner == Cardinality({r \in Runs : Alive(r)}) <= 1

\* A descendant cannot outlive its run: after the closed event nothing of the
\* run's process group is left, however the run ended.
SweptAtClose == \A r \in Runs : said[r] # None => ~Alive(r) /\ ~child[r]

\* State is never reset under a live runner.
ResetAlone == (\E t \in ServerThreads : at[t] = "resetting") => \A r \in Runs : ~Alive(r)

\* Start, reset and the runners of the past keep out of each other's way.
OneAtATime == OneRunner /\ ResetAlone

\* The closed event is honest: finished means exit code 0, failed a runner
\* that failed by itself and not one that was stopped, stopped that somebody
\* asked for it.
HonestClose ==
  \A r \in Runs :
    /\ said[r] = "finished" => leader[r] = "ok"
    /\ said[r] = "failed" => leader[r] = "bad"
    /\ said[r] = "stopped" => status[r] = "stopped"

\* What the closed event says is so.
CloseIsTrue == SweptAtClose /\ HonestClose

\* A stopped runner is dead with its descendants, and a runner that has ended
\* has its turn in the conversation and its closed event, unless the server is
\* gone.  Again and again this is so: every run is finished with.
RunsOver ==
  \A r \in Runs : \/ gone
                  \/ /\ status[r] = "stopped" => ~Alive(r) /\ ~child[r]
                     /\ leader[r] \in Exits => replied[r] /\ said[r] # None

=============================================================================
