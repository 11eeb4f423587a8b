-------------------------- MODULE AgentLabRunProofs --------------------------
(***************************************************************************)
(* Proofs about AgentLabRun, for any number of runs and handler threads.    *)
(* Runs.lock is held from the check until the new run is Runs.current, so   *)
(* at every other time the only runner that can be alive is the current     *)
(* one.  What the closed event says rests on the order of the pump's steps: *)
(* the runner has been waited for before the status is looked at, and it is *)
(* marked as stopped before it is signalled.                                *)
(***************************************************************************)
EXTENDS AgentLabRun, FiniteSetTheorems, TLAPS

\* Whoever starts or resets has Runs.lock.
Held == \A t \in ServerThreads : at[t] \in {"checked", "spawned", "resetting"} => runsLock = t

\* Behind the check no runner is alive, until the new one is spawned.
Quiet ==
  \A t \in ServerThreads : at[t] \in {"checked", "resetting"} => \A r \in Runs : ~Alive(r)
Fresh ==
  \A t \in ServerThreads : at[t] = "spawned" =>
    /\ of[t] \in Runs /\ pump[of[t]] = "none" /\ leader[of[t]] # "none"
    /\ \A r \in Runs : Alive(r) => r = of[t]

\* At every other time a live runner is the current one.
Known == (\A t \in ServerThreads : at[t] # "spawned") => \A r \in Runs : Alive(r) => current = r

\* What the pump has done to a run.
Followed ==
  \A r \in Runs :
    /\ leader[r] = "none" => pump[r] = "none" /\ status[r] = "running"
    /\ pump[r] \notin {"none", "reading"} => leader[r] \in Exits
    /\ pump[r] \notin {"none", "reading", "waited"} => ~child[r]
    /\ pump[r] = "settling" => leader[r] \in {"ok", "bad"}
    /\ pump[r] \in {"settled", "replied", "closed"} => status[r] # "running"
    /\ said[r] # None => pump[r] = "closed"

\* Whoever stops a run has marked it before it signals.
Marked ==
  \A t \in ServerThreads :
    /\ at[t] \in {"polled", "marked", "signalled"} => of[t] \in Runs /\ leader[of[t]] # "none"
    /\ at[t] \in {"marked", "signalled"} /\ Alive(of[t]) => status[of[t]] = "stopped"

\* The status is true of how the runner ended, and so is the closed event.
Told ==
  \A r \in Runs :
    /\ status[r] = "finished" => leader[r] = "ok"
    /\ status[r] = "failed" => leader[r] = "bad"
    /\ leader[r] = "killed" => status[r] = "stopped"
    /\ said[r] = "finished" => leader[r] = "ok"
    /\ said[r] = "failed" => leader[r] = "bad"
    /\ said[r] = "stopped" => status[r] = "stopped"

IInv == TypeOK /\ Held /\ Quiet /\ Fresh /\ Known /\ Followed /\ Marked /\ Told

\* The inductive invariant holds at first.
LEMMA InitIInv == ASSUME RunsAssumption, Init PROVE IInv
  <1>1. TypeOK BY DEF RunsAssumption, Init, TypeOK
  <1>2. Held /\ Quiet /\ Fresh /\ Known /\ Marked
    BY DEF RunsAssumption, Init, Held, Quiet, Fresh, Known, Marked, Alive
  <1>3. Followed /\ Told BY DEF RunsAssumption, Init, Followed, Told
  <1> QED BY <1>1, <1>2, <1>3 DEF IInv

\* Every step keeps the invariant.
LEMMA StepKeeps == ASSUME RunsAssumption, IInv, Next PROVE IInv'
  <1> USE DEF RunsAssumption, IInv, TypeOK, tree, locks, Goto, Pump, Alive
  <1>1. ASSUME NEW r \in Runs, SpawnChild(r) PROVE IInv'
    <2>1. TypeOK' BY <1>1 DEF SpawnChild
    <2>2. Followed' BY <1>1 DEF SpawnChild, Followed, Exits
    <2>3. Held' /\ Quiet' /\ Fresh' /\ Known' /\ Marked' /\ Told'
      BY <1>1 DEF SpawnChild, Held, Quiet, Fresh, Known, Marked, Told
    <2> QED BY <2>1, <2>2, <2>3
  <1>2. ASSUME NEW r \in Runs, ChildExit(r) PROVE IInv'
    <2>1. TypeOK' BY <1>2 DEF ChildExit
    <2>2. Followed' BY <1>2 DEF ChildExit, Followed
    <2>3. Held' /\ Quiet' /\ Fresh' /\ Known' /\ Marked' /\ Told'
      BY <1>2 DEF ChildExit, Held, Quiet, Fresh, Known, Marked, Told
    <2> QED BY <2>1, <2>2, <2>3
  <1>3. ASSUME NEW r \in Runs, LeaderExit(r) PROVE IInv'
    <2>1. TypeOK' BY <1>3 DEF LeaderExit, Exits
    <2>2. Quiet' BY <1>3 DEF LeaderExit, Quiet
    <2>3. Fresh' BY <1>3 DEF LeaderExit, Fresh
    <2>4. Known' BY <1>3 DEF LeaderExit, Known
    <2>5. Followed' BY <1>3 DEF LeaderExit, Followed, Exits
    <2>6. Marked' BY <1>3 DEF LeaderExit, Marked
    <2>7. Told' BY <1>3 DEF LeaderExit, Told
    <2>8. Held' BY <1>3 DEF LeaderExit, Held
    <2> QED BY <2>1, <2>2, <2>3, <2>4, <2>5, <2>6, <2>7, <2>8
  <1>4. ASSUME NEW r \in Runs, Wait(r) PROVE IInv'
    <2>1. TypeOK' BY <1>4 DEF Wait
    <2>2. Fresh' BY <1>4 DEF Wait, Fresh
    <2>3. Followed' BY <1>4 DEF Wait, Followed
    <2>4. Held' /\ Quiet' /\ Known' /\ Marked' /\ Told'
      BY <1>4 DEF Wait, Held, Quiet, Known, Marked, Told
    <2> QED BY <2>1, <2>2, <2>3, <2>4
  <1>5. ASSUME NEW r \in Runs, Sweep(r) PROVE IInv'
    <2>1. TypeOK' BY <1>5 DEF Sweep
    <2>2. Fresh' BY <1>5 DEF Sweep, Fresh
    <2>3. Followed' BY <1>5 DEF Sweep, Followed
    <2>4. Held' /\ Quiet' /\ Known' /\ Marked' /\ Told'
      BY <1>5 DEF Sweep, Held, Quiet, Known, Marked, Told
    <2> QED BY <2>1, <2>2, <2>3, <2>4
  <1>6. ASSUME NEW r \in Runs, Look(r) PROVE IInv'
    <2>1. TypeOK' BY <1>6 DEF Look
    <2>2. Fresh' BY <1>6 DEF Look, Fresh
    <2>3. Followed' BY <1>6 DEF Look, Followed, Told, Exits
    <2>4. Held' /\ Quiet' /\ Known' /\ Marked' /\ Told'
      BY <1>6 DEF Look, Held, Quiet, Known, Marked, Told
    <2> QED BY <2>1, <2>2, <2>3, <2>4
  <1>7. ASSUME NEW r \in Runs, Settle(r) PROVE IInv'
    <2>1. TypeOK' BY <1>7 DEF Settle
    <2>2. Fresh' BY <1>7 DEF Settle, Fresh
    <2>3. Followed' BY <1>7 DEF Settle, Followed
    <2>4. Marked' BY <1>7 DEF Settle, Marked, Followed
    <2>5. Told' BY <1>7 DEF Settle, Told, Followed
    <2>6. Held' /\ Quiet' /\ Known' BY <1>7 DEF Settle, Held, Quiet, Known
    <2> QED BY <2>1, <2>2, <2>3, <2>4, <2>5, <2>6
  <1>8. ASSUME NEW r \in Runs, Reply(r) PROVE IInv'
    <2>1. TypeOK' BY <1>8 DEF Reply
    <2>2. Fresh' BY <1>8 DEF Reply, Fresh
    <2>3. Followed' BY <1>8 DEF Reply, Followed
    <2>4. Held' /\ Quiet' /\ Known' /\ Marked' /\ Told'
      BY <1>8 DEF Reply, Held, Quiet, Known, Marked, Told
    <2> QED BY <2>1, <2>2, <2>3, <2>4
  <1>9. ASSUME NEW r \in Runs, Close(r) PROVE IInv'
    <2>1. TypeOK' BY <1>9 DEF Close, Followed
    <2>2. Fresh' BY <1>9 DEF Close, Fresh
    <2>3. Followed' BY <1>9 DEF Close, Followed
    <2>4. Told' BY <1>9 DEF Close, Told
    <2>5. Held' /\ Quiet' /\ Known' /\ Marked' BY <1>9 DEF Close, Held, Quiet, Known, Marked
    <2> QED BY <2>1, <2>2, <2>3, <2>4, <2>5
  <1>10. ASSUME NEW t \in ServerThreads, StartCheck(t) PROVE IInv'
    <2>1. TypeOK' BY <1>10 DEF StartCheck, Idle
    <2>2. Held' BY <1>10 DEF StartCheck, Idle, Held
    <2>3. Quiet' BY <1>10 DEF StartCheck, Idle, Quiet, Held, Known
    <2>4. Fresh' BY <1>10 DEF StartCheck, Idle, Fresh
    <2>5. Known' BY <1>10 DEF StartCheck, Idle, Known
    <2>6. Marked' BY <1>10 DEF StartCheck, Idle, Marked
    <2>7. Followed' /\ Told' BY <1>10 DEF StartCheck, Followed, Told
    <2> QED BY <2>1, <2>2, <2>3, <2>4, <2>5, <2>6, <2>7
  <1>11. ASSUME NEW t \in ServerThreads, Publish(t) PROVE IInv'
    <2>1. TypeOK' BY <1>11 DEF Publish
    <2>2. Held' BY <1>11 DEF Publish, Held
    <2>3. Quiet' BY <1>11 DEF Publish, Quiet
    <2>4. Fresh' BY <1>11 DEF Publish, Fresh, Held
    <2>5. Known' BY <1>11 DEF Publish, Known, Fresh
    <2>6. Followed' BY <1>11 DEF Publish, Followed, Fresh
    <2>7. Marked' BY <1>11 DEF Publish, Marked
    <2>8. Told' BY <1>11 DEF Publish, Told
    <2> QED BY <2>1, <2>2, <2>3, <2>4, <2>5, <2>6, <2>7, <2>8
  <1>12. ASSUME NEW t \in ServerThreads, Reset(t) PROVE IInv'
    <2>1. TypeOK' BY <1>12 DEF Reset, Idle
    <2>2. Held' BY <1>12 DEF Reset, Idle, Held
    <2>3. Quiet' BY <1>12 DEF Reset, Idle, Quiet, Held, Known
    <2>4. Fresh' BY <1>12 DEF Reset, Idle, Fresh
    <2>5. Known' BY <1>12 DEF Reset, Idle, Known
    <2>6. Marked' BY <1>12 DEF Reset, Idle, Marked
    <2>7. Followed' /\ Told' BY <1>12 DEF Reset, Followed, Told
    <2> QED BY <2>1, <2>2, <2>3, <2>4, <2>5, <2>6, <2>7
  <1>13. ASSUME NEW t \in ServerThreads, ResetDone(t) PROVE IInv'
    <2>1. TypeOK' BY <1>13 DEF ResetDone
    <2>2. Held' BY <1>13 DEF ResetDone, Held
    <2>3. Quiet' BY <1>13 DEF ResetDone, Quiet
    <2>4. Fresh' BY <1>13 DEF ResetDone, Fresh
    <2>5. Known' BY <1>13 DEF ResetDone, Known
    <2>6. Marked' BY <1>13 DEF ResetDone, Marked
    <2>7. Followed' /\ Told' BY <1>13 DEF ResetDone, Followed, Told
    <2> QED BY <2>1, <2>2, <2>3, <2>4, <2>5, <2>6, <2>7
  <1>14. ASSUME NEW t \in ServerThreads, Mark(t) PROVE IInv'
    <2>1. TypeOK' BY <1>14 DEF Mark
    <2>2. Held' BY <1>14 DEF Mark, Held
    <2>3. Quiet' BY <1>14 DEF Mark, Quiet
    <2>4. Fresh' BY <1>14 DEF Mark, Fresh
    <2>5. Known' BY <1>14 DEF Mark, Known
    <2>6. Followed' BY <1>14 DEF Mark, Followed, Marked
    <2>7. Marked' BY <1>14 DEF Mark, Marked
    <2>8. Told' BY <1>14 DEF Mark, Told
    <2> QED BY <2>1, <2>2, <2>3, <2>4, <2>5, <2>6, <2>7, <2>8
  <1>15. ASSUME NEW t \in ServerThreads, Signal(t) PROVE IInv'
    <2>1. TypeOK' BY <1>15 DEF Signal
    <2>2. Held' BY <1>15 DEF Signal, Held
    <2>3. Quiet' BY <1>15 DEF Signal, Quiet
    <2>4. Fresh' BY <1>15 DEF Signal, Fresh
    <2>5. Known' BY <1>15 DEF Signal, Known
    <2>6. Marked' BY <1>15 DEF Signal, Marked
    <2>7. Followed' /\ Told' BY <1>15 DEF Signal, Followed, Told
    <2> QED BY <2>1, <2>2, <2>3, <2>4, <2>5, <2>6, <2>7
  <1>16. ASSUME NEW t \in ServerThreads, Kill(t) PROVE IInv'
    <2>1. TypeOK' BY <1>16 DEF Kill, Exits
    <2>2. Quiet' BY <1>16 DEF Kill, Quiet
    <2>3. Fresh' BY <1>16 DEF Kill, Fresh
    <2>4. Known' BY <1>16 DEF Kill, Known
    <2>5. Followed' BY <1>16 DEF Kill, Followed, Exits
    <2>6. Marked' BY <1>16 DEF Kill, Marked
    <2>7. Told' BY <1>16 DEF Kill, Told, Marked
    <2>8. Held' BY <1>16 DEF Kill, Held
    <2> QED BY <2>1, <2>2, <2>3, <2>4, <2>5, <2>6, <2>7, <2>8
  <1>17. ASSUME NEW t \in ServerThreads, Terminated(t) PROVE IInv'
    <2>1. TypeOK' BY <1>17 DEF Terminated
    <2>2. Held' BY <1>17 DEF Terminated, Held
    <2>3. Quiet' BY <1>17 DEF Terminated, Quiet
    <2>4. Fresh' BY <1>17 DEF Terminated, Fresh
    <2>5. Known' BY <1>17 DEF Terminated, Known
    <2>6. Followed' BY <1>17 DEF Terminated, Followed
    <2>7. Marked' BY <1>17 DEF Terminated, Marked
    <2>8. Told' BY <1>17 DEF Terminated, Told
    <2> QED BY <2>1, <2>2, <2>3, <2>4, <2>5, <2>6, <2>7, <2>8
  <1>18. ASSUME NEW t \in ServerThreads, DieOfTerm(t) PROVE IInv'
    <2>1. TypeOK' BY <1>18 DEF DieOfTerm, Exits
    <2>2. Quiet' BY <1>18 DEF DieOfTerm, Quiet
    <2>3. Fresh' BY <1>18 DEF DieOfTerm, Fresh
    <2>4. Known' BY <1>18 DEF DieOfTerm, Known
    <2>5. Followed' BY <1>18 DEF DieOfTerm, Followed, Exits
    <2>6. Marked' BY <1>18 DEF DieOfTerm, Marked
    <2>7. Told' BY <1>18 DEF DieOfTerm, Told, Marked
    <2>8. Held' BY <1>18 DEF DieOfTerm, Held
    <2> QED BY <2>1, <2>2, <2>3, <2>4, <2>5, <2>6, <2>7, <2>8
  <1>19. ASSUME NEW t \in ServerThreads, NEW r \in Runs, Spawn(t, r) PROVE IInv'
    <2>1. TypeOK' BY <1>19 DEF Spawn
    <2>2. Held' BY <1>19 DEF Spawn, Held
    <2>3. Quiet' BY <1>19 DEF Spawn, Quiet, Held
    <2>4. Fresh' BY <1>19 DEF Spawn, Fresh, Quiet, Held, Followed
    <2>5. Known' BY <1>19 DEF Spawn, Known
    <2>6. Followed' BY <1>19 DEF Spawn, Followed
    <2>7. Marked' BY <1>19 DEF Spawn, Marked
    <2>8. Told' BY <1>19 DEF Spawn, Told
    <2> QED BY <2>1, <2>2, <2>3, <2>4, <2>5, <2>6, <2>7, <2>8
  <1>20. ASSUME NEW t \in ServerThreads, NEW r \in Runs, StopPoll(t, r) PROVE IInv'
    <2>1. TypeOK' BY <1>20 DEF StopPoll
    <2>2. Held' BY <1>20 DEF StopPoll, Held
    <2>3. Quiet' BY <1>20 DEF StopPoll, Quiet
    <2>4. Fresh' BY <1>20 DEF StopPoll, Fresh
    <2>5. Known' BY <1>20 DEF StopPoll, Known
    <2>6. Marked' BY <1>20 DEF StopPoll, Marked
    <2>7. Followed' /\ Told' BY <1>20 DEF StopPoll, Followed, Told
    <2> QED BY <2>1, <2>2, <2>3, <2>4, <2>5, <2>6, <2>7
  <1>21. ASSUME Interrupt PROVE IInv'
    <2>1. TypeOK' BY <1>21 DEF Interrupt
    <2>2. Held' BY <1>21 DEF Interrupt, Held
    <2>3. Quiet' BY <1>21 DEF Interrupt, Quiet
    <2>4. Fresh' BY <1>21 DEF Interrupt, Fresh
    <2>5. Known' BY <1>21 DEF Interrupt, Known
    <2>6. Marked' BY <1>21 DEF Interrupt, Marked
    <2>7. Followed' /\ Told' BY <1>21 DEF Interrupt, Followed, Told
    <2> QED BY <2>1, <2>2, <2>3, <2>4, <2>5, <2>6, <2>7
  <1>22. ASSUME Quit PROVE IInv'
    <2>1. TypeOK' BY <1>22 DEF Quit
    <2>2. Held' /\ Quiet' /\ Fresh' /\ Known' /\ Followed' /\ Marked' /\ Told'
      BY <1>22 DEF Quit, Held, Quiet, Fresh, Known, Followed, Marked, Told
    <2> QED BY <2>1, <2>2
  <1> QED
    BY <1>1, <1>2, <1>3, <1>4, <1>5, <1>6, <1>7, <1>8, <1>9, <1>10, <1>11, <1>12, <1>13,
       <1>14, <1>15, <1>16, <1>17, <1>18, <1>19, <1>20, <1>21, <1>22
    DEF Next, PumpStep, ServerStep, StopStep

\* The inductive invariant holds for good.
THEOREM RunInvariance == ASSUME RunsAssumption PROVE Spec => []IInv
  <1>1. Init => IInv BY InitIInv
  <1>2. IInv /\ [Next]_vars => IInv'
    <2> SUFFICES ASSUME IInv, [Next]_vars PROVE IInv'  OBVIOUS
    <2>1. CASE Next BY <2>1, StepKeeps
    <2>2. CASE UNCHANGED vars
      BY <2>2 DEF vars, tree, locks, IInv, TypeOK, Held, Quiet, Fresh, Known, Followed, Marked,
                  Told, Alive
    <2> QED BY <2>1, <2>2
  <1> QED BY <1>1, <1>2, PTL DEF Spec

\* The type invariant of the life of the runners, for any number of runs and handlers.
THEOREM RunTypeOK == ASSUME RunsAssumption PROVE Spec => []TypeOK
  <1>1. IInv => TypeOK BY DEF IInv
  <1> QED BY <1>1, RunInvariance, PTL

\* There is never a second live runner, and state is never reset under a live one,
\* whatever handlers, pumps and the main thread do to each other.
THEOREM RunsOneAtATime == ASSUME RunsAssumption PROVE Spec => []OneAtATime
  <1>1. IInv => OneAtATime
    <2> SUFFICES ASSUME IInv PROVE OneAtATime  OBVIOUS
    <2> DEFINE Live == {r \in Runs : Alive(r)}
    <2>1. \E x : Live \subseteq {x}
      <3>1. CASE \E t \in ServerThreads : at[t] = "spawned" BY <3>1 DEF IInv, Fresh
      <3>2. CASE \A t \in ServerThreads : at[t] # "spawned" BY <3>2 DEF IInv, Known
      <3> QED BY <3>1, <3>2
    <2>2. PICK x : Live \subseteq {x} BY <2>1
    <2>3. IsFiniteSet({x}) /\ Cardinality({x}) = 1 BY FS_Singleton
    <2>4. Cardinality(Live) \in Nat /\ Cardinality(Live) <= 1
      BY <2>2, <2>3, FS_Subset, FS_CardinalityType
    <2>5. ResetAlone BY DEF IInv, Quiet, ResetAlone
    <2> QED BY <2>4, <2>5 DEF OneAtATime, OneRunner
  <1> QED BY <1>1, RunInvariance, PTL

\* The closed event is true: nothing of the run's process group is left behind it,
\* and it names how the runner really ended.
THEOREM ClosedEventIsTrue == ASSUME RunsAssumption PROVE Spec => []CloseIsTrue
  <1>1. IInv => CloseIsTrue
    BY DEF IInv, Followed, Told, CloseIsTrue, SweptAtClose, HonestClose, Alive, Exits
  <1> QED BY <1>1, RunInvariance, PTL
=============================================================================
