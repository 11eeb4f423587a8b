------------------------- MODULE EvidenceStoreProofs -------------------------
(***************************************************************************)
(* Proofs about EvidenceStore for every number of callers, keys and        *)
(* candidate directories and every number of adverse events.               *)
(***************************************************************************)
EXTENDS EvidenceStore, TLAPS

USE NoneAssumption, FaultsAssumption

\* A call that writes, publishes or adopts has a candidate to do it to.
Busy     == {"produce", "commit", "manifest", "publish", "marker", "verify"}
TargetOK == \A p \in Procs : pc[p] \in Busy => target[p] \in Candidates

-----------------------------------------------------------------------------
(* The inductive invariant.                                                 *)

\* run.lock is held by the one call that is under way.
LockInv == \A p \in Procs : pc[p] # "idle" <=> lock = p

\* The order of the writes into one candidate directory.
DiskInv ==
  \A c \in Candidates :
    /\ owner[c] = None => evidence[c] = "none" /\ prepared[c] = "absent"
    /\ prepared[c] # "absent" => evidence[c] = "complete"
    /\ marker[c] => prepared[c] = "written"

\* A candidate that can still become, or already is, the one of its key.
Contender(c) == \/ marker[c] \/ Valid(c)
                \/ \E p \in Procs : pc[p] \in Busy /\ target[p] = c

OneContender ==
  \A c, d \in Candidates :
    owner[c] = owner[d] /\ owner[c] # None /\ Contender(c) /\ Contender(d) => c = d

\* What a call at each point knows about its candidate: outside a recovery it
\* belongs to the call's key, inside one to a directory still to be scanned.
AimInv(p) ==
  /\ pc[p] \in {"resolve", "begin"} => goal[p] \in Keys
  /\ pc[p] \in Busy => owner[target[p]] \in (IF todo[p] = {} THEN Keys \cap {goal[p]} ELSE todo[p])
  /\ pc[p] = "produce" => prepared[target[p]] = "absent"
  /\ pc[p] = "manifest" => prepared[target[p]] = "torn"
  /\ pc[p] \in {"marker", "verify"} => prepared[target[p]] = "written"
  /\ pc[p] = "verify" => marker[target[p]]
  /\ pc[p] \notin {"publish", "marker", "verify", "recover"} => todo[p] = {}

\* The call has started its recovery.
Rebuilding(p) == pc[p] \in {"recover", "flush", "replace"} \/ todo[p] # {}

\* The records a recovery has gathered are the markers of the directories it
\* has left behind; it starts after the key of the call has a marker.
RowsInv(p) ==
  /\ Rebuilding(p) => rows[p] = {c \in Candidates : marker[c] /\ owner[c] \notin todo[p]}
  /\ pc[p] = "return" => results = {c \in Candidates : marker[c]}
  /\ (Rebuilding(p) \/ pc[p] = "return") /\ goal[p] # None =>
       \E c \in Candidates : marker[c] /\ owner[c] = goal[p]

CallInv == \A p \in Procs : AimInv(p) /\ RowsInv(p)

ReportInv == \A c \in results : marker[c]

IInv == TypeOK /\ TargetOK /\ LockInv /\ DiskInv /\ OneContender /\ CallInv /\ ReportInv

LEMMA StartRecoveryTypes ==
  ASSUME TypeOK, NEW p \in Procs, StartRecovery(p)
  PROVE  /\ pc' \in [Procs -> Pc]
         /\ todo' \in [Procs -> SUBSET Keys]
         /\ rows' \in [Procs -> SUBSET Candidates]
<1>1. pc' \in [Procs -> Pc]
  BY DEF TypeOK, StartRecovery, Goto, Pc
<1>2. todo' \in [Procs -> SUBSET Keys]
  BY DEF TypeOK, StartRecovery
<1>3. rows' \in [Procs -> SUBSET Candidates]
  BY DEF TypeOK, StartRecovery
<1> QED BY <1>1, <1>2, <1>3

LEMMA LeaveTypes ==
  ASSUME TypeOK, NEW p \in Procs, NEW s \in {"committed", "publish_blocked", "raised"},
         Leave(p, s)
  PROVE  /\ lock' \in Procs \cup {None}
         /\ pc' \in [Procs -> Pc]
         /\ ret' \in [Procs -> Resolutions]
         /\ todo' \in [Procs -> SUBSET Keys]
         /\ rows' \in [Procs -> SUBSET Candidates]
         /\ target' \in [Procs -> Candidates \cup {None}]
         /\ goal' = goal /\ called' = called
<1>1. lock' \in Procs \cup {None} /\ goal' = goal /\ called' = called
  BY DEF Leave
<1>2. pc' \in [Procs -> Pc]
  BY DEF TypeOK, Leave, Goto, Pc
<1>3. ret' \in [Procs -> Resolutions]
  BY DEF TypeOK, Leave, Resolutions
<1>4. todo' \in [Procs -> SUBSET Keys] /\ rows' \in [Procs -> SUBSET Candidates]
  BY DEF TypeOK, Leave
<1>5. target' \in [Procs -> Candidates \cup {None}]
  BY DEF TypeOK, Leave
<1> QED BY <1>1, <1>2, <1>3, <1>4, <1>5

LEMMA TypeStep ==
  ASSUME TypeOK, TargetOK, [Next]_vars
  PROVE  TypeOK'
<1>1. ASSUME NEW p \in Procs, NEW k \in Keys \cup {None}, Enter(p, k)
      PROVE  TypeOK'
  <2>1. /\ pc' \in [Procs -> Pc]
        /\ todo' \in [Procs -> SUBSET Keys]
        /\ rows' \in [Procs -> SUBSET Candidates]
    <3>1. CASE StartRecovery(p)
      BY <3>1, StartRecoveryTypes
    <3>2. CASE Goto(p, "resolve") /\ UNCHANGED <<todo, rows>>
      BY <3>2 DEF TypeOK, Goto, Pc
    <3> QED BY <1>1, <3>1, <3>2 DEF Enter
  <2>2. ret' \in [Procs -> Resolutions]
    BY <1>1 DEF Enter, TypeOK, Resolutions
  <2> QED BY <1>1, <2>1, <2>2 DEF Enter, TypeOK, disk, view
<1>2. ASSUME NEW p \in Procs, Resolve(p)
      PROVE  TypeOK'
  <2>1. /\ pc' \in [Procs -> Pc]
        /\ todo' \in [Procs -> SUBSET Keys]
        /\ rows' \in [Procs -> SUBSET Candidates]
        /\ target' \in [Procs -> Candidates \cup {None}]
    <3>1. CASE Goto(p, "begin") /\ UNCHANGED <<target, todo, rows>>
      BY <3>1 DEF TypeOK, Goto, Pc
    <3>2. CASE StartRecovery(p) /\ UNCHANGED target
      BY <3>2, StartRecoveryTypes DEF TypeOK
    <3>3. ASSUME NEW c \in Candidates, target' = [target EXCEPT ![p] = c],
                 Goto(p, "publish"), UNCHANGED <<todo, rows>>
          PROVE  <2>1!1 /\ <2>1!2 /\ <2>1!3 /\ <2>1!4
      BY <3>3 DEF TypeOK, Goto, Pc
    <3> QED BY <1>2, <3>1, <3>2, <3>3 DEF Resolve, ValidOf, Of
  <2> QED BY <1>2, <2>1 DEF Resolve, TypeOK, disk, view
<1>3. ASSUME NEW p \in Procs, BeginAttempt(p)
      PROVE  TypeOK'
  BY <1>3 DEF BeginAttempt, TypeOK, Pc, disk, view, Goto
<1>4. ASSUME NEW p \in Procs, Produce(p)
      PROVE  TypeOK'
  BY <1>4 DEF Produce, TypeOK, Pc, view, local, Goto
<1>5. ASSUME NEW p \in Procs, Commit(p)
      PROVE  TypeOK'
  <2>1. /\ pc' \in [Procs -> Pc]
        /\ todo' \in [Procs -> SUBSET Keys]
        /\ rows' \in [Procs -> SUBSET Candidates]
    <3>1. CASE StartRecovery(p)
      BY <3>1, StartRecoveryTypes
    <3>2. CASE (Goto(p, "publish") \/ Goto(p, "manifest")) /\ UNCHANGED <<todo, rows>>
      BY <3>2 DEF TypeOK, Goto, Pc
    <3> QED BY <1>5, <3>1, <3>2 DEF Commit
  <2>2. prepared' \in [Candidates -> {"absent", "torn", "written"}]
    BY <1>5 DEF Commit, TypeOK
  <2> QED BY <1>5, <2>1, <2>2 DEF Commit, TypeOK, view
<1>6. ASSUME NEW p \in Procs, WriteManifest(p)
      PROVE  TypeOK'
  BY <1>6 DEF WriteManifest, TypeOK, Pc, view, local, Goto
<1>7. ASSUME NEW p \in Procs, ValidatePrepared(p)
      PROVE  TypeOK'
  BY <1>7 DEF ValidatePrepared, TypeOK, Pc, disk, view, local, Goto
<1>8. ASSUME NEW p \in Procs, CreateMarker(p)
      PROVE  TypeOK'
  BY <1>8 DEF CreateMarker, TypeOK, Pc, view, local, Goto
<1>9. ASSUME NEW p \in Procs, ValidateCommitted(p)
      PROVE  TypeOK'
  <2>1. /\ pc' \in [Procs -> Pc]
        /\ todo' \in [Procs -> SUBSET Keys]
        /\ rows' \in [Procs -> SUBSET Candidates]
    <3>1. CASE todo[p] # {}
      <4>1. target[p] \in Candidates \cup {None} /\ todo[p] \in SUBSET Keys
              /\ rows[p] \in SUBSET Candidates
        BY DEF TypeOK
      <4>2. todo' \in [Procs -> SUBSET Keys]
        BY <1>9, <3>1, <4>1 DEF ValidateCommitted, TypeOK
      <4>3. rows' \in [Procs -> SUBSET Candidates]
        BY <1>9, <3>1, <4>1 DEF ValidateCommitted, TypeOK, TargetOK, Busy
      <4> QED BY <1>9, <3>1, <4>2, <4>3 DEF ValidateCommitted, TypeOK, Goto, Pc
    <3>2. CASE todo[p] = {}
      BY <1>9, <3>2, StartRecoveryTypes DEF ValidateCommitted
    <3> QED BY <3>1, <3>2
  <2> QED BY <1>9, <2>1 DEF ValidateCommitted, TypeOK, disk, view
<1>10. ASSUME NEW p \in Procs, Recover(p)
       PROVE  TypeOK'
  <2>1. /\ pc' \in [Procs -> Pc]
        /\ todo' \in [Procs -> SUBSET Keys]
        /\ rows' \in [Procs -> SUBSET Candidates]
        /\ target' \in [Procs -> Candidates \cup {None}]
    <3> PICK k \in todo[p] :
           \/ /\ todo' = [todo EXCEPT ![p] = @ \ {k}]
              /\ UNCHANGED <<pc, target, rows>>
           \/ /\ todo' = [todo EXCEPT ![p] = @ \ {k}]
              /\ rows' = [rows EXCEPT ![p] = @ \cup ValidOf(k)]
              /\ UNCHANGED <<pc, target>>
           \/ /\ \E c \in ValidOf(k) : target' = [target EXCEPT ![p] = c]
              /\ Goto(p, "publish")
              /\ UNCHANGED <<todo, rows>>
      BY <1>10 DEF Recover
    <3>0. todo[p] \in SUBSET Keys /\ rows[p] \in SUBSET Candidates
            /\ ValidOf(k) \in SUBSET Candidates
      BY DEF TypeOK, ValidOf, Of
    <3>1. CASE todo' = [todo EXCEPT ![p] = @ \ {k}] /\ UNCHANGED <<pc, target, rows>>
      BY <3>0, <3>1 DEF TypeOK
    <3>2. CASE /\ todo' = [todo EXCEPT ![p] = @ \ {k}]
               /\ rows' = [rows EXCEPT ![p] = @ \cup ValidOf(k)]
               /\ UNCHANGED <<pc, target>>
      <4>1. todo' \in [Procs -> SUBSET Keys]
        BY <3>0, <3>2 DEF TypeOK
      <4>2. rows' \in [Procs -> SUBSET Candidates]
        BY <3>0, <3>2 DEF TypeOK
      <4> QED BY <3>2, <4>1, <4>2 DEF TypeOK
    <3>3. ASSUME NEW c \in Candidates, target' = [target EXCEPT ![p] = c],
                 Goto(p, "publish"), UNCHANGED <<todo, rows>>
          PROVE  <2>1!1 /\ <2>1!2 /\ <2>1!3 /\ <2>1!4
      BY <3>3 DEF TypeOK, Goto, Pc
    <3> QED BY <3>0, <3>1, <3>2, <3>3
  <2> QED BY <1>10, <2>1 DEF Recover, TypeOK, disk, view
<1>11. ASSUME NEW p \in Procs, OpenTemp(p) \/ FlushTemp(p)
       PROVE  TypeOK'
  BY <1>11 DEF OpenTemp, FlushTemp, TypeOK, Pc, disk, local, Goto
<1>12. ASSUME NEW p \in Procs, ReplaceResults(p)
       PROVE  TypeOK'
  BY <1>12 DEF ReplaceResults, TypeOK, Pc, disk, local, Goto
<1>13. ASSUME NEW p \in Procs, Return(p) \/ Raise(p) \/ Exhausted(p) \/ Crash(p)
       PROVE  TypeOK'
  <2>1. /\ UNCHANGED <<disk, view>> /\ faults' \in Nat
        /\ \E s \in {"committed", "publish_blocked", "raised"} : Leave(p, s)
    BY <1>13 DEF Return, Raise, Exhausted, Crash, Fault, TypeOK
  <2> QED BY <2>1, LeaveTypes DEF TypeOK, disk, view
<1>14. ASSUME NEW p \in Procs, ProduceBadly(p)
       PROVE  TypeOK'
  <2>1. PICK e \in {"partial", "malformed"} : evidence' = [evidence EXCEPT ![target[p]] = e]
    BY <1>14 DEF ProduceBadly
  <2>2. evidence' \in [Candidates -> {"none", "partial", "malformed", "complete"}]
    BY <2>1 DEF TypeOK
  <2> QED BY <1>14, <2>2 DEF ProduceBadly, TypeOK, Pc, view, local, Goto, Fault
<1>15. ASSUME NEW p \in Procs, CommitAgain(p) \/ RetryPublish(p)
       PROVE  TypeOK'
  BY <1>15 DEF CommitAgain, RetryPublish, Fault, TypeOK, Pc, disk, view, local, Goto
<1>16. ASSUME NEW c \in Candidates, Tamper(c)
       PROVE  TypeOK'
  BY <1>16 DEF Tamper, Fault, TypeOK, view, local
<1>17. CASE UNCHANGED vars
  BY <1>17 DEF vars, TypeOK, disk, view, local
<1> QED
  BY <1>1, <1>2, <1>3, <1>4, <1>5, <1>6, <1>7, <1>8, <1>9, <1>10, <1>11, <1>12,
     <1>13, <1>14, <1>15, <1>16, <1>17 DEF Next, Step, Adverse

LEMMA TargetStep ==
  ASSUME TypeOK, TargetOK, [Next]_vars
  PROVE  TargetOK'
<1> USE DEF TypeOK, TargetOK, Busy, Goto
<1>1. ASSUME NEW p \in Procs, StartRecovery(p), UNCHANGED target
      PROVE  TargetOK'
  BY <1>1 DEF StartRecovery
<1>2. ASSUME NEW p \in Procs, NEW l, Goto(p, l), UNCHANGED target,
             pc[p] \in Busy \/ l \notin Busy
      PROVE  TargetOK'
  BY <1>2
<1>3. ASSUME NEW p \in Procs, NEW l, NEW c \in Candidates,
             Goto(p, l), target' = [target EXCEPT ![p] = c]
      PROVE  TargetOK'
  BY <1>3
<1>4. ASSUME NEW p \in Procs, NEW s, Leave(p, s)
      PROVE  TargetOK'
  BY <1>4 DEF Leave
<1>5. ASSUME UNCHANGED <<pc, target>>
      PROVE  TargetOK'
  BY <1>5
<1> HIDE DEF TypeOK, TargetOK, Goto
<1>6. ASSUME NEW p \in Procs, NEW k \in Keys \cup {None}, Enter(p, k)
      PROVE  TargetOK'
  BY <1>6, <1>1, <1>2 DEF Enter
<1>7. ASSUME NEW p \in Procs, Resolve(p) \/ Recover(p)
      PROVE  TargetOK'
  BY <1>7, <1>1, <1>2, <1>3, <1>5 DEF Resolve, Recover, ValidOf, Of
<1>8. ASSUME NEW p \in Procs, BeginAttempt(p)
      PROVE  TargetOK'
  BY <1>8, <1>3 DEF BeginAttempt
<1>9. ASSUME NEW p \in Procs, Commit(p) \/ ValidateCommitted(p)
      PROVE  TargetOK'
  BY <1>9, <1>1, <1>2 DEF Commit, ValidateCommitted
<1>10. ASSUME NEW p \in Procs,
              \/ Produce(p) \/ ProduceBadly(p) \/ WriteManifest(p)
              \/ ValidatePrepared(p) \/ CreateMarker(p) \/ CommitAgain(p) \/ RetryPublish(p)
              \/ OpenTemp(p) \/ FlushTemp(p) \/ ReplaceResults(p)
       PROVE  TargetOK'
  BY <1>10, <1>2 DEF Produce, ProduceBadly, WriteManifest, ValidatePrepared, CreateMarker,
       CommitAgain, RetryPublish, OpenTemp, FlushTemp, ReplaceResults, local
<1>11. ASSUME NEW p \in Procs, Return(p) \/ Raise(p) \/ Exhausted(p) \/ Crash(p)
       PROVE  TargetOK'
  BY <1>11, <1>4 DEF Return, Raise, Exhausted, Crash
<1>12. ASSUME NEW c \in Candidates, Tamper(c)
       PROVE  TargetOK'
  BY <1>12, <1>5 DEF Tamper, local
<1>13. CASE UNCHANGED vars
  BY <1>13, <1>5 DEF vars, local
<1> QED
  BY <1>6, <1>7, <1>8, <1>9, <1>10, <1>11, <1>12, <1>13 DEF Next, Step, Adverse

\* Every state of the store has the shape the code gives it: a call is at one
\* of its program points, an AttemptResolution has one of its states, the
\* projection lists candidates.
THEOREM TypeCorrect == Spec => []TypeOK
<1>1. Init => TypeOK /\ TargetOK
  BY DEF Init, TypeOK, Pc, Resolutions, TargetOK, Busy
<1>2. TypeOK /\ TargetOK /\ [Next]_vars => (TypeOK /\ TargetOK)'
  BY TypeStep, TargetStep
<1>3. QED
  BY <1>1, <1>2, PTL DEF Spec

-----------------------------------------------------------------------------
(* One lemma per conjunct of the inductive invariant.                       *)

\* At most one call is under way.
LEMMA Alone ==
  ASSUME LockInv, NEW p \in Procs, NEW q \in Procs, q # p, pc[p] # "idle" \/ lock = None
  PROVE  pc[q] = "idle"
BY DEF LockInv

LEMMA LockStep ==
  ASSUME TypeOK, LockInv, [Next]_vars
  PROVE  LockInv'
<1> USE DEF Goto
<1>1. ASSUME NEW p \in Procs, NEW l \in Pc \ {"idle"}, Goto(p, l),
             \/ pc[p] # "idle" /\ UNCHANGED lock
             \/ lock = None /\ lock' = p
      PROVE  LockInv'
  <2>1. pc'[p] # "idle" /\ lock' = p
    BY <1>1 DEF LockInv, TypeOK, Pc
  <2>2. ASSUME NEW q \in Procs, q # p
        PROVE  pc'[q] = "idle"
    BY <1>1, <2>2, Alone DEF TypeOK
  <2> QED BY <2>1, <2>2 DEF LockInv
<1>2. ASSUME NEW p \in Procs, NEW s, Leave(p, s), pc[p] # "idle"
      PROVE  LockInv'
  <2>1. pc'[p] = "idle" /\ lock' = None
    BY <1>2 DEF Leave, TypeOK
  <2>2. ASSUME NEW q \in Procs, q # p
        PROVE  pc'[q] = "idle"
    BY <1>2, <2>2, Alone DEF TypeOK, Leave
  <2> QED BY <2>1, <2>2 DEF LockInv
<1>3. ASSUME UNCHANGED <<pc, lock>>
      PROVE  LockInv'
  BY <1>3 DEF LockInv
<1> HIDE DEF Goto
<1>4. ASSUME NEW p \in Procs, NEW k \in Keys \cup {None}, Enter(p, k)
      PROVE  LockInv'
  BY <1>4, <1>1 DEF Enter, StartRecovery, Pc
<1>5. ASSUME NEW p \in Procs, Resolve(p) \/ Recover(p)
      PROVE  LockInv'
  BY <1>5, <1>1, <1>3 DEF Resolve, Recover, StartRecovery, Pc
<1>6. ASSUME NEW p \in Procs,
             \/ BeginAttempt(p) \/ Produce(p) \/ ProduceBadly(p) \/ Commit(p)
             \/ WriteManifest(p) \/ ValidatePrepared(p) \/ CreateMarker(p)
             \/ ValidateCommitted(p) \/ CommitAgain(p) \/ RetryPublish(p)
             \/ OpenTemp(p) \/ FlushTemp(p) \/ ReplaceResults(p)
      PROVE  LockInv'
  BY <1>6, <1>1 DEF BeginAttempt, Produce, ProduceBadly, Commit, WriteManifest,
       ValidatePrepared, CreateMarker, ValidateCommitted, CommitAgain, RetryPublish,
       OpenTemp, FlushTemp, ReplaceResults, StartRecovery, Pc
<1>7. ASSUME NEW p \in Procs, Return(p) \/ Raise(p) \/ Exhausted(p) \/ Crash(p)
      PROVE  LockInv'
  BY <1>7, <1>2 DEF Return, Raise, Exhausted, Crash
<1>8. ASSUME NEW c \in Candidates, Tamper(c)
      PROVE  LockInv'
  BY <1>8, <1>3 DEF Tamper
<1>9. CASE UNCHANGED vars
  BY <1>9, <1>3 DEF vars
<1> QED
  BY <1>4, <1>5, <1>6, <1>7, <1>8, <1>9 DEF Next, Step, Adverse

\* Only these actions touch a candidate directory.
LEMMA Writers ==
  ASSUME [Next]_vars
  PROVE  \/ UNCHANGED disk
         \/ \E p \in Procs : \/ BeginAttempt(p) \/ Produce(p) \/ ProduceBadly(p)
                             \/ Commit(p) \/ WriteManifest(p) \/ CreateMarker(p)
         \/ \E c \in Candidates : Tamper(c)
<1>1. ASSUME NEW p \in Procs, NEW k \in Keys \cup {None}, Enter(p, k)
      PROVE  UNCHANGED disk
  BY <1>1 DEF Enter
<1>2. ASSUME NEW p \in Procs,
             \/ Resolve(p) \/ ValidatePrepared(p) \/ ValidateCommitted(p) \/ Recover(p)
             \/ OpenTemp(p) \/ FlushTemp(p) \/ ReplaceResults(p) \/ Return(p) \/ Raise(p)
             \/ CommitAgain(p) \/ RetryPublish(p) \/ Exhausted(p) \/ Crash(p)
      PROVE  UNCHANGED disk
  BY <1>2 DEF Resolve, ValidatePrepared, ValidateCommitted, Recover, OpenTemp, FlushTemp,
       ReplaceResults, Return, Raise, CommitAgain, RetryPublish, Exhausted, Crash
<1>3. CASE UNCHANGED vars
  BY <1>3 DEF vars
<1> QED BY <1>1, <1>2, <1>3 DEF Next, Step, Adverse

\* A call under way writes into a directory that belongs to some key.
LEMMA Aimed ==
  ASSUME TypeOK, TargetOK, CallInv, NEW p \in Procs, pc[p] \in Busy
  PROVE  target[p] \in Candidates /\ owner[target[p]] \in Keys /\ owner[target[p]] # None
<1>1. target[p] \in Candidates /\ todo[p] \subseteq Keys
  BY DEF TargetOK, TypeOK
<1>2. owner[target[p]] \in (IF todo[p] = {} THEN Keys \cap {goal[p]} ELSE todo[p])
  BY DEF CallInv, AimInv
<1>3. CASE todo[p] = {}
  BY <1>1, <1>2, <1>3
<1>4. CASE todo[p] # {}
  BY <1>1, <1>2, <1>4
<1> QED BY <1>3, <1>4

LEMMA DiskStep ==
  ASSUME TypeOK, TargetOK, CallInv, DiskInv, [Next]_vars
  PROVE  DiskInv'
<1> USE DEF TypeOK, Busy, DiskInv
<1>1. CASE UNCHANGED disk
  BY <1>1 DEF disk
<1>2. ASSUME NEW p \in Procs, BeginAttempt(p)
      PROVE  DiskInv'
  <2>1. goal[p] \in Keys
    BY <1>2 DEF BeginAttempt, CallInv, AimInv
  <2> QED BY <1>2, <2>1 DEF BeginAttempt, Fresh
<1>3. ASSUME NEW p \in Procs, Produce(p) \/ ProduceBadly(p)
      PROVE  DiskInv'
  <2>1. /\ target[p] \in Candidates /\ owner[target[p]] # None
        /\ prepared[target[p]] = "absent"
    BY <1>3, Aimed DEF Produce, ProduceBadly, CallInv, AimInv
  <2> QED BY <1>3, <2>1 DEF Produce, ProduceBadly
<1>4. ASSUME NEW p \in Procs, Commit(p)
      PROVE  DiskInv'
  <2>1. target[p] \in Candidates /\ owner[target[p]] # None
    BY <1>4, Aimed DEF Commit
  <2> QED BY <1>4, <2>1 DEF Commit
<1>5. ASSUME NEW p \in Procs, WriteManifest(p)
      PROVE  DiskInv'
  <2>1. target[p] \in Candidates /\ owner[target[p]] # None
          /\ prepared[target[p]] = "torn"
    BY <1>5, Aimed DEF WriteManifest, CallInv, AimInv
  <2> QED BY <1>5, <2>1 DEF WriteManifest
<1>6. ASSUME NEW p \in Procs, CreateMarker(p)
      PROVE  DiskInv'
  <2>1. target[p] \in Candidates /\ prepared[target[p]] = "written"
    BY <1>6, Aimed DEF CreateMarker, CallInv, AimInv
  <2> QED BY <1>6, <2>1 DEF CreateMarker
<1>7. ASSUME NEW c \in Candidates, Tamper(c)
      PROVE  DiskInv'
  BY <1>7 DEF Tamper
<1> QED BY <1>1, <1>2, <1>3, <1>4, <1>5, <1>6, <1>7, Writers

\* A step that moves no directory and makes no new contender keeps them apart.
LEMMA NoNewContender ==
  ASSUME OneContender, owner' = owner, \A c \in Candidates : Contender(c)' => Contender(c)
  PROVE  OneContender'
BY DEF OneContender

\* A step that leaves the disk alone and aims no call anew makes no contender.
LEMMA SameAim ==
  ASSUME OneContender, UNCHANGED disk,
         \A q \in Procs : pc'[q] \in Busy =>
            \/ pc[q] \in Busy /\ target'[q] = target[q]
            \/ target'[q] \in Candidates /\ Valid(target'[q])
  PROVE  OneContender'
<1>1. ASSUME NEW c \in Candidates, Contender(c)'
      PROVE  Contender(c)
  BY <1>1 DEF Contender, Valid, disk
<1> QED BY <1>1, NoNewContender DEF disk

LEMMA ContenderStep ==
  ASSUME TypeOK, TargetOK, LockInv, CallInv, DiskInv, OneContender, [Next]_vars
  PROVE  OneContender'
<1>1. ASSUME NEW p \in Procs, NEW l, Goto(p, l), UNCHANGED <<disk, target>>,
             l \in Busy => pc[p] \in Busy
      PROVE  OneContender'
  <2>1. \A q \in Procs : pc'[q] \in Busy => pc[q] \in Busy /\ target'[q] = target[q]
    BY <1>1 DEF Goto, TypeOK
  <2> QED BY <1>1, <2>1, SameAim
<1>2. ASSUME NEW p \in Procs, NEW c \in Candidates, Valid(c), Goto(p, "publish"),
             target' = [target EXCEPT ![p] = c], UNCHANGED disk
      PROVE  OneContender'
  <2>1. \A q \in Procs : pc'[q] \in Busy =>
            \/ pc[q] \in Busy /\ target'[q] = target[q]
            \/ target'[q] \in Candidates /\ Valid(target'[q])
    BY <1>2 DEF Goto, TypeOK
  <2> QED BY <1>2, <2>1, SameAim
<1>3. ASSUME NEW p \in Procs, NEW s, Leave(p, s), UNCHANGED disk
      PROVE  OneContender'
  <2>1. \A q \in Procs : pc'[q] \in Busy => pc[q] \in Busy /\ target'[q] = target[q]
    BY <1>3 DEF Leave, Goto, TypeOK, Busy
  <2> QED BY <1>3, <2>1, SameAim
<1>4. ASSUME NEW p \in Procs, pc[p] \in Busy, UNCHANGED <<owner, target>>,
             \A q \in Procs : q # p => pc'[q] = pc[q],
             \A c \in Candidates : (marker'[c] => marker[c] \/ c = target[p])
                                   /\ (Valid(c)' => Valid(c) \/ c = target[p])
      PROVE  OneContender'
  <2>1. ASSUME NEW c \in Candidates, Contender(c)'
        PROVE  Contender(c)
    BY <1>4, <2>1 DEF Contender
  <2> QED BY <1>4, <2>1, NoNewContender
<1>5. ASSUME NEW p \in Procs, NEW k \in Keys \cup {None}, Enter(p, k)
      PROVE  OneContender'
  BY <1>5, <1>1 DEF Enter, StartRecovery, Busy
<1>6. ASSUME NEW p \in Procs, Resolve(p)
      PROVE  OneContender'
  <2>1. CASE \E c \in ValidOf(goal[p]) : target' = [target EXCEPT ![p] = c]
             /\ Goto(p, "publish")
    BY <1>6, <2>1, <1>2 DEF ValidOf, Of, Resolve
  <2>2. CASE UNCHANGED target /\ (Goto(p, "begin") \/ Goto(p, "recover"))
    BY <1>6, <2>2, <1>1 DEF Resolve, Busy
  <2> QED BY <1>6, <2>1, <2>2 DEF Resolve, StartRecovery
<1>7. ASSUME NEW p \in Procs, Recover(p)
      PROVE  OneContender'
  <2>1. CASE UNCHANGED <<pc, target>>
    BY <1>7, <2>1, SameAim DEF Recover
  <2>2. CASE \E k \in todo[p] : \E c \in ValidOf(k) :
               target' = [target EXCEPT ![p] = c] /\ Goto(p, "publish")
    BY <1>7, <2>2, <1>2 DEF ValidOf, Of, Recover
  <2> QED BY <1>7, <2>1, <2>2 DEF Recover
<1>8. ASSUME NEW p \in Procs, BeginAttempt(p)
      PROVE  OneContender'
  <2>1. PICK n \in Candidates :
          /\ owner[n] = None
          /\ owner' = [owner EXCEPT ![n] = goal[p]]
          /\ evidence' = [evidence EXCEPT ![n] = "partial"]
          /\ target' = [target EXCEPT ![p] = n]
    BY <1>8 DEF BeginAttempt, Fresh
  <2>2. /\ goal[p] \in Keys /\ goal[p] # None
        /\ \A c \in Candidates : owner[c] = goal[p] => ~marker[c] /\ ~Valid(c)
    BY <1>8 DEF BeginAttempt, CallInv, AimInv, NotStarted, Halts, ValidOf, Of
  <2>3. /\ prepared[n] = "absent" /\ ~marker[n]
        /\ UNCHANGED <<prepared, marker, intact>>
    BY <1>8, <2>1 DEF DiskInv, TypeOK, BeginAttempt
  <2>4. \A q \in Procs : pc'[q] \in Busy => q = p
    BY <1>8, Alone DEF BeginAttempt, Goto, TypeOK, Busy
  <2>5. ASSUME NEW c \in Candidates, c # n, Contender(c)'
        PROVE  owner'[c] = owner[c] /\ owner'[c] # goal[p] /\ Contender(c)
    <3>1. owner'[c] = owner[c] /\ evidence'[c] = evidence[c] /\ target'[p] = n
      BY <2>1, <2>5 DEF TypeOK
    <3>2. marker[c] \/ Valid(c)
      BY <2>3, <2>4, <2>5, <3>1 DEF Contender, Valid
    <3> QED BY <2>2, <3>1, <3>2 DEF Contender
  <2>6. owner'[n] = goal[p]
    BY <2>1 DEF TypeOK
  <2> QED BY <2>5, <2>6 DEF OneContender
<1>9. ASSUME NEW p \in Procs, Produce(p) \/ ProduceBadly(p)
      PROVE  OneContender'
  <2>1. target[p] \in Candidates /\ pc[p] \in Busy
    BY <1>9, Aimed DEF Produce, ProduceBadly, Busy
  <2>2. \A c \in Candidates : c # target[p] => evidence'[c] = evidence[c]
    BY <1>9 DEF Produce, ProduceBadly, TypeOK
  <2>3. UNCHANGED <<owner, prepared, intact, marker, target>> /\ Goto(p, "commit")
    BY <1>9 DEF Produce, ProduceBadly, local
  <2> QED BY <2>1, <2>2, <2>3, <1>4 DEF Goto, TypeOK, Valid
<1>10. ASSUME NEW p \in Procs, Commit(p)
       PROVE  OneContender'
  <2>1. target[p] \in Candidates /\ pc[p] \in Busy
    BY <1>10, Aimed DEF Commit, Busy
  <2>2. \A c \in Candidates : prepared'[c] = "written" => prepared[c] = "written"
    BY <1>10, <2>1 DEF Commit, TypeOK
  <2>3. /\ UNCHANGED <<owner, evidence, intact, marker, target>>
        /\ \A q \in Procs : q # p => pc'[q] = pc[q]
    BY <1>10 DEF Commit, Goto, StartRecovery, TypeOK
  <2> QED BY <2>1, <2>2, <2>3, <1>4 DEF Valid
<1>11. ASSUME NEW p \in Procs, WriteManifest(p) \/ CreateMarker(p)
       PROVE  OneContender'
  <2>1. target[p] \in Candidates /\ pc[p] \in Busy
    BY <1>11, Aimed DEF WriteManifest, CreateMarker, Busy
  <2>2. \A c \in Candidates : c # target[p] =>
           prepared'[c] = prepared[c] /\ marker'[c] = marker[c]
    BY <1>11 DEF WriteManifest, CreateMarker, TypeOK
  <2>3. /\ UNCHANGED <<owner, evidence, intact, target>>
        /\ \A q \in Procs : q # p => pc'[q] = pc[q]
    BY <1>11 DEF WriteManifest, CreateMarker, Goto, TypeOK, local
  <2> QED BY <2>1, <2>2, <2>3, <1>4 DEF Valid
<1>12. ASSUME NEW p \in Procs, \/ ValidatePrepared(p) \/ CommitAgain(p) \/ RetryPublish(p)
                               \/ OpenTemp(p) \/ FlushTemp(p) \/ ReplaceResults(p)
       PROVE  OneContender'
  BY <1>12, <1>1 DEF ValidatePrepared, CommitAgain, RetryPublish, OpenTemp, FlushTemp,
       ReplaceResults, Busy, local
<1>13. ASSUME NEW p \in Procs, ValidateCommitted(p)
       PROVE  OneContender'
  BY <1>13, <1>1 DEF ValidateCommitted, StartRecovery, Busy
<1>14. ASSUME NEW p \in Procs, Return(p) \/ Raise(p) \/ Exhausted(p) \/ Crash(p)
       PROVE  OneContender'
  BY <1>14, <1>3 DEF Return, Raise, Exhausted, Crash
<1>15. ASSUME NEW c \in Candidates, Tamper(c)
       PROVE  OneContender'
  <2>1. ASSUME NEW d \in Candidates, Contender(d)'
        PROVE  Contender(d)
    BY <1>15, <2>1 DEF Contender, Valid, Tamper, TypeOK, local
  <2> QED BY <1>15, <2>1, NoNewContender DEF Tamper
<1>16. CASE UNCHANGED vars
  BY <1>16, SameAim DEF vars, local
<1> QED
  BY <1>5, <1>6, <1>7, <1>8, <1>9, <1>10, <1>11, <1>12, <1>13, <1>14, <1>15, <1>16
  DEF Next, Step, Adverse

\* What is known of the calls that wait is what is known of an idle one.
LEMMA OtherCalls ==
  ASSUME TypeOK, LockInv, CallInv, NEW p \in Procs, pc[p] # "idle" \/ lock = None,
         \A q \in Procs : q # p => pc'[q] = pc[q] /\ todo'[q] = todo[q],
         AimInv(p)', RowsInv(p)'
  PROVE  CallInv'
<1>1. ASSUME NEW q \in Procs, q # p
      PROVE  AimInv(q)' /\ RowsInv(q)'
  <2>1. pc[q] = "idle"
    BY <1>1, Alone
  <2>2. todo[q] = {}
    <3>1. AimInv(q)
      BY DEF CallInv
    <3> QED BY <2>1, <3>1 DEF AimInv
  <2>3. pc'[q] = "idle" /\ todo'[q] = {}
    BY <1>1, <2>1, <2>2
  <2> QED BY <2>3 DEF AimInv, RowsInv, Rebuilding, Busy
<1> QED BY <1>1 DEF CallInv

\* A recovery starts with no record and every directory to scan; the key of
\* the call, if it has one, has its marker.
LEMMA RecoveryStarts ==
  ASSUME TypeOK, NEW p \in Procs, StartRecovery(p),
         \A c \in Candidates : marker'[c] => owner'[c] \in Keys,
         goal'[p] # None => \E c \in Candidates : marker'[c] /\ owner'[c] = goal'[p]
  PROVE  AimInv(p)' /\ RowsInv(p)'
<1>1. pc'[p] = "recover" /\ todo'[p] = Keys /\ rows'[p] = {}
  BY DEF StartRecovery, Goto, TypeOK
<1> QED BY <1>1 DEF AimInv, RowsInv, Rebuilding, Busy

LEMMA CallStep ==
  ASSUME TypeOK, TargetOK, LockInv, DiskInv, OneContender, CallInv, [Next]_vars
  PROVE  CallInv'
<1>0. /\ \A c \in Candidates : marker[c] => owner[c] \in Keys
      /\ \A p \in Procs : AimInv(p) /\ RowsInv(p)
  BY DEF DiskInv, CallInv, TypeOK
<1>1. ASSUME NEW p \in Procs, NEW k \in Keys \cup {None}, Enter(p, k)
      PROVE  CallInv'
  <2>1. /\ UNCHANGED <<owner, marker>> /\ goal'[p] = k
        /\ \A q \in Procs : q # p => pc'[q] = pc[q] /\ todo'[q] = todo[q]
    BY <1>1 DEF Enter, StartRecovery, Goto, TypeOK, disk
  <2>2. CASE k = None
    BY <1>1, <2>1, <2>2, <1>0, RecoveryStarts, OtherCalls DEF Enter
  <2>3. CASE k # None
    <3>1. pc'[p] = "resolve" /\ todo'[p] = {}
      BY <1>1, <1>0, <2>3 DEF Enter, Goto, TypeOK, AimInv
    <3>2. AimInv(p)' /\ RowsInv(p)'
      BY <2>1, <2>3, <3>1 DEF AimInv, RowsInv, Rebuilding, Busy
    <3> QED BY <1>1, <2>1, <3>2, OtherCalls DEF Enter
  <2> QED BY <2>2, <2>3
<1>2. ASSUME NEW p \in Procs, Resolve(p)
      PROVE  CallInv'
  <2>1. /\ UNCHANGED <<owner, prepared, marker, goal>> /\ goal[p] \in Keys /\ todo[p] = {}
        /\ \A q \in Procs : q # p => pc'[q] = pc[q] /\ todo'[q] = todo[q]
    BY <1>2, <1>0 DEF Resolve, StartRecovery, Goto, TypeOK, disk, AimInv
  <2>2. CASE NotStarted(goal[p]) /\ Goto(p, "begin") /\ UNCHANGED <<target, todo, rows>>
    <3>1. AimInv(p)' /\ RowsInv(p)'
      BY <2>1, <2>2 DEF AimInv, RowsInv, Rebuilding, Busy, Goto, TypeOK
    <3> QED BY <1>2, <2>1, <3>1, OtherCalls DEF Resolve
  <2>3. CASE Committed(goal[p]) /\ StartRecovery(p)
    <3>1. \E c \in Candidates : marker[c] /\ owner[c] = goal[p]
      BY <2>3 DEF Committed, ValidOf, Of
    <3> QED BY <1>2, <2>1, <2>3, <3>1, <1>0, RecoveryStarts, OtherCalls DEF Resolve
  <2>4. ASSUME NEW c \in ValidOf(goal[p]), target' = [target EXCEPT ![p] = c],
               Goto(p, "publish"), UNCHANGED <<todo, rows>>
        PROVE  CallInv'
    <3>1. c \in Candidates /\ owner[c] = goal[p]
      BY DEF ValidOf, Of
    <3>2. pc'[p] = "publish" /\ target'[p] = c /\ todo'[p] = {}
      BY <2>1, <2>4 DEF Goto, TypeOK
    <3>3. AimInv(p)' /\ RowsInv(p)'
      BY <2>1, <3>1, <3>2 DEF AimInv, RowsInv, Rebuilding, Busy
    <3> QED BY <1>2, <2>1, <3>3, OtherCalls DEF Resolve
  <2> QED BY <1>2, <2>2, <2>3, <2>4 DEF Resolve
<1>3. ASSUME NEW p \in Procs, BeginAttempt(p)
      PROVE  CallInv'
  <2>1. PICK n \in Candidates : /\ owner[n] = None
                                /\ owner' = [owner EXCEPT ![n] = goal[p]]
                                /\ target' = [target EXCEPT ![p] = n]
    BY <1>3 DEF BeginAttempt, Fresh
  <2>2. /\ goal[p] \in Keys /\ todo[p] = {}
        /\ prepared[n] = "absent"
    BY <1>3, <2>1, <1>0 DEF BeginAttempt, AimInv, DiskInv
  <2>3. /\ pc'[p] = "produce"
        /\ UNCHANGED <<goal, todo, prepared>>
        /\ \A q \in Procs : q # p => pc'[q] = pc[q] /\ todo'[q] = todo[q]
    BY <1>3 DEF BeginAttempt, Goto, TypeOK
  <2>4. target'[p] = n /\ owner'[n] = goal[p]
    BY <2>1 DEF TypeOK
  <2>5. AimInv(p)' /\ RowsInv(p)'
    BY <2>2, <2>3, <2>4 DEF AimInv, RowsInv, Rebuilding, Busy
  <2> QED BY <1>3, <2>3, <2>5, OtherCalls DEF BeginAttempt
<1>4. ASSUME NEW p \in Procs, Produce(p) \/ ProduceBadly(p)
      PROVE  CallInv'
  <2>1. /\ pc[p] = "produce" /\ pc'[p] = "commit" /\ todo[p] = {}
        /\ UNCHANGED <<owner, goal, todo, target>>
        /\ \A q \in Procs : q # p => pc'[q] = pc[q] /\ todo'[q] = todo[q]
    BY <1>4, <1>0 DEF Produce, ProduceBadly, Goto, TypeOK, AimInv, local
  <2>2. AimInv(p)' /\ RowsInv(p)'
    BY <2>1, <1>0 DEF AimInv, RowsInv, Rebuilding, Busy
  <2> QED BY <2>1, <2>2, OtherCalls
<1>5. ASSUME NEW p \in Procs, Commit(p)
      PROVE  CallInv'
  <2>1. /\ pc[p] = "commit" /\ todo[p] = {} /\ UNCHANGED <<owner, marker, goal, target>>
        /\ target[p] \in Candidates /\ owner[target[p]] = goal[p] /\ goal[p] \in Keys
        /\ \A q \in Procs : q # p => pc'[q] = pc[q] /\ todo'[q] = todo[q]
    BY <1>5, <1>0, Aimed DEF Commit, StartRecovery, Goto, TypeOK, AimInv, Busy
  <2>2. CASE marker[target[p]] /\ StartRecovery(p)
    BY <2>1, <2>2, <1>0, RecoveryStarts, OtherCalls
  <2>3. CASE /\ Goto(p, "publish") /\ UNCHANGED <<todo, rows>>
    <3>1. AimInv(p)' /\ RowsInv(p)'
      BY <2>1, <2>3 DEF AimInv, RowsInv, Rebuilding, Busy, Goto, TypeOK
    <3> QED BY <2>1, <3>1, OtherCalls
  <2>4. CASE /\ prepared' = [prepared EXCEPT ![target[p]] = "torn"]
             /\ Goto(p, "manifest") /\ UNCHANGED <<todo, rows>>
    <3>1. AimInv(p)' /\ RowsInv(p)'
      BY <2>1, <2>4 DEF AimInv, RowsInv, Rebuilding, Busy, Goto, TypeOK
    <3> QED BY <2>1, <3>1, OtherCalls
  <2> QED BY <1>5, <2>2, <2>3, <2>4 DEF Commit
<1>6. ASSUME NEW p \in Procs, WriteManifest(p)
      PROVE  CallInv'
  <2>1. /\ pc[p] = "manifest" /\ pc'[p] = "publish" /\ todo[p] = {}
        /\ UNCHANGED <<owner, goal, todo, target>>
        /\ \A q \in Procs : q # p => pc'[q] = pc[q] /\ todo'[q] = todo[q]
    BY <1>6, <1>0 DEF WriteManifest, Goto, TypeOK, AimInv, local
  <2>2. AimInv(p)' /\ RowsInv(p)'
    BY <2>1, <1>0 DEF AimInv, RowsInv, Rebuilding, Busy
  <2> QED BY <2>1, <2>2, OtherCalls
<1>7. ASSUME NEW p \in Procs, ValidatePrepared(p) \/ RetryPublish(p)
      PROVE  CallInv'
  <2>1. /\ pc[p] \in {"publish", "marker", "verify"}
        /\ \/ pc'[p] = "publish"
           \/ pc'[p] = "marker" /\ prepared[target[p]] = "written"
        /\ UNCHANGED <<disk, goal, todo, rows, target>>
        /\ \A q \in Procs : q # p => pc'[q] = pc[q] /\ todo'[q] = todo[q]
    BY <1>7 DEF ValidatePrepared, RetryPublish, Valid, Goto, TypeOK, local
  <2>2. AimInv(p)' /\ RowsInv(p)'
    BY <2>1, <1>0 DEF AimInv, RowsInv, Rebuilding, Busy, disk
  <2> QED BY <2>1, <2>2, OtherCalls
<1>8. ASSUME NEW p \in Procs, CommitAgain(p)
      PROVE  CallInv'
  <2>1. /\ pc[p] \in {"publish", "marker", "verify"} /\ pc'[p] = "commit" /\ todo[p] = {}
        /\ UNCHANGED <<disk, goal, todo, target>>
        /\ \A q \in Procs : q # p => pc'[q] = pc[q] /\ todo'[q] = todo[q]
    BY <1>8 DEF CommitAgain, Goto, TypeOK, local
  <2>2. AimInv(p)' /\ RowsInv(p)'
    BY <2>1, <1>0 DEF AimInv, RowsInv, Rebuilding, Busy, disk
  <2> QED BY <2>1, <2>2, OtherCalls
<1>9. ASSUME NEW p \in Procs, CreateMarker(p)
      PROVE  CallInv'
  <2>1. /\ pc[p] = "marker" /\ pc'[p] = "verify" /\ target[p] \in Candidates
        /\ marker' = [marker EXCEPT ![target[p]] = TRUE]
        /\ UNCHANGED <<owner, prepared, goal, todo, rows, target>>
        /\ \A q \in Procs : q # p => pc'[q] = pc[q] /\ todo'[q] = todo[q]
    BY <1>9, Aimed DEF CreateMarker, Goto, TypeOK, local, Busy
  <2>2. AimInv(p)'
    BY <2>1, <1>0 DEF AimInv, Busy, TypeOK
  <2>3. todo[p] # {} => owner[target[p]] \in todo[p]
    BY <2>1, <1>0 DEF AimInv, Busy
  <2>4. RowsInv(p)'
    BY <2>1, <2>3, <1>0 DEF RowsInv, Rebuilding, TypeOK
  <2> QED BY <2>1, <2>2, <2>4, OtherCalls
<1>10. ASSUME NEW p \in Procs, ValidateCommitted(p)
       PROVE  CallInv'
  <2> DEFINE c == target[p]
  <2>1. c \in Candidates /\ owner[c] \in Keys
    BY <1>10, Aimed DEF ValidateCommitted, Busy
  <2>2. pc[p] = "verify" /\ marker[c]
    BY <1>10, <1>0 DEF ValidateCommitted, AimInv
  <2>3. /\ UNCHANGED <<disk, goal, target>>
        /\ \A q \in Procs : q # p => pc'[q] = pc[q] /\ todo'[q] = todo[q]
    BY <1>10 DEF ValidateCommitted, StartRecovery, Goto, TypeOK
  <2>4. /\ pc[p] = "verify" /\ c \in Candidates /\ owner[c] \in Keys /\ marker[c]
        /\ UNCHANGED <<disk, goal, target>>
        /\ \A q \in Procs : q # p => pc'[q] = pc[q] /\ todo'[q] = todo[q]
    BY <2>1, <2>2, <2>3
  <2>5. CASE todo[p] = {}
    <3>1. owner[c] = goal[p]
      BY <2>4, <2>5, <1>0 DEF AimInv, Busy
    <3> QED BY <1>10, <2>4, <2>5, <3>1, <1>0, RecoveryStarts, OtherCalls
            DEF ValidateCommitted, disk
  <2>6. CASE todo[p] # {}
    <3>1. owner[c] \in todo[p]
      BY <2>4, <2>6, <1>0 DEF AimInv, Busy
    <3>2. /\ todo'[p] = todo[p] \ {owner[c]} /\ rows'[p] = rows[p] \cup {c}
          /\ pc'[p] = "recover"
      BY <1>10, <2>6 DEF ValidateCommitted, Goto, TypeOK
    <3>3. /\ todo'[p] = todo[p] \ {owner[c]} /\ rows'[p] = rows[p] \cup {c}
          /\ pc'[p] = "recover" /\ owner[c] \in todo[p]
      BY <3>1, <3>2
    <3>4. \A d \in Candidates : marker[d] /\ owner[d] = owner[c] => d = c
      BY <2>4 DEF OneContender, Contender
    <3>5. rows'[p] = {d \in Candidates : marker[d] /\ owner[d] \notin todo'[p]}
      BY <2>4, <2>6, <3>3, <3>4, <1>0 DEF RowsInv, Rebuilding
    <3>6. goal[p] # None => \E d \in Candidates : marker[d] /\ owner[d] = goal[p]
      BY <2>6, <1>0 DEF RowsInv, Rebuilding
    <3>7. AimInv(p)' /\ RowsInv(p)'
      BY <2>4, <3>3, <3>5, <3>6 DEF AimInv, RowsInv, Rebuilding, Busy, disk
    <3> QED BY <2>4, <3>7, OtherCalls
  <2> QED BY <2>5, <2>6
<1>11. ASSUME NEW p \in Procs, Recover(p)
       PROVE  CallInv'
  <2>1. /\ pc[p] = "recover" /\ UNCHANGED <<disk, goal, results>>
        /\ goal[p] # None => \E d \in Candidates : marker[d] /\ owner[d] = goal[p]
        /\ rows[p] = {d \in Candidates : marker[d] /\ owner[d] \notin todo[p]}
        /\ \A q \in Procs : q # p => pc'[q] = pc[q] /\ todo'[q] = todo[q]
    BY <1>11, <1>0 DEF Recover, RowsInv, Rebuilding, Goto, TypeOK, view
  <2>2. ASSUME pc'[p] = "recover", NEW k, todo'[p] = todo[p] \ {k},
               rows'[p] = rows[p] \cup {d \in Candidates : marker[d] /\ owner[d] = k}
        PROVE  AimInv(p)' /\ RowsInv(p)'
    <3>1. rows'[p] = {d \in Candidates : marker[d] /\ owner[d] \notin todo'[p]}
      BY <2>1, <2>2
    <3> QED BY <2>1, <2>2, <3>1 DEF AimInv, RowsInv, Rebuilding, Busy, disk
  <2>3. ASSUME NEW k \in todo[p], NotStarted(k),
               todo' = [todo EXCEPT ![p] = @ \ {k}], UNCHANGED <<pc, target, rows>>
        PROVE  AimInv(p)' /\ RowsInv(p)'
    <3>1. {d \in Candidates : marker[d] /\ owner[d] = k} = {}
      BY <2>3 DEF NotStarted, Halts, ValidOf, Of
    <3> QED BY <2>1, <2>2, <2>3, <3>1 DEF TypeOK
  <2>4. ASSUME NEW k \in todo[p], Committed(k),
               todo' = [todo EXCEPT ![p] = @ \ {k}],
               rows' = [rows EXCEPT ![p] = @ \cup ValidOf(k)], UNCHANGED <<pc, target>>
        PROVE  AimInv(p)' /\ RowsInv(p)'
    <3>1. {d \in Candidates : marker[d] /\ owner[d] = k} = ValidOf(k)
      BY <2>4 DEF Committed, Halts, ValidOf, Of
    <3> QED BY <2>1, <2>2, <2>4, <3>1 DEF TypeOK
  <2>5. ASSUME NEW k \in todo[p], NEW c \in ValidOf(k), Goto(p, "publish"),
               target' = [target EXCEPT ![p] = c], UNCHANGED <<todo, rows>>
        PROVE  AimInv(p)' /\ RowsInv(p)'
    <3>1. /\ pc'[p] = "publish" /\ target'[p] = c /\ owner[c] \in todo[p]
          /\ todo'[p] = todo[p] /\ rows'[p] = rows[p]
      BY <2>5 DEF Goto, TypeOK, ValidOf, Of
    <3> QED BY <2>1, <3>1 DEF AimInv, RowsInv, Rebuilding, Busy, disk
  <2>6. AimInv(p)' /\ RowsInv(p)'
    BY <1>11, <2>3, <2>4, <2>5 DEF Recover
  <2> QED BY <2>1, <2>6, OtherCalls
<1>12. ASSUME NEW p \in Procs, OpenTemp(p) \/ FlushTemp(p) \/ ReplaceResults(p)
       PROVE  CallInv'
  <2>1. /\ pc[p] \in {"recover", "flush", "replace"} /\ todo[p] = {}
        /\ rows[p] = {d \in Candidates : marker[d]}
        /\ goal[p] # None => \E d \in Candidates : marker[d] /\ owner[d] = goal[p]
    BY <1>12, <1>0 DEF OpenTemp, FlushTemp, ReplaceResults, AimInv, RowsInv, Rebuilding
  <2>2. /\ UNCHANGED <<disk, goal, todo, rows, target>>
        /\ \/ pc'[p] \in {"flush", "replace"}
           \/ pc'[p] = "return" /\ results' = rows[p]
        /\ \A q \in Procs : q # p => pc'[q] = pc[q] /\ todo'[q] = todo[q]
    BY <1>12 DEF OpenTemp, FlushTemp, ReplaceResults, Goto, TypeOK, local
  <2>3. AimInv(p)' /\ RowsInv(p)'
    BY <2>1, <2>2 DEF AimInv, RowsInv, Rebuilding, Busy, disk
  <2> QED BY <2>1, <2>2, <2>3, OtherCalls
<1>13. ASSUME NEW p \in Procs, Return(p) \/ Raise(p) \/ Exhausted(p) \/ Crash(p)
       PROVE  CallInv'
  <2>1. pc[p] # "idle" /\ \E s : Leave(p, s)
    BY <1>13 DEF Return, Raise, Exhausted, Crash
  <2>2. /\ pc'[p] = "idle" /\ todo'[p] = {}
        /\ \A q \in Procs : q # p => pc'[q] = pc[q] /\ todo'[q] = todo[q]
    BY <2>1 DEF Leave, Goto, TypeOK
  <2>3. AimInv(p)' /\ RowsInv(p)'
    BY <2>2 DEF AimInv, RowsInv, Rebuilding, Busy
  <2> QED BY <2>1, <2>2, <2>3, OtherCalls
<1>14. ASSUME UNCHANGED <<owner, prepared, marker, view, pc, local>>
       PROVE  CallInv'
  BY <1>14 DEF CallInv, AimInv, RowsInv, Rebuilding, view, local
<1>15. ASSUME NEW c \in Candidates, Tamper(c)
       PROVE  CallInv'
  BY <1>15, <1>14 DEF Tamper
<1>16. CASE UNCHANGED vars
  BY <1>16, <1>14 DEF vars, disk
<1> QED
  BY <1>1, <1>2, <1>3, <1>4, <1>5, <1>6, <1>7, <1>8, <1>9, <1>10, <1>11, <1>12,
     <1>13, <1>15, <1>16 DEF Next, Step, Adverse

\* A marker is never taken away.
LEMMA MarkersStay ==
  ASSUME TypeOK, [Next]_vars, NEW c \in Candidates, marker[c]
  PROVE  marker'[c]
<1>1. ASSUME NEW p \in Procs,
             \/ BeginAttempt(p) \/ Produce(p) \/ ProduceBadly(p)
             \/ Commit(p) \/ WriteManifest(p) \/ CreateMarker(p)
      PROVE  marker'[c]
  BY <1>1 DEF BeginAttempt, Produce, ProduceBadly, Commit, WriteManifest, CreateMarker, TypeOK
<1>2. ASSUME NEW d \in Candidates, Tamper(d)
      PROVE  marker'[c]
  BY <1>2 DEF Tamper
<1> QED BY <1>1, <1>2, Writers DEF disk

\* results.json changes in one step only, and then lists every marker.
LEMMA Projection ==
  ASSUME TypeOK, CallInv, [Next]_vars
  PROVE  \/ UNCHANGED results
         \/ UNCHANGED disk /\ results' = {c \in Candidates : marker[c]}
<1>1. ASSUME NEW p \in Procs, ReplaceResults(p)
      PROVE  UNCHANGED disk /\ results' = {c \in Candidates : marker[c]}
  BY <1>1 DEF ReplaceResults, CallInv, AimInv, RowsInv, Rebuilding
<1>2. ASSUME NEW p \in Procs, NEW k \in Keys \cup {None}, Enter(p, k)
      PROVE  UNCHANGED results
  BY <1>2 DEF Enter, view
<1>3. ASSUME NEW p \in Procs,
             \/ Resolve(p) \/ BeginAttempt(p) \/ Produce(p) \/ ProduceBadly(p) \/ Commit(p)
             \/ WriteManifest(p) \/ ValidatePrepared(p) \/ CreateMarker(p)
             \/ ValidateCommitted(p) \/ Recover(p) \/ OpenTemp(p) \/ FlushTemp(p)
      PROVE  UNCHANGED results
  BY <1>3 DEF Resolve, BeginAttempt, Produce, ProduceBadly, Commit, WriteManifest,
       ValidatePrepared, CreateMarker, ValidateCommitted, Recover, OpenTemp, FlushTemp, view
<1>4. ASSUME NEW p \in Procs,
             \/ Return(p) \/ Raise(p) \/ CommitAgain(p) \/ RetryPublish(p)
             \/ Exhausted(p) \/ Crash(p)
      PROVE  UNCHANGED results
  BY <1>4 DEF Return, Raise, CommitAgain, RetryPublish, Exhausted, Crash, view
<1>5. ASSUME NEW c \in Candidates, Tamper(c)
      PROVE  UNCHANGED results
  BY <1>5 DEF Tamper, view
<1>6. CASE UNCHANGED vars
  BY <1>6 DEF vars, view
<1> QED BY <1>1, <1>2, <1>3, <1>4, <1>5, <1>6 DEF Next, Step, Adverse

LEMMA ReportStep ==
  ASSUME TypeOK, CallInv, ReportInv, [Next]_vars
  PROVE  ReportInv'
<1>1. CASE UNCHANGED results
  BY <1>1, MarkersStay DEF ReportInv, TypeOK
<1>2. CASE UNCHANGED disk /\ results' = {c \in Candidates : marker[c]}
  BY <1>2 DEF ReportInv, disk
<1> QED BY <1>1, <1>2, Projection

-----------------------------------------------------------------------------
(* The theorems.                                                            *)

\* The inductive invariant: one caller at a time, one candidate per key that
\* can still win, files written in order, a recovery that has gathered exactly
\* the markers of the directories behind it.
THEOREM Invariance == Spec => []IInv
<1>1. Init => IInv
  <2> SUFFICES ASSUME Init PROVE IInv
    OBVIOUS
  <2>1. TypeOK /\ TargetOK
    BY DEF Init, TypeOK, Pc, Resolutions, TargetOK, Busy
  <2>2. LockInv /\ DiskInv /\ OneContender /\ ReportInv
    BY DEF Init, LockInv, DiskInv, OneContender, ReportInv
  <2>3. CallInv
    BY DEF Init, CallInv, AimInv, RowsInv, Rebuilding, Busy
  <2> QED BY <2>1, <2>2, <2>3 DEF IInv
<1>2. IInv /\ [Next]_vars => IInv'
  BY TypeStep, TargetStep, LockStep, DiskStep, ContenderStep, CallStep, ReportStep DEF IInv
<1> QED
  BY <1>1, <1>2, PTL DEF Spec

\* However many callers crash, race for the lock and retry, no logical attempt
\* has two candidates with COMMITTED.
THEOREM OneMarker == Spec => []AtMostOneMarker
<1>1. IInv => AtMostOneMarker
  BY DEF IInv, DiskInv, OneContender, Contender, AtMostOneMarker
<1> QED BY <1>1, Invariance, PTL

\* COMMITTED is only ever seen beside complete evidence and a whole
\* PREPARED.json.
THEOREM MarkerIsLast == Spec => []MarkerLast
<1>1. IInv => MarkerLast
  BY DEF IInv, DiskInv, MarkerLast
<1> QED BY <1>1, Invariance, PTL

\* What a reader who finds COMMITTED relies on (RunSession._scan, 1898-1974).
THEOREM MarkersHold == Spec => []MarkersSound
<1>1. AtMostOneMarker /\ MarkerLast => MarkersSound
  BY DEF MarkersSound
<1> QED BY <1>1, OneMarker, MarkerIsLast, PTL

\* results.json lists only committed evidence, and every committed attempt
\* when execute_or_resume answers.
THEOREM ExactProjection == Spec => []ProjectionExact
<1>1. IInv => ProjectionExact
  <2> SUFFICES ASSUME IInv PROVE ProjectionExact
    OBVIOUS
  <2>1. \A p \in Procs : pc[p] = "return" => results = {c \in Candidates : marker[c]}
    BY DEF IInv, CallInv, RowsInv
  <2>2. \A p \in Procs : pc[p] = "return" /\ goal[p] # None =>
           \E c \in Candidates : marker[c] /\ owner[c] = goal[p]
    BY DEF IInv, CallInv, RowsInv
  <2> QED BY <2>1, <2>2 DEF IInv, ReportInv, ProjectionExact
<1> QED BY <1>1, Invariance, PTL

\* The producer runs for no key that has valid prepared or committed evidence.
THEOREM NeverRerun == Spec => NoRerun
<1>1. ASSUME IInv, [Next]_vars, NEW c \in Candidates, owner[c] = None, owner'[c] # None,
             NEW d \in Candidates, owner[d] = owner'[c]
      PROVE  ~Valid(d) /\ ~marker[d]
  <2>1. \A p \in Procs : Produce(p) \/ ProduceBadly(p) \/ Commit(p) \/ WriteManifest(p)
                           \/ CreateMarker(p) => UNCHANGED owner
    BY DEF Produce, ProduceBadly, Commit, WriteManifest, CreateMarker
  <2>2. \A b \in Candidates : Tamper(b) => UNCHANGED owner
    BY DEF Tamper
  <2>3. PICK p \in Procs : BeginAttempt(p)
    BY <1>1, <2>1, <2>2, Writers DEF disk
  <2>4. owner'[c] = goal[p]
    BY <1>1, <2>3 DEF BeginAttempt, IInv, TypeOK
  <2> QED BY <1>1, <2>3, <2>4 DEF BeginAttempt, NotStarted, Halts, ValidOf, Of
<1>2. IInv /\ [Next]_vars => [\A c \in Candidates : owner[c] = None /\ owner'[c] # None =>
         \A d \in Candidates : owner[d] = owner'[c] => ~Valid(d) /\ ~marker[d]]_vars
  BY <1>1
<1> QED BY <1>2, Invariance, PTL DEF Spec, NoRerun

\* A projection never loses a row.
THEOREM NoRowLost == Spec => ProjectionMonotone
<1>1. IInv /\ [Next]_vars => [results \subseteq results']_vars
  BY Projection DEF IInv, ReportInv, TypeOK
<1> QED BY <1>1, Invariance, PTL DEF Spec, ProjectionMonotone

\* What a candidate without a writer holds is not touched unless it validates.
THEOREM AbandonedStays == Spec => AbandonedPreserved
<1> DEFINE Kept(c) == /\ owner'[c] = owner[c] /\ evidence'[c] = evidence[c]
                      /\ prepared'[c] = prepared[c] /\ marker'[c] = marker[c]
<1>1. ASSUME IInv, [Next]_vars, NEW c \in Candidates, owner[c] # None,
             \A p \in Procs : target[p] # c
      PROVE  Kept(c)
  <2>1. CASE UNCHANGED disk
    BY <2>1 DEF disk
  <2>2. ASSUME NEW p \in Procs,
               \/ Produce(p) \/ ProduceBadly(p) \/ Commit(p) \/ WriteManifest(p)
               \/ CreateMarker(p)
        PROVE  Kept(c)
    BY <1>1, <2>2 DEF Produce, ProduceBadly, Commit, WriteManifest, CreateMarker, IInv, TypeOK
  <2>3. ASSUME NEW p \in Procs, BeginAttempt(p)
        PROVE  Kept(c)
    BY <1>1, <2>3 DEF BeginAttempt, Fresh, IInv, TypeOK
  <2>4. ASSUME NEW d \in Candidates, Tamper(d)
        PROVE  Kept(c)
    BY <2>4 DEF Tamper
  <2> QED BY <1>1, <2>1, <2>2, <2>3, <2>4, Writers
<1>2. IInv /\ [Next]_vars =>
        [\A c \in Candidates :
           owner[c] # None /\ ~Valid(c) /\ (\A p \in Procs : target[p] # c) => Kept(c)]_vars
  BY <1>1
<1> QED BY <1>2, Invariance, PTL DEF Spec, AbandonedPreserved

-----------------------------------------------------------------------------
(* The store implements the register.                                       *)

\* Seen from outside, a key's decision is the candidate with its marker.
LEMMA DecidedIs ==
  ASSUME IInv, NEW k \in Keys, NEW c \in Candidates, marker[c], owner[c] = k
  PROVE  decided[k] = c
<1>1. AtMostOneMarker
  BY DEF IInv, DiskInv, OneContender, Contender, AtMostOneMarker
<1>2. \A d \in Of(k) : marker[d] => d = c
  BY <1>1 DEF Of, AtMostOneMarker
<1> QED BY <1>2 DEF decided, Of

LEMMA Undecided ==
  ASSUME NEW k \in Keys, \A c \in Candidates : owner[c] = k => ~marker[c]
  PROVE  decided[k] = None
BY DEF decided, Of

\* What is chosen is what is marked.
LEMMA ChosenIsMarked ==
  ASSUME IInv
  PROVE  Register!Chosen = {c \in Candidates : marker[c]}
<1>1. ASSUME NEW c \in Candidates, marker[c]
      PROVE  owner[c] \in Keys /\ decided[owner[c]] = c /\ c # None
  <2>1. owner[c] \in Keys
    BY <1>1 DEF IInv, DiskInv, TypeOK
  <2> QED BY <1>1, <2>1, DecidedIs
<1>2. ASSUME NEW k \in Keys, decided[k] # None
      PROVE  decided[k] \in Candidates /\ marker[decided[k]]
  <2>1. PICK c \in Candidates : owner[c] = k /\ marker[c]
    BY <1>2, Undecided
  <2> QED BY <2>1, DecidedIs
<1> QED BY <1>1, <1>2 DEF Register!Chosen

\* The one candidate of a key that is marked after a step is its decision.
LEMMA DecidedNext ==
  ASSUME NEW k \in Keys, NEW c \in Candidates,
         \A d \in Candidates : marker'[d] /\ owner'[d] = k <=> d = c
  PROVE  decided'[k] = c
<1>1. (\E d \in Of(k) : marker[d])' /\ \A d \in Of(k)' : marker'[d] => d = c
  BY DEF Of
<1> QED BY <1>1 DEF decided, Of

\* A key whose marked candidates stay the same keeps its decision.
LEMMA DecisionStays ==
  ASSUME IInv, NEW k \in Keys,
         \A d \in Candidates : marker'[d] /\ owner'[d] = k <=> marker[d] /\ owner[d] = k
  PROVE  decided'[k] = decided[k]
<1>1. CASE \E c \in Candidates : marker[c] /\ owner[c] = k
  <2>1. PICK c \in Candidates : marker[c] /\ owner[c] = k
    BY <1>1
  <2>2. \A d \in Candidates : marker[d] /\ owner[d] = k => d = c
    BY <2>1, DecidedIs
  <2>3. decided'[k] = c
    BY <2>1, <2>2, DecidedNext
  <2> QED BY <2>1, <2>3, DecidedIs
<1>2. CASE \A c \in Candidates : owner[c] = k => ~marker[c]
  <2>1. decided'[k] = None
    BY <1>2 DEF decided, Of
  <2> QED BY <1>2, <2>1, Undecided
<1> QED BY <1>1, <1>2

\* A step that moves no candidate and sets no marker decides nothing.
LEMMA SameDecision ==
  ASSUME UNCHANGED <<owner, marker>>
  PROVE  UNCHANGED decided
BY DEF decided, Of

\* Every behaviour of the store, crashes and damage included, is one of the
\* register: a key is decided once, for good, and a report is exact.
THEOREM Implements == Spec => RegisterSpec
<1>1. Init => Register!Init
  BY DEF Init, Register!Init, decided, Of
<1> DEFINE Step2 == Register!Next \/ UNCHANGED <<decided, results>>
<1>2. ASSUME IInv, IInv', [Next]_vars
      PROVE  Step2
  <2>1. CASE UNCHANGED disk /\ results' = {c \in Candidates : marker[c]}
    BY <1>2, <2>1, ChosenIsMarked, SameDecision DEF disk, Register!Next, Register!Report
  <2>2. CASE UNCHANGED results /\ UNCHANGED <<owner, marker>>
    BY <2>2, SameDecision
  <2>3. ASSUME NEW p \in Procs, CreateMarker(p), UNCHANGED results
        PROVE  Step2
    <3> DEFINE c == target[p]
    <3> DEFINE k == owner[c]
    <3>1. c \in Candidates /\ k \in Keys /\ UNCHANGED owner
      BY <1>2, <2>3, Aimed DEF IInv, CreateMarker, Busy
    <3>2. marker' = [marker EXCEPT ![c] = TRUE]
      BY <2>3 DEF CreateMarker
    <3>3. CASE marker[c]
      <4>1. UNCHANGED marker
        BY <1>2, <3>1, <3>2, <3>3 DEF IInv, TypeOK
      <4> QED BY <2>3, <3>1, <4>1, SameDecision
    <3>4. CASE ~marker[c]
      <4>1. \A d \in Candidates : owner[d] = k => ~marker[d]
        BY <1>2, <2>3, <3>1, <3>4 DEF IInv, OneContender, Contender, CreateMarker, Busy
      <4>2. decided[k] = None
        BY <3>1, <4>1, Undecided
      <4>3. c \notin Register!Chosen
        BY <1>2, <3>4, ChosenIsMarked
      <4>4. decided'[k] = c
        BY <1>2, <3>1, <3>2, <4>1, DecidedNext DEF IInv, TypeOK
      <4>5. \A j \in Keys : j # k => decided'[j] = decided[j]
        BY <1>2, <3>1, <3>2, DecisionStays DEF IInv, TypeOK
      <4>6. decided' = [decided EXCEPT ![k] = c]
        BY <3>1, <4>4, <4>5 DEF decided
      <4> QED BY <2>3, <3>1, <4>2, <4>3, <4>6 DEF Register!Next, Register!Decide
    <3> QED BY <3>3, <3>4
  <2>4. ASSUME NEW p \in Procs, BeginAttempt(p), UNCHANGED results
        PROVE  Step2
    <3>1. ASSUME NEW k \in Keys, NEW d \in Candidates
          PROVE  marker'[d] /\ owner'[d] = k <=> marker[d] /\ owner[d] = k
      BY <1>2, <2>4, <3>1 DEF BeginAttempt, Fresh, IInv, TypeOK, DiskInv
    <3>2. decided' = decided
      BY <1>2, <3>1, DecisionStays DEF decided
    <3> QED BY <2>4, <3>2
  <2>5. ASSUME NEW p \in Procs,
               Produce(p) \/ ProduceBadly(p) \/ Commit(p) \/ WriteManifest(p)
        PROVE  UNCHANGED <<owner, marker>>
    BY <2>5 DEF Produce, ProduceBadly, Commit, WriteManifest
  <2>6. ASSUME NEW c \in Candidates, Tamper(c)
        PROVE  UNCHANGED <<owner, marker>>
    BY <2>6 DEF Tamper
  <2> QED BY <1>2, <2>1, <2>2, <2>3, <2>4, <2>5, <2>6, Writers, Projection DEF IInv, disk
<1>3. IInv /\ IInv' /\ [Next]_vars => [Register!Next]_<<decided, results>>
  BY <1>2
<1> QED BY <1>1, <1>3, Invariance, PTL DEF Spec, RegisterSpec, Register!Spec

\* Nothing that was produced is run again, overwritten or taken over.
THEOREM EvidenceStays == Spec => EvidenceKept
BY NeverRerun, AbandonedStays DEF EvidenceKept
=============================================================================
