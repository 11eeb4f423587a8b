-------------------------- MODULE StudyProgramsProofs --------------------------
(***************************************************************************)
(* Proofs about the programs of StudyPrograms, for any number of cells,    *)
(* cycles, files and starts, any bounds, and any number of supervisors,    *)
(* but for the successor, whose stale lease two supervisors may both take  *)
(* over.  Of each program: its inductive invariant, that its steps keep    *)
(* it, and what it gives.                                                  *)
(***************************************************************************)
EXTENDS StudyPrograms, FiniteSetTheorems, TLAPS

-----------------------------------------------------------------------------
(* The storage spike *)

\* Its constants.
LEMMA SpikeConstants == Storage!SpikeAssumption /\ Nil \notin Nat \cup BOOLEAN
  BY ProgramsAssumption, PublishersAssumption

\* Its Cardinality is the one of the theorems.
LEMMA SpikeSize == \A S : Storage!Cardinality(S) = Cardinality(S)
  BY Zenon DEF Storage!Cardinality, Cardinality

SpikeSteps == {"cycle", "create", "write", "manifest", "read", "hold", "validate", "mark",
               "check", "blocked", "exited", "release", "classify", "recovered", "next", "scan",
               "over", "raised"}
\* The types.
SpikeTypes ==
  /\ cycle \in 1 .. SpikeCycles /\ number \in {1, 2}
  /\ sCandidate \in [1 .. SpikeCycles -> [{1, 2} -> Storage!Candidate \cup {Nil}]]
  /\ sAt \in SpikeSteps /\ stop \in Storage!Boundaries \cup {Nil}

\* A cycle without a candidate; one whose first candidate was abandoned; one in which a
\* marked candidate is complete, and only an abandoned one has a replacement.
Untouched(i) == sCandidate[i][1] = Nil /\ sCandidate[i][2] = Nil
Replaced(i)  == sCandidate[i][1] \in Storage!Candidate /\ ~sCandidate[i][1].manifest
  /\ ~sCandidate[i][1].marker
Visible(i) ==
  /\ \A n \in {1, 2} : sCandidate[i][n] # Nil /\ sCandidate[i][n].marker =>
       sCandidate[i][n].manifest /\ sCandidate[i][n].files = SpikeMembers
  /\ sCandidate[i][2] # Nil => Replaced(i)

\* The manifest names every file.
Written == Storage!Here.manifest /\ Storage!Here.files = SpikeMembers

\* What the publisher knows of its candidate at each step.
SpikeAt ==
  /\ sAt = "cycle"  => number = 1 /\ Untouched(cycle)
  /\ sAt \notin {"cycle", "create", "raised"} => Storage!Here \in Storage!Candidate
  /\ sAt = "write" => ~Storage!Here.manifest /\ ~Storage!Here.marker
       /\ Storage!Here.files < SpikeMembers
  /\ sAt = "manifest" => Storage!Here.files = SpikeMembers
  /\ sAt \in {"read", "hold", "validate", "mark", "check", "release", "classify", "recovered"} =>
       Written
  /\ sAt = "exited" => /\ number = 1 /\ (Storage!Here.manifest => Storage!Here.files = SpikeMembers)
                       /\ Storage!Here.marker => Storage!Here.manifest

\* What is on disk, whoever is at which step.
SpikeDisk ==
  /\ \A i \in 1 .. SpikeCycles : i > cycle => Untouched(i)
  /\ \A i \in 1 .. SpikeCycles : Visible(i)
  /\ number = 1 => sCandidate[cycle][2] = Nil
  /\ number = 2 => Replaced(cycle)

\* The inductive invariant of the candidates; the summary comes last.
SpikeInv == SpikeTypes /\ SpikeDisk /\ SpikeAt /\ (number = 2 => stop = Nil)
\* Who publishes.
SpikeWho == by \in {"prepare", "hold", "recover"}

\* What the summary has counted.
OneCommitted ==
  \A i \in 1 .. SpikeCycles :
    Cardinality({n \in {1, 2} : sCandidate[i][n] # Nil /\ sCandidate[i][n].marker
                                /\ Storage!Valid(sCandidate[i][n])}) = 1
OverInv == passed = TRUE => sAt = "over" /\ OneCommitted

\* A publisher writes a candidate that is only marked when it is complete.
LEMMA SpikePut ==
  ASSUME SpikeInv, NEW c \in Storage!Candidate, Storage!Put(c), UNCHANGED <<cycle, number>>,
         c.marker => c.manifest /\ c.files = SpikeMembers
  PROVE  /\ sCandidate' \in [1 .. SpikeCycles -> [{1, 2} -> Storage!Candidate \cup {Nil}]]
         /\ SpikeDisk' /\ Storage!Here' = c
  <1>1. /\ sCandidate' \in [1 .. SpikeCycles -> [{1, 2} -> Storage!Candidate \cup {Nil}]]
        /\ sCandidate'[cycle][number] = c
        /\ \A n \in {1, 2} : n # number => sCandidate'[cycle][n] = sCandidate[cycle][n]
        /\ \A i \in 1 .. SpikeCycles : i # cycle => sCandidate'[i] = sCandidate[i]
    BY DEF SpikeInv, SpikeTypes, Storage!Put
  <1>2. number = 2 => Replaced(cycle)'
    BY <1>1 DEF SpikeInv, SpikeTypes, SpikeDisk, Replaced
  <1>3. \A i \in 1 .. SpikeCycles : Visible(i)'
    <2> TAKE i \in 1 .. SpikeCycles
    <2>1. CASE i # cycle
      BY <2>1, <1>1 DEF SpikeInv, SpikeDisk, Visible, Replaced
    <2>2. CASE i = cycle
      BY <2>2, <1>1, <1>2 DEF SpikeInv, SpikeTypes, SpikeDisk, Visible, Replaced
    <2> QED
      BY <2>1, <2>2
  <1>4. \A i \in 1 .. SpikeCycles : i > cycle => Untouched(i)'
    BY <1>1 DEF SpikeInv, SpikeTypes, SpikeDisk, Untouched
  <1> QED
    BY <1>1, <1>2, <1>3, <1>4 DEF SpikeInv, SpikeTypes, SpikeDisk, Storage!Here

\* A step that leaves the candidates alone and stays in its cycle.
LEMMA SpikeSame ==
  ASSUME SpikeInv, UNCHANGED <<sCandidate, cycle, number>>
  PROVE  /\ sCandidate' \in [1 .. SpikeCycles -> [{1, 2} -> Storage!Candidate \cup {Nil}]]
         /\ SpikeDisk' /\ Storage!Here' = Storage!Here /\ Replaced(cycle)' = Replaced(cycle)
         /\ Untouched(cycle)' = Untouched(cycle) /\ Written' = Written
  BY DEF SpikeInv, SpikeTypes, SpikeDisk, Untouched, Visible, Replaced, Storage!Here, Written

\* The invariant of the candidates holds at first.
LEMMA SpikeInit == ASSUME Storage!Init PROVE SpikeInv
  BY SpikeConstants
  DEF Storage!Init, SpikeInv, SpikeDisk, SpikeTypes, SpikeSteps, Storage!SpikeAssumption, Untouched,
      Visible, SpikeAt, Storage!Boundaries, Storage!CommittedCreated

\* Who publishes is one of the three.
LEMMA SpikeWhoStep == ASSUME SpikeWho, [Storage!Next]_(Storage!vars) PROVE SpikeWho'
  <1>1. CASE UNCHANGED Storage!vars
    BY <1>1 DEF Storage!vars, SpikeWho
  <1>2. CASE Storage!Spike
    BY <1>2
    DEF SpikeWho, Storage!Spike, Storage!Begin, Storage!Create, Storage!Write, Storage!Manifest,
        Storage!Read, Storage!Hold, Storage!Validate, Storage!Retry, Storage!Mark, Storage!Check,
        Storage!Refuse, Storage!RefuseFlush, Storage!AwaitHolder, Storage!ClassifyOwn,
        Storage!Recover, Storage!Recovered, Storage!NextCycle, Storage!Scan, Storage!Boundary,
        Storage!Goto, Storage!Raise, Storage!Record, Storage!rest
  <1>3. CASE Storage!Release \/ Storage!Damage
    BY <1>3 DEF SpikeWho, Storage!Release, Storage!Damage, Storage!rest
  <1> QED
    BY <1>1, <1>2, <1>3 DEF Storage!Next

\* Every step keeps the invariant of the candidates.
LEMMA SpikeStep == ASSUME SpikeInv, SpikeWho, [Storage!Next]_(Storage!vars) PROVE SpikeInv'
  <1> USE SpikeConstants DEF Storage!SpikeAssumption
  <1>0. SpikeTypes /\ SpikeDisk /\ SpikeAt /\ (number = 2 => stop = Nil)
    BY DEF SpikeInv
  <1>1. CASE UNCHANGED Storage!vars
    BY <1>0, <1>1, SpikeSame DEF Storage!vars, SpikeInv, SpikeTypes, SpikeAt
  <1>2. CASE Storage!Begin
    <2>1. sAt = "cycle" /\ sAt' = "create" /\ stop' \in Storage!Boundaries \cup {Nil}
      BY <1>2 DEF Storage!Begin, Storage!Worker
    <2>2. UNCHANGED <<sCandidate, cycle, number>>
      BY <1>2 DEF Storage!Begin
    <2> QED
      BY <1>0, <2>1, <2>2, SpikeSame DEF SpikeInv, SpikeTypes, SpikeSteps, SpikeAt, Untouched
  <1>3. CASE Storage!Create
    <2>1. Storage!Empty \in Storage!Candidate /\ ~Storage!Empty.marker /\ ~Storage!Empty.manifest
          /\ Storage!Empty.files = 0
      BY DEF Storage!Empty, Storage!Candidate
    <2>2. Storage!Put(Storage!Empty) /\ UNCHANGED <<cycle, number, stop>>
      BY <1>3 DEF Storage!Create, Storage!Boundary, Storage!Goto, Storage!rest
    <2>3. sAt = "create" /\ sAt' \in {"exited", "write"} /\ (sAt' = "exited" => stop = 0)
      BY <1>3 DEF Storage!Create, Storage!Boundary, Storage!Goto, Storage!rest
    <2>4. /\ sCandidate' \in [1 .. SpikeCycles -> [{1, 2} -> Storage!Candidate \cup {Nil}]]
          /\ SpikeDisk' /\ Storage!Here' = Storage!Empty
      BY <1>0, <2>1, <2>2, <2>3, SpikePut DEF SpikeAt
    <2> QED
      BY <1>0, <2>1, <2>2, <2>3, <2>4 DEF SpikeInv, SpikeTypes, SpikeSteps, SpikeAt
  <1>4. CASE Storage!Write
    <2> DEFINE c == [Storage!Here EXCEPT !.files = Storage!Here.files + 1]
    <2>0. sAt = "write" /\ Storage!Here \in Storage!Candidate /\ Storage!Here.files < SpikeMembers
          /\ ~Storage!Here.manifest /\ ~Storage!Here.marker
      BY <1>0, <1>4 DEF Storage!Write, SpikeAt
    <2>1. c \in Storage!Candidate /\ ~c.marker /\ ~c.manifest /\ c.files = Storage!Here.files + 1
      BY <2>0 DEF Storage!Candidate
    <2>2. Storage!Put(c) /\ UNCHANGED <<cycle, number, stop>>
      BY <1>4 DEF Storage!Write, Storage!Boundary, Storage!Goto, Storage!rest
    <2>3. /\ sAt' \in {"exited", "write", "manifest"} /\ (sAt' = "exited" => stop = c.files)
          /\ sAt' = "write" => c.files # SpikeMembers
          /\ sAt' = "manifest" => c.files = SpikeMembers
      BY <1>4, <2>0, <2>1 DEF Storage!Write, Storage!Boundary, Storage!Goto, Storage!rest
    <2> HIDE DEF c
    <2>4. /\ sCandidate' \in [1 .. SpikeCycles -> [{1, 2} -> Storage!Candidate \cup {Nil}]]
          /\ SpikeDisk' /\ Storage!Here' = c
      BY <1>0, <2>0, <2>1, <2>2, <2>3, SpikePut DEF SpikeAt
    <2>5. c.files \in Nat /\ c.files <= SpikeMembers
      BY <2>0, <2>1 DEF Storage!Candidate
    <2> QED
      BY <1>0, <2>1, <2>2, <2>3, <2>4, <2>5 DEF SpikeInv, SpikeTypes, SpikeSteps, SpikeAt
  <1>5. CASE Storage!Manifest
    <2> DEFINE c == [Storage!Here EXCEPT !.manifest = TRUE, !.whole = TRUE]
    <2>0. sAt = "manifest" /\ Storage!Here \in Storage!Candidate
          /\ Storage!Here.files = SpikeMembers
      BY <1>0, <1>5 DEF Storage!Manifest, SpikeAt
    <2>1. c \in Storage!Candidate /\ c.manifest /\ c.files = SpikeMembers
      BY <2>0 DEF Storage!Candidate
    <2>2. Storage!Put(c) /\ UNCHANGED <<cycle, number, stop>>
      BY <1>5 DEF Storage!Manifest, Storage!Boundary, Storage!Goto, Storage!rest
    <2>3. sAt' \in {"exited", "read"} /\ (sAt' = "exited" => stop = Storage!PreparedWritten)
      BY <1>5 DEF Storage!Manifest, Storage!Boundary, Storage!Goto, Storage!rest
    <2> HIDE DEF c
    <2>4. /\ sCandidate' \in [1 .. SpikeCycles -> [{1, 2} -> Storage!Candidate \cup {Nil}]]
          /\ SpikeDisk' /\ Storage!Here' = c
      BY <2>0, <2>1, <2>2, <2>3, SpikePut DEF SpikeAt
    <2> QED
      BY <1>0, <2>1, <2>2, <2>3, <2>4
      DEF SpikeInv, SpikeTypes, SpikeSteps, SpikeAt, Written, Storage!PreparedWritten
  <1>6. ASSUME UNCHANGED <<sCandidate, cycle, number>>,
               sAt \in {"read", "hold", "validate", "mark", "check", "release", "classify",
                 "recovered"},
               sAt' \in {"read", "hold", "validate", "mark", "check", "blocked", "release",
                        "classify", "recovered", "exited", "next", "raised"},
               stop' = stop, sAt' = "exited" => stop \in Nat
        PROVE  SpikeInv'
    BY <1>0, <1>6, SpikeSame DEF SpikeInv, SpikeTypes, SpikeSteps, SpikeAt, Written
  <1>7. CASE Storage!Read
    BY <1>6, <1>7
    DEF Storage!Read, Storage!Boundary, Storage!Goto, Storage!rest, Storage!PreparedValidated
  <1>8. CASE Storage!Hold
    BY <1>6, <1>8 DEF Storage!Hold
  <1>9. CASE Storage!Validate
    BY <1>6, <1>9 DEF Storage!Validate, Storage!Retry, Storage!Goto, Storage!rest
  <1>10. ASSUME sAt = "mark", Storage!Put([Storage!Here EXCEPT !.marker = TRUE]),
         UNCHANGED <<cycle, number, stop>>,
                sAt' \in {"check", "raised"}
         PROVE  SpikeInv'
    <2> DEFINE c == [Storage!Here EXCEPT !.marker = TRUE]
    <2>0. Storage!Here \in Storage!Candidate /\ Written
      BY <1>0, <1>10 DEF SpikeAt
    <2>1. c \in Storage!Candidate /\ c.manifest /\ c.files = SpikeMembers
      BY <2>0 DEF Storage!Candidate, Written
    <2>2. Storage!Put(c)
      BY <1>10
    <2> HIDE DEF c
    <2>4. /\ sCandidate' \in [1 .. SpikeCycles -> [{1, 2} -> Storage!Candidate \cup {Nil}]]
          /\ SpikeDisk' /\ Storage!Here' = c
      BY <1>10, <2>0, <2>1, <2>2, SpikePut
    <2> QED
      BY <1>0, <1>10, <2>1, <2>4 DEF SpikeInv, SpikeTypes, SpikeSteps, SpikeAt, Written
  <1>11. CASE Storage!Mark
    <2>1. CASE Storage!Put([Storage!Here EXCEPT !.marker = TRUE]) /\ Storage!Goto("check")
      BY <1>10, <1>11, <2>1 DEF Storage!Mark, Storage!Goto, Storage!rest
    <2>2. CASE ~Storage!Here.marker /\ Storage!Trouble /\ Storage!Retry /\ UNCHANGED sCandidate
      BY <1>6, <1>11, <2>2 DEF Storage!Mark, Storage!Retry, Storage!Goto, Storage!rest
    <2> QED
      BY <1>11, <2>1, <2>2 DEF Storage!Mark
  <1>12. CASE Storage!RefuseFlush
    BY <1>10, <1>12 DEF Storage!RefuseFlush, Storage!Goto, Storage!rest
  <1>13. CASE Storage!Check
    <2>1. sAt = "check" /\ UNCHANGED <<sCandidate, cycle, number, stop>>
      BY <1>13
      DEF SpikeWho, Storage!Check, Storage!Boundary, Storage!Retry, Storage!Goto, Storage!rest
    <2>2. sAt' \in {"exited", "classify", "release", "recovered", "validate", "blocked"}
      BY <1>13
      DEF SpikeWho, Storage!Check, Storage!Boundary, Storage!Retry, Storage!Goto, Storage!rest
    <2>3. sAt' = "exited" => stop = Storage!CommittedCreated
      BY <1>13
      DEF SpikeWho, Storage!Check, Storage!Boundary, Storage!Retry, Storage!Goto, Storage!rest
    <2> QED
      BY <1>6, <2>1, <2>2, <2>3 DEF Storage!CommittedCreated
  <1>14. ASSUME UNCHANGED <<sCandidate, cycle, number, stop>>, sAt' \in {"raised", "next", "over"},
                sAt' = "raised" \/ sAt \notin {"cycle", "create", "raised"}
         PROVE  SpikeInv'
    BY <1>0, <1>14, SpikeSame DEF SpikeInv, SpikeTypes, SpikeSteps, SpikeAt
  <1>15. CASE Storage!Refuse
    BY <1>14, <1>15 DEF Storage!Refuse, Storage!Raise, Storage!rest
  <1>16. CASE Storage!AwaitHolder
    BY <1>6, <1>16 DEF Storage!AwaitHolder, Storage!Goto, Storage!rest
  <1>17. CASE Storage!ClassifyOwn
    BY <1>14, <1>17 DEF Storage!ClassifyOwn, Storage!Raise, Storage!Record, Storage!rest
  <1>18. CASE Storage!Recovered
    BY <1>14, <1>18 DEF Storage!Recovered, Storage!Record
  <1>19. CASE Storage!Recover
    <2>1. sAt = "exited" /\ number = 1 /\ Storage!Here \in Storage!Candidate
          /\ (Storage!Here.manifest => Written)
      BY <1>0, <1>19 DEF Storage!Recover, SpikeAt, Written
    <2>2. CASE Storage!Here.manifest
      <3>1. UNCHANGED <<sCandidate, cycle, number>> /\ stop' = Nil /\ sAt' = "validate"
        BY <1>19, <2>2 DEF Storage!Recover
      <3> QED
        BY <1>0, <2>1, <2>2, <3>1, SpikeSame DEF SpikeInv, SpikeTypes, SpikeSteps, SpikeAt
    <2>3. CASE ~Storage!Here.manifest
      <3>1. UNCHANGED <<sCandidate, cycle>> /\ stop' = Nil /\ sAt' = "create" /\ number' = 2
        BY <1>19, <2>3 DEF Storage!Recover
      <3>2. Replaced(cycle)
        BY <1>0, <1>19, <2>1, <2>3
        DEF Storage!Recover, SpikeAt, Storage!Here, Replaced, Storage!Candidate
      <3> QED
        BY <1>0, <3>1, <3>2
        DEF SpikeInv, SpikeTypes, SpikeSteps, SpikeAt, SpikeDisk, Untouched, Visible, Replaced
    <2> QED
      BY <2>2, <2>3
  <1>20. CASE Storage!NextCycle
    BY <1>0, <1>20
    DEF Storage!NextCycle, SpikeInv, SpikeTypes, SpikeSteps, SpikeAt, SpikeDisk, Untouched, Visible,
        Replaced, Storage!Here
  <1>21. CASE Storage!Scan
    BY <1>14, <1>21 DEF Storage!Scan, Storage!Raise, Storage!rest
  <1>22. CASE Storage!Release
    BY <1>0, <1>22, SpikeSame DEF Storage!Release, SpikeInv, SpikeTypes, SpikeAt
  <1>23. CASE Storage!Damage
    <2>1. PICK i \in 1 .. SpikeCycles, n \in {1, 2} :
             sCandidate[i][n] # Nil /\ sCandidate' = [sCandidate EXCEPT ![i][n].whole = FALSE]
      BY <1>23 DEF Storage!Damage, Storage!Made
    <2>2. UNCHANGED <<sAt, cycle, number, stop>>
      BY <1>23 DEF Storage!Damage, Storage!rest
    <2>3. sCandidate[i][n] \in Storage!Candidate
      BY <1>0, <2>1 DEF SpikeTypes
    <2>4. /\ sCandidate' \in [1 .. SpikeCycles -> [{1, 2} -> Storage!Candidate \cup {Nil}]]
          /\ sCandidate'[i][n] = [sCandidate[i][n] EXCEPT !.whole = FALSE]
          /\ \A j \in 1 .. SpikeCycles, k \in {1, 2} : (j # i \/ k # n) =>
               sCandidate'[j][k] = sCandidate[j][k]
      BY <1>0, <2>1, <2>3 DEF SpikeTypes, Storage!Candidate
    <2>5. /\ sCandidate'[i][n] \in Storage!Candidate
          /\ sCandidate'[i][n].manifest = sCandidate[i][n].manifest
          /\ sCandidate'[i][n].marker = sCandidate[i][n].marker
          /\ sCandidate'[i][n].files = sCandidate[i][n].files
      BY <2>3, <2>4 DEF Storage!Candidate
    <2>6. \A j \in 1 .. SpikeCycles, k \in {1, 2} :
            /\ sCandidate'[j][k] \in Storage!Candidate <=> sCandidate[j][k] \in Storage!Candidate
            /\ sCandidate[j][k] = Nil => sCandidate'[j][k] = Nil
            /\ sCandidate[j][k] \in Storage!Candidate =>
                 /\ sCandidate'[j][k].manifest = sCandidate[j][k].manifest
                 /\ sCandidate'[j][k].marker = sCandidate[j][k].marker
                 /\ sCandidate'[j][k].files = sCandidate[j][k].files
      BY <2>1, <2>3, <2>4, <2>5
    <2>7. \A j \in 1 .. SpikeCycles : Visible(j)'
      <3> TAKE j \in 1 .. SpikeCycles
      <3>1. Visible(j) /\ sCandidate[j] \in [{1, 2} -> Storage!Candidate \cup {Nil}]
        BY <1>0 DEF SpikeDisk, SpikeTypes
      <3>2. Replaced(j) => Replaced(j)'
        BY <2>6 DEF Replaced, Storage!Candidate
      <3>3. \A k \in {1, 2} : sCandidate'[j][k] # Nil => sCandidate[j][k] # Nil
            /\ sCandidate[j][k] \in Storage!Candidate
        BY <2>6, <3>1
      <3> QED
        BY <2>6, <3>1, <3>2, <3>3 DEF Visible
    <2>8. Replaced(cycle) => Replaced(cycle)'
      BY <1>0, <2>2, <2>6 DEF SpikeTypes, Replaced, Storage!Candidate
    <2>9. \A j \in 1 .. SpikeCycles : Untouched(j) => Untouched(j)'
      BY <1>0, <2>1, <2>6 DEF SpikeTypes, Untouched
    <2>10. Storage!Here \in Storage!Candidate => /\ Storage!Here' \in Storage!Candidate
                                                      /\ Storage!Here'.manifest = Storage!Here.manifest
                                                 /\ Storage!Here'.marker = Storage!Here.marker
                                                      /\ Storage!Here'.files = Storage!Here.files
      BY <1>0, <2>2, <2>3, <2>4, <2>5 DEF SpikeTypes, Storage!Here
    <2>11. number = 1 => sCandidate'[cycle][2] = Nil
      BY <1>0, <2>1, <2>6 DEF SpikeDisk, SpikeTypes
    <2> QED
      BY <1>0, <2>2, <2>4, <2>7, <2>8, <2>9, <2>10, <2>11
      DEF SpikeInv, SpikeTypes, SpikeDisk, SpikeAt, Written
  <1> QED
    BY <1>1, <1>2, <1>3, <1>4, <1>5, <1>7, <1>8, <1>9, <1>11, <1>12, <1>13, <1>15, <1>16, <1>17,
       <1>18, <1>19, <1>20, <1>21, <1>22, <1>23 DEF Storage!Next, Storage!Spike

\* Only the scan says whether the spike has passed, and nothing moves after it.
LEMMA SpikeQuietStep ==
  ASSUME SpikeWho, [Storage!Next]_(Storage!vars)
  PROVE  Storage!Scan \/ (passed' = passed /\ (sAt = "over" => UNCHANGED <<sAt, sCandidate>>))
  <1>1. CASE UNCHANGED Storage!vars
    BY <1>1 DEF Storage!vars
  <1>2. CASE Storage!Spike
    BY <1>2
    DEF SpikeWho, Storage!Spike, Storage!Begin, Storage!Create, Storage!Write, Storage!Manifest,
        Storage!Read, Storage!Hold, Storage!Validate, Storage!Retry, Storage!Mark, Storage!Check,
        Storage!Refuse, Storage!RefuseFlush, Storage!AwaitHolder, Storage!ClassifyOwn,
        Storage!Recover, Storage!Recovered, Storage!NextCycle, Storage!Boundary, Storage!Goto,
        Storage!Raise, Storage!Record, Storage!Unpublished, Storage!rest
  <1>3. CASE Storage!Release \/ Storage!Damage
    BY <1>3 DEF Storage!Release, Storage!Damage, Storage!rest
  <1> QED
    BY <1>1, <1>2, <1>3 DEF Storage!Next

\* As many cycles with a committed candidate as there are cycles, and none with two.
LEMMA SpikeCounted ==
  ASSUME SpikeTypes, Cardinality({c[1] : c \in Storage!Committed}) = SpikeCycles,
    Storage!Duplicates = {}
  PROVE  OneCommitted
  <1> USE SpikeConstants DEF Storage!SpikeAssumption
  <1> DEFINE I == 1 .. SpikeCycles
             D == {c[1] : c \in Storage!Committed}
  <1>1. IsFiniteSet(I) /\ Cardinality(I) = SpikeCycles
    BY FS_Interval
  <1>2. D \subseteq I
    BY DEF Storage!Committed, Storage!Made
  <1>3. D = I
    <2>1. Cardinality(D) = Cardinality(I)
      BY <1>1
    <2> HIDE DEF D, I
    <2> QED
      BY <1>1, <1>2, <2>1, FS_Subset
  <1>4. ASSUME NEW i \in I
        PROVE  Cardinality({n \in {1, 2} : sCandidate[i][n] # Nil /\ sCandidate[i][n].marker
                                           /\ Storage!Valid(sCandidate[i][n])}) = 1
    <2> DEFINE Good(n) == sCandidate[i][n] # Nil /\ sCandidate[i][n].marker
      /\ Storage!Valid(sCandidate[i][n])
               G == {n \in {1, 2} : Good(n)}
    <2>1. \A n \in {1, 2} : <<i, n>> \in Storage!Committed <=> Good(n)
      BY DEF Storage!Committed, Storage!Made, Storage!State, Storage!Classify
    <2>2. PICK n \in {1, 2} : <<i, n>> \in Storage!Committed
      BY <1>3 DEF Storage!Committed, Storage!Made
    <2>3. ~(<<i, 1>> \in Storage!Committed /\ <<i, 2>> \in Storage!Committed)
      BY DEF Storage!Duplicates
    <2>4. G = {n}
      BY <2>1, <2>2, <2>3
    <2> HIDE DEF Good, G
    <2>5. Cardinality(G) = 1
      BY <2>4, FS_Singleton
    <2> QED
      BY <2>5 DEF G, Good
  <1> QED
    BY <1>4 DEF OneCommitted

\* The summary that says the spike has passed rests on what stays on disk.
LEMMA SpikeOverStep == ASSUME SpikeTypes, SpikeWho, OverInv, [Storage!Next]_(Storage!vars)
  PROVE OverInv'
  <1>1. CASE Storage!Scan
    <2> SUFFICES ASSUME passed' = TRUE PROVE sAt' = "over" /\ OneCommitted'
      BY DEF OverInv
    <2>1. UNCHANGED sCandidate
      BY <1>1 DEF Storage!Scan, Storage!Raise, Storage!rest
    <2>2. CASE sAt' = "over" /\ Cardinality({c[1] : c \in Storage!Committed}) = SpikeCycles
          /\ Storage!Duplicates = {}
      BY <2>1, <2>2, SpikeCounted, SpikeSize DEF OneCommitted, Storage!Valid
    <2>3. CASE passed' = passed /\ sAt = "scan"
      BY <2>3 DEF OverInv
    <2> QED
      BY <1>1, <2>2, <2>3, SpikeSize DEF Storage!Scan, Storage!Raise, Storage!rest
  <1>2. CASE passed' = passed /\ (sAt = "over" => UNCHANGED <<sAt, sCandidate>>)
    BY <1>2 DEF OverInv, OneCommitted, Storage!Valid
  <1> QED
    BY <1>1, <1>2, SpikeQuietStep

\* No attempt of the storage spike ever has two visible candidates, whatever boundary a
\* worker exits at, and a spike that passed has one committed candidate in every cycle.
THEOREM SpikeHolds == Storage!Init /\ [][Storage!Next]_(Storage!vars) =>
  [](Storage!OneVisible /\ Storage!PassIsEarned)
  <1> DEFINE Inv == SpikeInv /\ SpikeWho /\ OverInv
  <1>1. Storage!Init => Inv
    <2>1. Storage!Init => OverInv /\ SpikeWho
      BY SpikeConstants DEF Storage!Init, OverInv, SpikeWho
    <2> QED
      BY <2>1, SpikeInit
  <1>2. Inv /\ [Storage!Next]_(Storage!vars) => Inv'
    BY SpikeStep, SpikeWhoStep, SpikeOverStep DEF SpikeInv
  <1>3. Inv => Storage!OneVisible
    BY DEF SpikeInv, SpikeDisk, SpikeTypes, Visible, Replaced, Storage!OneVisible
  <1>5. Inv => Storage!PassIsEarned
    BY SpikeSize DEF OverInv, OneCommitted, Storage!PassIsEarned
  <1> QED
    BY <1>1, <1>2, <1>3, <1>5, PTL

-----------------------------------------------------------------------------
(* The next study *)

\* Its constants.
LEMMA StudyConstants == BlockCells \in Nat \ {0} /\ StudyRuns \subseteq Nat \ {0}
  BY ProgramsAssumption

\* The evidence stores and the places of a command.
Stores == Study!Executed \X StudyRuns
StudyAts == {"idle", "cell", "health", "attest", "mark", "release", "artifact", "state"}
Gates   == Seq(StudyRuns \cup {Study!Verified})
Command == [at : StudyAts, phase : Study!Executed \cup {"none", "primary_analysis"}, state : Gates,
            run : StudyRuns \cup {0}, cell : 1 .. BlockCells, repeat : {1, 2}]
\* The types.
StudyTypes ==
  /\ nEvidence \in [Stores -> [1 .. BlockCells -> Seq(Study!Origins)]]
  /\ nAttested \in [Stores -> [1 .. BlockCells -> {"none", "half", "whole"}]]
  /\ cmd \in [Rivals -> Command]
  /\ states \subseteq Gates /\ shaken \subseteq StudyRuns

\* A second repeat comes after a failure of the environment that was attested whole.
CellEarned(k, c) ==
  LET done == nEvidence[k][c] IN
  /\ Len(done) <= 2
  /\ Len(done) = 2 => nAttested[k][c] = "whole"
  /\ nAttested[k][c] # "none" => Len(done) > 0 /\ done[1] = "environment"
CellsEarned == \A k \in Stores, c \in 1 .. BlockCells : CellEarned(k, c)

\* The command that runs holds the lease, alone, and knows why it repeats a cell.
RunsAlone ==
  /\ \A s \in Rivals : Study!Running(s) => nLease /\ Study!Store(s) \in Stores
  /\ \A s, t \in Rivals : Study!Running(s) /\ Study!Running(t) => s = t
\* What a command at work knows of its cell.
RunsEarned(s) ==
  LET done == nEvidence[Study!Store(s)][cmd[s].cell]
      told == nAttested[Study!Store(s)][cmd[s].cell]
  IN  /\ cmd[s].at \in {"health", "attest", "mark"} =>
           cmd[s].repeat = 1 /\ Len(done) > 0 /\ done[1] = "environment"
      /\ cmd[s].at = "mark" => told = "half"
      /\ cmd[s].at = "cell" /\ cmd[s].repeat = 2 =>
           Len(done) > 0 /\ done[1] = "environment" /\ told = "whole"

\* Every cell of a run has ended valid.
Sound(k) == \A c \in 1 .. BlockCells : Len(nEvidence[k][c]) > 0
  /\ nEvidence[k][c][Len(nEvidence[k][c])] = "valid"
Rests(phase, r) == phase \in Study!Executed => <<phase, r>> \in Stores /\ Sound(<<phase, r>>)
\* A command that publishes has found what it seals.
SealsEarned(s) ==
  /\ cmd[s].at \in {"artifact", "state"} =>
       /\ cmd[s].run \in StudyRuns /\ Rests(cmd[s].phase, cmd[s].run)
       /\ cmd[s].phase # "shakeout" => cmd[s].state \in states
            /\ cmd[s].phase = Study!Current(cmd[s].state)
       /\ cmd[s].phase # "none"
  /\ cmd[s].at = "state" => cmd[s].phase # "shakeout"
\* Every published state rests on runs that have ended valid.
StatesEarned ==
  /\ \A st \in states : Len(st) <= 6 /\ \A i \in DOMAIN st : Rests(Study!Phases[i], st[i])
  /\ \A r \in shaken : Rests("shakeout", r)
  /\ states # {} => shaken # {}

\* The inductive invariant.
StudyRetry == /\ CellsEarned /\ RunsAlone /\ \A s \in Rivals : RunsEarned(s)
StudySeal  == StatesEarned /\ \A s \in Rivals : SealsEarned(s)
StudyInv == StudyTypes /\ StudyRetry /\ StudySeal

\* The inductive invariant holds at first.
LEMMA StudyInit == ASSUME Study!Init PROVE StudyInv
  <1>1. nEvidence = [k \in Stores |-> [c \in 1 .. BlockCells |-> <<>>]]
        /\ nAttested = [k \in Stores |-> [c \in 1 .. BlockCells |-> "none"]]
    BY DEF Study!Init, Stores
  <1>2. StudyTypes
    BY <1>1, StudyConstants
    DEF Study!Init, StudyTypes, Command, Study!Idle, StudyAts, Gates
  <1>3. StudyRetry
    BY <1>1
    DEF Study!Init, StudyRetry, CellsEarned, CellEarned, RunsAlone, RunsEarned, Study!Running,
        Study!Idle
  <1>4. StudySeal
    BY DEF Study!Init, StudySeal, StatesEarned, SealsEarned, Study!Idle
  <1> QED
    BY <1>2, <1>3, <1>4 DEF StudyInv

\* Where a command goes after a repeat.
LEMMA StudyAfter ==
  ASSUME StudyTypes, NEW s \in Rivals, NEW o, cmd[s].at = "cell"
  PROVE  LET c == Study!After(s, o) IN
         /\ c \in Command /\ c.phase = cmd[s].phase /\ c.run = cmd[s].run
         /\ c.at \in {"health", "release", "cell"}
         /\ c.at = "health" => o = "environment" /\ c.repeat = 1 /\ c.cell = cmd[s].cell
         /\ c.at = "cell" => c.repeat = 1
  <1> DEFINE d == cmd[s]
  <1>0. d \in Command /\ d.at = "cell"
    BY DEF StudyTypes
  <1>1. CASE o = "environment" /\ d.repeat = 1
    <2>1. Study!After(s, o) = [d EXCEPT !.at = "health"]
      BY <1>1 DEF Study!After
    <2> HIDE DEF d
    <2> QED
      BY <1>0, <1>1, <2>1 DEF Command, StudyAts, d
  <1>2. CASE ~(o = "environment" /\ d.repeat = 1) /\ d.cell = BlockCells
    <2>1. Study!After(s, o) = [d EXCEPT !.at = "release"]
      BY <1>2 DEF Study!After
    <2> HIDE DEF d
    <2> QED
      BY <1>0, <2>1 DEF Command, StudyAts, d
  <1>3. CASE ~(o = "environment" /\ d.repeat = 1) /\ d.cell # BlockCells
    <2>1. Study!After(s, o) = [d EXCEPT !.cell = d.cell + 1, !.repeat = 1]
      BY <1>3 DEF Study!After
    <2>2. d.cell + 1 \in 1 .. BlockCells
      BY <1>0, <1>3, StudyConstants DEF Command
    <2> HIDE DEF d
    <2> QED
      BY <1>0, <2>1, <2>2 DEF Command, StudyAts, d
  <1> QED
    BY <1>1, <1>2, <1>3

\* A repeat put behind the others.
LEMMA StudyAppend ==
  ASSUME NEW q \in Seq(Study!Origins), NEW o \in Study!Origins
  PROVE  /\ Append(q, o) \in Seq(Study!Origins) /\ Len(Append(q, o)) = Len(q) + 1
         /\ Append(q, o)[Len(q) + 1] = o
         /\ Len(q) > 0 => Append(q, o)[1] = q[1]
  OBVIOUS

\* What a phase produces.
LEMMA StudyProduced == ASSUME NEW p PROVE Study!Produced(p) \subseteq Study!Origins
  BY DEF Study!Produced, Study!Origins

\* A function of functions changed at one place keeps its type.
LEMMA StudyUpdate ==
  ASSUME NEW A, NEW B, NEW C, NEW f \in [A -> [B -> C]], NEW k, NEW d, NEW v \in C
  PROVE  [f EXCEPT ![k][d] = v] \in [A -> [B -> C]]
  OBVIOUS

\* Every step keeps the types.
LEMMA StudyTypesStep == ASSUME StudyTypes, StudySeal, [Study!Next]_(Study!vars) PROVE StudyTypes'
  <1>1. CASE UNCHANGED Study!vars
    BY <1>1 DEF Study!vars, StudyTypes
  <1>2. CASE Study!Authorize
    BY <1>2 DEF Study!Authorize, StudyTypes, Gates
  <1>3. CASE Study!VerifyRelease
    <2>1. PICK st \in states : states' = states \cup {Append(st, Study!Verified)}
      BY <1>3 DEF Study!VerifyRelease
    <2>2. Append(st, Study!Verified) \in Gates
      BY <2>1 DEF StudyTypes, Gates
    <2> QED
      BY <1>3, <2>1, <2>2 DEF Study!VerifyRelease, StudyTypes
  <1>4. CASE Study!RemoveLease
    BY <1>4 DEF Study!RemoveLease, StudyTypes
  <1>5. ASSUME NEW s \in Rivals, UNCHANGED <<nEvidence, nAttested, states, shaken>>,
               NEW c \in Command, cmd' = [cmd EXCEPT ![s] = c]
        PROVE  StudyTypes'
    BY <1>5 DEF StudyTypes
  <1>6. Study!Idle \in Command
    BY StudyConstants DEF Study!Idle, Command, StudyAts, Gates
  <1>7. \A s \in Rivals : cmd[s] \in Command
    BY DEF StudyTypes
  <1>8. ASSUME NEW s \in Rivals, NEW at \in StudyAts
        PROVE  [cmd[s] EXCEPT !.at = at] \in Command
    BY <1>7 DEF Command
  <1>10. ASSUME NEW s \in Rivals, Study!StartRun(s)
         PROVE  StudyTypes'
    <2>1. PICK t \in Study!Startable, r \in StudyRuns :
            /\ t[1] \in Study!Executed
            /\ cmd' = [cmd EXCEPT ![s] = [Study!Idle EXCEPT !.at = "cell", !.phase = t[1],
                 !.state = t[2], !.run = r]]
      BY <1>10 DEF Study!StartRun
    <2>2. t[2] \in Gates
      <3>1. CASE t = <<"shakeout", <<>>>>
        BY <3>1 DEF Gates
      <3>2. CASE \E st \in states : t = <<Study!Current(st), st>>
        BY <3>2 DEF StudyTypes
      <3> QED
        BY <3>1, <3>2 DEF Study!Startable
    <2>3. [Study!Idle EXCEPT !.at = "cell", !.phase = t[1], !.state = t[2], !.run = r] \in Command
      BY <1>6, <2>1, <2>2 DEF Command, StudyAts
    <2> QED
      BY <1>5, <1>10, <2>1, <2>3 DEF Study!StartRun
  <1>11. ASSUME NEW s \in Rivals, Study!Release(s) \/ Study!Kill(s)
         PROVE  StudyTypes'
    BY <1>5, <1>6, <1>11 DEF Study!Release, Study!Kill
  <1>12. ASSUME NEW s \in Rivals, Study!VerifyHealth(s)
         PROVE  StudyTypes'
    <2>1. PICK at \in {"attest", "release"} : cmd' = [cmd EXCEPT ![s] = [cmd[s] EXCEPT !.at = at]]
      BY <1>12 DEF Study!VerifyHealth
    <2>2. [cmd[s] EXCEPT !.at = at] \in Command
      BY <1>8 DEF StudyAts
    <2> QED
      BY <1>5, <1>12, <2>1, <2>2 DEF Study!VerifyHealth
  <1>13. ASSUME NEW s \in Rivals, Study!Attest(s) \/ Study!Mark(s)
         PROVE  StudyTypes'
    <2>1. nAttested' \in [Stores -> [1 .. BlockCells -> {"none", "half", "whole"}]]
      <3> DEFINE k == Study!Store(s)
                 d == cmd[s].cell
                 T == {"none", "half", "whole"}
      <3>1. \/ nAttested' = nAttested
            \/ nAttested' = [nAttested EXCEPT ![k][d] = "half"]
            \/ nAttested' = [nAttested EXCEPT ![k][d] = "whole"]
        BY <1>13 DEF Study!Attest, Study!Mark
      <3>2. "half" \in T /\ "whole" \in T /\ nAttested \in [Stores -> [1 .. BlockCells -> T]]
        BY DEF StudyTypes
      <3> HIDE DEF k, d, T
      <3>3. ASSUME NEW v \in T, nAttested' = [nAttested EXCEPT ![k][d] = v]
            PROVE  nAttested' \in [Stores -> [1 .. BlockCells -> T]]
        BY <3>2, <3>3, StudyUpdate
      <3>4. nAttested' \in [Stores -> [1 .. BlockCells -> T]]
        BY <3>1, <3>2, <3>3
      <3> QED
        BY <3>4 DEF T
    <2>2. \E at \in StudyAts : \/ cmd' = [cmd EXCEPT ![s] = [cmd[s] EXCEPT !.at = at]]
                              \/ cmd' = [cmd EXCEPT ![s] = [cmd[s] EXCEPT !.at = at, !.repeat = 2]]
      BY <1>13 DEF Study!Attest, Study!Mark, StudyTypes, StudyAts
    <2>3. PICK c \in Command : cmd' = [cmd EXCEPT ![s] = c]
      <3> DEFINE old == cmd[s]
      <3>1. old \in Command
        BY <1>7
      <3>2. PICK at \in StudyAts : \/ cmd' = [cmd EXCEPT ![s] = [old EXCEPT !.at = at]]
                                  \/ cmd' = [cmd EXCEPT ![s] = [old EXCEPT !.at = at, !.repeat = 2]]
        BY <2>2
      <3> HIDE DEF old
      <3>3. [old EXCEPT !.at = at] \in Command /\ [old EXCEPT !.at = at, !.repeat = 2] \in Command
        BY <3>1 DEF Command
      <3> QED
        BY <3>2, <3>3
    <2> QED
      BY <1>13, <2>1, <2>3 DEF Study!Attest, Study!Mark, StudyTypes
  <1>14. ASSUME NEW s \in Rivals, Study!Attempt(s)
         PROVE  StudyTypes'
    <2> DEFINE k == Study!Store(s)
               d == cmd[s].cell
               done == nEvidence[k][d]
    <2>1. CASE UNCHANGED nEvidence /\ cmd' = [cmd EXCEPT ![s] = Study!After(s, done[cmd[s].repeat])]
      <3>1. Study!After(s, done[cmd[s].repeat]) \in Command
        BY <1>14, StudyAfter DEF Study!Attempt
      <3> QED
        BY <1>5, <1>14, <2>1, <3>1 DEF Study!Attempt
    <2>2. CASE \E o \in Study!Produced(cmd[s].phase) :
                  /\ nEvidence' = [nEvidence EXCEPT ![k][d] = Append(@, o)]
                  /\ cmd' = [cmd EXCEPT ![s] = Study!After(s, o)]
      <3>1. PICK o \in Study!Origins : /\ nEvidence' = [nEvidence EXCEPT ![k][d] = Append(@, o)]
                                       /\ cmd' = [cmd EXCEPT ![s] = Study!After(s, o)]
        BY <2>2, StudyProduced
      <3>2. Study!After(s, o) \in Command
        BY <1>14, StudyAfter DEF Study!Attempt
      <3>3. cmd' \in [Rivals -> Command]
        BY <3>1, <3>2 DEF StudyTypes
      <3>4. nEvidence' \in [Stores -> [1 .. BlockCells -> Seq(Study!Origins)]]
        <4>1. CASE k \in Stores /\ d \in 1 .. BlockCells
          <5>1. done \in Seq(Study!Origins)
            BY <4>1 DEF StudyTypes
          <5>2. Append(done, o) \in Seq(Study!Origins)
            BY <5>1, StudyAppend
          <5>3. nEvidence' = [nEvidence EXCEPT ![k][d] = Append(done, o)]
            BY <3>1
          <5> HIDE DEF k, d, done
          <5> QED
            BY <5>2, <5>3, StudyUpdate DEF StudyTypes
        <4>2. CASE ~(k \in Stores /\ d \in 1 .. BlockCells)
          BY <4>2, <3>1 DEF StudyTypes
        <4> QED
          BY <4>1, <4>2
      <3> QED
        BY <1>14, <3>3, <3>4 DEF Study!Attempt, StudyTypes
    <2>3. CASE UNCHANGED nEvidence /\ cmd' = [cmd EXCEPT ![s] = [cmd[s] EXCEPT !.at = "release"]]
      BY <1>5, <1>8, <1>14, <2>3 DEF Study!Attempt, StudyAts
    <2> QED
      BY <1>14, <2>1, <2>2, <2>3 DEF Study!Attempt
  <1>15. ASSUME NEW s \in Rivals, NEW phase \in Study!Executed \cup {"primary_analysis"},
                NEW st \in Gates, NEW r \in StudyRuns, Study!Sealing(s, phase, st, r)
         PROVE  StudyTypes'
    <2>1. [Study!Idle EXCEPT !.at = "artifact", !.phase = phase, !.state = st,
          !.run = r] \in Command
      BY <1>6 DEF Command, StudyAts
    <2> QED
      BY <1>5, <1>15, <2>1 DEF Study!Sealing
  <1>16. ASSUME NEW s \in Rivals, Study!SealShakeout(s) \/ Study!Seal(s) \/ Study!Analyze(s)
         \/ Study!Describe(s)
         PROVE  StudyTypes'
    <2>1. CASE Study!SealShakeout(s)
      <3>1. <<>> \in Gates /\ "shakeout" \in Study!Executed
        BY DEF Gates, Study!Executed
      <3> QED
        BY <1>15, <2>1, <3>1 DEF Study!SealShakeout
    <2>2. CASE Study!Seal(s)
      BY <1>15, <2>2 DEF Study!Seal, Study!PhaseSeals, StudyTypes, Study!Executed
    <2>3. CASE Study!Analyze(s)
      BY <1>15, <2>3 DEF Study!Analyze, Study!Analyzes, StudyTypes
    <2>4. CASE Study!Describe(s)
      BY <1>15, <2>4 DEF Study!Describe, Study!Describes, StudyTypes, Study!Executed
    <2> QED
      BY <1>16, <2>1, <2>2, <2>3, <2>4
  <1>17. ASSUME NEW s \in Rivals, Study!PublishState(s)
         PROVE  StudyTypes'
    <2>1. Append(cmd[s].state, cmd[s].run) \in Gates
      BY <1>7 DEF Command, Gates, Study!Verified
    <2> QED
      BY <1>6, <1>17, <2>1 DEF Study!PublishState, StudyTypes
  <1>18. ASSUME NEW s \in Rivals, Study!PublishArtifact(s)
         PROVE  StudyTypes'
    <2>1. cmd[s].run \in StudyRuns
      BY <1>18 DEF Study!PublishArtifact, StudySeal, SealsEarned
    <2>2. shaken' \subseteq StudyRuns
      BY <1>18, <2>1 DEF Study!PublishArtifact, StudyTypes
    <2>3. PICK c \in Command : cmd' = [cmd EXCEPT ![s] = c]
      <3>1. CASE cmd[s].phase = "shakeout"
        BY <1>6, <1>18, <3>1 DEF Study!PublishArtifact
      <3>2. CASE cmd[s].phase # "shakeout"
        <4>1. cmd' = [cmd EXCEPT ![s] = [cmd[s] EXCEPT !.at = "state"]]
          BY <1>18, <3>2 DEF Study!PublishArtifact
        <4> QED
          BY <1>8, <4>1 DEF StudyAts
      <3> QED
        BY <3>1, <3>2
    <2> QED
      BY <1>18, <2>2, <2>3 DEF Study!PublishArtifact, StudyTypes
  <1> QED
    BY <1>1, <1>2, <1>3, <1>4, <1>10, <1>11, <1>12, <1>13, <1>14, <1>16, <1>17, <1>18
    DEF Study!Next, Study!Step

\* Where the command of a run may be.
RunAts == {"cell", "health", "attest", "mark", "release"}

\* A command that goes on in its run, in which the others have no part.
LEMMA StudyGoesOn ==
  ASSUME StudyTypes, StudyRetry, NEW s \in Rivals, Study!Running(s),
         NEW c \in Command, cmd' = [cmd EXCEPT ![s] = c], c.at \in RunAts,
         c.phase = cmd[s].phase, c.run = cmd[s].run, nLease' = nLease
  PROVE  /\ RunsAlone' /\ Study!Store(s)' = Study!Store(s) /\ cmd'[s] = c
              /\ Study!Store(s) \in Stores
         /\ \A t \in Rivals : t # s => RunsEarned(t)'
  <1>1. /\ cmd'[s] = c /\ \A t \in Rivals : t # s => cmd'[t] = cmd[t]
    BY DEF StudyTypes
  <1>2. Study!Store(s)' = Study!Store(s)
    BY <1>1 DEF Study!Store
  <1>3. \A t \in Rivals : t # s => ~Study!Running(t) /\ Study!Running(t)' = Study!Running(t)
    BY <1>1 DEF StudyRetry, RunsAlone, Study!Running
  <1>4. RunsAlone'
    BY <1>2, <1>3 DEF StudyRetry, RunsAlone
  <1>5. \A t \in Rivals : t # s => RunsEarned(t)'
    BY <1>1, <1>3 DEF RunsEarned, Study!Running
  <1> QED
    BY <1>1, <1>2, <1>4, <1>5 DEF StudyRetry, RunsAlone

\* A command that has nothing to do with a run, or not any more.
LEMMA StudyStaysOut ==
  ASSUME StudyTypes, StudyRetry, NEW s \in Rivals, UNCHANGED <<nEvidence, nAttested>>,
         NEW c \in Command, cmd' = [cmd EXCEPT ![s] = c], c.at \in {"idle", "artifact", "state"},
         nLease' = nLease \/ Study!Running(s)
  PROVE  StudyRetry'
  <1>1. /\ cmd'[s] = c /\ \A t \in Rivals : t # s => cmd'[t] = cmd[t]
    BY DEF StudyTypes
  <1>2. \A t \in Rivals : Study!Running(t)' => t # s /\ Study!Running(t)
        /\ Study!Store(t)' = Study!Store(t)
    BY <1>1 DEF Study!Running, Study!Store
  <1>3. RunsAlone'
    BY <1>2 DEF StudyRetry, RunsAlone
  <1>4. \A t \in Rivals : RunsEarned(t)'
    <2> TAKE t \in Rivals
    <2>1. CASE t = s
      BY <1>1, <2>1 DEF RunsEarned
    <2>2. CASE t # s
      BY <1>1, <2>2 DEF StudyRetry, RunsEarned, Study!Store
    <2> QED
      BY <2>1, <2>2
  <1>5. CellsEarned'
    BY DEF StudyRetry, CellsEarned, CellEarned
  <1> QED
    BY <1>3, <1>4, <1>5 DEF StudyRetry

\* Every step keeps what is known of the repeats.
LEMMA StudyRetryStep == ASSUME StudyTypes, StudyRetry, [Study!Next]_(Study!vars) PROVE StudyRetry'
  <1>0. CellsEarned /\ RunsAlone /\ \A s \in Rivals : RunsEarned(s) /\ cmd[s] \in Command
    BY DEF StudyRetry, StudyTypes
  <1>1. ASSUME UNCHANGED <<nEvidence, nAttested, cmd>>,
               nLease' = nLease \/ \A s \in Rivals : ~Study!Running(s)
        PROVE  StudyRetry'
    BY <1>1
    DEF StudyRetry, CellsEarned, CellEarned, RunsAlone, RunsEarned, Study!Running, Study!Store
  <1>2. CASE UNCHANGED Study!vars \/ Study!Authorize \/ Study!VerifyRelease \/ Study!RemoveLease
    BY <1>1, <1>2 DEF Study!vars, Study!Authorize, Study!VerifyRelease, Study!RemoveLease
  <1>3. Study!Idle \in Command /\ Study!Idle.at = "idle"
    BY StudyConstants DEF Study!Idle, Command, StudyAts, Gates
  <1>4. ASSUME NEW s \in Rivals, Study!Release(s) \/ Study!Kill(s) \/ Study!PublishState(s)
        PROVE  StudyRetry'
    <2>1. /\ UNCHANGED <<nEvidence, nAttested>> /\ cmd' = [cmd EXCEPT ![s] = Study!Idle]
          /\ nLease' = nLease \/ Study!Running(s)
      BY <1>4 DEF Study!Release, Study!Kill, Study!PublishState, Study!Running
    <2> QED
      BY <1>3, <2>1, StudyStaysOut
  <1>5. ASSUME NEW s \in Rivals, Study!PublishArtifact(s)
        PROVE  StudyRetry'
    <2>1. PICK c \in Command : cmd' = [cmd EXCEPT ![s] = c] /\ c.at \in {"idle", "state"}
      <3>1. CASE cmd[s].phase = "shakeout"
        BY <1>3, <1>5, <3>1 DEF Study!PublishArtifact
      <3>2. CASE cmd[s].phase # "shakeout"
        <4>1. cmd' = [cmd EXCEPT ![s] = [cmd[s] EXCEPT !.at = "state"]]
          BY <1>5, <3>2 DEF Study!PublishArtifact
        <4>2. [cmd[s] EXCEPT !.at = "state"] \in Command
          BY <1>0 DEF Command, StudyAts
        <4> QED
          BY <1>0, <4>1, <4>2 DEF Command
      <3> QED
        BY <3>1, <3>2
    <2> QED
      BY <1>5, <2>1, StudyStaysOut DEF Study!PublishArtifact
  <1>6. ASSUME NEW s \in Rivals, NEW phase \in Study!Executed \cup {"primary_analysis"},
               NEW st \in Gates, NEW r \in StudyRuns, Study!Sealing(s, phase, st, r)
        PROVE  StudyRetry'
    <2> DEFINE c == [Study!Idle EXCEPT !.at = "artifact", !.phase = phase, !.state = st, !.run = r]
    <2>1. c \in Command /\ c.at = "artifact"
      BY <1>3 DEF Command, StudyAts
    <2>2. cmd' = [cmd EXCEPT ![s] = c] /\ UNCHANGED <<nEvidence, nAttested, nLease>>
      BY <1>6 DEF Study!Sealing
    <2> HIDE DEF c
    <2> QED
      BY <2>1, <2>2, StudyStaysOut
  <1>7. ASSUME NEW s \in Rivals, Study!SealShakeout(s) \/ Study!Seal(s) \/ Study!Analyze(s)
        \/ Study!Describe(s)
        PROVE  StudyRetry'
    <2>1. CASE Study!SealShakeout(s)
      <3>1. <<>> \in Gates /\ "shakeout" \in Study!Executed
        BY DEF Gates, Study!Executed
      <3> QED
        BY <1>6, <2>1, <3>1 DEF Study!SealShakeout
    <2>2. CASE Study!Seal(s)
      BY <1>6, <2>2 DEF Study!Seal, Study!PhaseSeals, StudyTypes, Study!Executed
    <2>3. CASE Study!Analyze(s)
      BY <1>6, <2>3 DEF Study!Analyze, Study!Analyzes, StudyTypes
    <2>4. CASE Study!Describe(s)
      BY <1>6, <2>4 DEF Study!Describe, Study!Describes, StudyTypes, Study!Executed
    <2> QED
      BY <1>7, <2>1, <2>2, <2>3, <2>4
  <1>8. ASSUME NEW s \in Rivals, Study!StartRun(s)
        PROVE  StudyRetry'
    <2>1. PICK t \in Study!Startable, r \in StudyRuns :
            /\ t[1] \in Study!Executed
            /\ cmd' = [cmd EXCEPT ![s] = [Study!Idle EXCEPT !.at = "cell", !.phase = t[1],
                 !.state = t[2], !.run = r]]
      BY <1>8 DEF Study!StartRun
    <2>2. /\ cmd'[s].at = "cell" /\ cmd'[s].phase = t[1] /\ cmd'[s].run = r /\ cmd'[s].repeat = 1
          /\ \A u \in Rivals : u # s => cmd'[u] = cmd[u]
      BY <2>1 DEF StudyTypes, Study!Idle
    <2>3. \A u \in Rivals : ~Study!Running(u)
      BY <1>0, <1>8 DEF Study!StartRun, RunsAlone
    <2>4. Study!Store(s)' \in Stores /\ nLease' /\ UNCHANGED <<nEvidence, nAttested>>
      BY <1>8, <2>1, <2>2 DEF Study!StartRun, Study!Store, Stores
    <2>5. \A u \in Rivals : u # s => ~Study!Running(u)'
      BY <2>2, <2>3 DEF Study!Running
    <2>6. RunsAlone'
      BY <2>4, <2>5 DEF RunsAlone
    <2>7. \A u \in Rivals : RunsEarned(u)'
      BY <2>2, <2>5 DEF RunsEarned, Study!Running
    <2> QED
      BY <1>0, <2>4, <2>6, <2>7 DEF StudyRetry, CellsEarned, CellEarned
  <1>9. ASSUME NEW s \in Rivals, Study!Running(s), NEW at \in RunAts
        PROVE  LET c == [cmd[s] EXCEPT !.at = at] IN
               /\ c \in Command /\ c.at = at /\ c.phase = cmd[s].phase /\ c.run = cmd[s].run
               /\ c.cell = cmd[s].cell /\ c.repeat = cmd[s].repeat
    BY <1>0 DEF Command, StudyAts, RunAts
  <1>10. ASSUME NEW s \in Rivals, Study!Running(s), UNCHANGED <<nEvidence, nAttested, nLease>>,
                NEW c \in Command, cmd' = [cmd EXCEPT ![s] = c], c.at \in RunAts,
                c.phase = cmd[s].phase, c.run = cmd[s].run,
                c.at # "mark", c.at = "cell" => c.repeat = 1,
                c.at \in {"health", "attest"} =>
                  /\ c.repeat = 1 /\ c.cell = cmd[s].cell
                  /\ Len(nEvidence[Study!Store(s)][cmd[s].cell]) > 0
                  /\ nEvidence[Study!Store(s)][cmd[s].cell][1] = "environment"
         PROVE  StudyRetry'
    <2>1. /\ RunsAlone' /\ Study!Store(s)' = Study!Store(s) /\ cmd'[s] = c
               /\ Study!Store(s) \in Stores
          /\ \A t \in Rivals : t # s => RunsEarned(t)'
      BY <1>10, StudyGoesOn
    <2>2. RunsEarned(s)'
      BY <1>10, <2>1 DEF RunsEarned
    <2> QED
      BY <1>0, <1>10, <2>1, <2>2 DEF StudyRetry, CellsEarned, CellEarned
  <1>11. ASSUME NEW s \in Rivals, Study!VerifyHealth(s)
         PROVE  StudyRetry'
    <2>1. PICK at \in {"attest", "release"} : cmd' = [cmd EXCEPT ![s] = [cmd[s] EXCEPT !.at = at]]
      BY <1>11 DEF Study!VerifyHealth
    <2>2. Study!Running(s) /\ cmd[s].at = "health" /\ at \in RunAts
      BY <1>11 DEF Study!VerifyHealth, Study!Running, RunAts
    <2> DEFINE c == [cmd[s] EXCEPT !.at = at]
    <2>3. /\ c \in Command /\ c.at = at /\ c.phase = cmd[s].phase /\ c.run = cmd[s].run
          /\ c.cell = cmd[s].cell /\ c.repeat = cmd[s].repeat
      BY <1>9, <2>2
    <2>4. cmd' = [cmd EXCEPT ![s] = c]
      BY <2>1
    <2> HIDE DEF c
    <2> QED
      BY <1>0, <1>10, <1>11, <2>2, <2>3, <2>4 DEF Study!VerifyHealth, RunsEarned
  <1>12. ASSUME NEW s \in Rivals, Study!Attest(s)
         PROVE  StudyRetry'
    <2> DEFINE k == Study!Store(s)
               d == cmd[s].cell
    <2>1. Study!Running(s) /\ cmd[s].at = "attest"
      BY <1>12 DEF Study!Attest, Study!Running
    <2>2. CASE nAttested[k][d] # "none"
      <3> DEFINE c == [cmd[s] EXCEPT !.at = "release"]
      <3>1. c \in Command /\ c.at = "release" /\ c.phase = cmd[s].phase /\ c.run = cmd[s].run
        BY <1>9, <2>1 DEF RunAts
      <3>2. cmd' = [cmd EXCEPT ![s] = c] /\ UNCHANGED <<nEvidence, nAttested, nLease>>
        BY <1>12, <2>2 DEF Study!Attest
      <3> HIDE DEF c
      <3> QED
        BY <1>10, <2>1, <3>1, <3>2 DEF RunAts
    <2>3. CASE nAttested[k][d] = "none"
      <3> DEFINE c == [cmd[s] EXCEPT !.at = "mark"]
      <3>1. /\ c \in Command /\ c.at = "mark" /\ c.phase = cmd[s].phase /\ c.run = cmd[s].run
            /\ c.cell = cmd[s].cell /\ c.repeat = cmd[s].repeat
        BY <1>9, <2>1 DEF RunAts
      <3>2. /\ cmd' = [cmd EXCEPT ![s] = c] /\ UNCHANGED <<nEvidence, nLease>>
            /\ nAttested' = [nAttested EXCEPT ![k][d] = "half"]
        BY <1>12, <2>3 DEF Study!Attest
      <3> HIDE DEF c
      <3>3. /\ RunsAlone' /\ Study!Store(s)' = Study!Store(s) /\ cmd'[s] = c
                 /\ Study!Store(s) \in Stores
            /\ \A t \in Rivals : t # s => RunsEarned(t)'
        BY <2>1, <3>1, <3>2, StudyGoesOn DEF RunAts
      <3>4. d \in 1 .. BlockCells /\ Len(nEvidence[k][d]) > 0 /\ nEvidence[k][d][1] = "environment"
            /\ cmd[s].repeat = 1
        BY <1>0, <2>1 DEF RunsEarned, Command
      <3>5. /\ nAttested'[k][d] = "half"
            /\ \A j \in Stores, e \in 1 .. BlockCells : nAttested'[j][e] = nAttested[j][e]
                 \/ (j = k /\ e = d)
        <4> HIDE DEF k, d
        <4>1. k \in Stores
          BY <3>3 DEF k
        <4> QED
          BY <3>2, <3>4, <4>1 DEF StudyTypes
      <3>6. RunsEarned(s)'
        BY <3>1, <3>2, <3>3, <3>4, <3>5 DEF RunsEarned
      <3>7. CellsEarned'
        <4> SUFFICES ASSUME NEW j \in Stores, NEW e \in 1 .. BlockCells PROVE CellEarned(j, e)'
          BY DEF CellsEarned
        <4>1. CellEarned(j, e)
          BY <1>0 DEF CellsEarned
        <4>2. CASE nAttested'[j][e] = nAttested[j][e]
          BY <3>2, <4>1, <4>2 DEF CellEarned
        <4>3. CASE j = k /\ e = d
          BY <2>3, <3>2, <3>4, <4>1, <4>3 DEF CellEarned
        <4> QED
          BY <3>5, <4>2, <4>3
      <3> QED
        BY <3>3, <3>6, <3>7 DEF StudyRetry
    <2> QED
      BY <2>2, <2>3
  <1>13. ASSUME NEW s \in Rivals, Study!Mark(s)
         PROVE  StudyRetry'
    <2> DEFINE k == Study!Store(s)
               d == cmd[s].cell
               c == [cmd[s] EXCEPT !.at = "cell", !.repeat = 2]
    <2>1. Study!Running(s) /\ cmd[s].at = "mark"
      BY <1>13 DEF Study!Mark, Study!Running
    <2>2. /\ c \in Command /\ c.at = "cell" /\ c.phase = cmd[s].phase /\ c.run = cmd[s].run
          /\ c.cell = cmd[s].cell /\ c.repeat = 2
      BY <1>0 DEF Command, StudyAts
    <2>3. /\ cmd' = [cmd EXCEPT ![s] = c] /\ UNCHANGED <<nEvidence, nLease>>
          /\ nAttested' = [nAttested EXCEPT ![k][d] = "whole"]
      BY <1>0, <1>13 DEF Study!Mark, Command, StudyTypes
    <2> HIDE DEF c
    <2>4. /\ RunsAlone' /\ Study!Store(s)' = Study!Store(s) /\ cmd'[s] = c
               /\ Study!Store(s) \in Stores
          /\ \A t \in Rivals : t # s => RunsEarned(t)'
      BY <2>1, <2>2, <2>3, StudyGoesOn DEF RunAts
    <2>5. d \in 1 .. BlockCells /\ Len(nEvidence[k][d]) > 0 /\ nEvidence[k][d][1] = "environment"
      BY <1>0, <2>1 DEF RunsEarned, Command
    <2>6. /\ nAttested'[k][d] = "whole"
          /\ \A j \in Stores, e \in 1 .. BlockCells : nAttested'[j][e] = nAttested[j][e]
               \/ (j = k /\ e = d)
      <3> HIDE DEF k, d
      <3>1. k \in Stores
        BY <2>4 DEF k
      <3> QED
        BY <2>3, <2>5, <3>1 DEF StudyTypes
    <2>7. RunsEarned(s)'
      BY <2>2, <2>3, <2>4, <2>5, <2>6 DEF RunsEarned
    <2>8. CellsEarned'
      <3> SUFFICES ASSUME NEW j \in Stores, NEW e \in 1 .. BlockCells PROVE CellEarned(j, e)'
        BY DEF CellsEarned
      <3>1. CellEarned(j, e)
        BY <1>0 DEF CellsEarned
      <3>2. CASE nAttested'[j][e] = nAttested[j][e]
        BY <2>3, <3>1, <3>2 DEF CellEarned
      <3>3. CASE j = k /\ e = d
        BY <2>3, <2>5, <2>6, <3>1, <3>3 DEF CellEarned
      <3> QED
        BY <2>6, <3>2, <3>3
    <2> QED
      BY <2>4, <2>7, <2>8 DEF StudyRetry
  <1>14. ASSUME NEW s \in Rivals, Study!Attempt(s)
         PROVE  StudyRetry'
    <2> DEFINE k == Study!Store(s)
               d == cmd[s].cell
               done == nEvidence[k][d]
    <2>0. /\ Study!Running(s) /\ cmd[s].at = "cell" /\ UNCHANGED <<nAttested, nLease>>
          /\ d \in 1 .. BlockCells /\ k \in Stores /\ cmd[s].repeat \in {1, 2}
      BY <1>0, <1>14 DEF Study!Attempt, Study!Running, Command, RunsAlone
    <2>1. done \in Seq(Study!Origins)
      BY <2>0 DEF StudyTypes
    <2>2. CASE /\ cmd[s].repeat <= Len(done) /\ UNCHANGED nEvidence
               /\ cmd' = [cmd EXCEPT ![s] = Study!After(s, done[cmd[s].repeat])]
      <3>1. PICK o : o = done[cmd[s].repeat]
        OBVIOUS
      <3>2. PICK c : c = Study!After(s, o)
        OBVIOUS
      <3>3. /\ c \in Command /\ c.phase = cmd[s].phase /\ c.run = cmd[s].run
            /\ c.at \in {"health", "release", "cell"}
            /\ c.at = "health" => o = "environment" /\ c.repeat = 1 /\ c.cell = cmd[s].cell
            /\ c.at = "cell" => c.repeat = 1
        BY <2>0, <3>2, StudyAfter
      <3>4. c.at = "health" => Len(done) > 0 /\ done[1] = "environment"
        <4>1. Study!After(s, o).at = "health" => cmd[s].repeat = 1
          BY <2>0 DEF Study!After
        <4> QED
          BY <2>1, <2>2, <3>1, <3>2, <3>3, <4>1
      <3> QED
        BY <1>10, <2>0, <2>2, <3>1, <3>2, <3>3, <3>4 DEF RunAts
    <2>3. CASE UNCHANGED nEvidence /\ cmd' = [cmd EXCEPT ![s].at = "release"]
      <3> DEFINE c == [cmd[s] EXCEPT !.at = "release"]
      <3>1. c \in Command /\ c.at = "release" /\ c.phase = cmd[s].phase /\ c.run = cmd[s].run
        BY <1>9, <2>0 DEF RunAts
      <3>2. cmd' = [cmd EXCEPT ![s] = c]
        BY <2>3
      <3> HIDE DEF c
      <3> QED
        BY <1>10, <2>0, <2>3, <3>1, <3>2 DEF RunAts
    <2>4. CASE /\ cmd[s].repeat > Len(done)
               /\ \E o \in Study!Produced(cmd[s].phase) :
                    /\ nEvidence' = [nEvidence EXCEPT ![k][d] = Append(@, o)]
                    /\ cmd' = [cmd EXCEPT ![s] = Study!After(s, o)]
      <3>1. PICK o \in Study!Origins : /\ nEvidence' = [nEvidence EXCEPT ![k][d] = Append(done, o)]
                                       /\ cmd' = [cmd EXCEPT ![s] = Study!After(s, o)]
        BY <2>4, StudyProduced
      <3>2. PICK c : c = Study!After(s, o)
        OBVIOUS
      <3>3. /\ c \in Command /\ c.phase = cmd[s].phase /\ c.run = cmd[s].run
            /\ c.at \in {"health", "release", "cell"}
            /\ c.at = "health" => o = "environment" /\ c.repeat = 1 /\ c.cell = cmd[s].cell
            /\ c.at = "cell" => c.repeat = 1
        BY <2>0, <3>2, StudyAfter
      <3>4. /\ RunsAlone' /\ Study!Store(s)' = Study!Store(s) /\ cmd'[s] = c
                 /\ Study!Store(s) \in Stores
            /\ \A t \in Rivals : t # s => RunsEarned(t)'
        BY <2>0, <3>1, <3>2, <3>3, StudyGoesOn DEF RunAts
      <3>5. PICK new : new = Append(done, o)
        OBVIOUS
      <3>6. /\ new \in Seq(Study!Origins) /\ Len(new) = Len(done) + 1 /\ new[Len(done) + 1] = o
            /\ Len(done) > 0 => new[1] = done[1]
        BY <2>1, <3>5, StudyAppend
      <3>7. /\ nEvidence'[k][d] = new
            /\ \A j \in Stores, e \in 1 .. BlockCells : nEvidence'[j][e] = nEvidence[j][e]
                 \/ (j = k /\ e = d)
        <4> HIDE DEF k, d, done
        <4> QED
          BY <2>0, <3>1, <3>5 DEF StudyTypes
      <3>8. \/ cmd[s].repeat = 1 /\ Len(done) = 0
            \/ cmd[s].repeat = 2 /\ Len(done) = 1 /\ done[1] = "environment"
                 /\ nAttested[k][d] = "whole"
        <4>1. Len(done) \in Nat
          BY <2>1
        <4>2. cmd[s].repeat = 2 => Len(done) > 0 /\ done[1] = "environment"
              /\ nAttested[k][d] = "whole"
          BY <1>0, <2>0 DEF RunsEarned
        <4>3. cmd[s].repeat > Len(done) /\ cmd[s].repeat \in {1, 2}
          BY <2>0, <2>4
        <4>4. PICK n \in Nat : n = Len(done)
          BY <4>1
        <4>5. CASE cmd[s].repeat = 1
          <5>1. n = 0
            BY <4>3, <4>4, <4>5
          <5> QED
            BY <4>4, <4>5, <5>1
        <4>6. CASE cmd[s].repeat = 2
          <5>1. n < 2
            BY <4>3, <4>4, <4>6
          <5>2. Len(done) > 0 /\ done[1] = "environment" /\ nAttested[k][d] = "whole"
            BY <4>2, <4>6
          <5>3. n > 0
            BY <4>4, <5>2
          <5>4. n = 1
            BY <5>1, <5>3
          <5> QED
            BY <4>4, <4>6, <5>2, <5>4
        <4> QED
          BY <4>3, <4>5, <4>6
      <3>9. CellEarned(k, d)
        BY <1>0, <2>0 DEF CellsEarned
      <3>10. CellsEarned'
        <4> SUFFICES ASSUME NEW j \in Stores, NEW e \in 1 .. BlockCells PROVE CellEarned(j, e)'
          BY DEF CellsEarned
        <4>1. CASE nEvidence'[j][e] = nEvidence[j][e]
          <5>1. CellEarned(j, e) /\ nAttested' = nAttested
            BY <1>0, <2>0 DEF CellsEarned
          <5> QED
            BY <4>1, <5>1 DEF CellEarned
        <4>2. CASE j = k /\ e = d
          <5>1. nEvidence'[j][e] = new /\ nAttested'[j][e] = nAttested[k][d]
            BY <2>0, <3>7, <4>2
          <5>2. CASE Len(done) = 0
            <6>1. Len(new) = 1 /\ nAttested[k][d] = "none"
              BY <2>0, <3>6, <3>9, <5>2 DEF CellEarned, StudyTypes
            <6> HIDE DEF k, d, done
            <6> QED
              BY <5>1, <6>1 DEF CellEarned
          <5>3. CASE Len(done) = 1 /\ done[1] = "environment" /\ nAttested[k][d] = "whole"
            <6>1. Len(new) = 2 /\ new[1] = "environment"
              BY <3>6, <5>3
            <6> HIDE DEF k, d, done
            <6> QED
              BY <5>1, <5>3, <6>1 DEF CellEarned
          <5> QED
            BY <3>8, <5>2, <5>3
        <4> QED
          BY <3>7, <4>1, <4>2
      <3>11. c.at = "health" => Len(new) > 0 /\ new[1] = "environment"
        <4>1. Study!After(s, o).at = "health" => cmd[s].repeat = 1
          BY <2>0 DEF Study!After
        <4> QED
          BY <3>2, <3>3, <3>6, <3>8, <4>1
      <3>12. RunsEarned(s)'
        BY <3>3, <3>4, <3>7, <3>11 DEF RunsEarned
      <3> QED
        BY <3>4, <3>10, <3>12 DEF StudyRetry
    <2> QED
      BY <1>14, <2>2, <2>3, <2>4 DEF Study!Attempt
  <1> QED
    BY <1>2, <1>4, <1>5, <1>7, <1>8, <1>11, <1>12, <1>13, <1>14 DEF Study!Next, Study!Step

\* Gates are only ever added.
LEMMA StudyGrows == ASSUME StudyTypes, [Study!Next]_(Study!vars) PROVE states \subseteq states'
  BY
  DEF Study!Next, Study!Step, Study!vars, Study!Authorize, Study!VerifyRelease, Study!RemoveLease,
      Study!StartRun, Study!SealShakeout, Study!Seal, Study!Analyze, Study!Describe, Study!Sealing,
      Study!Attempt, Study!VerifyHealth, Study!Attest, Study!Mark, Study!Release, Study!Kill,
      Study!PublishArtifact, Study!PublishState

\* Which steps write a repeat.
LEMMA StudyWrites ==
  ASSUME [Study!Next]_(Study!vars)
  PROVE  \/ UNCHANGED nEvidence
         \/ \E s \in Rivals : \E o \in Study!Origins :
              LET done == nEvidence[Study!Store(s)][cmd[s].cell] IN
              /\ cmd[s].at = "cell" /\ cmd[s].repeat > Len(done)
              /\ nEvidence' = [nEvidence EXCEPT ![Study!Store(s)][cmd[s].cell] = Append(done, o)]
  <1>1. ASSUME NEW s \in Rivals, Study!Attempt(s), nEvidence' # nEvidence
        PROVE  \E o \in Study!Origins :
                 LET done == nEvidence[Study!Store(s)][cmd[s].cell] IN
                 /\ cmd[s].at = "cell" /\ cmd[s].repeat > Len(done)
                 /\ nEvidence' = [nEvidence EXCEPT ![Study!Store(s)][cmd[s].cell] = Append(done, o)]
    BY <1>1, StudyProduced DEF Study!Attempt
  <1>2. ASSUME NEW s \in Rivals, Study!Next, ~\E t \in Rivals : Study!Attempt(t)
        PROVE  UNCHANGED nEvidence
    BY <1>2
    DEF Study!Next, Study!Step, Study!Authorize, Study!VerifyRelease, Study!RemoveLease,
        Study!StartRun, Study!SealShakeout, Study!Seal, Study!Analyze, Study!Describe,
        Study!Sealing, Study!VerifyHealth, Study!Attest, Study!Mark, Study!Release, Study!Kill,
        Study!PublishArtifact, Study!PublishState
  <1>3. CASE Rivals = {}
    BY <1>3 DEF Study!Next, Study!vars, Study!Authorize, Study!VerifyRelease, Study!RemoveLease
  <1> QED
    BY <1>1, <1>2, <1>3 DEF Study!vars

\* No repeat is written behind a valid one.
LEMMA StudyRests ==
  ASSUME StudyTypes, StudyRetry, [Study!Next]_(Study!vars), NEW p, NEW r, Rests(p, r)
  PROVE  Rests(p, r)'
  <1>1. CASE p \notin Study!Executed
    BY <1>1 DEF Rests
  <1>2. CASE p \in Study!Executed
    <2> DEFINE k == <<p, r>>
    <2>1. k \in Stores /\ Sound(k)
      BY <1>2 DEF Rests
    <2> SUFFICES ASSUME NEW c \in 1 .. BlockCells
                 PROVE  /\ Len(nEvidence'[k][c]) > 0
                        /\ nEvidence'[k][c][Len(nEvidence'[k][c])] = "valid"
      BY <2>1 DEF Rests, Sound
    <2>2. Len(nEvidence[k][c]) > 0 /\ nEvidence[k][c][Len(nEvidence[k][c])] = "valid"
      BY <2>1 DEF Sound
    <2>3. ASSUME NEW s \in Rivals, NEW o \in Study!Origins, cmd[s].at = "cell",
                 cmd[s].repeat > Len(nEvidence[Study!Store(s)][cmd[s].cell]),
                 nEvidence' = [nEvidence EXCEPT ![Study!Store(s)][cmd[s].cell] =
                                Append(nEvidence[Study!Store(s)][cmd[s].cell], o)]
          PROVE  nEvidence'[k][c] = nEvidence[k][c]
      <3> DEFINE j == Study!Store(s)
                 d == cmd[s].cell
                 done == nEvidence[j][d]
      <3>1. ~(j = k /\ d = c)
        <4> SUFFICES ASSUME j = k, d = c PROVE FALSE
          OBVIOUS
        <4>1. Len(done) > 0 /\ done[Len(done)] = "valid"
          BY <2>2
        <4>2. cmd[s].repeat \in {1, 2} /\ cmd[s].repeat > Len(done) /\ Len(done) \in Nat
          BY <2>1, <2>3 DEF StudyTypes, Command
        <4>3. PICK n \in Nat : n = Len(done)
          BY <4>2
        <4>4. n > 0
          BY <4>1, <4>3
        <4>5. cmd[s].repeat > n /\ cmd[s].repeat \in {1, 2}
          BY <4>2, <4>3
        <4>6. cmd[s].repeat = 2
          BY <4>4, <4>5
        <4>7. n = 1
          BY <4>4, <4>5, <4>6
        <4>8. done[1] = "environment"
          BY <2>3, <4>6 DEF StudyRetry, RunsEarned
        <4> QED
          BY <4>1, <4>3, <4>7, <4>8
      <3>2. nEvidence' = [nEvidence EXCEPT ![j][d] = Append(done, o)]
        BY <2>3
      <3> HIDE DEF j, d, done
      <3> QED
        BY <2>1, <3>1, <3>2 DEF StudyTypes
    <2>4. nEvidence'[k][c] = nEvidence[k][c]
      <3>1. CASE UNCHANGED nEvidence
        BY <3>1
      <3>2. CASE ~UNCHANGED nEvidence
        <4>1. PICK s \in Rivals, o \in Study!Origins :
                /\ cmd[s].at = "cell" /\ cmd[s].repeat > Len(nEvidence[Study!Store(s)][cmd[s].cell])
                /\ nEvidence' = [nEvidence EXCEPT ![Study!Store(s)][cmd[s].cell] =
                                  Append(nEvidence[Study!Store(s)][cmd[s].cell], o)]
          BY <3>2, StudyWrites
        <4> QED
          BY <2>3, <4>1
      <3> QED
        BY <3>1, <3>2
    <2> QED
      BY <2>2, <2>4
  <1> QED
    BY <1>1, <1>2

\* What a sealing command asks of a store.
LEMMA StudyDecides ==
  ASSUME StudyTypes, NEW p \in Study!Executed, NEW r \in StudyRuns, Study!Decides(p, r)
  PROVE  Rests(p, r)
  <1>1. <<p, r>> \in Stores
    BY DEF Stores
  <1>2. \A c \in 1 .. BlockCells : nEvidence[<<p, r>>][c] \in Seq(Study!Origins)
    BY <1>1 DEF StudyTypes
  <1>3. \A q \in Seq(Study!Origins) : q # <<>> => Len(q) > 0
    OBVIOUS
  <1>4. \A c \in 1 .. BlockCells : /\ nEvidence[<<p, r>>][c] # <<>>
                                   /\ nEvidence[<<p, r>>][c][Len(nEvidence[<<p, r>>][c])] = "valid"
    BY DEF Study!Decides, Study!Final
  <1> QED
    BY <1>1, <1>2, <1>3, <1>4 DEF Rests, Sound

\* A gate put behind the others.
LEMMA StudyGate ==
  ASSUME StudyTypes, StatesEarned, NEW st \in states, NEW r \in StudyRuns \cup {Study!Verified},
         Study!Current(st) # "none", Rests(Study!Current(st), r)
  PROVE  LET new == Append(st, r) IN Len(new) <= 6
    /\ \A i \in DOMAIN new : Rests(Study!Phases[i], new[i])
  <1> DEFINE new == Append(st, r)
  <1>1. st \in Seq(StudyRuns \cup {Study!Verified}) /\ Len(Study!Phases) = 6
    BY DEF StudyTypes, Gates, Study!Phases
  <1>2. Len(st) < 6 /\ Study!Current(st) = Study!Phases[Len(st) + 1]
    BY <1>1 DEF Study!Current
  <1>3. Len(new) = Len(st) + 1 /\ DOMAIN new = 1 .. Len(st) + 1 /\ Len(st) \in Nat
    BY <1>1
  <1>4. ASSUME NEW i \in DOMAIN new PROVE Rests(Study!Phases[i], new[i])
    <2>1. CASE i = Len(st) + 1
      BY <1>1, <1>2, <2>1
    <2>2. CASE i # Len(st) + 1
      <3>1. i \in DOMAIN st /\ new[i] = st[i]
        BY <1>1, <1>3, <1>4, <2>2
      <3> QED
        BY <3>1 DEF StatesEarned
    <2> QED
      BY <2>1, <2>2
  <1> QED
    BY <1>2, <1>3, <1>4

\* A published state rests on runs that ended valid.
LEMMA StudyStatesStep ==
  ASSUME StudyTypes, StudyTypes', StudyRetry, StudySeal, [Study!Next]_(Study!vars)
    PROVE StatesEarned'
  <1>0. StatesEarned /\ \A s \in Rivals : SealsEarned(s) /\ cmd[s] \in Command
    BY DEF StudySeal, StudyTypes
  <1>1. \A st \in states : Len(st) <= 6 /\ \A i \in DOMAIN st : Rests(Study!Phases[i], st[i])'
    <2> SUFFICES ASSUME NEW st \in states, NEW i \in DOMAIN st
                 PROVE  Rests(Study!Phases[i], st[i])'
      BY <1>0 DEF StatesEarned
    <2>1. PICK p, r : p = Study!Phases[i] /\ r = st[i]
      OBVIOUS
    <2>2. Rests(p, r)
      BY <1>0, <2>1 DEF StatesEarned
    <2>3. Rests(p, r)'
      BY <2>2, StudyRests
    <2> QED
      BY <2>1, <2>3
  <1>2. \A r \in shaken : Rests("shakeout", r)'
    BY <1>0, StudyRests DEF StatesEarned
  <1>3. ASSUME states' = states, shaken' = shaken PROVE StatesEarned'
    BY <1>0, <1>1, <1>2, <1>3 DEF StatesEarned
  <1>4. ASSUME NEW st \in states, NEW r \in StudyRuns \cup {Study!Verified},
        Study!Current(st) # "none",
               Rests(Study!Current(st), r), states' = states \cup {Append(st, r)}, shaken' = shaken
        PROVE  StatesEarned'
    <2>1. PICK new : new = Append(st, r)
      OBVIOUS
    <2>2. Len(new) <= 6 /\ \A i \in DOMAIN new : Rests(Study!Phases[i], new[i])
      BY <1>0, <1>4, <2>1, StudyGate
    <2>3. \A i \in DOMAIN new : Rests(Study!Phases[i], new[i])'
      <3> SUFFICES ASSUME NEW i \in DOMAIN new PROVE Rests(Study!Phases[i], new[i])'
        OBVIOUS
      <3>1. PICK p, q : p = Study!Phases[i] /\ q = new[i]
        OBVIOUS
      <3>2. Rests(p, q)'
        BY <2>2, <3>1, StudyRests
      <3> QED
        BY <3>1, <3>2
    <2> QED
      BY <1>0, <1>1, <1>2, <1>4, <2>1, <2>2, <2>3 DEF StatesEarned
  <1>5. CASE Study!Authorize
    <2>1. states' = {<<>>} /\ shaken' = shaken /\ shaken # {}
      BY <1>5 DEF Study!Authorize, Study!ShakenOut
    <2>2. Len(<<>>) <= 6 /\ DOMAIN <<>> = {}
      OBVIOUS
    <2> QED
      BY <1>2, <2>1, <2>2 DEF StatesEarned
  <1>6. CASE Study!VerifyRelease
    <2>1. PICK st \in states : Study!Verifies(st)
          /\ states' = states \cup {Append(st, Study!Verified)}
      BY <1>6 DEF Study!VerifyRelease
    <2>2. Study!Current(st) = "release" /\ Rests("release", Study!Verified)
      BY <2>1 DEF Study!Verifies, Rests, Study!Executed, Study!Sealable
    <2> QED
      BY <1>4, <1>6, <2>1, <2>2 DEF Study!VerifyRelease
  <1>7. ASSUME NEW s \in Rivals, Study!PublishState(s) PROVE StatesEarned'
    <2>1. /\ cmd[s].run \in StudyRuns /\ Rests(cmd[s].phase, cmd[s].run)
          /\ cmd[s].state \in states /\ cmd[s].phase = Study!Current(cmd[s].state)
               /\ cmd[s].phase # "none"
      BY <1>0, <1>7 DEF Study!PublishState, SealsEarned
    <2> QED
      BY <1>4, <1>7, <2>1 DEF Study!PublishState
  <1>8. ASSUME NEW s \in Rivals, Study!PublishArtifact(s) PROVE StatesEarned'
    <2>1. CASE cmd[s].phase = "shakeout"
      <3>1. PICK r : r = cmd[s].run
        OBVIOUS
      <3>2. Rests("shakeout", r)
        BY <1>0, <1>8, <2>1, <3>1 DEF Study!PublishArtifact, SealsEarned
      <3>3. Rests("shakeout", r)'
        BY <3>2, StudyRests
      <3>4. states' = states /\ shaken' = shaken \cup {r}
        BY <1>8, <2>1, <3>1 DEF Study!PublishArtifact
      <3> QED
        BY <1>0, <1>1, <1>2, <3>3, <3>4 DEF StatesEarned
    <2>2. CASE cmd[s].phase # "shakeout"
      BY <1>3, <1>8, <2>2 DEF Study!PublishArtifact
    <2> QED
      BY <2>1, <2>2
  <1>9. CASE UNCHANGED Study!vars \/ Study!RemoveLease
    BY <1>3, <1>9 DEF Study!vars, Study!RemoveLease
  <1>10. ASSUME NEW s \in Rivals,
                \/ Study!StartRun(s) \/ Study!SealShakeout(s) \/ Study!Seal(s) \/ Study!Analyze(s)
                     \/ Study!Describe(s) \/ Study!Kill(s)
                \/ Study!Attempt(s) \/ Study!VerifyHealth(s) \/ Study!Attest(s) \/ Study!Mark(s)
                     \/ Study!Release(s)
         PROVE  StatesEarned'
    BY <1>3, <1>10
    DEF Study!StartRun, Study!SealShakeout, Study!Seal, Study!Analyze, Study!Describe,
        Study!Sealing, Study!Kill, Study!Attempt, Study!VerifyHealth, Study!Attest, Study!Mark,
        Study!Release
  <1> QED
    BY <1>5, <1>6, <1>7, <1>8, <1>9, <1>10 DEF Study!Next, Study!Step

\* Every step keeps what is known of the seals.
LEMMA StudySealStep ==
  ASSUME StudyTypes, StudyTypes', StudyRetry, StudySeal, [Study!Next]_(Study!vars) PROVE StudySeal'
  <1>0. StatesEarned /\ \A s \in Rivals : SealsEarned(s) /\ cmd[s] \in Command
    BY DEF StudySeal, StudyTypes
  <1>1. StatesEarned'
    BY StudyStatesStep
  <1>2. states \subseteq states'
    BY StudyGrows
  <1>3. ASSUME NEW t \in Rivals, cmd'[t] = cmd[t] PROVE SealsEarned(t)'
    <2>1. PICK p, r : p = cmd[t].phase /\ r = cmd[t].run
      OBVIOUS
    <2>2. Rests(p, r) => Rests(p, r)'
      BY StudyRests
    <2>3. Rests(cmd[t].phase, cmd[t].run) => Rests(cmd[t].phase, cmd[t].run)'
      BY <1>3, <2>1, <2>2
    <2> QED
      BY <1>0, <1>2, <1>3, <2>3 DEF SealsEarned
  <1>4. ASSUME NEW s \in Rivals, NEW c, cmd' = [cmd EXCEPT ![s] = c],
               c.at \notin {"artifact", "state"}
        PROVE  StudySeal'
    <2>1. cmd'[s] = c /\ \A t \in Rivals : t # s => cmd'[t] = cmd[t]
      BY <1>4 DEF StudyTypes
    <2>2. SealsEarned(s)'
      BY <1>4, <2>1 DEF SealsEarned
    <2> QED
      BY <1>1, <1>3, <2>1, <2>2 DEF StudySeal
  <1>5. ASSUME UNCHANGED cmd PROVE StudySeal'
    BY <1>1, <1>3, <1>5 DEF StudySeal
  <1>6. ASSUME NEW s \in Rivals, NEW p \in Study!Executed \cup {"primary_analysis"},
               NEW st, NEW r \in StudyRuns, Study!Sealing(s, p, st, r), Rests(p, r),
               p # "shakeout" => st \in states /\ p = Study!Current(st)
        PROVE  StudySeal'
    <2> DEFINE c == [Study!Idle EXCEPT !.at = "artifact", !.phase = p, !.state = st, !.run = r]
    <2>1. c.at = "artifact" /\ c.phase = p /\ c.state = st /\ c.run = r
      BY DEF Study!Idle
    <2>2. cmd' = [cmd EXCEPT ![s] = c]
      BY <1>6 DEF Study!Sealing
    <2>3. cmd'[s] = c /\ \A t \in Rivals : t # s => cmd'[t] = cmd[t]
      BY <2>2 DEF StudyTypes
    <2>4. Rests(p, r)'
      BY <1>6, StudyRests
    <2>5. p # "none"
      BY <1>6 DEF Study!Executed, Study!Sealable
    <2> HIDE DEF c
    <2>6. SealsEarned(s)'
      BY <1>2, <1>6, <2>1, <2>3, <2>4, <2>5 DEF SealsEarned
    <2> QED
      BY <1>1, <1>3, <2>3, <2>6 DEF StudySeal
  <1>7. ASSUME NEW s \in Rivals, Study!SealShakeout(s) PROVE StudySeal'
    <2>1. PICK r \in StudyRuns : Study!Decides("shakeout", r)
          /\ Study!Sealing(s, "shakeout", <<>>, r)
      BY <1>7 DEF Study!SealShakeout, Study!ShakeoutPasses
    <2>2. "shakeout" \in Study!Executed
      BY DEF Study!Executed
    <2> QED
      BY <1>6, <2>1, <2>2, StudyDecides
  <1>8. ASSUME NEW s \in Rivals, Study!Seal(s) \/ Study!Describe(s) PROVE StudySeal'
    <2>1. PICK st \in states, r \in StudyRuns :
            /\ Study!Current(st) \in Study!Executed /\ Study!Complete(Study!Current(st), r)
                 /\ Study!Sealing(s, Study!Current(st), st, r)
      BY <1>8 DEF Study!Seal, Study!PhaseSeals, Study!Describe, Study!Describes, Study!Executed
    <2>2. PICK p \in Study!Executed : p = Study!Current(st)
      BY <2>1
    <2>3. Rests(p, r)
      BY <2>1, <2>2, StudyDecides DEF Study!Complete
    <2> QED
      BY <1>6, <2>1, <2>2, <2>3
  <1>9. ASSUME NEW s \in Rivals, Study!Analyze(s) PROVE StudySeal'
    <2>1. PICK st \in states, r \in StudyRuns :
            Study!Current(st) = "primary_analysis" /\ Study!Sealing(s, "primary_analysis", st, r)
      BY <1>9 DEF Study!Analyze, Study!Analyzes
    <2>2. Rests("primary_analysis", r)
      BY DEF Rests, Study!Executed, Study!Sealable
    <2> QED
      BY <1>6, <2>1, <2>2
  <1>10. ASSUME NEW s \in Rivals, Study!PublishArtifact(s) PROVE StudySeal'
    <2>1. CASE cmd[s].phase = "shakeout"
      BY <1>4, <1>10, <2>1 DEF Study!PublishArtifact, Study!Idle
    <2>2. CASE cmd[s].phase # "shakeout"
      <3> DEFINE c == [cmd[s] EXCEPT !.at = "state"]
      <3>1. cmd' = [cmd EXCEPT ![s] = c] /\ cmd[s].at = "artifact"
        BY <1>10, <2>2 DEF Study!PublishArtifact
      <3>2. c.at = "state" /\ c.phase = cmd[s].phase /\ c.run = cmd[s].run /\ c.state = cmd[s].state
        BY <1>0 DEF Command
      <3> HIDE DEF c
      <3>3. cmd'[s] = c /\ \A t \in Rivals : t # s => cmd'[t] = cmd[t]
        BY <3>1 DEF StudyTypes
      <3>4. PICK p, r : p = cmd[s].phase /\ r = cmd[s].run
        OBVIOUS
      <3>5. Rests(p, r)
        BY <1>0, <3>1, <3>4 DEF SealsEarned
      <3>6. Rests(p, r)'
        BY <3>5, StudyRests
      <3>7. SealsEarned(s)'
        BY <1>0, <1>2, <2>2, <3>1, <3>2, <3>3, <3>4, <3>6 DEF SealsEarned
      <3> QED
        BY <1>1, <1>3, <3>3, <3>7 DEF StudySeal
    <2> QED
      BY <2>1, <2>2
  <1>11. ASSUME NEW s \in Rivals, Study!Release(s) \/ Study!Kill(s) \/ Study!PublishState(s)
    PROVE StudySeal'
    BY <1>4, <1>11 DEF Study!Release, Study!Kill, Study!PublishState, Study!Idle
  <1>12. ASSUME NEW s \in Rivals, Study!VerifyHealth(s) \/ Study!Attest(s) \/ Study!Mark(s)
    PROVE StudySeal'
    <2>1. \E at \in {"cell", "attest", "mark", "release"} :
            \/ cmd' = [cmd EXCEPT ![s] = [cmd[s] EXCEPT !.at = at]]
            \/ cmd' = [cmd EXCEPT ![s] = [cmd[s] EXCEPT !.at = at, !.repeat = 2]]
      BY <1>12 DEF Study!VerifyHealth, Study!Attest, Study!Mark, StudyTypes
    <2> DEFINE old == cmd[s]
    <2>2. PICK at \in {"cell", "attest", "mark", "release"} :
            \/ cmd' = [cmd EXCEPT ![s] = [old EXCEPT !.at = at]]
            \/ cmd' = [cmd EXCEPT ![s] = [old EXCEPT !.at = at, !.repeat = 2]]
      BY <2>1
    <2>3. old \in Command
      BY <1>0
    <2> HIDE DEF old
    <2>4. [old EXCEPT !.at = at].at = at /\ [old EXCEPT !.at = at, !.repeat = 2].at = at
      BY <2>3 DEF Command
    <2>5. at \notin {"artifact", "state"}
      OBVIOUS
    <2> QED
      BY <1>4, <2>2, <2>4, <2>5
  <1>13. ASSUME NEW s \in Rivals, Study!StartRun(s) PROVE StudySeal'
    <2>1. PICK t, r :
            cmd' = [cmd EXCEPT ![s] = [Study!Idle EXCEPT !.at = "cell", !.phase = t[1],
              !.state = t[2], !.run = r]]
      BY <1>13 DEF Study!StartRun
    <2>2. [Study!Idle EXCEPT !.at = "cell", !.phase = t[1], !.state = t[2], !.run = r].at = "cell"
      BY DEF Study!Idle
    <2> QED
      BY <1>4, <2>1, <2>2
  <1>14. ASSUME NEW s \in Rivals, Study!Attempt(s) PROVE StudySeal'
    <2>1. \/ cmd' = [cmd EXCEPT ![s] = [cmd[s] EXCEPT !.at = "release"]]
          \/ \E o : cmd' = [cmd EXCEPT ![s] = Study!After(s, o)]
      BY <1>14 DEF Study!Attempt
    <2>2. \A o : Study!After(s, o).at \in {"health", "release", "cell"}
      BY <1>14, StudyAfter DEF Study!Attempt
    <2>3. [cmd[s] EXCEPT !.at = "release"].at = "release"
      BY <1>0 DEF Command
    <2>4. PICK c : cmd' = [cmd EXCEPT ![s] = c] /\ c.at \in {"health", "release", "cell"}
      BY <2>1, <2>2, <2>3
    <2> QED
      BY <1>4, <2>4
  <1>15. CASE UNCHANGED Study!vars \/ Study!Authorize \/ Study!VerifyRelease \/ Study!RemoveLease
    BY <1>5, <1>15 DEF Study!vars, Study!Authorize, Study!VerifyRelease, Study!RemoveLease
  <1> QED
    BY <1>7, <1>8, <1>9, <1>10, <1>11, <1>12, <1>13, <1>14, <1>15 DEF Study!Next, Study!Step

\* The inductive invariant holds for good.
LEMMA StudyInvStep == ASSUME StudyInv, [Study!Next]_(Study!vars) PROVE StudyInv'
  BY StudyTypesStep, StudyRetryStep, StudySealStep DEF StudyInv

\* The invariant gives both promises.
LEMMA StudyMeans == ASSUME StudyInv PROVE Study!SealedStands /\ Study!RetryEarned
  <1>0. StudyTypes /\ StatesEarned /\ CellsEarned
    BY DEF StudyInv, StudySeal, StudyRetry
  <1>1. ASSUME NEW p \in Study!Executed, NEW r, Rests(p, r) PROVE Study!Ended(p, r)
    <2>1. <<p, r>> \in Stores /\ Sound(<<p, r>>)
      BY <1>1 DEF Rests
    <2> SUFFICES ASSUME NEW c \in 1 .. BlockCells
                 PROVE  nEvidence[<<p, r>>][c] # <<>> /\ Study!Final(p, r, c) = "valid"
      BY DEF Study!Ended
    <2>2. Len(nEvidence[<<p, r>>][c]) > 0 /\ Study!Final(p, r, c) = "valid"
      BY <2>1 DEF Sound, Study!Final
    <2> QED
      BY <2>2
  <1>2. \A st \in states : \A i \in DOMAIN st : Study!Phases[i] \in Study!Executed =>
        Study!Ended(Study!Phases[i], st[i])
    BY <1>0, <1>1 DEF StatesEarned
  <1>3. \A r \in shaken : Study!Ended("shakeout", r)
    BY <1>0, <1>1 DEF StatesEarned, Study!Executed
  <1>4. Study!RetryEarned
    <2> SUFFICES ASSUME NEW k \in Stores, NEW c \in 1 .. BlockCells, Len(nEvidence[k][c]) = 2
                 PROVE  nEvidence[k][c][1] = "environment" /\ nAttested[k][c] = "whole"
      BY DEF Study!RetryEarned, Stores
    <2> QED
      BY <1>0 DEF CellsEarned, CellEarned
  <1> QED
    BY <1>0, <1>2, <1>3, <1>4 DEF Study!SealedStands, StatesEarned

\* The sealed gates of the next study stand, and a repeat is earned.
THEOREM StudyHolds == Study!Spec => [](Study!SealedStands /\ Study!RetryEarned)
  <1>1. Study!Init => StudyInv
    BY StudyInit
  <1>2. StudyInv /\ [Study!Next]_(Study!vars) => StudyInv'
    BY StudyInvStep
  <1>3. StudyInv => Study!SealedStands /\ Study!RetryEarned
    BY StudyMeans
  <1> QED
    BY <1>1, <1>2, <1>3, PTL DEF Study!Spec

-----------------------------------------------------------------------------
(* The product validation *)

\* Its constants.
LEMMA ProdConstants ==
  /\ Nil \notin Rivals /\ "stale" \notin Rivals
  /\ StudyCells \in Nat \ {0} /\ GateCells \in 1 .. StudyCells
  BY ProgramsAssumption

\* What is known of a cell, what documents say and where a command may be.
ProdKinds == Product!Outcomes \cup {"none", "retry"}
ProdSeals == [status : {"complete", "terminated"}, evidence : [Product!Ids -> ProdKinds],
  physical : Nat]
ProdDocs  == {Nil} \cup [Product!Gate -> ProdKinds] \cup ProdSeals
ProdWork  == {"attest", "mark", "execute", "running"}
ProdHold  == {"environment", "opening", "cell"} \cup ProdWork
ProdAts   == ProdHold \cup {"closed", "check", "lease", "derive", "payload", "marker"}
ProdCommand == [cmd : {"none", "run", "seal", "analyze", "report", "verify"}, at : ProdAts,
                cell : 1 .. StudyCells + 1, name : Product!Papers \cup {Nil}, doc : ProdDocs]
\* The types.
ProdTypes ==
  /\ pEvidence \in [Product!Ids -> ProdKinds] /\ physical \in Nat
  /\ pPaper \in [Product!Papers -> [file : {"absent", "half", "done"}, doc : ProdDocs]]
  /\ pSup \in [Rivals -> ProdCommand]

\* The gate is published over valid cells; what a seal, and what is derived from it, says.
ProdGate == pPaper["gate"] = [file |-> "done", doc |-> Product!GateDoc] /\ Product!GateValid
ProdConclusive(doc) == /\ doc.evidence = pEvidence /\ (doc.status = "complete" <=> Product!Complete)
                       /\ Product!Complete \/ Product!Invalid # {}
ProdSealed(doc) == Product!Complete /\ pPaper["seal"].file = "done" /\ doc = pPaper["seal"].doc

\* A command d of the supervisor s: it holds the lease, what it works on is open, what
\* it has in hand says what the store says.
ProdAt(s, d) ==
  /\ d.at \in ProdHold => pLease = s /\ d.cmd \in {"run", "seal"}
  /\ d.at \in {"check", "lease"} => d.cmd \in {"run", "seal"}
  /\ d.at = "derive" /\ d.cmd = "seal" => pLease = s
  /\ d.at \in {"payload", "marker"} => d.name \in Product!Papers
  /\ d.at \in {"payload", "marker"} /\ d.name = "gate" => pLease = s /\ d.cmd \in {"run", "seal"}
  /\ d.at = "payload" /\ d.name = "seal" => pLease = s /\ ProdConclusive(d.doc)
  /\ d.at = "payload" /\ d.name \in {"analysis", "report"} => ProdSealed(d.doc)
  /\ d.at = "marker" => Product!Exists(d.name)
  /\ d.at \in ProdWork => /\ d.cell \in Product!Ids /\ pEvidence[d.cell] \in {"none", "retry"}
                               /\ Product!Invalid = {}
                          /\ d.cell \notin Product!Gate => ProdGate
\* What is published, half or whole.
ProdPapers ==
  /\ Product!GateFirst
  /\ Product!Exists("seal") => ProdConclusive(pPaper["seal"].doc)
  /\ \A n \in {"analysis", "report"} : Product!Exists(n) => ProdSealed(pPaper[n].doc)
ProdWho == \A s \in Rivals : ProdAt(s, pSup[s])
\* The inductive invariant.
ProdInv == ProdTypes /\ ProdPapers /\ ProdWho

\* The inductive invariant holds at first.
LEMMA ProdInit == ASSUME Product!Init PROVE ProdInv
  <1>1. ProdTypes
    BY ProdConstants
    DEF Product!Init, ProdTypes, ProdCommand, ProdDocs, ProdKinds, ProdAts, Product!Absent,
        Product!Closed, Product!Enter, Product!Papers, Product!Ids, Product!Outcomes
  <1>2. ProdPapers
    BY
    DEF Product!Init, ProdPapers, Product!GateFirst, Product!Exists, Product!Absent, Product!Papers,
        Product!Ids
  <1>3. ProdWho
    BY DEF Product!Init, ProdWho, ProdAt, Product!Closed, Product!Enter, ProdHold, ProdWork
  <1> QED
    BY <1>1, <1>2, <1>3 DEF ProdInv

\* What the others hold, a step of s leaves to them.
ProdLets(s) == \A t \in Rivals : t # s /\ pLease = t => pLease' = t

\* What is in hand or at work stays so while the store and the documents do.
LEMMA ProdKeeps ==
  ASSUME NEW s \in Rivals, NEW t \in Rivals, NEW d, ProdAt(t, d),
         UNCHANGED <<pEvidence, pPaper>>, pLease = t => pLease' = t
  PROVE  ProdAt(t, d)'
  BY
  DEF ProdAt, ProdConclusive, ProdSealed, ProdGate, Product!Exists, Product!Complete,
      Product!Invalid, Product!GateDoc, Product!GateValid

\* A step of one supervisor that writes nothing.
LEMMA ProdMove ==
  ASSUME ProdInv, NEW s \in Rivals, UNCHANGED <<pEvidence, pPaper>>, physical' \in Nat,
         NEW d \in ProdCommand, pSup' = [pSup EXCEPT ![s] = d], ProdLets(s), ProdAt(s, d)'
  PROVE  ProdInv'
  <1>1. pSup'[s] = d /\ \A t \in Rivals : t # s => pSup'[t] = pSup[t]
    BY DEF ProdInv, ProdTypes
  <1>2. ProdTypes'
    BY DEF ProdInv, ProdTypes
  <1>3. ProdPapers'
    BY
    DEF ProdInv, ProdPapers, Product!GateFirst, Product!GateDoc, Product!GateValid, Product!Exists,
        ProdConclusive, ProdSealed, Product!Complete, Product!Invalid
  <1>4. ASSUME NEW t \in Rivals PROVE ProdAt(t, pSup[t])'
    <2>1. CASE t = s
      BY <1>1, <2>1
    <2>2. CASE t # s
      <3>1. PICK e : e = pSup[t]
        OBVIOUS
      <3>2. ProdAt(t, e)
        BY <3>1 DEF ProdInv, ProdWho
      <3>3. ProdAt(t, e)'
        BY <2>2, <3>2, ProdKeeps DEF ProdLets
      <3> QED
        BY <1>1, <2>2, <3>1, <3>3
    <2> QED
      BY <2>1, <2>2
  <1> QED
    BY <1>2, <1>3, <1>4 DEF ProdInv, ProdWho

\* A command that has nothing in hand and needs no lease.
ProdQuiet(d) == \/ d.at = "closed"
                \/ d.at \in {"check", "lease"} /\ d.cmd \in {"run", "seal"}
                \/ d.at = "derive" /\ d.cmd \in {"analyze", "report", "verify"}

\* A command that has nothing in hand is where it may be, whatever is written.
LEMMA ProdQuietAt == ASSUME NEW s, NEW d, ProdQuiet(d) PROVE ProdAt(s, d)'
  BY DEF ProdQuiet, ProdAt, ProdHold, ProdWork

\* A command that begins is one, at the place where it begins.
LEMMA ProdEnter ==
  ASSUME NEW c \in {"none", "run", "seal", "analyze", "report", "verify"}, NEW at \in ProdAts
  PROVE  Product!Enter(c, at) \in ProdCommand /\ Product!Enter(c, at).at = at
    /\ Product!Enter(c, at).cmd = c
  <1>1. Nil \in ProdDocs /\ 1 \in 1 .. StudyCells + 1
    BY ProdConstants DEF ProdDocs
  <1> QED
    BY <1>1 DEF Product!Enter, ProdCommand

\* How a command hands over, and how it fails.
LEMMA ProdTurn ==
  ASSUME NEW s \in Rivals, NEW c \in {"seal", "analyze", "report", "verify"}, Product!Turn(s, c)
  PROVE  \E d \in ProdCommand : ProdQuiet(d) /\ pSup' = [pSup EXCEPT ![s] = d]
  <1>1. PICK at \in {"lease", "derive"} : at = IF c = "seal" THEN "lease" ELSE "derive"
    OBVIOUS
  <1>2. pSup' = [pSup EXCEPT ![s] = Product!Enter(c, at)]
    BY <1>1 DEF Product!Turn
  <1>3. Product!Enter(c, at) \in ProdCommand /\ Product!Enter(c, at).at = at
        /\ Product!Enter(c, at).cmd = c
    BY ProdEnter DEF ProdAts
  <1> QED
    BY <1>1, <1>2, <1>3 DEF ProdQuiet

\* A command that fails, and the lease it gives back.
LEMMA ProdFails ==
  ASSUME NEW s \in Rivals, Product!Fails(s)
  PROVE  ProdLets(s) /\ \E d \in ProdCommand : ProdQuiet(d) /\ pSup' = [pSup EXCEPT ![s] = d]
  <1>1. ProdLets(s)
    BY DEF Product!Fails, Product!Leave, ProdLets
  <1>2. CASE pSup[s].cmd = "run"
    BY <1>1, <1>2, ProdTurn DEF Product!Fails
  <1>3. CASE pSup[s].cmd # "run"
    <2>1. Product!Closed \in ProdCommand /\ ProdQuiet(Product!Closed)
      BY ProdEnter DEF Product!Closed, ProdQuiet, ProdAts
    <2> QED
      BY <1>1, <1>3, <2>1 DEF Product!Fails
  <1> QED
    BY <1>2, <1>3

\* A step of one supervisor that writes nothing and leaves it quiet.
LEMMA ProdRest ==
  ASSUME ProdInv, NEW s \in Rivals, UNCHANGED <<pEvidence, pPaper>>, physical' \in Nat, ProdLets(s),
         \E d \in ProdCommand : ProdQuiet(d) /\ pSup' = [pSup EXCEPT ![s] = d]
  PROVE  ProdInv'
  <1>1. PICK d \in ProdCommand : ProdQuiet(d) /\ pSup' = [pSup EXCEPT ![s] = d]
    OBVIOUS
  <1>2. ProdAt(s, d)'
    BY <1>1, ProdQuietAt
  <1> QED
    BY <1>1, <1>2, ProdMove

\* A step to another place of the same command, or with a document in hand.
LEMMA ProdGoto ==
  ASSUME ProdInv, NEW s \in Rivals, NEW at \in ProdAts
  PROVE  LET d == [pSup[s] EXCEPT !.at = at] IN
         /\ d \in ProdCommand /\ d.at = at /\ d.cmd = pSup[s].cmd /\ d.cell = pSup[s].cell
         /\ d.name = pSup[s].name /\ d.doc = pSup[s].doc
  BY DEF ProdInv, ProdTypes, ProdCommand

\* A document is taken in hand.
LEMMA ProdPublish ==
  ASSUME ProdInv, NEW s \in Rivals, NEW n \in Product!Papers, NEW doc \in ProdDocs,
    Product!Publish(s, n, doc)
  PROVE  \E d \in ProdCommand :
           /\ pSup' = [pSup EXCEPT ![s] = d] /\ d.at = "payload" /\ d.name = n /\ d.doc = doc
           /\ d.cmd = pSup[s].cmd
  <1> DEFINE old == pSup[s]
             d == [old EXCEPT !.at = "payload", !.name = n, !.doc = doc]
  <1>1. old \in ProdCommand
    BY DEF ProdInv, ProdTypes
  <1>2. pSup' = [pSup EXCEPT ![s] = d]
    BY DEF Product!Publish
  <1> HIDE DEF old
  <1>3. d \in ProdCommand /\ d.at = "payload" /\ d.name = n /\ d.doc = doc /\ d.cmd = old.cmd
    BY <1>1 DEF ProdCommand, ProdAts
  <1> QED
    BY <1>2, <1>3 DEF old

\* The document of the gate is one.
LEMMA ProdGateDoc == ASSUME ProdTypes PROVE Product!GateDoc \in ProdDocs
  <1>1. Product!GateDoc \in [Product!Gate -> ProdKinds]
    BY ProdConstants DEF Product!GateDoc, Product!Gate, Product!Ids, ProdTypes
  <1> QED
    BY <1>1 DEF ProdDocs

\* So is the seal.
LEMMA ProdSealDoc ==
  ASSUME ProdTypes, NEW status \in {"complete", "terminated"}
  PROVE  Product!SealDoc(status) \in ProdDocs /\ Product!SealDoc(status).status = status
         /\ Product!SealDoc(status).evidence = pEvidence
  BY DEF ProdTypes, Product!SealDoc, ProdDocs, ProdSeals

\* A complete study has no cell that ended badly, and one that has is not complete.
LEMMA ProdInvalid == Product!Invalid # {} => ~Product!Complete
  BY DEF Product!Invalid, Product!Complete

\* A seal is taken in hand by the holder of the lease, once the study is conclusive.
LEMMA ProdSealing ==
  ASSUME ProdInv, NEW s \in Rivals, NEW status \in {"complete", "terminated"},
         Product!PublishSeal(s, status), pLease = s,
         status = "terminated" => Product!Invalid # {}, UNCHANGED <<pEvidence, pPaper>>,
           physical' \in Nat
  PROVE  ProdInv'
  <1>1. CASE ~Product!MaySeal(status)
    BY <1>1, ProdFails, ProdRest DEF Product!PublishSeal
  <1>2. CASE Product!MaySeal(status)
    <2>1. Product!SealDoc(status) \in ProdDocs /\ Product!SealDoc(status).status = status
          /\ Product!SealDoc(status).evidence = pEvidence
      BY ProdSealDoc DEF ProdInv
    <2>2. PICK doc \in ProdDocs : doc = Product!SealDoc(status)
      BY <2>1
    <2>3. Product!Publish(s, "seal", doc) /\ pLease' = pLease
      BY <1>2, <2>2 DEF Product!PublishSeal
    <2>4. "seal" \in Product!Papers
      BY DEF Product!Papers
    <2>5. PICK d \in ProdCommand :
            /\ pSup' = [pSup EXCEPT ![s] = d] /\ d.at = "payload" /\ d.name = "seal" /\ d.doc = doc
      BY <2>3, <2>4, ProdPublish
    <2>6. ProdConclusive(doc)
      BY <1>2, <2>1, <2>2, ProdInvalid DEF ProdConclusive, Product!MaySeal
    <2>7. ProdConclusive(doc)'
      BY <2>6 DEF ProdConclusive, Product!Complete, Product!Invalid
    <2>8. ProdAt(s, d)'
      BY <2>3, <2>4, <2>5, <2>7 DEF ProdAt, ProdHold, ProdWork
    <2>9. ProdLets(s)
      BY <2>3 DEF ProdLets
    <2> QED
      BY <2>5, <2>8, <2>9, ProdMove
  <1> QED
    BY <1>1, <1>2

\* A step of the holder of the lease to another place, which writes nothing.
LEMMA ProdSteady ==
  ASSUME ProdInv, NEW s \in Rivals, NEW at \in {"environment", "opening", "cell", "derive"},
         Product!Goto(s, at), UNCHANGED <<pEvidence, pPaper>>, physical' \in Nat, ProdLets(s),
         pLease' = s, pSup[s].cmd \in {"run", "seal"}
  PROVE  ProdInv'
  <1>1. PICK d : d = [pSup[s] EXCEPT !.at = at]
    OBVIOUS
  <1>2. d \in ProdCommand /\ d.at = at /\ d.cmd = pSup[s].cmd
    BY <1>1, ProdGoto DEF ProdAts, ProdHold
  <1>3. pSup' = [pSup EXCEPT ![s] = d]
    BY <1>1 DEF Product!Goto
  <1>4. ProdAt(s, d)'
    BY <1>2 DEF ProdAt, ProdHold, ProdWork
  <1> QED
    BY <1>2, <1>3, <1>4, ProdMove

\* The checks before the lease.
LEMMA ProdChecks ==
  ASSUME ProdInv, NEW s \in Rivals, Product!Check(s) PROVE ProdInv'
  <1>0. UNCHANGED <<pEvidence, pPaper>> /\ physical' \in Nat
    BY DEF Product!Check, Product!Files, ProdInv, ProdTypes
  <1>1. CASE Product!Fails(s)
    BY <1>0, <1>1, ProdFails, ProdRest
  <1>2. CASE Product!Turn(s, "analyze") /\ pLease' = pLease
    BY <1>0, <1>2, ProdTurn, ProdRest DEF ProdLets
  <1>3. CASE Product!Goto(s, "lease") /\ pLease' = pLease /\ pSup[s].at = "check"
    <2>0. pSup[s].cmd \in {"run", "seal"}
      BY <1>3 DEF ProdInv, ProdWho, ProdAt
    <2>1. PICK d : d = [pSup[s] EXCEPT !.at = "lease"]
      OBVIOUS
    <2>2. d \in ProdCommand /\ d.at = "lease" /\ d.cmd = pSup[s].cmd
      BY <2>1, ProdGoto DEF ProdAts, ProdHold
    <2>3. pSup' = [pSup EXCEPT ![s] = d]
      BY <1>3, <2>1 DEF Product!Goto
    <2> QED
      BY <1>0, <1>3, <2>0, <2>2, <2>3, ProdRest DEF ProdQuiet, ProdLets
  <1> QED
    BY <1>1, <1>2, <1>3 DEF Product!Check

\* The lease is taken when nobody has it.
LEMMA ProdAcquire == ASSUME ProdInv, NEW s \in Rivals, Product!Acquire(s) PROVE ProdInv'
  <1>0. UNCHANGED <<pEvidence, pPaper>> /\ physical' \in Nat /\ pSup[s].cmd \in {"run", "seal"}
    BY DEF Product!Acquire, Product!Files, ProdInv, ProdTypes, ProdWho, ProdAt
  <1>1. CASE Product!Fails(s)
    BY <1>0, <1>1, ProdFails, ProdRest
  <1>2. CASE pLease = Nil /\ pLease' = s /\ Product!Goto(s, "environment")
    BY <1>0, <1>2, ProdSteady, ProdConstants DEF ProdLets
  <1> QED
    BY <1>1, <1>2 DEF Product!Acquire

\* The environment of the run is looked at.
LEMMA ProdEnvironment == ASSUME ProdInv, NEW s \in Rivals, Product!Environment(s) PROVE ProdInv'
  <1>0. /\ UNCHANGED <<pEvidence, pPaper>> /\ physical' \in Nat /\ pLease = s
        /\ pSup[s].cmd \in {"run", "seal"} /\ pSup[s].cell \in 1 .. StudyCells + 1
    BY
    DEF Product!Environment, Product!Files, ProdInv, ProdTypes, ProdWho, ProdAt, ProdHold,
        ProdCommand
  <1>1. CASE Product!Fails(s)
    BY <1>0, <1>1, ProdFails, ProdRest
  <1>2. CASE Product!Goto(s, "derive") /\ pLease' = pLease
    BY <1>0, <1>2, ProdSteady DEF ProdLets
  <1>3. CASE Product!Goto(s, "opening") /\ pLease' = pLease
    BY <1>0, <1>3, ProdSteady DEF ProdLets
  <1>4. CASE Product!PublishSeal(s, "complete")
    BY <1>0, <1>4, ProdSealing
  <1>5. pSup[s].cell <= StudyCells \/ pSup[s].cell > StudyCells
    BY <1>0, ProdConstants
  <1> QED
    BY <1>0, <1>1, <1>2, <1>3, <1>4, <1>5 DEF Product!Environment

\* The first look at the cells.
LEMMA ProdOpening == ASSUME ProdInv, NEW s \in Rivals, Product!Opening(s) PROVE ProdInv'
  <1>0. /\ UNCHANGED <<pEvidence, pPaper>> /\ physical' \in Nat /\ pLease = s
        /\ pSup[s].cmd \in {"run", "seal"}
    BY DEF Product!Opening, Product!Files, ProdInv, ProdTypes, ProdWho, ProdAt, ProdHold
  <1>1. CASE Product!Fails(s)
    BY <1>0, <1>1, ProdFails, ProdRest
  <1>2. CASE Product!Goto(s, "cell") /\ pLease' = pLease
    BY <1>0, <1>2, ProdSteady DEF ProdLets
  <1>3. CASE Product!Publish(s, "gate", Product!GateDoc) /\ pLease' = pLease
    <2>1. PICK doc \in ProdDocs : doc = Product!GateDoc
      BY ProdGateDoc DEF ProdInv
    <2>2. Product!Publish(s, "gate", doc) /\ "gate" \in Product!Papers
      BY <1>3, <2>1 DEF Product!Papers
    <2>3. PICK d \in ProdCommand :
            /\ pSup' = [pSup EXCEPT ![s] = d] /\ d.at = "payload" /\ d.name = "gate"
            /\ d.cmd = pSup[s].cmd
      BY <2>2, ProdPublish
    <2>4. ProdAt(s, d)'
      BY <1>0, <1>3, <2>2, <2>3 DEF ProdAt, ProdHold, ProdWork
    <2> QED
      BY <1>0, <1>3, <2>3, <2>4, ProdMove DEF ProdLets
  <1> QED
    BY <1>1, <1>2, <1>3 DEF Product!Opening

\* The head of the loop lets a cell through that is open, behind the sealed gate.
LEMMA ProdCell == ASSUME ProdInv, NEW s \in Rivals, Product!Cell(s) PROVE ProdInv'
  <1>0. /\ UNCHANGED <<pEvidence, pPaper>> /\ physical' \in Nat /\ pLease = s
        /\ pSup[s].cmd \in {"run", "seal"} /\ pSup[s].cell \in 1 .. StudyCells + 1
    BY DEF Product!Cell, Product!Files, ProdInv, ProdTypes, ProdWho, ProdAt, ProdHold, ProdCommand
  <1> DEFINE c == pSup[s].cell
  <1>1. CASE Product!Fails(s)
    BY <1>0, <1>1, ProdFails, ProdRest
  <1>2. CASE Product!Goto(s, "environment") /\ pLease' = pLease
    BY <1>0, <1>2, ProdSteady DEF ProdLets
  <1>3. CASE Product!PublishSeal(s, "terminated") /\ Product!Invalid # {}
    BY <1>0, <1>3, ProdSealing
  <1>4. CASE pSup' = [pSup EXCEPT ![s].cell = c + 1] /\ pLease' = pLease /\ c \in Product!Ids
        /\ pSup[s].at = "cell"
    <2>1. PICK old : old = pSup[s]
      OBVIOUS
    <2>2. old \in ProdCommand /\ old.at = "cell" /\ old.cell \in Product!Ids
      BY <1>4, <2>1 DEF ProdInv, ProdTypes
    <2>3. old.cell + 1 \in 1 .. StudyCells + 1
      BY <2>2, ProdConstants DEF Product!Ids
    <2>4. PICK d : d = [old EXCEPT !.cell = old.cell + 1]
      OBVIOUS
    <2>5. d \in ProdCommand /\ d.at = "cell" /\ d.cmd = old.cmd
      BY <2>2, <2>3, <2>4 DEF ProdCommand
    <2>6. pSup' = [pSup EXCEPT ![s] = d]
      BY <1>4, <2>1, <2>4
    <2>7. ProdAt(s, d)'
      BY <1>0, <1>4, <2>1, <2>5 DEF ProdAt, ProdHold, ProdWork
    <2> QED
      BY <1>0, <1>4, <2>5, <2>6, <2>7, ProdMove DEF ProdLets
  <1>5. CASE /\ Product!Goto(s, IF pEvidence[c] = "retry" THEN "attest" ELSE "execute")
                  /\ pLease' = pLease
             /\ c \in Product!Ids /\ (c \in Product!Gate \/ Product!GateStands)
                  /\ Product!Invalid = {} /\ c \notin Product!Finals
    <2>1. PICK at \in {"attest",
          "execute"} : at = IF pEvidence[c] = "retry" THEN "attest" ELSE "execute"
      OBVIOUS
    <2>2. PICK d : d = [pSup[s] EXCEPT !.at = at]
      OBVIOUS
    <2>3. d \in ProdCommand /\ d.at = at /\ d.cmd = pSup[s].cmd /\ d.cell = c
      BY <2>2, ProdGoto DEF ProdAts, ProdHold, ProdWork
    <2>4. pSup' = [pSup EXCEPT ![s] = d]
      BY <1>5, <2>1, <2>2 DEF Product!Goto
    <2>5. pEvidence[c] \in {"none", "retry"}
      BY <1>5 DEF Product!Finals, ProdInv, ProdTypes, ProdKinds
    <2>6. c \notin Product!Gate => ProdGate
      <3>1. pPaper["gate"] \in [file : {"absent", "half", "done"}, doc : ProdDocs]
        BY DEF ProdInv, ProdTypes, Product!Papers
      <3>2. Product!GateStands => ProdGate
        BY <3>1 DEF Product!GateStands, Product!Loaded, ProdGate
      <3> QED
        BY <1>5, <3>2
    <2>7. ProdAt(s, d)
      BY <1>0, <1>5, <2>3, <2>5, <2>6 DEF ProdAt, ProdHold, ProdWork
    <2>8. ProdAt(s, d)'
      BY <1>0, <1>5, <2>7, ProdKeeps
    <2> QED
      BY <1>0, <1>5, <2>3, <2>4, <2>8, ProdMove DEF ProdLets
  <1>6. c > StudyCells \/ c \in Product!Ids
    BY <1>0, ProdConstants DEF Product!Ids
  <1>7. Product!Head(s) /\ pSup[s].at = "cell"
    BY DEF Product!Cell
  <1>8. CASE c > StudyCells
    <2>1. c \notin Product!Ids
      BY <1>0, <1>8, ProdConstants DEF Product!Ids
    <2> QED
      BY <1>2, <1>7, <1>8, <2>1 DEF Product!Head
  <1>9. CASE c \in Product!Ids
    <2>1. ~(c > StudyCells)
      BY <1>9, ProdConstants DEF Product!Ids
    <2>2. CASE ~((c \in Product!Gate \/ Product!GateStands) /\ Product!InCeiling)
      BY <1>1, <1>7, <1>9, <2>1, <2>2 DEF Product!Head
    <2>3. CASE (c \in Product!Gate \/ Product!GateStands) /\ Product!InCeiling
      <3>1. CASE Product!Invalid # {}
        BY <1>3, <1>7, <1>9, <2>1, <2>3, <3>1 DEF Product!Head
      <3>2. CASE Product!Invalid = {} /\ c \in Product!Finals
        BY <1>4, <1>7, <1>9, <2>1, <2>3, <3>2 DEF Product!Head
      <3>3. CASE Product!Invalid = {} /\ c \notin Product!Finals
        BY <1>1, <1>5, <1>7, <1>9, <2>1, <2>3, <3>3 DEF Product!Head
      <3> QED
        BY <3>1, <3>2, <3>3
    <2> QED
      BY <2>2, <2>3
  <1> QED
    BY <1>6, <1>8, <1>9

\* From one place of the work on a cell to another.
LEMMA ProdWorks ==
  ASSUME ProdInv, NEW s \in Rivals, pSup[s].at \in ProdWork, NEW at \in ProdWork,
    Product!Goto(s, at),
         UNCHANGED <<pEvidence, pPaper, pLease>>, physical' \in Nat
  PROVE  ProdInv'
  <1>1. PICK old : old = pSup[s]
    OBVIOUS
  <1>2. PICK d : d = [old EXCEPT !.at = at]
    OBVIOUS
  <1>3. d \in ProdCommand /\ d.at = at /\ d.cmd = old.cmd /\ d.cell = old.cell
    BY <1>1, <1>2, ProdGoto DEF ProdAts, ProdHold
  <1>4. pSup' = [pSup EXCEPT ![s] = d]
    BY <1>1, <1>2 DEF Product!Goto
  <1>5. ProdAt(s, old) /\ old.at \in ProdWork
    BY <1>1 DEF ProdInv, ProdWho
  <1>6. ProdAt(s, d)
    BY <1>3, <1>5 DEF ProdAt, ProdHold, ProdWork
  <1>7. ProdAt(s, d)'
    BY <1>6, ProdKeeps
  <1> QED
    BY <1>3, <1>4, <1>7, ProdMove DEF ProdLets

\* The recovery attestation and its marker.
LEMMA ProdAttest ==
  ASSUME ProdInv, NEW s \in Rivals, Product!Attest(s) \/ Product!Mark(s) \/ Product!Execute(s)
    PROVE ProdInv'
  <1>0. UNCHANGED <<pEvidence, pPaper>> /\ physical' \in Nat /\ pSup[s].at \in ProdWork
    BY DEF Product!Attest, Product!Mark, Product!Execute, ProdInv, ProdTypes, ProdWork
  <1>1. CASE Product!Fails(s)
    BY <1>0, <1>1, ProdFails, ProdRest
  <1>2. ASSUME NEW at \in ProdWork, Product!Goto(s, at), pLease' = pLease PROVE ProdInv'
    BY <1>0, <1>2, ProdWorks
  <1>3. Product!Fails(s) \/ \E at \in ProdWork : Product!Goto(s, at) /\ pLease' = pLease
    BY DEF Product!Attest, Product!Mark, Product!Execute, ProdWork
  <1> QED
    BY <1>1, <1>2, <1>3

\* Outside the lease a command moves on to the next one, or takes a document in hand
\* that repeats the seal.
LEMMA ProdDerive == ASSUME ProdInv, NEW s \in Rivals, Product!Derive(s) PROVE ProdInv'
  <1>0. UNCHANGED <<pEvidence, pPaper>> /\ physical' \in Nat
    BY DEF Product!Derive, Product!Files, ProdInv, ProdTypes
  <1>1. CASE Product!Fails(s)
    BY <1>0, <1>1, ProdFails, ProdRest
  <1>2. ASSUME NEW c \in {"analyze", "report", "verify"}, Product!Turn(s, c), Product!Leave(s)
    PROVE ProdInv'
    <2>1. ProdLets(s)
      BY <1>2 DEF Product!Leave, ProdLets
    <2> QED
      BY <1>0, <1>2, <2>1, ProdTurn, ProdRest
  <1>3. CASE pSup[s].cmd = "seal" /\ Product!PublishSeal(s, "complete")
    <2>1. pLease = s
      BY <1>3 DEF Product!Derive, ProdInv, ProdWho, ProdAt
    <2> QED
      BY <1>0, <1>3, <2>1, ProdSealing
  <1>4. CASE pSup' = [pSup EXCEPT ![s] = Product!Closed] /\ pLease' = pLease
    <2>1. Product!Closed \in ProdCommand /\ ProdQuiet(Product!Closed)
      BY ProdEnter DEF Product!Closed, ProdQuiet, ProdAts
    <2> QED
      BY <1>0, <1>4, <2>1, ProdRest DEF ProdLets
  <1>5. ASSUME NEW n \in {"analysis", "report"}, NEW doc \in ProdDocs, Product!Publish(s, n, doc),
               pLease' = pLease, ProdSealed(doc)
        PROVE  ProdInv'
    <2>1. n \in Product!Papers
      BY DEF Product!Papers
    <2>2. PICK d \in ProdCommand :
            /\ pSup' = [pSup EXCEPT ![s] = d] /\ d.at = "payload" /\ d.name = n /\ d.doc = doc
      BY <1>5, <2>1, ProdPublish
    <2>3. ProdAt(s, d)
      BY <1>5, <2>1, <2>2 DEF ProdAt, ProdHold, ProdWork
    <2>4. ProdAt(s, d)'
      BY <1>0, <1>5, <2>3, ProdKeeps
    <2> QED
      BY <1>0, <1>5, <2>2, <2>4, ProdMove DEF ProdLets
  <1>6. \A n \in Product!Papers : pPaper[n].doc \in ProdDocs
    BY DEF ProdInv, ProdTypes
  <1>7. "seal" \in Product!Papers /\ "analysis" \in Product!Papers
    BY DEF Product!Papers
  <1>8. CASE /\ Product!SealStands /\ pPaper["seal"].doc.status = "complete"
             /\ Product!Publish(s, "analysis", pPaper["seal"].doc) /\ pLease' = pLease
    <2>1. ProdSealed(pPaper["seal"].doc)
      BY <1>8 DEF Product!SealStands, Product!MaySeal, Product!Loaded, ProdSealed
    <2> QED
      BY <1>5, <1>6, <1>7, <1>8, <2>1
  <1>9. CASE Product!AnalysisStands /\ Product!Publish(s, "report", pPaper["analysis"].doc)
        /\ pLease' = pLease
    <2>1. Product!Exists("analysis")
      BY <1>9 DEF Product!AnalysisStands, Product!Loaded, Product!Exists
    <2>2. ProdSealed(pPaper["analysis"].doc)
      BY <2>1 DEF ProdInv, ProdPapers
    <2> QED
      BY <1>5, <1>6, <1>7, <1>9, <2>2
  <1>10. CASE pSup[s].cmd = "seal" /\ Product!Exists("seal")
         /\ IF Product!SealStands THEN Product!Turn(s, "analyze")
              /\ Product!Leave(s) ELSE Product!Fails(s)
    BY <1>1, <1>2, <1>10
  <1>11. CASE /\ pSup[s].cmd = "analyze"
              /\ CASE Product!Exists("analysis") ->
                        IF Product!AnalysisStands THEN Product!Turn(s, "report")
                          /\ Product!Leave(s) ELSE Product!Fails(s)
                   [] ~Product!Exists("analysis") ->
                        IF Product!SealStands /\ pPaper["seal"].doc.status = "complete"
                        THEN Product!Publish(s, "analysis", pPaper["seal"].doc)
                          /\ pLease' = pLease ELSE Product!Fails(s)
    BY <1>1, <1>2, <1>8, <1>11
  <1>12. CASE /\ pSup[s].cmd = "report"
              /\ CASE ~Product!AnalysisStands -> Product!Fails(s)
                   [] Product!AnalysisStands /\ Product!Exists("report") ->
                        IF Product!ReportStands THEN Product!Turn(s, "verify")
                          /\ Product!Leave(s) ELSE Product!Fails(s)
                   [] Product!AnalysisStands /\ ~Product!Exists("report") ->
                        Product!Publish(s, "report", pPaper["analysis"].doc) /\ pLease' = pLease
    BY <1>1, <1>2, <1>9, <1>12
  <1> QED
    BY <1>3, <1>4, <1>10, <1>11, <1>12 DEF Product!Derive

\* A start of the script, and a kill.
LEMMA ProdStartKill ==
  ASSUME ProdInv, NEW s \in Rivals, Product!Start(s) \/ Product!Kill(s) PROVE ProdInv'
  <1>0. UNCHANGED <<pEvidence, pPaper>> /\ physical' \in Nat
    BY DEF Product!Start, Product!Kill, Product!Files, ProdInv, ProdTypes
  <1>1. ProdLets(s)
    BY DEF Product!Start, Product!Kill, ProdLets
  <1>2. PICK c \in {"none", "run"}, at \in {"closed", "check"} :
          /\ pSup' = [pSup EXCEPT ![s] = Product!Enter(c, at)] /\ (at = "check" => c = "run")
    BY DEF Product!Start, Product!Kill, Product!Closed
  <1>3. Product!Enter(c, at) \in ProdCommand /\ Product!Enter(c, at).at = at
        /\ Product!Enter(c, at).cmd = c
    BY ProdEnter DEF ProdAts
  <1>4. ProdQuiet(Product!Enter(c, at))
    BY <1>2, <1>3 DEF ProdQuiet
  <1> QED
    BY <1>0, <1>1, <1>2, <1>3, <1>4, ProdRest

\* The operator removes a lease whose holder is dead.
LEMMA ProdClear == ASSUME ProdInv, Product!ClearLease PROVE ProdInv'
  <1>0. UNCHANGED <<pEvidence, pPaper, pSup, physical>> /\ pLease = "stale" /\ pLease' = Nil
    BY DEF Product!ClearLease, Product!Files
  <1>1. ProdTypes' /\ ProdPapers'
    BY <1>0
    DEF ProdInv, ProdTypes, ProdPapers, Product!GateFirst, Product!GateDoc, Product!GateValid,
        Product!Exists, ProdConclusive, ProdSealed, Product!Complete, Product!Invalid
  <1>2. ASSUME NEW t \in Rivals PROVE ProdAt(t, pSup[t])'
    <2>1. PICK e : e = pSup[t]
      OBVIOUS
    <2>2. ProdAt(t, e)
      BY <2>1 DEF ProdInv, ProdWho
    <2>3. ProdAt(t, e)'
      BY <1>0, <2>2, ProdKeeps, ProdConstants
    <2> QED
      BY <1>0, <2>1, <2>3
  <1> QED
    BY <1>1, <1>2 DEF ProdInv, ProdWho

\* Payload and marker.
LEMMA ProdPayload == ASSUME ProdInv, NEW s \in Rivals, Product!Payload(s) PROVE ProdInv'
  <1>0. UNCHANGED pEvidence /\ physical' \in Nat /\ pSup[s].at = "payload"
    BY DEF Product!Payload, ProdInv, ProdTypes
  <1>1. CASE Product!Fails(s) /\ UNCHANGED pPaper
    BY <1>0, <1>1, ProdFails, ProdRest
  <1>2. PICK old : old = pSup[s]
    OBVIOUS
  <1>3. old \in ProdCommand /\ ProdAt(s, old) /\ old.at = "payload"
    BY <1>0, <1>2 DEF ProdInv, ProdTypes, ProdWho
  <1>4. old.name \in Product!Papers
    BY <1>3 DEF ProdAt
  <1>5. PICK n \in Product!Papers, doc \in ProdDocs : n = old.name /\ doc = old.doc
    BY <1>3, <1>4 DEF ProdCommand
  <1>6. CASE /\ ~Product!Exists(n)
                  /\ pPaper' = [pPaper EXCEPT ![n] = [file |-> "half", doc |-> doc]]
             /\ Product!Goto(s, "marker") /\ UNCHANGED pLease
    <2>1. PICK d : d = [old EXCEPT !.at = "marker"]
      OBVIOUS
    <2>2. d \in ProdCommand /\ d.at = "marker" /\ d.cmd = old.cmd /\ d.name = n
      BY <1>2, <1>5, <2>1, ProdGoto DEF ProdAts
    <2>3. pSup' = [pSup EXCEPT ![s] = d]
      BY <1>2, <1>6, <2>1 DEF Product!Goto
    <2>4. pSup'[s] = d /\ \A t \in Rivals : t # s => pSup'[t] = pSup[t]
      BY <2>3 DEF ProdInv, ProdTypes
    <2>5. pPaper'[n] = [file |-> "half", doc |-> doc] /\ \A m \in Product!Papers : m # n =>
          pPaper'[m] = pPaper[m]
      BY <1>6 DEF ProdInv, ProdTypes
    <2>6. ProdTypes'
      BY <1>0, <1>6, <2>2, <2>3 DEF ProdInv, ProdTypes
    <2>7. \A m \in Product!Papers : Product!Exists(m) => Product!Exists(m)'
          /\ pPaper'[m] = pPaper[m] /\ m # n
      BY <1>6, <2>5 DEF Product!Exists
    <2>8. Product!Exists(n)'
      BY <2>5 DEF Product!Exists
    <2>9. UNCHANGED <<Product!Complete, Product!Invalid, Product!GateDoc, Product!GateValid>>
      BY <1>0 DEF Product!Complete, Product!Invalid, Product!GateDoc, Product!GateValid
    <2>10. ProdGate => ProdGate'
      <3>1. "gate" \in Product!Papers
        BY DEF Product!Papers
      <3>2. pPaper["gate"] = [file |-> "done", doc |-> Product!GateDoc] => Product!Exists("gate")
        BY DEF Product!Exists
      <3> QED
        BY <2>7, <2>9, <3>1, <3>2 DEF ProdGate
    <2>11. Product!GateFirst'
      <3>1. Product!GateFirst
        BY DEF ProdInv, ProdPapers
      <3> QED
        BY <1>0, <2>10, <3>1 DEF Product!GateFirst, ProdGate
    <2>12. "seal" \in Product!Papers /\ "analysis" \in Product!Papers /\ "report" \in Product!Papers
      BY DEF Product!Papers
    <2>13. ASSUME NEW e, ProdSealed(e) PROVE ProdSealed(e)'
      <3>1. Product!Exists("seal")
        BY <2>13 DEF ProdSealed, Product!Exists
      <3> QED
        BY <2>7, <2>9, <2>12, <2>13, <3>1 DEF ProdSealed
    <2>14. (Product!Exists("seal") => ProdConclusive(pPaper["seal"].doc))'
      <3>1. CASE n = "seal"
        <4>1. ProdConclusive(doc)
          BY <1>3, <1>5, <3>1 DEF ProdAt
        <4>2. pPaper'["seal"].doc = doc
          BY <2>5, <3>1
        <4> QED
          BY <1>0, <2>9, <4>1, <4>2 DEF ProdConclusive
      <3>2. CASE n # "seal"
        <4>1. pPaper'["seal"] = pPaper["seal"]
              /\ (Product!Exists("seal") => ProdConclusive(pPaper["seal"].doc))
          BY <2>5, <2>12, <3>2 DEF ProdInv, ProdPapers
        <4> QED
          BY <1>0, <2>9, <4>1 DEF ProdConclusive, Product!Exists
      <3> QED
        BY <3>1, <3>2
    <2>15. ASSUME NEW m \in {"analysis", "report"}
      PROVE (Product!Exists(m) => ProdSealed(pPaper[m].doc))'
      <3>1. CASE n = m
        <4>1. ProdSealed(doc)
          BY <1>3, <1>5, <3>1 DEF ProdAt
        <4>2. ProdSealed(doc)' /\ pPaper'[m].doc = doc
          BY <2>5, <2>13, <3>1, <4>1
        <4> QED
          BY <4>2 DEF ProdSealed
      <3>2. CASE n # m
        <4>1. PICK e : e = pPaper[m].doc
          OBVIOUS
        <4>2. pPaper'[m] = pPaper[m] /\ (Product!Exists(m) => ProdSealed(e))
          BY <2>5, <2>12, <2>15, <3>2, <4>1 DEF ProdInv, ProdPapers
        <4>3. Product!Exists(m)' => ProdSealed(e)'
          BY <2>13, <4>2 DEF Product!Exists
        <4> QED
          BY <4>1, <4>2, <4>3 DEF ProdSealed
      <3> QED
        BY <3>1, <3>2
    <2>16. ASSUME NEW t \in Rivals, NEW e, ProdAt(t, e), e.at # "marker" PROVE ProdAt(t, e)'
      BY <1>0, <1>6, <2>9, <2>10, <2>13, <2>16 DEF ProdAt, ProdConclusive
    <2>17. ASSUME NEW t \in Rivals, NEW e, ProdAt(t, e), e.at = "marker" PROVE ProdAt(t, e)'
      <3>1. e.name \in Product!Papers /\ Product!Exists(e.name)
        BY <2>17 DEF ProdAt
      <3>2. Product!Exists(e.name)'
        BY <2>7, <3>1
      <3> QED
        BY <1>6, <2>17, <3>1, <3>2 DEF ProdAt, ProdHold, ProdWork
    <2>18. ProdAt(s, d)'
      BY <1>3, <1>5, <1>6, <2>2, <2>8 DEF ProdAt, ProdHold, ProdWork
    <2>19. ASSUME NEW t \in Rivals PROVE ProdAt(t, pSup[t])'
      <3>1. CASE t = s
        BY <2>4, <2>18, <3>1
      <3>2. CASE t # s
        <4>1. PICK e : e = pSup[t]
          OBVIOUS
        <4>2. ProdAt(t, e)
          BY <4>1 DEF ProdInv, ProdWho
        <4>3. ProdAt(t, e)'
          BY <2>16, <2>17, <4>2
        <4> QED
          BY <2>4, <3>2, <4>1, <4>3
      <3> QED
        BY <3>1, <3>2
    <2> QED
      BY <2>6, <2>11, <2>14, <2>15, <2>19 DEF ProdInv, ProdPapers, ProdWho
  <1> QED
    BY <1>1, <1>2, <1>5, <1>6 DEF Product!Payload

\* The marker of what was written comes last.
LEMMA ProdMarker == ASSUME ProdInv, NEW s \in Rivals, Product!Marker(s) PROVE ProdInv'
  <1>0. UNCHANGED pEvidence /\ physical' \in Nat /\ pSup[s].at = "marker"
    BY DEF Product!Marker, ProdInv, ProdTypes
  <1>1. PICK old : old = pSup[s]
    OBVIOUS
  <1>2. old \in ProdCommand /\ ProdAt(s, old) /\ old.at = "marker"
    BY <1>0, <1>1 DEF ProdInv, ProdTypes, ProdWho
  <1>3. old.name \in Product!Papers /\ Product!Exists(old.name)
    BY <1>2 DEF ProdAt
  <1>4. PICK n \in Product!Papers : n = old.name /\ Product!Exists(n)
    BY <1>3
  <1>5. pPaper' = [pPaper EXCEPT ![n].file = "done"]
    BY <1>1, <1>4 DEF Product!Marker
  <1>6. \A m \in Product!Papers : pPaper[m] \in [file : {"absent", "half", "done"}, doc : ProdDocs]
    BY DEF ProdInv, ProdTypes
  <1>7. /\ pPaper'[n].file = "done" /\ pPaper'[n].doc = pPaper[n].doc
        /\ \A m \in Product!Papers : m # n => pPaper'[m] = pPaper[m]
        /\ pPaper' \in [Product!Papers -> [file : {"absent", "half", "done"}, doc : ProdDocs]]
    BY <1>5, <1>6 DEF ProdInv, ProdTypes
  <1>8. \A m \in Product!Papers : /\ Product!Exists(m)' <=> Product!Exists(m)
                                  /\ pPaper'[m].doc = pPaper[m].doc
                                  /\ pPaper[m].file = "done" => pPaper'[m].file = "done"
    BY <1>4, <1>7 DEF Product!Exists
  <1>9. UNCHANGED <<Product!Complete, Product!Invalid, Product!GateDoc, Product!GateValid>>
    BY <1>0 DEF Product!Complete, Product!Invalid, Product!GateDoc, Product!GateValid
  <1>10. "gate" \in Product!Papers /\ "seal" \in Product!Papers /\ "analysis" \in Product!Papers
         /\ "report" \in Product!Papers
    BY DEF Product!Papers
  <1>11. ProdGate => ProdGate'
    <2>1. pPaper'["gate"] \in [file : {"absent", "half", "done"}, doc : ProdDocs]
      BY <1>7, <1>10
    <2> QED
      BY <1>8, <1>9, <1>10, <2>1 DEF ProdGate
  <1>12. ASSUME NEW e, ProdSealed(e) PROVE ProdSealed(e)'
    BY <1>8, <1>9, <1>10, <1>12 DEF ProdSealed
  <1>13. Product!GateFirst'
    <2>1. Product!GateFirst
      BY DEF ProdInv, ProdPapers
    <2> QED
      BY <1>0, <1>11, <2>1 DEF Product!GateFirst, ProdGate
  <1>14. (Product!Exists("seal") => ProdConclusive(pPaper["seal"].doc))'
    <2>1. Product!Exists("seal") => ProdConclusive(pPaper["seal"].doc)
      BY DEF ProdInv, ProdPapers
    <2> QED
      BY <1>0, <1>8, <1>9, <1>10, <2>1 DEF ProdConclusive
  <1>15. ASSUME NEW m \in {"analysis", "report"}
    PROVE (Product!Exists(m) => ProdSealed(pPaper[m].doc))'
    <2>1. PICK e : e = pPaper[m].doc
      OBVIOUS
    <2>2. Product!Exists(m) => ProdSealed(e)
      BY <2>1 DEF ProdInv, ProdPapers
    <2>3. Product!Exists(m)' => ProdSealed(e)'
      BY <1>8, <1>10, <1>12, <2>2
    <2>4. pPaper'[m].doc = e
      BY <1>8, <1>10, <2>1
    <2> QED
      BY <2>3, <2>4 DEF ProdSealed
  <1>16. ASSUME NEW t \in Rivals, NEW e, ProdAt(t, e), pLease = t => pLease' = t PROVE ProdAt(t, e)'
    BY <1>0, <1>8, <1>9, <1>11, <1>12, <1>16 DEF ProdAt, ProdConclusive
  <1>17. ASSUME NEW d \in ProdCommand, pSup' = [pSup EXCEPT ![s] = d], ProdLets(s), ProdAt(s, d)'
         PROVE  ProdInv'
    <2>1. pSup'[s] = d /\ \A t \in Rivals : t # s => pSup'[t] = pSup[t]
      BY <1>17 DEF ProdInv, ProdTypes
    <2>2. ProdTypes'
      BY <1>0, <1>7, <1>17 DEF ProdInv, ProdTypes
    <2>3. ASSUME NEW t \in Rivals PROVE ProdAt(t, pSup[t])'
      <3>1. CASE t = s
        BY <1>17, <2>1, <3>1
      <3>2. CASE t # s
        <4>1. PICK e : e = pSup[t]
          OBVIOUS
        <4>2. ProdAt(t, e)
          BY <4>1 DEF ProdInv, ProdWho
        <4>3. ProdAt(t, e)'
          BY <1>16, <1>17, <3>2, <4>2 DEF ProdLets
        <4> QED
          BY <2>1, <3>2, <4>1, <4>3
      <3> QED
        BY <3>1, <3>2
    <2> QED
      BY <1>13, <1>14, <1>15, <2>2, <2>3 DEF ProdInv, ProdPapers, ProdWho
  <1>18. ASSUME ProdLets(s), \E d \in ProdCommand : ProdQuiet(d) /\ pSup' = [pSup EXCEPT ![s] = d]
         PROVE  ProdInv'
    <2>1. PICK d \in ProdCommand : ProdQuiet(d) /\ pSup' = [pSup EXCEPT ![s] = d]
      BY <1>18
    <2> QED
      BY <1>17, <1>18, <2>1, ProdQuietAt
  <1>19. CASE Product!Fails(s)
    BY <1>18, <1>19, ProdFails
  <1>20. ASSUME NEW c \in {"analyze", "report", "verify"}, Product!Turn(s, c), Product!Leave(s)
    PROVE ProdInv'
    <2>1. ProdLets(s)
      BY <1>20 DEF Product!Leave, ProdLets
    <2> QED
      BY <1>18, <1>20, <2>1, ProdTurn
  <1>21. CASE /\ n = "gate" /\ pLease' = pLease
              /\ pSup' = [pSup EXCEPT ![s].at = "cell", ![s].name = Nil, ![s].doc = Nil]
    <2>1. PICK d : d = [old EXCEPT !.at = "cell", !.name = Nil, !.doc = Nil]
      OBVIOUS
    <2>2. d \in ProdCommand /\ d.at = "cell" /\ d.cmd = old.cmd
      BY <1>2, <2>1 DEF ProdCommand, ProdAts, ProdHold, ProdDocs
    <2>3. pSup' = [pSup EXCEPT ![s] = d]
      BY <1>1, <1>21, <2>1 DEF ProdInv, ProdTypes, ProdCommand
    <2>4. ProdAt(s, d)'
      BY <1>2, <1>4, <1>21, <2>2 DEF ProdAt, ProdHold, ProdWork
    <2> QED
      BY <1>17, <1>21, <2>2, <2>3, <2>4 DEF ProdLets
  <1>22. CASE n = "gate"
    BY <1>1, <1>4, <1>21, <1>22 DEF Product!Marker
  <1>23. CASE n = "seal"
    BY <1>1, <1>4, <1>19, <1>20, <1>23 DEF Product!Marker
  <1>24. CASE n = "analysis"
    BY <1>1, <1>4, <1>20, <1>24 DEF Product!Marker
  <1>25. CASE n = "report"
    BY <1>1, <1>4, <1>20, <1>25 DEF Product!Marker
  <1> QED
    BY <1>22, <1>23, <1>24, <1>25 DEF Product!Papers

\* The commit of the holder, who alone has anything at work or a seal in hand; what it
\* writes over was open, so nothing is concluded yet.
LEMMA ProdCommit == ASSUME ProdInv, NEW s \in Rivals, Product!Commit(s) PROVE ProdInv'
  <1>0. UNCHANGED <<physical, pPaper>> /\ physical' \in Nat /\ pSup[s].at = "running"
    BY DEF Product!Commit, ProdInv, ProdTypes
  <1>1. PICK old : old = pSup[s]
    OBVIOUS
  <1>2. old \in ProdCommand /\ ProdAt(s, old) /\ old.at = "running"
    BY <1>0, <1>1 DEF ProdInv, ProdTypes, ProdWho
  <1>3. PICK c : c = old.cell
    OBVIOUS
  <1>4. /\ pLease = s /\ old.cmd \in {"run", "seal"} /\ c \in Product!Ids
             /\ pEvidence[c] \in {"none", "retry"}
        /\ Product!Invalid = {} /\ (c \notin Product!Gate => ProdGate)
    BY <1>2, <1>3 DEF ProdAt, ProdHold, ProdWork
  <1>5. PICK now \in Product!Outcomes \cup {"retry"} : pEvidence' = [pEvidence EXCEPT ![c] = now]
        /\ Product!After(s, now)
    <2>1. PICK out \in Product!Outcomes :
            LET now == IF pEvidence[c] = "none" /\ out = "environment" THEN "retry" ELSE out
            IN  pEvidence' = [pEvidence EXCEPT ![c] = now] /\ Product!After(s, now)
      BY <1>1, <1>3 DEF Product!Commit
    <2> QED
      BY <2>1
  <1>6. /\ pEvidence' \in [Product!Ids -> ProdKinds] /\ pEvidence'[c] = now
        /\ \A b \in Product!Ids : b # c => pEvidence'[b] = pEvidence[b]
    BY <1>4, <1>5 DEF ProdInv, ProdTypes, ProdKinds
  <1>7. ~Product!Complete /\ ~Product!Exists("seal") /\ ~Product!Exists("analysis")
        /\ ~Product!Exists("report")
    <2>1. ~Product!Complete
      BY <1>4 DEF Product!Complete
    <2>2. ~ProdConclusive(pPaper["seal"].doc)
      BY <1>4, <2>1 DEF ProdConclusive
    <2> QED
      BY <2>1, <2>2 DEF ProdInv, ProdPapers, ProdSealed
  <1>8. \A m : Product!Exists(m)' <=> Product!Exists(m)
    BY <1>0 DEF Product!Exists
  <1>9. Product!GateValid => c \notin Product!Gate
    BY <1>4 DEF Product!GateValid
  <1>10. ProdGate => ProdGate'
    <2>1. Product!GateValid => UNCHANGED <<Product!GateDoc, Product!GateValid>>
      <3> SUFFICES ASSUME c \notin Product!Gate
        PROVE UNCHANGED <<Product!GateDoc, Product!GateValid>>
        BY <1>9
      <3>1. \A g \in Product!Gate : g \in Product!Ids /\ g # c
        BY ProdConstants DEF Product!Gate, Product!Ids
      <3>2. \A g \in Product!Gate : pEvidence'[g] = pEvidence[g]
        BY <1>6, <3>1
      <3> QED
        BY <3>2 DEF Product!GateDoc, Product!GateValid
    <2> QED
      BY <1>0, <2>1 DEF ProdGate
  <1>11. Product!GateFirst'
    <2> SUFFICES ASSUME NEW b \in Product!Ids \ Product!Gate, pEvidence'[b] # "none" PROVE ProdGate'
      BY DEF Product!GateFirst, ProdGate
    <2>1. CASE b = c
      BY <1>4, <1>10, <2>1
    <2>2. CASE b # c
      BY <1>6, <1>10, <2>2 DEF ProdInv, ProdPapers, Product!GateFirst, ProdGate
    <2> QED
      BY <2>1, <2>2
  <1>12. ASSUME NEW t \in Rivals, t # s, NEW e, ProdAt(t, e) PROVE ProdAt(t, e)'
    <2>1. pLease # t
      BY <1>4, <1>12
    <2>2. ~(e.at = "payload" /\ e.name \in {"analysis", "report"})
      BY <1>7, <1>12 DEF ProdAt, ProdSealed
    <2> QED
      BY <1>8, <1>12, <2>1, <2>2 DEF ProdAt, ProdHold
  <1>13. ASSUME NEW d \in ProdCommand, pSup' = [pSup EXCEPT ![s] = d], ProdAt(s, d)'
         PROVE  ProdInv'
    <2>1. pSup'[s] = d /\ \A t \in Rivals : t # s => pSup'[t] = pSup[t]
      BY <1>13 DEF ProdInv, ProdTypes
    <2>2. ProdTypes'
      BY <1>0, <1>6, <1>13 DEF ProdInv, ProdTypes
    <2>3. ASSUME NEW t \in Rivals PROVE ProdAt(t, pSup[t])'
      <3>1. CASE t = s
        BY <1>13, <2>1, <3>1
      <3>2. CASE t # s
        <4>1. PICK e : e = pSup[t]
          OBVIOUS
        <4>2. ProdAt(t, e)
          BY <4>1 DEF ProdInv, ProdWho
        <4>3. ProdAt(t, e)'
          BY <1>12, <3>2, <4>2
        <4> QED
          BY <2>1, <3>2, <4>1, <4>3
      <3> QED
        BY <3>1, <3>2
    <2> QED
      BY <1>7, <1>8, <1>11, <2>2, <2>3 DEF ProdInv, ProdPapers, ProdWho
  <1>14. CASE Product!Fails(s)
    <2>1. PICK d \in ProdCommand : ProdQuiet(d) /\ pSup' = [pSup EXCEPT ![s] = d]
      BY <1>14, ProdFails
    <2> QED
      BY <1>13, <2>1, ProdQuietAt
  <1>15. CASE now = "retry" /\ Product!Goto(s, "attest") /\ pLease' = pLease
    <2>1. PICK d : d = [old EXCEPT !.at = "attest"]
      OBVIOUS
    <2>2. d \in ProdCommand /\ d.at = "attest" /\ d.cmd = old.cmd /\ d.cell = c
      BY <1>2, <1>3, <2>1 DEF ProdCommand, ProdAts, ProdHold, ProdWork
    <2>3. pSup' = [pSup EXCEPT ![s] = d]
      BY <1>1, <1>15, <2>1 DEF Product!Goto
    <2>4. Product!Invalid' = {}
      BY <1>4, <1>6, <1>15 DEF Product!Invalid
    <2>5. ProdAt(s, d)'
      BY <1>4, <1>6, <1>10, <1>15, <2>2, <2>4 DEF ProdAt, ProdHold, ProdWork
    <2> QED
      BY <1>13, <2>2, <2>3, <2>5
  <1>16. CASE /\ now \in {"environment", "instrument"} /\ pLease' = pLease
              /\ Product!Publish(s, "seal", [status |-> "terminated", physical |-> physical,
                                     evidence |-> [pEvidence EXCEPT ![c] = now]])
    <2>1. PICK doc : doc = [status |-> "terminated", physical |-> physical, evidence |-> pEvidence']
      OBVIOUS
    <2>2. doc \in ProdDocs
      BY <1>0, <1>6, <2>1 DEF ProdDocs, ProdSeals
    <2>3. Product!Publish(s, "seal", doc) /\ "seal" \in Product!Papers
      BY <1>5, <1>16, <2>1 DEF Product!Papers
    <2>4. PICK d \in ProdCommand :
            /\ pSup' = [pSup EXCEPT ![s] = d] /\ d.at = "payload" /\ d.name = "seal" /\ d.doc = doc
      BY <2>2, <2>3, ProdPublish
    <2>5. ProdConclusive(doc)'
      <3>1. c \in Product!Invalid'
        BY <1>4, <1>6, <1>16 DEF Product!Invalid
      <3>2. ~Product!Complete'
        BY <1>4, <1>6, <1>16 DEF Product!Complete
      <3> QED
        BY <2>1, <3>1, <3>2 DEF ProdConclusive
    <2>6. ProdAt(s, d)'
      BY <1>4, <1>16, <2>3, <2>4, <2>5 DEF ProdAt, ProdHold, ProdWork
    <2> QED
      BY <1>13, <2>4, <2>6
  <1>17. CASE pSup' = [pSup EXCEPT ![s].at = "cell", ![s].cell = c + 1] /\ pLease' = pLease
    <2>1. c + 1 \in 1 .. StudyCells + 1
      BY <1>4, ProdConstants DEF Product!Ids
    <2>2. PICK d : d = [old EXCEPT !.at = "cell", !.cell = c + 1]
      OBVIOUS
    <2>3. d \in ProdCommand /\ d.at = "cell" /\ d.cmd = old.cmd
      BY <1>2, <2>1, <2>2 DEF ProdCommand, ProdAts, ProdHold
    <2>4. pSup' = [pSup EXCEPT ![s] = d]
      BY <1>1, <1>2, <1>3, <1>17, <2>2 DEF ProdInv, ProdTypes, ProdCommand
    <2>5. ProdAt(s, d)'
      BY <1>4, <1>17, <2>3 DEF ProdAt, ProdHold, ProdWork
    <2> QED
      BY <1>13, <2>3, <2>4, <2>5
  <1>18. CASE Product!Publish(s, "gate", [g \in Product!Gate |-> "valid"]) /\ pLease' = pLease
    <2>1. PICK doc : doc = [g \in Product!Gate |-> "valid"]
      OBVIOUS
    <2>2. doc \in ProdDocs
      BY <2>1 DEF ProdDocs, ProdKinds, Product!Outcomes
    <2>3. Product!Publish(s, "gate", doc) /\ "gate" \in Product!Papers
      BY <1>18, <2>1 DEF Product!Papers
    <2>4. PICK d \in ProdCommand :
            /\ pSup' = [pSup EXCEPT ![s] = d] /\ d.at = "payload" /\ d.name = "gate"
            /\ d.cmd = pSup[s].cmd
      BY <2>2, <2>3, ProdPublish
    <2>5. ProdAt(s, d)'
      BY <1>1, <1>4, <1>18, <2>3, <2>4 DEF ProdAt, ProdHold, ProdWork
    <2> QED
      BY <1>13, <2>4, <2>5
  <1>19. pSup[s].cell = c
    BY <1>1, <1>3
  <1>20. CASE now = "retry"
    BY <1>5, <1>14, <1>15, <1>19, <1>20 DEF Product!After
  <1>21. CASE now \in {"environment", "instrument"}
    BY <1>5, <1>14, <1>16, <1>19, <1>21 DEF Product!After
  <1>22. CASE now = "valid"
    BY <1>5, <1>14, <1>17, <1>18, <1>19, <1>22 DEF Product!After
  <1> QED
    BY <1>20, <1>21, <1>22 DEF Product!Outcomes

\* The inductive invariant holds for good.
LEMMA ProdStep == ASSUME ProdInv, [Product!Next]_(Product!vars) PROVE ProdInv'
  <1>1. CASE UNCHANGED Product!vars
    <2>0. UNCHANGED <<pEvidence, pPaper, pSup, physical, pLease>>
      BY <1>1 DEF Product!vars
    <2>1. ProdTypes' /\ ProdPapers'
      BY <2>0
      DEF ProdInv, ProdTypes, ProdPapers, Product!GateFirst, Product!GateDoc, Product!GateValid,
          Product!Exists, ProdConclusive, ProdSealed, Product!Complete, Product!Invalid
    <2>2. ASSUME NEW t \in Rivals PROVE ProdAt(t, pSup[t])'
      <3>1. PICK e : e = pSup[t]
        OBVIOUS
      <3>2. ProdAt(t, e)
        BY <3>1 DEF ProdInv, ProdWho
      <3>3. ProdAt(t, e)'
        BY <2>0, <3>2, ProdKeeps
      <3> QED
        BY <2>0, <3>1, <3>3
    <2> QED
      BY <2>1, <2>2 DEF ProdInv, ProdWho
  <1>2. CASE Product!ClearLease
    BY <1>2, ProdClear
  <1>3. ASSUME NEW s \in Rivals, Product!Step(s) PROVE ProdInv'
    BY <1>3, ProdChecks, ProdAcquire, ProdEnvironment, ProdOpening, ProdCell, ProdAttest,
       ProdCommit, ProdDerive, ProdPayload, ProdMarker DEF Product!Step
  <1>4. ASSUME NEW s \in Rivals, Product!Start(s) \/ Product!Kill(s) PROVE ProdInv'
    BY <1>4, ProdStartKill
  <1> QED
    BY <1>1, <1>2, <1>3, <1>4 DEF Product!Next

\* The invariant gives both promises.
LEMMA ProdMeans == ASSUME ProdInv PROVE Product!GateFirst /\ Product!SealedIsFinal
  <1>1. pPaper["seal"].file = "done" => Product!Exists("seal")
    BY DEF Product!Exists
  <1> QED
    BY <1>1 DEF ProdInv, ProdPapers, Product!SealedIsFinal, ProdConclusive, ProdSealed

\* No primary cell of the product validation is executed before its gate is sealed, and
\* nothing is committed, concluded or reported otherwise behind the seal, with any number
\* of overlapping starts of the script, kills and cells.
THEOREM ProdHolds == Product!Spec => [](Product!GateFirst /\ Product!SealedIsFinal)
  <1>1. Product!Init => ProdInv
    BY ProdInit
  <1>2. ProdInv /\ [Product!Next]_(Product!vars) => ProdInv'
    BY ProdStep
  <1>3. ProdInv => Product!GateFirst /\ Product!SealedIsFinal
    BY ProdMeans
  <1> QED
    BY <1>1, <1>2, <1>3, PTL DEF Product!Spec

-----------------------------------------------------------------------------
(* The attestation of a release *)

\* What a file of the worktree or of a commit may be, and the types.
RelFile == Release!Files \cup {Nil, Torn}
\* The types.
RelTypes ==
  /\ log \in Seq([parent : Nat, code : Release!Codes, file : RelFile]) /\ head = Len(log)
       /\ head > 0
  /\ tree \in [code : Release!Codes, file : RelFile] /\ host \in Release!Hosts /\ moves \in Nat
  /\ dirs \in [ReportDirs -> Release!Entries \cup {Nil}]
  /\ seen \in 0 .. head /\ aBefore \in 0 .. head /\ candidate \in 0 .. head /\ collected \in Nat
  /\ value \in Release!Files \cup {Nil}

\* y is x or came after it.
Since(x, y) == x.n <= y.n /\ (x.n = y.n => x = y)
\* Development has gone forward to the worktree and the machine of now.
RelForward ==
  /\ \A c \in DOMAIN log : Since(log[c].code, tree.code)
  /\ tree.code.n <= moves /\ host.n <= moves

\* Which round of the run is where.
RelPlace ==
  /\ aAt \in {"idle", "head", "status", "look", "mkdir", "pytest", "parse", "collect", "facts",
             "write", "flush"}
  /\ aAt = "idle" => round = 0
  /\ aAt # "idle" => dir \in ReportDirs
  /\ aAt \in {"head", "status"} => round \in 1 .. 4
  /\ aAt \in {"look", "mkdir", "pytest"} => round = 1
  /\ aAt = "parse" => round = 2
  /\ aAt = "collect" => round = 3
  /\ aAt \in {"facts", "write", "flush"} => round = 4
\* How far the run is: it has looked at the machine, it has its directory, and pytest has
\* seen the code of its first commit alone.
Looked == aAt \in {"mkdir", "pytest"} \/ round \in 2 .. 4
Made   == aAt = "pytest" \/ round \in 2 .. 4
Ran    == dirs[dir].ran = {log[aBefore].code}
\* What the run has at each place.
RelSeen ==
  /\ aAt = "status" => seen > 0
  /\ aAt \in {"look", "mkdir", "pytest"} \/ round \in 2 .. 4 => aBefore > 0
  /\ aAt = "collect" \/ round = 4 => candidate > 0
RelLook == Looked => look \in Release!Hosts /\ look.passes /\ Since(look, host)
RelDir  == Made =>
  /\ dirs[dir] \in Release!Entries
  /\ dirs[dir].ran # {} /\ \A x \in dirs[dir].ran : Since(x, tree.code)
       /\ log[aBefore].code.n <= x.n
  /\ dirs[dir].hosts # {} /\ \A h \in dirs[dir].hosts : Since(h, host) /\ look.n <= h.n
RelRan  ==
  /\ aAt = "parse" \/ round \in 3 .. 4 => (head = aBefore => Ran)
  /\ aAt = "status" /\ round \in 3 .. 4 => (seen = aBefore => Ran)
  /\ aAt = "collect" \/ round = 4 => (candidate = aBefore => Ran)
RelTold == aAt \in {"write", "flush"} =>
  /\ dirs[dir].report = [suite |-> collected, outcome |-> "passed"]
  /\ dirs[dir].ran = {log[candidate].code} /\ dirs[dir].hosts = {look}
RelTorn ==
  /\ aAt \in {"facts", "write"} /\ Release!Whole(tree.file) => log[head].file # Torn
  /\ aAt = "flush" => ~Release!Whole(tree.file)
\* The run that is under way.
RelRun == RelPlace /\ RelSeen /\ RelLook /\ RelDir /\ RelRan /\ RelTold /\ RelTorn

\* What an attestation promises, as long as its directory is not being made anew.
Earned(f) ==
  /\ f.candidate \in DOMAIN log /\ dirs[f.dir] # Nil
  /\ dirs[f.dir].report = [suite |-> f.suite, outcome |-> "passed"]
  /\ dirs[f.dir].ran = {log[f.candidate].code} /\ dirs[f.dir].hosts = {f.host} /\ f.host.passes
Fine(f) == Release!Whole(f) => Earned(f) /\ (Made => f.dir # dir)
RelFiles == Fine(tree.file) /\ Fine(value) /\ \A c \in DOMAIN log : Fine(log[c].file)

\* The tag, the verification that is under way and what it has verified.
Names(g) == g = Nil \/ (Release!Whole(g) /\ g.dir = tag.dir /\ g.candidate = tag.candidate)
RelTag == tag # Nil =>
  /\ tag.target \in DOMAIN log
  /\ tag.target = head =>
       \/ Names(log[head].file)
       \/ tree.file # log[head].file
            /\ (log[head].file = Torn => aAt \notin {"facts", "write", "flush"})

RelVerify ==
  /\ vAt \in {"collect", "validate", "head", "status", "child", "tag"} => Release!Whole(value)
  /\ vAt \in {"head", "status", "child", "tag"} => vDir = value.dir
  /\ vAt \in {"status", "child", "tag"} => binding \in DOMAIN log /\ (calm => head = binding)
  /\ vAt \in {"child", "tag"} /\ calm /\ tag # Nil => (tag.target = head => Names(log[head].file))
  /\ vAt = "tag" => Release!OnlyAdds(binding, value.candidate)
RelVerified == verified # Nil /\ verified.calm =>
  /\ verified.commit \in DOMAIN log
  /\ Release!Whole(log[verified.commit].file) /\ log[verified.commit].file.dir = verified.dir
  /\ log[verified.commit].file.candidate = log[verified.commit].parent
  /\ dirs[verified.dir].report.outcome = "passed"
  /\ dirs[verified.dir].ran = {log[verified.commit].code}

\* The inductive invariant.
RelInv == RelTypes /\ RelForward /\ RelRun /\ RelFiles /\ RelTag /\ RelVerify /\ RelVerified

\* The inductive invariant holds at first.
LEMMA RelInit == ASSUME Release!Init PROVE RelInv
  <1>1. log = <<[parent |-> 0, code |-> [n |-> 0, suite |-> 0], file |-> Nil]>> /\ head = 1
        /\ tree = [code |-> [n |-> 0, suite |-> 0], file |-> Nil]
    BY DEF Release!Init
  <1>2. DOMAIN log = {1} /\ Len(log) = 1 /\ log[1].code = [n |-> 0, suite |-> 0]
        /\ log[1].file = Nil
    BY <1>1
  <1>3. RelTypes
    BY <1>1, <1>2 DEF Release!Init, RelTypes, Release!Codes, RelFile, Release!Hosts
  <1>4. RelForward
    BY <1>1, <1>2 DEF Release!Init, RelForward, Since
  <1>5. RelRun
    BY
    DEF Release!Init, RelRun, RelPlace, RelSeen, RelLook, RelDir, RelRan, RelTold, RelTorn, Looked,
        Made
  <1>6. RelFiles
    BY <1>1, <1>2 DEF Release!Init, RelFiles, Fine, Release!Whole
  <1>7. RelTag /\ RelVerify /\ RelVerified
    BY DEF Release!Init, RelTag, RelVerify, RelVerified
  <1> QED
    BY <1>3, <1>4, <1>5, <1>6, <1>7 DEF RelInv

\* Every file there is, is a file.
LEMMA RelTyped ==
  ASSUME RelTypes
  PROVE  /\ tree.file \in RelFile /\ tree.code \in Release!Codes /\ value \in RelFile
         /\ \A c \in DOMAIN log : log[c].file \in RelFile /\ log[c].code \in Release!Codes
  <1>1. value \in RelFile
    BY DEF RelTypes, RelFile
  <1>2. tree.file \in RelFile /\ tree.code \in Release!Codes
    BY DEF RelTypes
  <1>3. log \in Seq([parent : Nat, code : Release!Codes, file : RelFile])
    BY DEF RelTypes
  <1>4. ASSUME NEW c \in DOMAIN log PROVE log[c].file \in RelFile /\ log[c].code \in Release!Codes
    <2>1. PICK S : S = [parent : Nat, code : Release!Codes, file : RelFile]
      OBVIOUS
    <2>2. log \in Seq(S)
      BY <1>3, <2>1
    <2>3. log[c] \in S
      BY <2>2
    <2> QED
      BY <2>1, <2>3
  <1> QED
    BY <1>1, <1>2, <1>4

\* What a file says stays so while its commit and its report do.
LEMMA RelEarned ==
  ASSUME NEW f, Earned(f), \A c \in DOMAIN log : c \in DOMAIN log' /\ log'[c] = log[c],
         dirs'[f.dir] = dirs[f.dir]
  PROVE  Earned(f)'
  BY DEF Earned

\* What the verification that is under way leaves alone.
LEMMA RelQuiet ==
  ASSUME RelInv, UNCHANGED <<Release!git, host, dirs, Release!runs, moves>>
  PROVE  /\ RelForward' /\ RelRun' /\ RelTag' /\ Made' = Made
         /\ \A f : Fine(f) => Fine(f)'
  <1>0. UNCHANGED <<log, head, remote, tree, tag, host, dirs, moves, aAt, round, aBefore, seen,
        candidate,
                    dir, look, collected>>
    BY DEF Release!git, Release!runs
  <1>1. RelForward'
    BY <1>0 DEF RelInv, RelForward, Since
  <1>2. Made' = Made /\ Looked' = Looked
    BY <1>0 DEF Made, Looked
  <1>3. RelPlace' /\ RelSeen' /\ RelTorn' /\ RelTold'
    BY <1>0 DEF RelInv, RelRun, RelPlace, RelSeen, RelTorn, RelTold
  <1>4. RelLook' /\ RelDir' /\ RelRan'
    BY <1>0, <1>2 DEF RelInv, RelRun, RelLook, RelDir, RelRan, Since, Ran
  <1>5. RelTag'
    BY <1>0 DEF RelInv, RelTag, Names
  <1>6. \A f : Fine(f) => Fine(f)'
    BY <1>0, <1>2 DEF Fine, Earned
  <1> QED
    BY <1>1, <1>2, <1>3, <1>4, <1>5, <1>6 DEF RelRun

\* A verification under way, when the repository and the reports stay as they are.
LEMMA RelStill ==
  ASSUME RelInv, UNCHANGED <<Release!git, host, dirs, Release!runs, moves>>,
    value' \in Release!Files \cup {Nil},
         Fine(value'), RelVerify', RelVerified'
  PROVE  RelInv'
  <1>0. UNCHANGED <<log, head, remote, tree, tag, host, dirs, moves, aAt, round, aBefore, seen,
        candidate,
                    dir, look, collected>>
    BY DEF Release!git, Release!runs
  <1>1. RelTypes'
    BY <1>0 DEF RelInv, RelTypes
  <1>2. RelFiles'
    <2>1. Fine(tree.file)'
      <3>1. PICK f : f = tree.file
        OBVIOUS
      <3>2. Fine(f)'
        BY <3>1, RelQuiet DEF RelInv, RelFiles
      <3> QED
        BY <1>0, <3>1, <3>2
    <2>2. Fine(value)'
      <3>1. PICK f : f = value'
        OBVIOUS
      <3>2. Fine(f)'
        BY <3>1, RelQuiet
      <3> QED
        BY <3>1, <3>2
    <2>3. ASSUME NEW c \in DOMAIN log PROVE Fine(log[c].file)'
      <3>1. PICK f : f = log[c].file
        OBVIOUS
      <3>2. Fine(f)'
        BY <3>1, RelQuiet DEF RelInv, RelFiles
      <3> QED
        BY <1>0, <3>1, <3>2
    <2> QED
      BY <1>0, <2>1, <2>2, <2>3 DEF RelFiles
  <1> QED
    BY <1>1, <1>2, RelQuiet DEF RelInv

\* What was verified stays so.
LEMMA RelVerifiedKeeps ==
  ASSUME RelVerified, UNCHANGED <<log, dirs, verified>> PROVE RelVerified'
  BY DEF RelVerified

\* Every step of the verification keeps the invariant.
LEMMA RelVerifyStep ==
  ASSUME RelInv, Release!Verify \/ Release!StartVerify PROVE RelInv'
  <1>0. UNCHANGED <<Release!git, host, dirs, Release!runs, moves>>
    BY
    DEF Release!Verify, Release!StartVerify, Release!Load, Release!CollectAgain, Release!Validate,
        Release!BindHead, Release!BindStatus, Release!Bind, Release!VerifyTag, Release!Still
  <1>00. UNCHANGED <<log, head, remote, tree, tag, host, dirs, moves>>
    BY <1>0 DEF Release!git
  <1>1. value \in Release!Files \cup {Nil} /\ Fine(value) /\ RelVerify /\ RelVerified
    BY DEF RelInv, RelTypes, RelFiles
  <1>2. CASE Release!Reject
    <2>1. value' = Nil /\ vAt' = "idle" /\ Fine(Nil)
      BY <1>2 DEF Release!Reject, Release!Checked, Fine, Release!Whole
    <2>2. RelVerify'
      BY <2>1 DEF RelVerify
    <2>3. RelVerified'
      BY <1>00, <1>1, <1>2, RelVerifiedKeeps DEF Release!Reject
    <2> QED
      BY <1>0, <2>1, <2>2, <2>3, RelStill
  <1>3. ASSUME UNCHANGED <<value, verified>>, RelVerify' PROVE RelInv'
    BY <1>0, <1>00, <1>1, <1>3, RelStill, RelVerifiedKeeps
  <1>4. CASE Release!StartVerify
    BY <1>3, <1>4 DEF Release!StartVerify, RelVerify
  <1>5. CASE Release!Load
    <2>1. CASE Release!Whole(tree.file) /\ vAt' = "collect" /\ value' = tree.file
          /\ UNCHANGED verified
      <3>1. tree.file \in Release!Files /\ Fine(tree.file)
        BY <2>1 DEF RelInv, RelTypes, RelFiles, RelFile, Release!Whole
      <3>2. RelVerify'
        BY <2>1 DEF RelVerify, Release!Whole
      <3>3. RelVerified'
        BY <1>00, <1>1, <2>1, RelVerifiedKeeps
      <3> QED
        BY <1>0, <2>1, <3>1, <3>2, <3>3, RelStill
    <2> QED
      BY <1>2, <1>5, <2>1 DEF Release!Load
  <1>6. CASE Release!CollectAgain
    BY <1>1, <1>3, <1>6 DEF Release!CollectAgain, RelVerify, Release!Whole
  <1>7. CASE Release!Validate
    BY <1>1, <1>2, <1>3, <1>7 DEF Release!Validate, RelVerify, Release!Whole
  <1>8. CASE Release!BindHead
    <2>1. head \in DOMAIN log
      BY DEF RelInv, RelTypes
    <2> QED
      BY <1>00, <1>1, <1>3, <1>8, <2>1 DEF Release!BindHead, RelVerify, Release!Whole
  <1>9. CASE Release!BindStatus
    <2>1. CASE Release!Clean /\ vAt' = "child" /\ UNCHANGED <<vDir, value, binding, calm, verified>>
      <3>1. tag # Nil => (tag.target = head => Names(log[head].file))
        BY <2>1 DEF RelInv, RelTag, Release!Clean
      <3>2. Names(log[head].file) => Names(log[head].file)'
        BY <1>00 DEF Names
      <3>3. vAt = "status"
        BY <1>9 DEF Release!BindStatus
      <3>4. RelVerify'
        BY <1>00, <1>1, <2>1, <3>1, <3>2, <3>3 DEF RelVerify, Release!Whole
      <3> QED
        BY <1>3, <2>1, <3>4
    <2> QED
      BY <1>2, <1>9, <2>1 DEF Release!BindStatus
  <1>10. CASE Release!Bind
    <2>1. CASE Release!OnlyAdds(binding, value.candidate) /\ vAt' = "tag"
               /\ UNCHANGED <<vDir, value, binding, calm, verified>>
      <3>1. Release!OnlyAdds(binding, value.candidate)' /\ vAt = "child"
        BY <1>00, <1>10, <2>1 DEF Release!OnlyAdds, Release!Bind
      <3>2. RelVerify'
        BY <1>00, <1>1, <2>1, <3>1 DEF RelVerify, Release!Whole, Names
      <3> QED
        BY <1>3, <2>1, <3>2
    <2> QED
      BY <1>2, <1>10, <2>1 DEF Release!Bind
  <1>11. CASE Release!VerifyTag
    <2>1. value' = Nil /\ vAt' = "idle" /\ Fine(Nil)
      BY <1>11 DEF Release!VerifyTag, Release!Checked, Fine, Release!Whole
    <2>2. RelVerify'
      BY <2>1 DEF RelVerify
    <2>3. RelVerified'
      <3>1. CASE verified' = verified
        BY <1>00, <1>1, <3>1, RelVerifiedKeeps
      <3>2. CASE Release!Bound /\ verified' = [commit |-> tag.target, dir |-> vDir, calm |-> calm]
        <4> SUFFICES ASSUME calm PROVE RelVerified'
          BY <3>2 DEF RelVerified
        <4>1. /\ vDir = value.dir /\ binding \in DOMAIN log /\ head = binding
                   /\ Release!Whole(value)
              /\ Names(log[head].file) /\ Release!OnlyAdds(head, value.candidate)
          BY <1>1, <1>11, <3>2 DEF Release!VerifyTag, RelVerify, Release!Bound
        <4>2. Release!Whole(log[head].file) /\ log[head].file.dir = vDir
              /\ log[head].file.candidate = log[head].parent
          BY <3>2, <4>1 DEF Names, Release!OnlyAdds, Release!Bound
        <4>3. Earned(value)
          BY <1>1, <4>1 DEF Fine
        <4>4. /\ dirs[vDir].report = [suite |-> value.suite, outcome |-> "passed"]
              /\ dirs[vDir].ran = {log[head].code}
          BY <4>1, <4>3 DEF Earned, Release!OnlyAdds
        <4>5. dirs[vDir].report.outcome = "passed"
          BY <4>4
        <4>6. verified'.commit = head /\ verified'.dir = vDir
          BY <3>2 DEF Release!Bound
        <4> QED
          BY <1>00, <4>1, <4>2, <4>4, <4>5, <4>6 DEF RelVerified, Release!Whole
      <3> QED
        BY <1>11, <3>1, <3>2 DEF Release!VerifyTag
    <2> QED
      BY <1>0, <2>1, <2>2, <2>3, RelStill
  <1> QED
    BY <1>4, <1>5, <1>6, <1>7, <1>8, <1>9, <1>10, <1>11 DEF Release!Verify

\* A step of the run that leaves the repository and the machine as they are.
LEMMA RelRuns ==
  ASSUME RelInv, UNCHANGED <<Release!git, host, Release!checks, calm, verified, moves>>, RelRun',
         dirs' \in [ReportDirs -> Release!Entries \cup {Nil}],
         seen' \in 0 .. head, aBefore' \in 0 .. head, candidate' \in 0 .. head, collected' \in Nat,
         \A d \in ReportDirs : dirs'[d] = dirs[d] \/ (d = dir /\ (Made \/ dirs[d] = Nil)),
         Made' => (Made \/ dirs[dir] = Nil) /\ dir' = dir,
         aAt' \in {"facts", "write", "flush"} =>
           aAt \in {"facts", "write", "flush"} \/ tree.file = log[head].file
  PROVE  RelInv'
  <1>0. UNCHANGED <<log, head, remote, tree, tag, host, vAt, vDir, value, inventory, binding,
                    calm, verified, moves>>
    BY DEF Release!git, Release!checks
  <1>1. RelTypes'
    BY <1>0 DEF RelInv, RelTypes
  <1>2. RelForward'
    BY <1>0 DEF RelInv, RelForward, Since
  <1>3. ASSUME NEW f \in RelFile, Fine(f), Release!Whole(f)
    PROVE dirs'[f.dir] = dirs[f.dir] /\ (Made' => f.dir # dir')
    <2>1. f \in Release!Files /\ f.dir \in ReportDirs /\ Earned(f) /\ (Made => f.dir # dir)
      BY <1>3 DEF RelFile, Release!Whole, Release!Files, Fine
    <2>2. dirs[f.dir] # Nil
      BY <2>1 DEF Earned
    <2> QED
      BY <2>1, <2>2
  <1>4. ASSUME NEW f \in RelFile, Fine(f) PROVE Fine(f)'
    <2>1. CASE ~Release!Whole(f)
      BY <2>1 DEF Fine, Release!Whole
    <2>2. CASE Release!Whole(f)
      <3>1. dirs'[f.dir] = dirs[f.dir] /\ (Made' => f.dir # dir')
        BY <1>3, <1>4, <2>2
      <3>2. Earned(f)
        BY <1>4, <2>2 DEF Fine
      <3>3. Earned(f)'
        BY <1>0, <3>1, <3>2, RelEarned
      <3> QED
        BY <3>1, <3>3 DEF Fine
    <2> QED
      BY <2>1, <2>2
  <1>5. RelFiles'
    <2>1. tree.file \in RelFile /\ value \in RelFile
          /\ \A c \in DOMAIN log : log[c].file \in RelFile
      BY RelTyped DEF RelInv
    <2>2. PICK f \in RelFile : f = tree.file
      BY <2>1
    <2>3. Fine(f)'
      BY <1>4, <2>2 DEF RelInv, RelFiles
    <2>4. PICK g \in RelFile : g = value
      BY <2>1
    <2>5. Fine(g)'
      BY <1>4, <2>4 DEF RelInv, RelFiles
    <2>6. ASSUME NEW c \in DOMAIN log PROVE Fine(log[c].file)'
      <3>1. PICK h \in RelFile : h = log[c].file
        BY <2>1
      <3>2. Fine(h)'
        BY <1>4, <3>1 DEF RelInv, RelFiles
      <3> QED
        BY <1>0, <3>1, <3>2
    <2>7. Fine(tree.file)' /\ Fine(value)'
      BY <1>0, <2>2, <2>3, <2>4, <2>5
    <2> QED
      BY <1>0, <2>6, <2>7 DEF RelFiles
  <1>6. RelTag'
    BY <1>0 DEF RelInv, RelTag, Names
  <1>7. RelVerify'
    BY <1>0 DEF RelInv, RelVerify, Release!Whole, Names, Release!OnlyAdds
  <1>8. RelVerified'
    <2> SUFFICES ASSUME verified # Nil, verified.calm PROVE dirs'[verified.dir] = dirs[verified.dir]
      BY <1>0 DEF RelInv, RelVerified
    <2>1. PICK f : f = log[verified.commit].file
      OBVIOUS
    <2>2. verified.commit \in DOMAIN log /\ Release!Whole(f) /\ f.dir = verified.dir
      BY <2>1 DEF RelInv, RelVerified
    <2>3. f \in RelFile /\ Fine(f)
      BY <2>1, <2>2, RelTyped DEF RelInv, RelFiles
    <2> QED
      BY <1>3, <2>2, <2>3
  <1> QED
    BY <1>1, <1>2, <1>5, <1>6, <1>7, <1>8 DEF RelInv

\* The run is over.
LEMMA RelOver ==
  ASSUME RelInv, Release!Over,
    UNCHANGED <<Release!git, host, Release!checks, calm, verified, moves>>,
         dirs' \in [ReportDirs -> Release!Entries \cup {Nil}],
         \A d \in ReportDirs : dirs'[d] = dirs[d] \/ (d = dir /\ (Made \/ dirs[d] = Nil))
  PROVE  RelInv'
  <1>1. RelRun' /\ ~Made'
    BY
    DEF Release!Over, RelRun, RelPlace, RelSeen, RelLook, RelDir, RelRan, RelTold, RelTorn, Looked,
        Made
  <1>2. 0 \in 0 .. head /\ 0 \in Nat
    BY DEF RelInv, RelTypes
  <1> QED
    BY <1>1, <1>2, RelRuns DEF Release!Over

\* The run refuses to go on.
LEMMA RelRefuse ==
  ASSUME RelInv, Release!Refuse,
    UNCHANGED <<Release!git, host, Release!checks, calm, verified, moves>> PROVE RelInv'
  BY RelOver DEF Release!Refuse, RelInv, RelTypes

\* A step of the run that writes no report.
LEMMA RelLooks ==
  ASSUME RelInv, UNCHANGED <<Release!git, host, Release!checks, calm, verified, moves, dirs>>,
    RelRun', dir' = dir,
         seen' \in 0 .. head, aBefore' \in 0 .. head, candidate' \in 0 .. head, collected' \in Nat,
         Made' => Made,
         aAt' \in {"facts", "write", "flush"} =>
           aAt \in {"facts", "write", "flush"} \/ tree.file = log[head].file
  PROVE  RelInv'
  BY RelRuns DEF RelInv, RelTypes

\* A run starts in a directory that does not exist yet.
LEMMA RelStart == ASSUME RelInv, Release!Start PROVE RelInv'
  <1>1. UNCHANGED <<Release!git, host, Release!checks, calm, verified, moves, dirs, seen, aBefore,
        candidate, collected, look>>
        /\ aAt' = "head" /\ round' = 1 /\ dir' \in ReportDirs
    BY DEF Release!Start, Release!Quiet
  <1>2. RelRun' /\ ~Made'
    BY <1>1 DEF RelRun, RelPlace, RelSeen, RelLook, RelDir, RelRan, RelTold, RelTorn, Looked, Made
  <1> QED
    BY <1>1, <1>2, RelRuns DEF RelInv, RelTypes

\* HEAD is read: what is seen is the HEAD of now.
LEMMA RelReadHead == ASSUME RelInv, Release!ReadHead PROVE RelInv'
  <1>1. UNCHANGED <<Release!git, host, Release!checks, calm, verified, moves, dirs, dir, round,
        aBefore, candidate, collected, look>>
        /\ aAt = "head" /\ aAt' = "status" /\ seen' = head
    BY DEF Release!ReadHead, Release!Quiet
  <1>2. UNCHANGED <<log, head, tree>> /\ head \in 0 .. head /\ head > 0
    BY <1>1 DEF Release!git, RelInv, RelTypes
  <1>3. RelPlace /\ RelSeen /\ RelLook /\ RelDir /\ RelRan
    BY DEF RelInv, RelRun
  <1>4. RelPlace' /\ RelSeen'
    BY <1>1, <1>2, <1>3 DEF RelPlace, RelSeen
  <1>5. Looked' = Looked /\ Made' = Made
    BY <1>1 DEF Looked, Made
  <1>6. RelLook' /\ RelDir'
    BY <1>1, <1>2, <1>3, <1>5 DEF RelLook, RelDir, Since
  <1>7. RelRan'
    BY <1>1, <1>2, <1>3 DEF RelRan, Ran
  <1>8. RelTold' /\ RelTorn'
    BY <1>1 DEF RelTold, RelTorn
  <1> QED
    BY <1>1, <1>2, <1>4, <1>5, <1>6, <1>7, <1>8, RelLooks DEF RelInv, RelTypes, RelRun

\* The status: in the second look a clean tree at the commit that was seen first has not
\* changed since pytest began.
LEMMA RelReadStatus == ASSUME RelInv, Release!ReadStatus PROVE RelInv'
  <1>0. UNCHANGED <<Release!git, host, Release!checks, calm, verified, moves>> /\ aAt = "status"
    BY DEF Release!ReadStatus, Release!Quiet
  <1>1. CASE Release!Refuse
    BY <1>0, <1>1, RelRefuse
  <1>2. CASE /\ Release!Clean /\ Release!Agrees
             /\ aBefore' = IF round = 1 THEN seen ELSE aBefore
             /\ candidate' = IF round = 3 THEN seen ELSE candidate
             /\ aAt' = <<"look", "parse", "collect", "facts">>[round]
             /\ UNCHANGED <<round, seen, dir, look, collected, dirs>>
    <2>1. UNCHANGED <<log, head, tree>> /\ head \in 0 .. head /\ head > 0
      BY <1>0 DEF Release!git, RelInv, RelTypes
    <2>2. RelPlace /\ RelSeen /\ RelLook /\ RelDir /\ RelRan
      BY DEF RelInv, RelRun
    <2>3. round \in 1 .. 4 /\ seen > 0 /\ dir \in ReportDirs
      BY <1>0, <2>2 DEF RelPlace, RelSeen
    <2>4. /\ round = 1 => aAt' = "look"
          /\ round = 2 => aAt' = "parse"
          /\ round = 3 => aAt' = "collect"
          /\ round = 4 => aAt' = "facts"
      BY <1>2, <2>3
    <2>5. RelPlace'
      BY <1>2, <2>3, <2>4 DEF RelPlace
    <2>6. RelSeen'
      BY <1>2, <2>2, <2>3, <2>4 DEF RelSeen
    <2>7. Looked' = Looked /\ Made' = Made
      BY <1>0, <1>2, <2>3, <2>4 DEF Looked, Made
    <2>8. RelLook'
      BY <1>0, <1>2, <2>2, <2>7 DEF RelLook, Since
    <2>9. Made => round # 1
      BY <1>0 DEF Made
    <2>10. RelDir'
      <3> SUFFICES ASSUME Made PROVE RelDir'
        BY <2>7 DEF RelDir
      <3>1. aBefore' = aBefore /\ dirs' = dirs /\ dir' = dir /\ look' = look /\ host' = host
        BY <1>0, <1>2, <2>9
      <3> QED
        BY <2>1, <2>2, <3>1 DEF RelDir, Since
    <2>11. RelRan'
      <3>1. CASE round = 1
        BY <1>2, <2>4, <3>1 DEF RelRan
      <3>2. CASE round = 2
        <4>1. seen = aBefore /\ Made
          BY <1>2, <3>2 DEF Release!Agrees, Made
        <4>2. head = aBefore => Ran
          <5> SUFFICES ASSUME head = aBefore PROVE Ran
            OBVIOUS
          <5>1. tree.code = log[aBefore].code
            BY <1>2 DEF Release!Clean
          <5>2. \A x \in dirs[dir].ran : x = tree.code
            <6> TAKE x \in dirs[dir].ran
            <6>1. x \in Release!Codes /\ tree.code \in Release!Codes
              BY <2>2, <4>1 DEF RelDir, Release!Entries, RelInv, RelTypes
            <6>2. Since(x, tree.code) /\ tree.code.n <= x.n
              BY <2>2, <4>1, <5>1 DEF RelDir
            <6> QED
              BY <6>1, <6>2 DEF Since, Release!Codes
          <5>3. dirs[dir].ran # {}
            BY <2>2, <4>1 DEF RelDir
          <5> QED
            BY <5>1, <5>2, <5>3 DEF Ran
        <4> QED
          BY <1>2, <2>1, <2>4, <3>2, <4>2 DEF RelRan, Ran
      <3>3. CASE round = 3
        BY <1>0, <1>2, <2>1, <2>2, <2>4, <3>3 DEF RelRan, Ran
      <3>4. CASE round = 4
        BY <1>0, <1>2, <2>1, <2>2, <2>4, <3>4 DEF RelRan, Ran, Release!Agrees
      <3> QED
        BY <2>3, <3>1, <3>2, <3>3, <3>4
    <2>12. RelTold' /\ RelTorn'
      <3>1. aAt' \notin {"write", "flush"} /\ (Release!Whole(tree.file) => log[head].file # Torn)
        BY <1>2, <2>3, <2>4 DEF Release!Clean, Release!Whole
      <3> QED
        BY <2>1, <3>1 DEF RelTold, RelTorn, Release!Whole
    <2>13. tree.file = log[head].file
      BY <1>2 DEF Release!Clean
    <2>14. aBefore' \in 0 .. head /\ candidate' \in 0 .. head /\ seen' \in 0 .. head
           /\ collected' \in Nat
      BY <1>2 DEF RelInv, RelTypes
    <2> QED
      BY <1>0, <1>2, <2>5, <2>6, <2>7, <2>8, <2>10, <2>11, <2>12, <2>13, <2>14, RelLooks DEF RelRun
  <1> QED
    BY <1>1, <1>2 DEF Release!ReadStatus

\* The machine is looked at.
LEMMA RelLookStep == ASSUME RelInv, Release!Look PROVE RelInv'
  <1>0. UNCHANGED <<Release!git, host, Release!checks, calm, verified, moves>> /\ aAt = "look"
    BY DEF Release!Look, Release!Quiet
  <1>1. CASE Release!Refuse
    BY <1>0, <1>1, RelRefuse
  <1>2. CASE /\ host.passes /\ aAt' = "mkdir" /\ look' = host
             /\ UNCHANGED <<round, aBefore, seen, candidate, dir, collected, dirs>>
    <2>1. UNCHANGED <<log, head, tree>>
      BY <1>0 DEF Release!git
    <2>2. RelPlace /\ RelSeen /\ RelRan /\ round = 1 /\ ~Made
      BY <1>0 DEF RelInv, RelRun, RelPlace, Made
    <2>3. RelPlace' /\ RelSeen' /\ ~Made'
      BY <1>0, <1>2, <2>2 DEF RelPlace, RelSeen, Made
    <2>4. RelLook'
      BY <1>0, <1>2 DEF RelLook, Since, RelInv, RelTypes, Release!Hosts
    <2>5. RelDir' /\ RelRan' /\ RelTold' /\ RelTorn'
      BY <1>2, <2>2, <2>3 DEF RelDir, RelRan, RelTold, RelTorn
    <2> QED
      BY <1>0, <1>2, <2>3, <2>4, <2>5, RelLooks DEF RelRun, RelInv, RelTypes
  <1> QED
    BY <1>1, <1>2 DEF Release!Look

\* The directory is new, and pytest begins with the worktree and the machine of now.
LEMMA RelMake == ASSUME RelInv, Release!MakeDirectory PROVE RelInv'
  <1>0. UNCHANGED <<Release!git, host, Release!checks, calm, verified, moves>> /\ aAt = "mkdir"
    BY DEF Release!MakeDirectory, Release!Quiet
  <1>1. CASE Release!Refuse
    BY <1>0, <1>1, RelRefuse
  <1>2. CASE /\ dirs[dir] = Nil /\ aAt' = "pytest"
             /\ dirs' = [dirs EXCEPT ![dir] = [report |-> Nil, ran |-> {tree.code},
                  hosts |-> {host}]]
             /\ UNCHANGED <<round, aBefore, seen, candidate, dir, look, collected>>
    <2>1. UNCHANGED <<log, head, tree, host>>
      BY <1>0 DEF Release!git
    <2>2. RelPlace /\ RelSeen /\ RelRan /\ RelLook /\ round = 1 /\ dir \in ReportDirs /\ aBefore > 0
      BY <1>0 DEF RelInv, RelRun, RelPlace, RelSeen
    <2>3. RelPlace' /\ RelSeen' /\ Looked' /\ Looked
      BY <1>0, <1>2, <2>2 DEF RelPlace, RelSeen, Looked
    <2>4. RelLook'
      BY <1>2, <2>1, <2>2, <2>3 DEF RelLook, Since
    <2>5. PICK e : e = [report |-> Nil, ran |-> {tree.code}, hosts |-> {host}]
      OBVIOUS
    <2>6. e \in Release!Entries
      BY <2>5, RelTyped DEF RelInv, RelTypes, Release!Entries
    <2>7. /\ dirs' \in [ReportDirs -> Release!Entries \cup {Nil}] /\ dirs'[dir] = e
          /\ \A d \in ReportDirs : d # dir => dirs'[d] = dirs[d]
      BY <1>2, <2>2, <2>5, <2>6 DEF RelInv, RelTypes
    <2>8. aBefore \in DOMAIN log
      BY <2>2 DEF RelInv, RelTypes
    <2>9. Since(log[aBefore].code, tree.code)
      BY <2>8 DEF RelInv, RelForward
    <2>10. tree.code.n <= tree.code.n /\ look.n <= host.n
      BY <2>2, <2>3, RelTyped DEF RelLook, Since, RelInv, Release!Codes
    <2>11. host.n <= host.n
      BY DEF RelInv, RelTypes, Release!Hosts
    <2>12. RelDir'
      BY <1>2, <2>1, <2>5, <2>6, <2>7, <2>9, <2>10, <2>11 DEF RelDir, Since
    <2>13. RelRan' /\ RelTold' /\ RelTorn'
      BY <1>2, <2>2 DEF RelRan, RelTold, RelTorn
    <2>14. RelRun'
      BY <2>3, <2>4, <2>12, <2>13 DEF RelRun
    <2> QED
      BY <1>0, <1>2, <2>7, <2>14, RelRuns DEF RelInv, RelTypes
  <1> QED
    BY <1>1, <1>2 DEF Release!MakeDirectory

\* pytest runs with the worktree of now and writes its report.
LEMMA RelPytest == ASSUME RelInv, Release!Pytest PROVE RelInv'
  <1>0. UNCHANGED <<Release!git, host, Release!checks, calm, verified, moves>> /\ aAt = "pytest"
    BY DEF Release!Pytest, Release!Quiet
  <1>1. UNCHANGED <<log, head, tree, host>>
    BY <1>0 DEF Release!git
  <1>2. Made /\ Looked /\ RelPlace /\ RelSeen /\ RelRan /\ RelLook /\ RelDir /\ round = 1
        /\ dir \in ReportDirs
    BY <1>0 DEF RelInv, RelRun, RelPlace, Made, Looked
  <1>3. PICK c \in dirs[dir].ran, outcome \in {"passed", "failed", "s4_skipped"} :
          /\ dirs' = [dirs EXCEPT ![dir].report = [suite |-> c.suite, outcome |-> outcome]]
          /\ IF outcome = "failed" THEN Release!Over
             ELSE aAt' = "head" /\ round' = 2
               /\ UNCHANGED <<aBefore, seen, candidate, dir, look, collected>>
    BY DEF Release!Pytest
  <1>4. PICK old \in Release!Entries : old = dirs[dir]
    BY <1>2 DEF RelDir
  <1>5. PICK r \in Release!Reports : r = [suite |-> c.suite, outcome |-> outcome]
    <2>1. c \in Release!Codes
      BY <1>3, <1>4 DEF Release!Entries
    <2> QED
      BY <2>1 DEF Release!Reports, Release!Codes
  <1>6. PICK e : e = [old EXCEPT !.report = r]
    OBVIOUS
  <1>7. e \in Release!Entries /\ e.ran = old.ran /\ e.hosts = old.hosts
    BY <1>6 DEF Release!Entries
  <1>8. dirs' = [dirs EXCEPT ![dir] = e]
    BY <1>3, <1>4, <1>5, <1>6
  <1>9. /\ dirs' \in [ReportDirs -> Release!Entries \cup {Nil}] /\ dirs'[dir] = e
        /\ \A d \in ReportDirs : d # dir => dirs'[d] = dirs[d]
    BY <1>2, <1>7, <1>8 DEF RelInv, RelTypes
  <1>10. CASE Release!Over
    BY <1>0, <1>2, <1>9, <1>10, RelOver
  <1>11. CASE aAt' = "head" /\ round' = 2
         /\ UNCHANGED <<aBefore, seen, candidate, dir, look, collected>>
    <2>1. RelPlace' /\ RelSeen' /\ Looked' /\ Made'
      BY <1>0, <1>2, <1>11 DEF RelPlace, RelSeen, Looked, Made
    <2>2. RelLook'
      BY <1>1, <1>2, <1>11 DEF RelLook, Since
    <2>3. RelDir'
      BY <1>1, <1>2, <1>4, <1>7, <1>9, <1>11 DEF RelDir, Since
    <2>4. RelRan' /\ RelTold' /\ RelTorn'
      BY <1>11 DEF RelRan, RelTold, RelTorn
    <2>5. RelRun'
      BY <2>1, <2>2, <2>3, <2>4 DEF RelRun
    <2> QED
      BY <1>0, <1>2, <1>9, <1>11, <2>5, RelRuns DEF RelInv, RelTypes
  <1> QED
    BY <1>3, <1>10, <1>11

\* The report is read, and the inventory collected.
LEMMA RelParse == ASSUME RelInv, Release!Parse \/ Release!Collect PROVE RelInv'
  <1>0. /\ UNCHANGED <<Release!git, host, Release!checks, calm, verified, moves, aBefore, seen,
             candidate, dir, look, dirs>>
        /\ aAt' = "head" /\ round' \in {3, 4} /\ collected' \in {collected, tree.code.suite}
        /\ (round' = 3 => aAt = "parse") /\ (round' = 4 => aAt = "collect")
    BY DEF Release!Parse, Release!Collect, Release!Quiet
  <1>1. UNCHANGED <<log, head, tree, host>>
    BY <1>0 DEF Release!git
  <1>2. Made /\ Looked /\ RelPlace /\ RelSeen /\ RelRan /\ RelLook /\ RelDir
    BY <1>0 DEF RelInv, RelRun, RelPlace, Made, Looked
  <1>3. RelPlace' /\ RelSeen' /\ Looked' /\ Made'
    BY <1>0, <1>2 DEF RelPlace, RelSeen, Looked, Made
  <1>4. RelLook' /\ RelDir'
    BY <1>0, <1>1, <1>2 DEF RelLook, RelDir, Since
  <1>5. RelRan'
    BY <1>0, <1>1, <1>2 DEF RelRan, Ran, RelPlace
  <1>6. RelTold' /\ RelTorn'
    BY <1>0 DEF RelTold, RelTorn
  <1>7. collected' \in Nat
    <2>1. collected \in Nat /\ tree.code \in Release!Codes
      BY RelTyped DEF RelInv, RelTypes
    <2>2. tree.code.suite \in Nat
      BY <2>1 DEF Release!Codes
    <2> QED
      BY <1>0, <2>1, <2>2
  <1> QED
    BY <1>0, <1>2, <1>3, <1>4, <1>5, <1>6, <1>7, RelLooks DEF RelRun, RelInv, RelTypes

\* The facts: the machine is the one of the first look, so no other was there between.
LEMMA RelFacts == ASSUME RelInv, Release!Facts PROVE RelInv'
  <1>0. UNCHANGED <<Release!git, host, Release!checks, calm, verified, moves>> /\ aAt = "facts"
    BY DEF Release!Facts, Release!Quiet
  <1>1. CASE Release!Refuse
    BY <1>0, <1>1, RelRefuse
  <1>2. CASE /\ Release!Validates(dir, collected) /\ Release!Unchanged /\ aAt' = "write"
             /\ UNCHANGED <<round, aBefore, seen, candidate, dir, look, collected, dirs>>
    <2>1. UNCHANGED <<log, head, tree>>
      BY <1>0 DEF Release!git
    <2>2. Made /\ Looked /\ RelPlace /\ RelSeen /\ RelRan /\ RelLook /\ RelDir /\ RelTorn
          /\ round = 4
      BY <1>0 DEF RelInv, RelRun, RelPlace, Made, Looked
    <2>3. RelPlace' /\ RelSeen' /\ Looked' /\ Made'
      BY <1>0, <1>2, <2>2 DEF RelPlace, RelSeen, Looked, Made
    <2>4. RelLook' /\ RelDir'
      BY <1>0, <1>2, <2>1, <2>2 DEF RelLook, RelDir, Since
    <2>5. RelRan'
      BY <1>0, <1>2, <2>1, <2>2 DEF RelRan, Ran
    <2>6. RelTorn'
      BY <1>0, <1>2, <2>1, <2>2 DEF RelTorn, Release!Whole
    <2>7. dirs[dir].ran = {log[candidate].code}
      BY <1>2, <2>2 DEF RelRan, Ran, Release!Unchanged
    <2>8. dirs[dir].hosts = {look}
      <3>1. host = look
        BY <1>2 DEF Release!Unchanged
      <3>2. ASSUME NEW h \in dirs[dir].hosts PROVE h = host
        <4>1. h \in Release!Hosts /\ host \in Release!Hosts
          BY <2>2 DEF RelDir, Release!Entries, RelInv, RelTypes
        <4>2. Since(h, host) /\ host.n <= h.n
          BY <2>2, <3>1 DEF RelDir
        <4> QED
          BY <4>1, <4>2 DEF Since, Release!Hosts
      <3> QED
        BY <2>2, <3>1, <3>2 DEF RelDir
    <2>9. RelTold'
      BY <1>2, <2>1, <2>7, <2>8 DEF RelTold, Release!Validates
    <2> QED
      BY <1>0, <1>2, <2>2, <2>3, <2>4, <2>5, <2>6, <2>9, RelLooks DEF RelRun, RelInv, RelTypes
  <1> QED
    BY <1>1, <1>2 DEF Release!Facts

\* The run dies.
LEMMA RelKill == ASSUME RelInv, Release!Kill PROVE RelInv'
  BY RelRefuse DEF Release!Kill, Release!Quiet

\* A run that is over has nothing in hand.
LEMMA RelOverRun == ASSUME Release!Over PROVE RelRun' /\ ~Made'
  BY
  DEF Release!Over, RelRun, RelPlace, RelSeen, RelLook, RelDir, RelRan, RelTold, RelTorn, Looked,
      Made

\* A file that is fine stays so while pytest only adds to the report that is being made.
LEMMA RelFine ==
  ASSUME NEW f \in RelFile, Fine(f), \A c \in DOMAIN log : c \in DOMAIN log' /\ log'[c] = log[c],
         \A d \in ReportDirs : dirs'[d] = dirs[d] \/ (d = dir /\ Made), Made' => Made /\ dir' = dir
  PROVE  Fine(f)'
  <1>1. CASE ~Release!Whole(f)
    BY <1>1 DEF Fine, Release!Whole
  <1>2. CASE Release!Whole(f)
    <2>1. f \in Release!Files /\ f.dir \in ReportDirs /\ Earned(f) /\ (Made => f.dir # dir)
      BY <1>2 DEF RelFile, Release!Whole, Release!Files, Fine
    <2>2. dirs'[f.dir] = dirs[f.dir]
      BY <2>1
    <2>3. Earned(f)'
      BY <2>1, <2>2, RelEarned
    <2> QED
      BY <2>1, <2>3 DEF Fine
  <1> QED
    BY <1>1, <1>2

\* The same for the files of the log and the one that is verified.
LEMMA RelOthers ==
  ASSUME RelInv, \A c \in DOMAIN log : c \in DOMAIN log' /\ log'[c] = log[c],
         \A d \in ReportDirs : dirs'[d] = dirs[d] \/ (d = dir /\ Made), Made' => Made /\ dir' = dir,
         UNCHANGED value
  PROVE  Fine(value)' /\ \A c \in DOMAIN log : Fine(log[c].file)'
  <1>1. value \in RelFile /\ \A c \in DOMAIN log : log[c].file \in RelFile
    BY RelTyped DEF RelInv
  <1>2. PICK g \in RelFile : g = value
    BY <1>1
  <1>3. Fine(g)'
    BY <1>2, RelFine DEF RelInv, RelFiles
  <1>4. ASSUME NEW c \in DOMAIN log PROVE Fine(log[c].file)'
    <2>1. PICK h \in RelFile : h = log[c].file
      BY <1>1
    <2>2. Fine(h)'
      BY <2>1, RelFine DEF RelInv, RelFiles
    <2>3. log'[c] = log[c]
      OBVIOUS
    <2> QED
      BY <2>1, <2>2, <2>3
  <1> QED
    BY <1>2, <1>3, <1>4

\* The attestation is opened, and written.
LEMMA RelWrite == ASSUME RelInv, Release!Write PROVE RelInv'
  <1>0. /\ UNCHANGED <<log, head, remote, tag, host, Release!checks, calm, verified, moves>>
             /\ aAt = "write"
    BY DEF Release!Write
  <1>1. CASE Release!Refuse /\ UNCHANGED tree
    BY <1>0, <1>1, RelRefuse DEF Release!git
  <1>2. CASE /\ aAt' = "flush" /\ tree' = [tree EXCEPT !.file = Torn]
             /\ UNCHANGED <<round, aBefore, seen, candidate, dir, look, collected, dirs>>
    <2>1. tree' \in [code : Release!Codes, file : RelFile] /\ tree'.file = Torn
          /\ tree'.code = tree.code
      BY <1>2 DEF RelInv, RelTypes, RelFile
    <2>2. Made /\ Looked /\ RelPlace /\ RelSeen /\ RelRan /\ RelLook /\ RelDir /\ RelTold
          /\ round = 4
      BY <1>0 DEF RelInv, RelRun, RelPlace, Made, Looked
    <2>3. RelPlace' /\ RelSeen' /\ Looked' /\ Made'
      BY <1>0, <1>2, <2>2 DEF RelPlace, RelSeen, Looked, Made
    <2>4. RelLook' /\ RelDir' /\ RelRan'
      BY <1>0, <1>2, <2>1, <2>2 DEF RelLook, RelDir, RelRan, Ran, Since
    <2>5. RelTold' /\ RelTorn'
      BY <1>0, <1>2, <2>1, <2>2 DEF RelTold, RelTorn, Release!Whole
    <2>6. RelTypes' /\ RelForward'
      <3>1. RelTypes'
        BY <1>0, <1>2, <2>1 DEF RelInv, RelTypes, Release!checks
      <3>2. RelForward'
        BY <1>0, <1>2, <2>1 DEF RelInv, RelForward, Since
      <3> QED
        BY <3>1, <3>2
    <2>7. RelFiles'
      <3>1. Fine(value)' /\ \A c \in DOMAIN log : Fine(log[c].file)'
        BY <1>0, <1>2, <2>2, <2>3, RelOthers DEF Release!checks
      <3>2. Fine(tree.file)'
        BY <2>1 DEF Fine, Release!Whole
      <3> QED
        BY <1>0, <3>1, <3>2 DEF RelFiles
    <2>8. RelTag'
      BY <1>0, <1>2, <2>1 DEF RelInv, RelTag, Names
    <2>9. RelVerify' /\ RelVerified'
      BY <1>0, <1>2
      DEF RelInv, RelVerify, RelVerified, Release!Whole, Names, Release!OnlyAdds, Release!checks
    <2> QED
      BY <2>3, <2>4, <2>5, <2>6, <2>7, <2>8, <2>9 DEF RelInv, RelRun
  <1> QED
    BY <1>1, <1>2 DEF Release!Write

\* The attestation is whole once it is flushed, and says what was seen.
LEMMA RelFlush == ASSUME RelInv, Release!Flush PROVE RelInv'
  <1>0. /\ UNCHANGED <<log, head, remote, tag, host, Release!checks, calm, verified, moves, dirs>>
        /\ aAt = "flush" /\ Release!Over
    BY DEF Release!Flush
  <1>1. CASE tree' = tree
    BY <1>0, <1>1, RelRefuse DEF Release!git, Release!Refuse
  <1>2. PICK f : f = [candidate |-> candidate, dir |-> dir, suite |-> collected, host |-> look]
    OBVIOUS
  <1>3. CASE tree' = [tree EXCEPT !.file = f]
    <2>1. /\ Made /\ Looked /\ RelPlace /\ RelSeen /\ RelLook /\ RelDir /\ RelTold /\ round = 4
          /\ dir \in ReportDirs /\ candidate > 0 /\ look \in Release!Hosts /\ look.passes
               /\ dirs[dir] \in Release!Entries
      BY <1>0 DEF RelInv, RelRun, RelPlace, Made, Looked, RelSeen, RelLook, RelDir
    <2>2. f \in Release!Files /\ f \in RelFile
      BY <1>2, <2>1 DEF Release!Files, RelFile, Release!Hosts, RelInv, RelTypes
    <2>3. tree' \in [code : Release!Codes, file : RelFile] /\ tree'.file = f
          /\ tree'.code = tree.code
      BY <1>3, <2>2 DEF RelInv, RelTypes
    <2>4. 0 \in 0 .. head /\ 0 \in Nat
      BY DEF RelInv, RelTypes
    <2>5. RelTypes' /\ RelForward'
      BY <1>0, <2>3, <2>4 DEF RelInv, RelTypes, RelForward, Since, Release!Over, Release!checks
    <2>6. RelRun' /\ ~Made' /\ aAt' = "idle"
      BY <1>0, RelOverRun DEF Release!Over
    <2>7. Earned(f)
      <3>1. candidate \in DOMAIN log
        BY <2>1 DEF RelInv, RelTypes
      <3>2. dirs[dir] # Nil
        BY <2>1, PublishersAssumption DEF Release!AttestationAssumption
      <3> QED
        BY <1>0, <1>2, <2>1, <3>1, <3>2 DEF Earned, RelTold
    <2>8. RelFiles'
      <3>1. Fine(value)' /\ \A c \in DOMAIN log : Fine(log[c].file)'
        BY <1>0, <2>6, RelOthers DEF Release!checks
      <3>2. Earned(f)'
        BY <1>0, <2>7, RelEarned
      <3>3. Fine(f)'
        BY <2>6, <3>2 DEF Fine
      <3> QED
        BY <1>0, <2>3, <3>1, <3>3 DEF RelFiles
    <2>9. RelTag'
      <3> SUFFICES ASSUME tag # Nil, tag.target = head PROVE RelTag'
        BY <1>0 DEF RelTag, RelInv
      <3> DEFINE g == log[head].file
      <3>1. Names(g) => Names(g)'
        BY <1>0 DEF Names
      <3>2. CASE Names(g)
        BY <1>0, <3>1, <3>2 DEF RelTag, RelInv
      <3>3. CASE ~Names(g)
        <4>1. g # Nil /\ g # Torn /\ tag.target \in DOMAIN log
          BY <1>0, <3>3 DEF RelInv, RelTag, Names
        <4>2. head \in DOMAIN log
          BY DEF RelInv, RelTypes
        <4>3. g.dir # dir
          BY <2>1, <4>1, <4>2 DEF RelInv, RelFiles, Fine, Release!Whole
        <4>4. f # g
          BY <1>2, <4>3
        <4> QED
          BY <1>0, <2>3, <2>6, <4>1, <4>4 DEF RelTag
      <3> QED
        BY <3>2, <3>3
    <2>10. RelVerify' /\ RelVerified'
      BY <1>0
      DEF RelInv, RelVerify, RelVerified, Release!Whole, Names, Release!OnlyAdds, Release!checks
    <2> QED
      BY <2>5, <2>6, <2>8, <2>9, <2>10 DEF RelInv
  <1> QED
    BY <1>1, <1>2, <1>3 DEF Release!Flush

\* What the developer and the machine do: what is verified meanwhile is not calm.
LEMMA RelMoves ==
  ASSUME RelInv, Release!Move, RelTypes', RelForward', RelRun', Fine(tree.file)', RelTag',
         \A c \in DOMAIN log' : c \in DOMAIN log \/ log'[c].file \in {log[head].file, tree.file},
         tree'.file \in {tree.file, Nil},
         \A c \in DOMAIN log : c \in DOMAIN log' /\ log'[c] = log[c],
         \A d \in ReportDirs : dirs'[d] = dirs[d] \/ (d = dir /\ Made)
  PROVE  RelInv'
  <1>0. UNCHANGED <<aAt, round, aBefore, seen, candidate, dir, look, collected, vAt, vDir, value,
        inventory,
                    binding, verified>> /\ calm' = FALSE
    BY DEF Release!Move, Release!runs, Release!checks
  <1>1. Made' = Made
    BY <1>0 DEF Made
  <1>2. Fine(value)' /\ \A c \in DOMAIN log : Fine(log[c].file)'
    BY <1>0, <1>1, RelOthers
  <1>3. tree.file \in RelFile /\ head \in DOMAIN log
    BY RelTyped DEF RelInv, RelTypes
  <1>4. PICK f \in RelFile : f = tree.file
    BY <1>3
  <1>5. Fine(f)'
    BY <1>0, <1>1, <1>4, RelFine DEF RelInv, RelFiles
  <1>6. ASSUME NEW c \in DOMAIN log', c \notin DOMAIN log PROVE Fine(log[c].file)'
    <2>1. CASE log'[c].file = log[head].file
      <3>2. PICK g : g = log[head].file
        OBVIOUS
      <3>3. Fine(g)'
        <4>1. PICK h : h = head
          OBVIOUS
        <4>2. Fine(log[h].file)' /\ log'[h] = log[h]
          BY <1>2, <1>3, <4>1
        <4> QED
          BY <3>2, <4>1, <4>2
      <3> QED
        BY <2>1, <3>2, <3>3
    <2>2. CASE log'[c].file = tree.file
      BY <1>4, <1>5, <2>2
    <2> QED
      BY <1>6, <2>1, <2>2
  <1>7. RelFiles'
    BY <1>2, <1>6 DEF RelFiles
  <1>8. RelVerify'
    <2>1. RelVerify /\ Fine(value)
      BY DEF RelInv, RelFiles
    <2>2. vAt = "tag" => Release!OnlyAdds(binding, value.candidate)'
      <3> SUFFICES ASSUME vAt = "tag" PROVE Release!OnlyAdds(binding, value.candidate)'
        OBVIOUS
      <3>1. Release!Whole(value) /\ binding \in DOMAIN log
            /\ Release!OnlyAdds(binding, value.candidate)
        BY <2>1 DEF RelVerify
      <3>2. value.candidate \in DOMAIN log
        BY <2>1, <3>1 DEF Fine, Earned
      <3>3. log'[binding] = log[binding] /\ log'[value.candidate] = log[value.candidate]
        BY <3>1, <3>2
      <3> QED
        BY <1>0, <3>1, <3>3 DEF Release!OnlyAdds
    <2> QED
      BY <1>0, <2>1, <2>2 DEF RelVerify, Release!Whole
  <1>9. RelVerified'
    <2> SUFFICES ASSUME verified # Nil, verified.calm
                 PROVE  dirs'[verified.dir] = dirs[verified.dir] /\ verified.commit \in DOMAIN log
      BY <1>0 DEF RelInv, RelVerified, Release!Whole
    <2>1. PICK g : g = log[verified.commit].file
      OBVIOUS
    <2>2. verified.commit \in DOMAIN log /\ Release!Whole(g) /\ g.dir = verified.dir
      BY <2>1 DEF RelInv, RelVerified
    <2>3. g \in RelFile /\ Fine(g)
      BY <2>1, <2>2, RelTyped DEF RelInv, RelFiles
    <2>4. g.dir \in ReportDirs /\ (Made => g.dir # dir)
      BY <2>2, <2>3 DEF RelFile, Release!Whole, Release!Files, Fine
    <2> QED
      BY <2>2, <2>4
  <1> QED
    BY <1>7, <1>8, <1>9 DEF RelInv

\* What came after what came after.
LEMMA RelSince ==
  ASSUME NEW x, NEW y, NEW z, x.n \in Nat, y.n \in Nat, z.n \in Nat, Since(x, y), Since(y, z)
  PROVE  Since(x, z) /\ Since(x, x) /\ x.n <= z.n
  BY DEF Since

\* The run that is under way when the developer or the machine moves.
LEMMA RelMoved ==
  ASSUME RelInv, Release!Move, RelTypes', RelTorn',
         \A c \in DOMAIN log : c \in DOMAIN log' /\ log'[c] = log[c],
         head' = head \/ head' \notin 0 .. head,
         Since(tree.code, tree'.code), Since(host, host'),
         \/ dirs' = dirs
         \/ /\ aAt = "pytest" /\ dirs'[dir] \in Release!Entries
            /\ dirs'[dir].ran \in {dirs[dir].ran, dirs[dir].ran \cup {tree'.code}}
            /\ dirs'[dir].hosts \in {dirs[dir].hosts, dirs[dir].hosts \cup {host'}}
  PROVE  RelRun'
  <1>0. UNCHANGED <<aAt, round, aBefore, seen, candidate, dir, look, collected>>
    BY DEF Release!Move, Release!runs
  <1>1. RelPlace /\ RelSeen /\ RelLook /\ RelDir /\ RelRan /\ RelTold /\ RelTypes
    BY DEF RelInv, RelRun
  <1>2. RelPlace' /\ RelSeen'
    BY <1>0, <1>1 DEF RelPlace, RelSeen
  <1>3. Looked' = Looked /\ Made' = Made
    BY <1>0 DEF Looked, Made
  <1>4. host.n \in Nat /\ host'.n \in Nat /\ tree.code.n \in Nat /\ tree'.code.n \in Nat
    BY <1>1 DEF RelTypes, Release!Hosts, Release!Codes
  <1>5. RelLook'
    <2> SUFFICES ASSUME Looked PROVE look \in Release!Hosts /\ look.passes /\ Since(look, host')
      BY <1>0, <1>3 DEF RelLook, Since
    <2>1. look \in Release!Hosts /\ look.passes /\ Since(look, host) /\ look.n \in Nat
      BY <1>1 DEF RelLook, Release!Hosts
    <2> QED
      BY <1>4, <2>1, RelSince
  <1>6. RelDir'
    <2> SUFFICES ASSUME Made PROVE RelDir'
      BY <1>3 DEF RelDir
    <2>1. Looked /\ aBefore > 0 /\ aBefore \in DOMAIN log
      BY <1>0, <1>1 DEF Made, Looked, RelSeen, RelTypes
    <2>2. log'[aBefore] = log[aBefore] /\ Since(log[aBefore].code, tree.code)
          /\ log[aBefore].code.n \in Nat
      BY <2>1, RelTyped DEF RelInv, RelForward, Release!Codes
    <2>3. look.n \in Nat /\ look.n <= host'.n
      BY <1>1, <1>4, <2>1 DEF RelLook, Release!Hosts, Since
    <2>4. PICK e \in Release!Entries : e = dirs[dir]
      BY <1>1 DEF RelDir
    <2>5. /\ e.ran # {} /\ \A x \in e.ran : Since(x, tree.code) /\ log[aBefore].code.n <= x.n
          /\ e.hosts # {} /\ \A h \in e.hosts : Since(h, host) /\ look.n <= h.n
      BY <1>1, <2>4 DEF RelDir
    <2>6. PICK e2 \in Release!Entries :
            /\ e2 = dirs'[dir] /\ e2.ran \in {e.ran, e.ran \cup {tree'.code}}
            /\ e2.hosts \in {e.hosts, e.hosts \cup {host'}}
      BY <2>4
    <2>7. e2.ran # {} /\ e2.hosts # {}
      BY <2>5, <2>6
    <2>8. ASSUME NEW x \in e2.ran PROVE Since(x, tree'.code) /\ log[aBefore].code.n <= x.n
      <3>1. CASE x \in e.ran
        <4>1. x.n \in Nat
          BY <3>1 DEF Release!Entries, Release!Codes
        <4> QED
          BY <1>4, <2>5, <3>1, <4>1, RelSince
      <3>2. CASE x = tree'.code
        <4>1. Since(log[aBefore].code, tree'.code)
          BY <1>4, <2>2, RelSince
        <4> QED
          BY <1>4, <2>2, <3>2, <4>1 DEF Since
      <3> QED
        BY <2>6, <3>1, <3>2
    <2>9. ASSUME NEW h \in e2.hosts PROVE Since(h, host') /\ look.n <= h.n
      <3>1. CASE h \in e.hosts
        <4>1. h.n \in Nat
          BY <3>1 DEF Release!Entries, Release!Hosts
        <4> QED
          BY <1>4, <2>5, <3>1, <4>1, RelSince
      <3>2. CASE h = host'
        BY <1>4, <2>3, <3>2 DEF Since
      <3> QED
        BY <2>6, <3>1, <3>2
    <2> QED
      BY <1>0, <2>2, <2>6, <2>7, <2>8, <2>9 DEF RelDir, Since
  <1>7. aAt # "pytest" => dirs' = dirs
    OBVIOUS
  <1>8. RelRan'
    <2> SUFFICES ASSUME aAt \in {"parse", "collect"} \/ round \in 3 .. 4 PROVE RelRan'
      BY <1>0 DEF RelRan
    <2>1. aBefore \in DOMAIN log /\ dirs' = dirs
      BY <1>1, <1>7 DEF RelSeen, RelPlace, RelTypes
    <2>2. Ran' = Ran
      BY <1>0, <2>1 DEF Ran
    <2>3. aBefore \in 0 .. head
      BY <1>1 DEF RelTypes
    <2> QED
      BY <1>0, <1>1, <2>2, <2>3 DEF RelRan
  <1>9. RelTold'
    <2> SUFFICES ASSUME aAt \in {"write", "flush"} PROVE RelTold'
      BY <1>0 DEF RelTold
    <2>1. candidate \in DOMAIN log /\ dirs' = dirs
      BY <1>1, <1>7 DEF RelSeen, RelPlace, RelTypes
    <2> QED
      BY <1>0, <1>1, <2>1 DEF RelTold
  <1> QED
    BY <1>2, <1>5, <1>6, <1>8, <1>9 DEF RelRun

\* What pytest sees of a change is added to the report that is being made.
LEMMA RelAdds ==
  ASSUME RelInv, NEW r \in SUBSET Release!Codes, NEW s \in SUBSET Release!Hosts,
         dirs' = IF aAt = "pytest"
                 THEN [dirs EXCEPT ![dir] = [dirs[dir] EXCEPT !.ran = dirs[dir].ran \cup r,
                                                             !.hosts = dirs[dir].hosts \cup s]]
                 ELSE dirs
  PROVE  /\ dirs' \in [ReportDirs -> Release!Entries \cup {Nil}]
         /\ \A d \in ReportDirs : dirs'[d] = dirs[d] \/ (d = dir /\ Made)
         /\ \/ dirs' = dirs
            \/ /\ aAt = "pytest" /\ dirs'[dir] \in Release!Entries
               /\ dirs'[dir].ran = dirs[dir].ran \cup r /\ dirs'[dir].hosts = dirs[dir].hosts \cup s
  <1>1. CASE aAt # "pytest"
    BY <1>1 DEF RelInv, RelTypes
  <1>2. CASE aAt = "pytest"
    <2>1. Made /\ dir \in ReportDirs /\ dirs[dir] \in Release!Entries
      BY <1>2 DEF Made, RelInv, RelRun, RelPlace, RelDir
    <2>2. PICK old \in Release!Entries : old = dirs[dir]
      BY <2>1
    <2>3. PICK e : e = [old EXCEPT !.ran = old.ran \cup r, !.hosts = old.hosts \cup s]
      OBVIOUS
    <2>4. e \in Release!Entries /\ e.ran = old.ran \cup r /\ e.hosts = old.hosts \cup s
      BY <2>3 DEF Release!Entries
    <2>5. dirs' = [dirs EXCEPT ![dir] = e]
      BY <1>2, <2>2, <2>3
    <2> QED
      BY <1>2, <2>1, <2>2, <2>4, <2>5 DEF RelInv, RelTypes
  <1> QED
    BY <1>1, <1>2

\* The developer edits the worktree, pytest or not.
LEMMA RelEdit == ASSUME RelInv, Release!Edit PROVE RelInv'
  <1>0. /\ UNCHANGED <<log, head, remote, tag, host, aAt, dir, seen, aBefore, candidate,
             collected, value>>
        /\ moves' = moves + 1
    BY DEF Release!Edit, Release!Move, Release!runs, Release!checks
  <1>1. PICK s \in {tree.code.suite, moves + 1} :
          tree' = [tree EXCEPT !.code = [n |-> moves + 1, suite |-> s]]
    BY DEF Release!Edit
  <1>2. moves \in Nat /\ tree \in [code : Release!Codes, file : RelFile] /\ host \in Release!Hosts
    BY DEF RelInv, RelTypes
  <1>30. PICK new : new = [n |-> moves + 1, suite |-> s]
    OBVIOUS
  <1>3. new \in Release!Codes /\ new = [n |-> moves + 1, suite |-> s]
    <2>1. tree.code \in Release!Codes
      BY <1>2
    <2>2. s \in Nat
      BY <1>2, <2>1 DEF Release!Codes
    <2> QED
      BY <1>2, <1>30, <2>2 DEF Release!Codes
  <1>4. tree' \in [code : Release!Codes, file : RelFile] /\ tree'.code = new
        /\ tree'.file = tree.file
    BY <1>1, <1>2, <1>3
  <1>5. tree.code.n \in Nat /\ tree.code.n <= moves /\ new.n = moves + 1 /\ host.n \in Nat
        /\ host.n <= moves
    BY <1>2, <1>3 DEF RelInv, RelForward, Release!Codes, Release!Hosts
  <1>6. Since(tree.code, tree'.code) /\ Since(host, host')
    BY <1>0, <1>2, <1>4, <1>5 DEF Since
  <1>7. dirs' = IF aAt = "pytest"
                THEN [dirs EXCEPT ![dir] = [dirs[dir] EXCEPT !.ran = dirs[dir].ran \cup {new},
                                                            !.hosts = dirs[dir].hosts \cup {}]]
                ELSE dirs
    <2>1. CASE aAt # "pytest"
      BY <2>1 DEF Release!Edit
    <2>2. CASE aAt = "pytest"
      <3>1. dirs' = [dirs EXCEPT ![dir].ran = @ \cup {new}]
        BY <1>4, <2>2 DEF Release!Edit
      <3>2. PICK old \in Release!Entries : old = dirs[dir]
        BY <2>2 DEF Made, RelInv, RelRun, RelDir
      <3>3. [old EXCEPT !.ran = old.ran \cup {new}]
              = [old EXCEPT !.ran = old.ran \cup {new}, !.hosts = old.hosts \cup {}]
        BY DEF Release!Entries
      <3> QED
        BY <2>2, <3>1, <3>2, <3>3
    <2> QED
      BY <2>1, <2>2
  <1>8. /\ dirs' \in [ReportDirs -> Release!Entries \cup {Nil}]
        /\ \A d \in ReportDirs : dirs'[d] = dirs[d] \/ (d = dir /\ Made)
        /\ \/ dirs' = dirs
           \/ /\ aAt = "pytest" /\ dirs'[dir] \in Release!Entries
              /\ dirs'[dir].ran = dirs[dir].ran \cup {new}
                   /\ dirs'[dir].hosts = dirs[dir].hosts \cup {}
    <2>1. {new} \in SUBSET Release!Codes /\ {} \in SUBSET Release!Hosts
      BY <1>3
    <2> QED
      BY <1>7, <2>1, RelAdds
  <1>9. RelTypes'
    BY <1>0, <1>2, <1>4, <1>8 DEF RelInv, RelTypes
  <1>10. RelForward'
    <2>1. ASSUME NEW c \in DOMAIN log PROVE Since(log[c].code, tree'.code)
      <3>1. Since(log[c].code, tree.code) /\ log[c].code.n \in Nat
        BY RelTyped DEF RelInv, RelForward, Release!Codes
      <3> QED
        BY <1>2, <1>4, <1>5, <3>1 DEF Since
    <2> QED
      BY <1>0, <1>2, <1>4, <1>5, <2>1 DEF RelForward, Since
  <1>11. RelTorn'
    BY <1>0, <1>4 DEF RelInv, RelRun, RelTorn, Release!Whole
  <1>12. RelRun'
    BY <1>0, <1>4, <1>6, <1>8, <1>9, <1>11, RelMoved DEF Release!Edit
  <1>13. Fine(tree.file)'
    <2>1. PICK f \in RelFile : f = tree.file
      BY <1>2
    <2>2. Made' = Made
      BY DEF Release!Edit, Release!Move, Release!runs, Made
    <2>3. Fine(f)'
      BY <1>0, <1>8, <2>1, <2>2, RelFine DEF RelInv, RelFiles
    <2> QED
      BY <1>4, <2>1, <2>3
  <1>14. RelTag'
    BY <1>0, <1>4 DEF RelInv, RelTag, Names
  <1> QED
    BY <1>0, <1>4, <1>8, <1>9, <1>10, <1>12, <1>13, <1>14, RelMoves DEF Release!Edit

\* The developer goes back to HEAD.
LEMMA RelDiscard == ASSUME RelInv, Release!Discard PROVE RelInv'
  <1>0. /\ UNCHANGED <<log, head, remote, tag, host, dirs, aAt, dir, seen, aBefore, candidate,
             collected, value>>
        /\ moves' = moves + 1 /\ tree' = [tree EXCEPT !.file = Nil] /\ tree.file # Nil
    BY DEF Release!Discard, Release!Move, Release!runs, Release!checks
  <1>1. tree' \in [code : Release!Codes, file : RelFile] /\ tree'.code = tree.code
        /\ tree'.file = Nil
    BY <1>0 DEF RelInv, RelTypes, RelFile
  <1>2. RelTypes'
    BY <1>0, <1>1 DEF RelInv, RelTypes
  <1>3. RelForward'
    BY <1>0, <1>1, RelTyped DEF RelInv, RelForward, RelTypes, Since, Release!Codes, Release!Hosts
  <1>4. Since(tree.code, tree'.code) /\ Since(host, host')
    BY <1>0, <1>1 DEF RelInv, RelTypes, Since, Release!Codes, Release!Hosts
  <1>5. RelTorn' /\ Fine(tree.file)'
    BY <1>1 DEF RelTorn, Fine, Release!Whole
  <1>6. RelRun'
    BY <1>0, <1>2, <1>4, <1>5, RelMoved DEF Release!Discard
  <1>7. RelTag'
    <2> SUFFICES ASSUME tag # Nil, tag.target = head, ~Names(log[head].file) PROVE RelTag'
      BY <1>0 DEF RelTag, RelInv, Names
    <2> QED
      BY <1>0, <1>1 DEF RelTag, RelInv, Names
  <1> QED
    BY <1>0, <1>1, <1>2, <1>3, <1>5, <1>6, <1>7, RelMoves DEF Release!Discard

\* A commit is one no tag names yet.
LEMMA RelCommit == ASSUME RelInv, Release!Commit PROVE RelInv'
  <1>0. /\ UNCHANGED <<tree, tag, host, dirs, aAt, dir, seen, aBefore, candidate, collected, value>>
        /\ moves' = moves + 1 /\ head' = Len(log')
    BY DEF Release!Commit, Release!Move, Release!runs, Release!checks
  <1>1. PICK code \in {log[head].code, tree.code}, file \in {log[head].file, tree.file},
             parent \in {head, log[head].parent} :
          log' = Append(log, [parent |-> parent, code |-> code, file |-> file])
    BY DEF Release!Commit
  <1>2. PICK S : S = [parent : Nat, code : Release!Codes, file : RelFile]
    OBVIOUS
  <1>3. log \in Seq(S) /\ head = Len(log) /\ head \in DOMAIN log /\ log[head] \in S
    <2>1. log \in Seq(S) /\ head = Len(log) /\ head \in DOMAIN log
      BY <1>2 DEF RelInv, RelTypes
    <2> QED
      BY <2>1
  <1>4. PICK entry : entry = [parent |-> parent, code |-> code, file |-> file]
    OBVIOUS
  <1>5. entry \in S /\ entry.file = file /\ entry.code = code
    BY <1>2, <1>3, <1>4, RelTyped DEF RelInv
  <1>6. log' = Append(log, entry) /\ log' \in Seq(S)
    BY <1>1, <1>3, <1>4, <1>5
  <1>7. /\ Len(log') = head + 1 /\ head' = head + 1 /\ log'[head'] = entry
        /\ DOMAIN log' = DOMAIN log \cup {head'} /\ head' \notin DOMAIN log
             /\ head' \notin 0 .. head
        /\ \A c \in DOMAIN log : c \in DOMAIN log' /\ log'[c] = log[c]
    BY <1>0, <1>3, <1>6
  <1>8. RelTypes'
    BY <1>0, <1>2, <1>3, <1>6, <1>7 DEF RelInv, RelTypes
  <1>9. RelForward'
    <2>1. Since(code, tree.code)
      BY <1>3 DEF RelInv, RelForward, RelTypes, Since, Release!Codes
    <2>2. \A c \in DOMAIN log' : Since(log'[c].code, tree.code)
      BY <1>5, <1>7, <2>1 DEF RelInv, RelForward
    <2>3. tree.code.n <= moves' /\ host.n <= moves'
      BY <1>0, RelTyped DEF RelInv, RelForward, RelTypes, Release!Codes, Release!Hosts
    <2> QED
      BY <1>0, <2>2, <2>3 DEF RelForward
  <1>10. Since(tree.code, tree'.code) /\ Since(host, host')
    BY <1>0 DEF RelInv, RelTypes, Since, Release!Codes, Release!Hosts
  <1>11. RelTorn'
    <2>1. aAt \in {"facts", "write"} /\ Release!Whole(tree.file) => file # Torn
      BY DEF RelInv, RelRun, RelTorn, Release!Whole
    <2>2. log'[head'].file = file
      BY <1>5, <1>7
    <2> QED
      BY <1>0, <2>1, <2>2 DEF RelInv, RelRun, RelTorn, Release!Whole
  <1>12. RelRun'
    BY <1>0, <1>7, <1>8, <1>10, <1>11, RelMoved DEF Release!Commit
  <1>13. Fine(tree.file)'
    <2>1. PICK f \in RelFile : f = tree.file
      BY RelTyped DEF RelInv
    <2>2. Made' = Made
      BY DEF Release!Commit, Release!Move, Release!runs, Made
    <2>3. Fine(f)'
      BY <1>0, <1>7, <2>1, <2>2, RelFine DEF RelInv, RelFiles
    <2> QED
      BY <1>0, <2>1, <2>3
  <1>14. RelTag'
    <2> SUFFICES ASSUME tag # Nil PROVE RelTag'
      BY <1>0 DEF RelTag
    <2> QED
      BY <1>0, <1>7 DEF RelTag, RelInv
  <1>15. \A c \in DOMAIN log' : c \in DOMAIN log \/ log'[c].file \in {log[head].file, tree.file}
    BY <1>5, <1>7
  <1> QED
    BY <1>0, <1>7, <1>8, <1>9, <1>12, <1>13, <1>14, <1>15, RelMoves DEF Release!Commit

\* The tag names the attestation of the worktree: the one at HEAD is that one, or the
\* worktree is not clean.
LEMMA RelTagStep == ASSUME RelInv, Release!Tag \/ Release!Push PROVE RelInv'
  <1>0. /\ UNCHANGED <<log, head, tree, host, dirs, aAt, dir, seen, aBefore, candidate, collected,
             value>>
        /\ moves' = moves + 1 /\ Release!Move
    BY DEF Release!Tag, Release!Push, Release!Move, Release!runs, Release!checks
  <1>1. RelTypes'
    BY <1>0 DEF RelInv, RelTypes
  <1>2. RelForward'
    BY <1>0, RelTyped DEF RelInv, RelForward, RelTypes, Release!Codes, Release!Hosts, Since
  <1>3. Since(tree.code, tree'.code) /\ Since(host, host')
    BY <1>0 DEF RelInv, RelTypes, Since, Release!Codes, Release!Hosts
  <1>4. RelTorn'
    BY <1>0 DEF RelInv, RelRun, RelTorn
  <1>5. RelRun'
    BY <1>0, <1>1, <1>3, <1>4, RelMoved
  <1>6. Fine(tree.file)'
    <2>1. PICK f \in RelFile : f = tree.file
      BY RelTyped DEF RelInv
    <2>2. Made' = Made
      BY <1>0 DEF Release!Move, Release!runs, Made
    <2>3. Fine(f)'
      BY <1>0, <2>1, <2>2, RelFine DEF RelInv, RelFiles
    <2> QED
      BY <1>0, <2>1, <2>3
  <1>7. RelTag'
    <2>1. CASE Release!Push
      <3>1. tag' = tag
        BY <2>1 DEF Release!Push
      <3> QED
        BY <1>0, <3>1 DEF RelInv, RelTag, Names
    <2>2. CASE Release!Tag
      <3>1. /\ Release!Whole(tree.file) /\ tag'.target = head /\ tag'.dir = tree.file.dir
            /\ tag'.candidate = tree.file.candidate
        BY <2>2 DEF Release!Tag
      <3>2. head \in DOMAIN log
        BY DEF RelInv, RelTypes
      <3>3. CASE tree.file = log[head].file
        BY <1>0, <3>1, <3>2, <3>3 DEF RelTag, Names, Release!Whole
      <3>4. CASE tree.file # log[head].file
        BY <1>0, <3>1, <3>2, <3>4 DEF RelTag, RelInv, RelRun, RelTorn
      <3> QED
        BY <3>3, <3>4
    <2> QED
      BY <2>1, <2>2
  <1> QED
    BY <1>0, <1>1, <1>2, <1>5, <1>6, <1>7, RelMoves

\* The machine changes.
LEMMA RelHostChange == ASSUME RelInv, Release!HostChange PROVE RelInv'
  <1>0. /\ UNCHANGED <<log, head, remote, tree, tag, aAt, dir, seen, aBefore, candidate,
             collected, value>>
        /\ moves' = moves + 1
    BY DEF Release!HostChange, Release!Move, Release!runs, Release!checks, Release!git
  <1>1. PICK p \in BOOLEAN : host' = [n |-> host.n + 1, passes |-> p]
    BY DEF Release!HostChange
  <1>2. host \in Release!Hosts /\ moves \in Nat /\ host.n \in Nat /\ host.n <= moves
    BY DEF RelInv, RelTypes, RelForward, Release!Hosts
  <1>3. PICK new : new = [n |-> host.n + 1, passes |-> p]
    OBVIOUS
  <1>4. new \in Release!Hosts /\ host' = new /\ new.n = host.n + 1
    BY <1>1, <1>2, <1>3 DEF Release!Hosts
  <1>5. Since(host, new)
    BY <1>2, <1>4 DEF Since
  <1>6. Since(tree.code, tree'.code) /\ Since(host, host')
    BY <1>0, <1>4, <1>5 DEF RelInv, RelTypes, Since, Release!Codes
  <1>7. dirs' = IF aAt = "pytest"
                THEN [dirs EXCEPT ![dir] = [dirs[dir] EXCEPT !.ran = dirs[dir].ran \cup {},
                                                            !.hosts = dirs[dir].hosts \cup {new}]]
                ELSE dirs
    <2>1. CASE aAt # "pytest"
      BY <2>1 DEF Release!HostChange
    <2>2. CASE aAt = "pytest"
      <3>1. dirs' = [dirs EXCEPT ![dir].hosts = @ \cup {new}]
        BY <1>4, <2>2 DEF Release!HostChange
      <3>2. PICK old \in Release!Entries : old = dirs[dir]
        BY <2>2 DEF Made, RelInv, RelRun, RelDir
      <3>3. [old EXCEPT !.hosts = old.hosts \cup {new}]
              = [old EXCEPT !.ran = old.ran \cup {}, !.hosts = old.hosts \cup {new}]
        BY DEF Release!Entries
      <3> QED
        BY <2>2, <3>1, <3>2, <3>3
    <2> QED
      BY <2>1, <2>2
  <1>8. /\ dirs' \in [ReportDirs -> Release!Entries \cup {Nil}]
        /\ \A d \in ReportDirs : dirs'[d] = dirs[d] \/ (d = dir /\ Made)
        /\ \/ dirs' = dirs
           \/ /\ aAt = "pytest" /\ dirs'[dir] \in Release!Entries
              /\ dirs'[dir].ran = dirs[dir].ran \cup {}
                   /\ dirs'[dir].hosts = dirs[dir].hosts \cup {new}
    <2>1. {} \in SUBSET Release!Codes /\ {new} \in SUBSET Release!Hosts
      BY <1>4
    <2> QED
      BY <1>7, <2>1, RelAdds
  <1>9. RelTypes'
    BY <1>0, <1>2, <1>4, <1>8 DEF RelInv, RelTypes
  <1>10. RelForward'
    BY <1>0, <1>2, <1>4, RelTyped DEF RelInv, RelForward, RelTypes, Since, Release!Codes
  <1>11. RelTorn'
    BY <1>0 DEF RelInv, RelRun, RelTorn, Release!Whole
  <1>12. RelRun'
    BY <1>0, <1>4, <1>6, <1>8, <1>9, <1>11, RelMoved DEF Release!HostChange
  <1>13. Fine(tree.file)'
    <2>1. PICK f \in RelFile : f = tree.file
      BY RelTyped DEF RelInv
    <2>2. Made' = Made
      BY DEF Release!HostChange, Release!Move, Release!runs, Made
    <2>3. Fine(f)'
      BY <1>0, <1>8, <2>1, <2>2, RelFine DEF RelInv, RelFiles
    <2> QED
      BY <1>0, <2>1, <2>3
  <1>14. RelTag'
    BY <1>0 DEF RelInv, RelTag, Names
  <1> QED
    BY <1>0, <1>8, <1>9, <1>10, <1>12, <1>13, <1>14, RelMoves DEF Release!HostChange

\* A stuttering step.
LEMMA RelUnchanged == ASSUME RelInv, UNCHANGED Release!vars PROVE RelInv'
  <1>1. UNCHANGED <<Release!git, host, dirs, Release!runs, moves, value, vAt, vDir, binding, calm,
        verified>>
    BY DEF Release!vars, Release!checks
  <1>2. UNCHANGED <<log, head, tag, dirs>>
    BY <1>1 DEF Release!git
  <1>3. RelVerify' /\ RelVerified'
    BY <1>1, <1>2, RelVerifiedKeeps DEF RelInv, RelVerify, Release!Whole, Names, Release!OnlyAdds
  <1> QED
    BY <1>1, <1>3, RelStill DEF RelInv, RelTypes, RelFiles

\* The inductive invariant holds for good.
LEMMA RelStep == RelInv /\ [Release!Next]_(Release!vars) => RelInv'
  <1> SUFFICES ASSUME RelInv, [Release!Next]_(Release!vars) PROVE RelInv'
    OBVIOUS
  <1>1. CASE Release!Edit \/ Release!Discard \/ Release!Commit \/ Release!Push \/ Release!Tag
        \/ Release!HostChange
    BY <1>1, RelEdit, RelDiscard, RelCommit, RelTagStep, RelHostChange
  <1>2. CASE Release!Start \/ Release!Kill
    BY <1>2, RelStart, RelKill
  <1>3. CASE Release!Run
    BY <1>3, RelReadHead, RelReadStatus, RelLookStep, RelMake, RelPytest, RelParse, RelFacts,
       RelWrite, RelFlush DEF Release!Run
  <1>4. CASE Release!StartVerify \/ Release!Verify
    BY <1>4, RelVerifyStep
  <1>5. CASE UNCHANGED Release!vars
    BY <1>5, RelUnchanged
  <1> QED
    BY <1>1, <1>2, <1>3, <1>4, <1>5 DEF Release!Next

\* The invariant gives both promises.
LEMMA RelMeans == RelInv => Release!AttestationEarned /\ Release!ReleaseIsTested
  <1> SUFFICES ASSUME RelInv PROVE Release!AttestationEarned /\ Release!ReleaseIsTested
    OBVIOUS
  <1>1. Release!AttestationEarned
    BY DEF RelInv, RelFiles, Fine, Earned, Release!AttestationEarned
  <1>2. Release!ReleaseIsTested
    BY DEF RelInv, RelVerified, Release!ReleaseIsTested
  <1> QED
    BY <1>1, <1>2

\* What an attestation says was so: its suite passed, on one machine, for the code of the
\* candidate it names; and a release that verified while the developer rested is the code
\* that was tested.
THEOREM RelHolds == Release!Init /\ [][Release!Next]_(Release!vars) =>
  [](Release!AttestationEarned /\ Release!ReleaseIsTested)
  <1>1. Release!Init => RelInv
    BY RelInit
  <1> QED
    BY <1>1, RelStep, RelMeans, PTL

-----------------------------------------------------------------------------
(* The recovery successor *)

\* Its constants.
LEMMA SuccConstants == BlockCells \in Nat
  BY ProgramsAssumption

\* One supervisor at a time: two may both take over a stale lease.
OneSupervisor == \A s, t \in Supervisors : s = t

\* What is known of a cell, and where a command may be.
SuccCells  == {"none", "torn", "starting", "started", "run1", "prep1", "retry", "attesting",
               "attested", "run2", "prep2", "valid", "environment", "instrument"}
SuccBlock  == {"start", "seal", "term"} \X Successor!Lanes
SuccRuns   == {"environment", "start", "cell", "attempt", "post", "seal", "term"}
SuccQuiets == {"closed", "look", "recover", "audit", "recheck", "unlink", "check", "validate",
               "final", "finished"}
SuccAts    == SuccRuns \cup SuccQuiets \cup {"lease", "terminal", "payload", "marker"}
SuccCommand(D) == [at : SuccAts, lane : Successor!Lanes, cell : 1 .. BlockCells + 1,
  out : Successor!Papers \cup {Nil},
                   doc : D, seen : D, terminal : BOOLEAN, mine : BOOLEAN, final : 1 .. 6]
\* The types, the documents being those of some set.
SuccHas(D) == /\ rPaper \in [Successor!Papers -> [file : Successor!Files, doc : D]]
              /\ rSup \in [Supervisors -> SuccCommand(D)]
SuccStore  == rEvidence \in [Successor!Lanes -> [Successor!Ids -> SuccCells]]

\* Nothing is published of the results; both lanes are terminal; the final documents come
\* in their order, after both lanes.
Unpublished == \A i \in 1 .. 5 : ~Successor!Published(i)
BothMarked  == \A l \in Successor!Lanes : Successor!Marked(l)
SuccPapers  == \A i \in 1 .. 5 : Successor!Published(i) =>
                 BothMarked /\ Successor!Published(1)
                   /\ (i > 1 => Successor!Done(<<Successor!Finals[i - 1], 0>>))

\* A command d of the only supervisor.
SuccAt(d) ==
  /\ \A j \in 1 .. 5 : j < d.final => Successor!Done(<<Successor!Finals[j], 0>>)
  /\ d.at \in SuccRuns \cup {"lease", "terminal"} => Unpublished
  /\ d.at \in SuccRuns => Successor!Terminals(d.lane) = {}
  /\ d.at \in {"payload", "marker"} =>
       \/ d.out \in SuccBlock /\ Unpublished
            /\ (d.out[1] = "start" => Successor!Terminals(d.lane) = {})
       \/ d.final \in 1 .. 5 /\ d.out = <<Successor!Finals[d.final], 0>> /\ BothMarked
  /\ d.at = "marker" => rPaper[d.out].file # "absent"
  /\ d.at = "attempt" =>
       /\ d.cell \in Successor!Ids
       /\ rEvidence[d.lane][d.cell] \in {"started", "prep1", "retry", "attesting", "attested",
            "prep2"}
                                       \cup (IF d.mine THEN {"run1", "run2"} ELSE {})
SuccWho == \A s \in Supervisors : SuccAt(rSup[s])
\* The inductive invariant.
SuccInv == SuccStore /\ (\E D : SuccHas(D)) /\ SuccPapers /\ SuccWho

\* What the documents of the chain are called.
LEMMA SuccNames ==
  /\ Len(Successor!Finals) = 5 /\ DOMAIN Successor!Finals = 1 .. 5
  /\ \A i \in 1 .. 5 : <<Successor!Finals[i], 0>> \in Successor!Papers \ SuccBlock
  /\ \A i, j \in 1 .. 5 : <<Successor!Finals[i], 0>> = <<Successor!Finals[j], 0>> => i = j
  /\ \A i \in 1 .. 5 : Successor!Finals[i] \notin {"start", "seal", "term"}
  /\ SuccBlock \subseteq Successor!Papers
  <1>1. Len(Successor!Finals) = 5 /\ DOMAIN Successor!Finals = 1 .. 5
    BY DEF Successor!Finals
  <1>2. /\ Successor!Finals[1] = "analysis" /\ Successor!Finals[2] = "report"
             /\ Successor!Finals[3] = "archive"
        /\ Successor!Finals[4] = "manifest" /\ Successor!Finals[5] = "verification"
    BY DEF Successor!Finals
  <1>3. \A i \in 1 .. 5 : i = 1 \/ i = 2 \/ i = 3 \/ i = 4 \/ i = 5
    OBVIOUS
  <1>4. \A i \in 1 .. 5 : <<Successor!Finals[i], 0>> \in Successor!Papers
    BY <1>1 DEF Successor!Papers
  <1>5. \A i \in 1 .. 5 : Successor!Finals[i] \notin {"start", "seal", "term"}
    BY <1>2, <1>3
  <1>6. \A i \in 1 .. 5 : <<Successor!Finals[i], 0>> \notin SuccBlock
    BY DEF SuccBlock, Successor!Lanes
  <1>7. \A i, j \in 1 .. 5 : Successor!Finals[i] = Successor!Finals[j] => i = j
    BY <1>2, <1>3
  <1>8. SuccBlock \subseteq Successor!Papers
    BY DEF SuccBlock, Successor!Papers
  <1> QED
    BY <1>1, <1>4, <1>5, <1>6, <1>7, <1>8

\* A store that is typed, papers that are typed, and a command that is: any set of
\* documents will do.
LEMMA SuccInit == ASSUME Successor!Init PROVE SuccInv
  <1>1. SuccStore
    BY DEF Successor!Init, SuccStore, SuccCells
  <1>2. PICK D : D = {Nil, 0}
    OBVIOUS
  <1>3. Successor!Begin("closed") \in SuccCommand(D)
    BY <1>2, SuccConstants DEF Successor!Begin, SuccCommand, SuccAts, SuccQuiets, Successor!Lanes
  <1>4. Successor!Absent \in [file : Successor!Files, doc : D]
    BY <1>2 DEF Successor!Absent, Successor!Files
  <1>5. SuccHas(D)
    BY <1>3, <1>4 DEF Successor!Init, SuccHas
  <1>6. \A i \in 1 .. 5 : ~Successor!Published(i)
    BY SuccNames DEF Successor!Init, Successor!Published, Successor!Absent
  <1>7. SuccPapers
    BY <1>6 DEF SuccPapers
  <1>8. SuccWho
    BY DEF Successor!Init, SuccWho, SuccAt, Successor!Begin, SuccRuns
  <1> QED
    BY <1>1, <1>5, <1>7, <1>8 DEF SuccInv

\* What is known of the command of s, with a set of documents that has these too.
LEMMA SuccHave ==
  ASSUME SuccInv, NEW s \in Supervisors, NEW X
  PROVE  \E D : /\ SuccHas(D) /\ X \subseteq D /\ rSup[s] \in SuccCommand(D) /\ SuccAt(rSup[s])
  <1>1. PICK C : SuccHas(C)
    BY DEF SuccInv
  <1>2. PICK D : D = C \cup X
    OBVIOUS
  <1>3. [file : Successor!Files, doc : C] \subseteq [file : Successor!Files, doc : D]
    BY <1>2
  <1>4. SuccCommand(C) \subseteq SuccCommand(D)
    BY <1>2 DEF SuccCommand
  <1>5. SuccHas(D)
    BY <1>1, <1>3, <1>4 DEF SuccHas
  <1>6. rSup[s] \in SuccCommand(D)
    BY <1>5 DEF SuccHas
  <1> QED
    BY <1>2, <1>5, <1>6 DEF SuccInv, SuccWho

\* The only supervisor is where its command is.
LEMMA SuccMove ==
  ASSUME OneSupervisor, NEW s \in Supervisors, NEW D, SuccHas(D), NEW d \in SuccCommand(D),
         rSup' = [rSup EXCEPT ![s] = d], SuccAt(d)', SuccStore', SuccPapers',
         rPaper' \in [Successor!Papers -> [file : Successor!Files, doc : D]]
  PROVE  SuccInv'
  <1>1. rSup' \in [Supervisors -> SuccCommand(D)] /\ \A t \in Supervisors : rSup'[t] = d
    BY DEF SuccHas, OneSupervisor
  <1>2. SuccHas(D)'
    BY <1>1 DEF SuccHas
  <1>3. SuccWho'
    BY <1>1 DEF SuccWho
  <1> QED
    BY <1>2, <1>3 DEF SuccInv

\* What is published stays so while no paper is written.
LEMMA SuccSame ==
  ASSUME UNCHANGED rPaper
  PROVE  /\ Unpublished' = Unpublished /\ BothMarked' = BothMarked /\ SuccPapers' = SuccPapers
         /\ \A l : Successor!Terminals(l)' = Successor!Terminals(l)
         /\ \A n : Successor!Done(n)' = Successor!Done(n)
  BY
  DEF Unpublished, Successor!Published, BothMarked, Successor!Marked, SuccPapers,
      Successor!Terminals, Successor!Done

\* A step that only moves the command.
LEMMA SuccGoes ==
  ASSUME OneSupervisor, SuccInv, NEW s \in Supervisors, UNCHANGED <<rEvidence, rPaper>>,
         NEW D, SuccHas(D), NEW d \in SuccCommand(D), rSup' = [rSup EXCEPT ![s] = d], SuccAt(d)
  PROVE  SuccInv'
  <1>1. SuccAt(d)'
    BY SuccSame DEF SuccAt, Successor!Ids
  <1>2. SuccStore' /\ SuccPapers'
    BY SuccSame DEF SuccInv, SuccStore
  <1> QED
    BY <1>1, <1>2, SuccMove DEF SuccHas

\* The command is somewhere else, and as far as it was.
LEMMA SuccRest ==
  ASSUME OneSupervisor, SuccInv, NEW s \in Supervisors, UNCHANGED <<rEvidence, rPaper>>,
         NEW D, SuccHas(D), NEW d \in SuccCommand(D), rSup' = [rSup EXCEPT ![s] = d],
         d.at \in SuccQuiets, d.final = rSup[s].final \/ d.final = 1
  PROVE  SuccInv'
  <1>1. PICK old : old = rSup[s]
    OBVIOUS
  <1>2. SuccAt(old) /\ old \in SuccCommand(D)
    BY <1>1 DEF SuccInv, SuccWho, SuccHas
  <1>3. \A j \in 1 .. 5 : j < d.final => Successor!Done(<<Successor!Finals[j], 0>>)
    BY <1>1, <1>2 DEF SuccAt
  <1>4. d.at \notin SuccRuns \cup {"lease", "terminal", "payload", "marker", "attempt"}
    BY DEF SuccQuiets, SuccRuns
  <1>5. SuccAt(d)
    BY <1>3, <1>4 DEF SuccAt, SuccRuns
  <1> QED
    BY <1>5, SuccGoes

\* The command goes to another place.
LEMMA SuccGoto ==
  ASSUME OneSupervisor, SuccInv, NEW s \in Supervisors, UNCHANGED <<rEvidence, rPaper>>,
         NEW at \in SuccQuiets, Successor!Goto(s, at)
  PROVE  SuccInv'
  <1>1. PICK D : SuccHas(D) /\ rSup[s] \in SuccCommand(D)
    BY SuccHave
  <1>2. PICK old \in SuccCommand(D) : old = rSup[s]
    BY <1>1
  <1>3. PICK d : d = [old EXCEPT !.at = at]
    OBVIOUS
  <1>4. d \in SuccCommand(D) /\ d.at = at /\ d.final = old.final
    BY <1>3 DEF SuccCommand, SuccAts
  <1>5. rSup' = [rSup EXCEPT ![s] = d]
    BY <1>2, <1>3 DEF Successor!Goto
  <1> QED
    BY <1>1, <1>2, <1>4, <1>5, SuccRest

\* The command is over.
LEMMA SuccOver ==
  ASSUME OneSupervisor, SuccInv, NEW s \in Supervisors, UNCHANGED <<rEvidence, rPaper>>,
    Successor!Over(s)
  PROVE  SuccInv'
  BY SuccGoto DEF Successor!Over, SuccQuiets

\* The supervisor looks what there is to do.
LEMMA SuccLook == ASSUME OneSupervisor, SuccInv, NEW s \in Supervisors, Successor!Look(s)
  PROVE SuccInv'
  <1>0. UNCHANGED <<rEvidence, rPaper>>
    BY DEF Successor!Look, Successor!Quiet
  <1>1. CASE Successor!Goto(s, "closed")
    BY <1>0, <1>1, SuccGoto DEF SuccQuiets
  <1>2. CASE \E t \in BOOLEAN : rSup' = [rSup EXCEPT ![s] = [@ EXCEPT !.at = "recover",
        !.terminal = t]]
    <2>1. PICK t \in BOOLEAN : rSup' = [rSup EXCEPT ![s] = [@ EXCEPT !.at = "recover",
          !.terminal = t]]
      BY <1>2
    <2>2. PICK D : SuccHas(D) /\ rSup[s] \in SuccCommand(D)
      BY SuccHave
    <2>3. PICK old \in SuccCommand(D) : old = rSup[s]
      BY <2>2
    <2>4. PICK d : d = [old EXCEPT !.at = "recover", !.terminal = t]
      OBVIOUS
    <2>5. d \in SuccCommand(D) /\ d.at = "recover" /\ d.final = old.final
      BY <2>2, <2>4 DEF SuccCommand, SuccAts, SuccQuiets
    <2>6. rSup' = [rSup EXCEPT ![s] = d]
      BY <2>1, <2>3, <2>4
    <2> QED
      BY <1>0, <2>2, <2>3, <2>5, <2>6, SuccRest DEF SuccQuiets
  <1> QED
    BY <1>1, <1>2 DEF Successor!Look

\* The recovery of a stale lease writes no document.
LEMMA SuccRecovers ==
  ASSUME OneSupervisor, SuccInv, NEW s \in Supervisors, UNCHANGED <<rEvidence, rPaper>>,
         NEW at \in SuccQuiets, NEW id,
         rSup' = [rSup EXCEPT ![s] = [@ EXCEPT !.at = at, !.seen = id]]
  PROVE  SuccInv'
  <1>1. PICK D : SuccHas(D) /\ {id} \subseteq D /\ rSup[s] \in SuccCommand(D)
    BY SuccHave
  <1>2. PICK old \in SuccCommand(D) : old = rSup[s]
    BY <1>1
  <1>3. PICK d : d = [old EXCEPT !.at = at, !.seen = id]
    OBVIOUS
  <1>4. d \in SuccCommand(D) /\ d.at = at /\ d.final = old.final
    BY <1>1, <1>3 DEF SuccCommand, SuccAts
  <1>5. rSup' = [rSup EXCEPT ![s] = d]
    BY <1>2, <1>3
  <1> QED
    BY <1>1, <1>2, <1>4, <1>5, SuccRest

\* Each of its steps.
LEMMA SuccLeaseSteps ==
  ASSUME OneSupervisor, SuccInv, NEW s \in Supervisors,
         Successor!Recover(s) \/ Successor!Audit(s) \/ Successor!Recheck(s) \/ Successor!Unlink(s)
           \/ Successor!Start(s)
  PROVE  SuccInv'
  <1>0. UNCHANGED <<rEvidence, rPaper>>
    BY
    DEF Successor!Recover, Successor!Audit, Successor!Recheck, Successor!Unlink, Successor!Start,
        Successor!Quiet
  <1>1. Successor!AfterRecovery(s) \in SuccQuiets
    BY DEF Successor!AfterRecovery, SuccQuiets
  <1>2. ASSUME NEW a \in SuccQuiets, rSup' = [rSup EXCEPT ![s] = [@ EXCEPT !.at = a]] PROVE SuccInv'
    <2>1. Successor!Goto(s, a)
      BY <1>2 DEF Successor!Goto
    <2> QED
      BY <1>0, <1>2, <2>1, SuccGoto
  <1>3. CASE Successor!Recover(s)
    <2>1. CASE rSup' = [rSup EXCEPT ![s] = [@ EXCEPT !.at = Successor!AfterRecovery(s)]]
      BY <1>1, <1>2, <2>1
    <2>2. CASE rSup' = [rSup EXCEPT ![s] = [@ EXCEPT !.at = "closed"]]
      BY <1>2, <2>2 DEF SuccQuiets
    <2>3. CASE rSup' = [rSup EXCEPT ![s] = [@ EXCEPT !.at = "audit", !.seen = rLease.id]]
      BY <1>0, <2>3, SuccRecovers DEF SuccQuiets
    <2> QED
      BY <1>3, <2>1, <2>2, <2>3 DEF Successor!Recover
  <1>4. CASE Successor!Audit(s)
    <2>1. CASE UNCHANGED rSup
      <3>1. rSup' = [rSup EXCEPT ![s] = rSup[s]]
        BY <2>1 DEF SuccInv, SuccHas
      <3>2. PICK D : SuccHas(D) /\ rSup[s] \in SuccCommand(D) /\ SuccAt(rSup[s])
        BY SuccHave
      <3>3. PICK d \in SuccCommand(D) : d = rSup[s] /\ SuccAt(d)
        BY <3>2
      <3> QED
        BY <1>0, <3>1, <3>2, <3>3, SuccGoes
    <2> QED
      BY <1>0, <1>4, <2>1, SuccGoto DEF Successor!Audit, SuccQuiets
  <1>5. CASE Successor!Recheck(s)
    BY <1>0, <1>5, SuccGoto DEF Successor!Recheck, SuccQuiets
  <1>6. CASE Successor!Unlink(s)
    <2>1. PICK a \in SuccQuiets : a = IF rLease = Nil THEN "closed" ELSE Successor!AfterRecovery(s)
      BY <1>1 DEF SuccQuiets
    <2>2. rSup' = [rSup EXCEPT ![s] = [@ EXCEPT !.seen = 0, !.at = a]]
      BY <1>6, <2>1 DEF Successor!Unlink
    <2>3. [rSup[s] EXCEPT !.seen = 0, !.at = a] = [rSup[s] EXCEPT !.at = a, !.seen = 0]
      <3>1. PICK D : rSup[s] \in SuccCommand(D)
        BY SuccHave
      <3> QED
        BY <3>1 DEF SuccCommand
    <2>4. rSup' = [rSup EXCEPT ![s] = [rSup[s] EXCEPT !.at = a, !.seen = 0]]
      BY <2>2, <2>3
    <2> QED
      BY <1>0, <2>4, SuccRecovers
  <1>7. CASE Successor!Start(s)
    <2>10. PICK X : X = {Nil, 0}
      OBVIOUS
    <2>1. PICK D : SuccHas(D) /\ X \subseteq D
      BY SuccHave
    <2>20. Nil \in D /\ 0 \in D
      BY <2>1, <2>10
    <2>2. Successor!Begin("look") \in SuccCommand(D) /\ Successor!Begin("look").at = "look"
          /\ Successor!Begin("look").final = 1
      BY <2>20, SuccConstants DEF Successor!Begin, SuccCommand, SuccAts, SuccQuiets, Successor!Lanes
    <2>3. PICK d \in SuccCommand(D) : d = Successor!Begin("look")
      BY <2>2
    <2> QED
      BY <1>0, <1>7, <2>1, <2>2, <2>3, SuccRest DEF Successor!Start, SuccQuiets
  <1> QED
    BY <1>3, <1>4, <1>5, <1>6, <1>7

\* What the command of s has, and how its place or another field is changed.
LEMMA SuccOld ==
  ASSUME SuccInv, NEW s \in Supervisors
  PROVE  \E D : \E old \in SuccCommand(D) : SuccHas(D) /\ old = rSup[s] /\ SuccAt(old)
  <1>1. PICK D : SuccHas(D) /\ rSup[s] \in SuccCommand(D) /\ SuccAt(rSup[s])
    BY SuccHave
  <1>2. PICK old \in SuccCommand(D) : old = rSup[s] /\ SuccAt(old)
    BY <1>1
  <1> QED
    BY <1>1, <1>2

\* The lane goes on, under the lease, with nothing published.
LEMMA SuccOn ==
  ASSUME OneSupervisor, SuccInv, NEW s \in Supervisors, UNCHANGED <<rEvidence, rPaper>>,
         NEW at \in SuccRuns \ {"attempt"}, Successor!Goto(s, at), Unpublished,
           Successor!Terminals(rSup[s].lane) = {}
  PROVE  SuccInv'
  <1>1. PICK D : \E old \in SuccCommand(D) : SuccHas(D) /\ old = rSup[s] /\ SuccAt(old)
    BY SuccOld
  <1>2. PICK old \in SuccCommand(D) : SuccHas(D) /\ old = rSup[s] /\ SuccAt(old)
    BY <1>1
  <1>3. PICK d : d = [old EXCEPT !.at = at]
    OBVIOUS
  <1>4. d \in SuccCommand(D) /\ d.at = at /\ d.final = old.final /\ d.lane = old.lane
    BY <1>3 DEF SuccCommand, SuccAts
  <1>5. rSup' = [rSup EXCEPT ![s] = d]
    BY <1>2, <1>3 DEF Successor!Goto
  <1>6. at \notin {"payload", "marker", "attempt"}
    BY DEF SuccRuns
  <1>7. SuccAt(d)
    BY <1>2, <1>4, <1>6 DEF SuccAt
  <1> QED
    BY <1>2, <1>4, <1>5, <1>7, SuccGoes

\* Nothing is published before the analysis.
LEMMA SuccNone == ASSUME SuccPapers, ~Successor!Published(1) PROVE Unpublished
  BY DEF SuccPapers, Unpublished

\* A command checks what it finds.
LEMMA SuccCheck == ASSUME OneSupervisor, SuccInv, NEW s \in Supervisors, Successor!Check(s)
  PROVE SuccInv'
  <1>0. UNCHANGED <<rEvidence, rPaper>>
    BY DEF Successor!Check, Successor!Quiet
  <1>1. CASE Successor!Over(s)
    BY <1>0, <1>1, SuccOver
  <1>2. CASE ~Successor!Published(1) /\ Successor!Goto(s, "lease")
    <2>1. Unpublished
      BY <1>2, SuccNone DEF SuccInv
    <2>2. PICK D : \E old \in SuccCommand(D) : SuccHas(D) /\ old = rSup[s] /\ SuccAt(old)
      BY SuccOld
    <2>3. PICK old \in SuccCommand(D) : SuccHas(D) /\ old = rSup[s] /\ SuccAt(old)
      BY <2>2
    <2>4. PICK d : d = [old EXCEPT !.at = "lease"]
      OBVIOUS
    <2>5. d \in SuccCommand(D) /\ d.at = "lease" /\ d.final = old.final
      BY <2>4 DEF SuccCommand, SuccAts
    <2>6. rSup' = [rSup EXCEPT ![s] = d]
      BY <1>2, <2>3, <2>4 DEF Successor!Goto
    <2>7. SuccAt(d)
      BY <2>1, <2>3, <2>5 DEF SuccAt, SuccRuns
    <2> QED
      BY <1>0, <2>3, <2>5, <2>6, <2>7, SuccGoes
  <1> QED
    BY <1>1, <1>2 DEF Successor!Check

\* A command takes the lease.
LEMMA SuccLease == ASSUME OneSupervisor, SuccInv, NEW s \in Supervisors, Successor!Lease(s)
  PROVE SuccInv'
  <1>0. UNCHANGED <<rEvidence, rPaper>> /\ rSup[s].at = "lease"
    BY DEF Successor!Lease, Successor!Quiet
  <1>1. CASE Successor!Over(s)
    BY <1>0, <1>1, SuccOver
  <1>2. CASE Successor!Goto(s, "terminal")
    <2>2. PICK D : \E old \in SuccCommand(D) : SuccHas(D) /\ old = rSup[s] /\ SuccAt(old)
      BY SuccOld
    <2>3. PICK old \in SuccCommand(D) : SuccHas(D) /\ old = rSup[s] /\ SuccAt(old)
      BY <2>2
    <2>4. PICK d : d = [old EXCEPT !.at = "terminal"]
      OBVIOUS
    <2>5. d \in SuccCommand(D) /\ d.at = "terminal" /\ d.final = old.final
      BY <2>4 DEF SuccCommand, SuccAts
    <2>6. rSup' = [rSup EXCEPT ![s] = d]
      BY <1>2, <2>3, <2>4 DEF Successor!Goto
    <2>7. SuccAt(d)
      BY <1>0, <2>3, <2>5 DEF SuccAt, SuccRuns
    <2> QED
      BY <1>0, <2>3, <2>5, <2>6, <2>7, SuccGoes
  <1> QED
    BY <1>1, <1>2 DEF Successor!Lease

\* A paper of a lane is written while nothing is published.
LEMMA SuccPaper ==
  ASSUME SuccInv, NEW n \in SuccBlock, NEW r, rPaper' = [rPaper EXCEPT ![n] = r], Unpublished
  PROVE  /\ Unpublished' /\ SuccPapers'
         /\ \A j \in 1 .. 5 : Successor!Done(<<Successor!Finals[j],
              0>>)' = Successor!Done(<<Successor!Finals[j], 0>>)
         /\ n[1] = "start" =>
              \A l \in Successor!Lanes : Successor!Terminals(l)' = Successor!Terminals(l)
  <1>1. PICK D : rPaper \in [Successor!Papers -> [file : Successor!Files, doc : D]]
    BY DEF SuccInv, SuccHas
  <1>2. \A m \in Successor!Papers : m # n => rPaper'[m] = rPaper[m]
    BY <1>1
  <1>3. \A j \in 1 .. 5 : rPaper'[<<Successor!Finals[j], 0>>] = rPaper[<<Successor!Finals[j], 0>>]
    BY <1>2, SuccNames
  <1>4. Unpublished'
    BY <1>3 DEF Unpublished, Successor!Published
  <1>5. SuccPapers'
    BY <1>4 DEF SuccPapers, Unpublished
  <1>6. ASSUME n[1] = "start", NEW l \in Successor!Lanes
    PROVE Successor!Terminals(l)' = Successor!Terminals(l)
    <2>1. \A k \in {"seal", "term"} : <<k, l>> \in Successor!Papers /\ <<k, l>> # n
      BY <1>6, SuccNames DEF SuccBlock
    <2>2. \A k \in {"seal", "term"} : rPaper'[<<k, l>>] = rPaper[<<k, l>>]
      BY <1>2, <2>1
    <2> QED
      BY <2>2 DEF Successor!Terminals, Successor!Done
  <1> QED
    BY <1>3, <1>4, <1>5, <1>6 DEF Successor!Done

\* The terminal of a lane is read.
LEMMA SuccReadTerminal ==
  ASSUME OneSupervisor, SuccInv, NEW s \in Supervisors, Successor!ReadTerminal(s) PROVE SuccInv'
  <1>0. UNCHANGED rEvidence /\ rSup[s].at = "terminal"
    BY DEF Successor!ReadTerminal, Successor!Quiet
  <1>1. PICK D : \E old \in SuccCommand(D) : SuccHas(D) /\ old = rSup[s] /\ SuccAt(old)
    BY SuccOld
  <1>2. PICK old \in SuccCommand(D) : SuccHas(D) /\ old = rSup[s] /\ SuccAt(old)
    BY <1>1
  <1>3. Unpublished /\ old.lane \in Successor!Lanes
    BY <1>0, <1>2 DEF SuccAt, SuccCommand
  <1>4. CASE Successor!Over(s) /\ UNCHANGED rPaper
    BY <1>0, <1>4, SuccOver
  <1>5. CASE UNCHANGED <<rSup>> /\ \E k \in {"seal", "term"} :
               rPaper' = [rPaper EXCEPT ![<<k, rSup[s].lane>>].file = "done"]
    <2>1. PICK k \in {"seal",
          "term"} : rPaper' = [rPaper EXCEPT ![<<k, rSup[s].lane>>].file = "done"]
      BY <1>5
    <2>2. PICK n \in SuccBlock : n = <<k, old.lane>>
      BY <1>3 DEF SuccBlock
    <2>3. n \in Successor!Papers
      BY SuccNames
    <2>4. PICK p \in [file : Successor!Files, doc : D] : p = rPaper[n]
      BY <1>2, <2>3 DEF SuccHas
    <2>5. PICK r : r = [p EXCEPT !.file = "done"]
      OBVIOUS
    <2>6. r \in [file : Successor!Files, doc : D]
      BY <2>5 DEF Successor!Files
    <2>7. rPaper' = [rPaper EXCEPT ![n] = r]
      BY <1>2, <2>1, <2>2, <2>4, <2>5
    <2>8. rPaper' \in [Successor!Papers -> [file : Successor!Files, doc : D]]
      BY <1>2, <2>3, <2>6, <2>7 DEF SuccHas
    <2>9. /\ Unpublished' /\ SuccPapers'
          /\ \A j \in 1 .. 5 : Successor!Done(<<Successor!Finals[j],
               0>>)' = Successor!Done(<<Successor!Finals[j], 0>>)
      BY <1>3, <2>7, SuccPaper
    <2>10. SuccAt(old)'
      <3>1. old.at = "terminal"
        BY <1>0, <1>2
      <3> QED
        BY <1>2, <2>9, <3>1 DEF SuccAt, SuccRuns
    <2>11. rSup' = [rSup EXCEPT ![s] = old]
      BY <1>2, <1>5 DEF SuccHas
    <2> QED
      BY <1>0, <1>2, <2>8, <2>9, <2>10, <2>11, SuccMove DEF SuccInv, SuccStore
  <1>6. CASE Successor!Terminals(rSup[s].lane) = {} /\ Successor!Goto(s, "environment")
        /\ UNCHANGED rPaper
    BY <1>0, <1>3, <1>6, SuccOn DEF SuccRuns
  <1> QED
    BY <1>4, <1>5, <1>6 DEF Successor!ReadTerminal

\* What holds while the lane runs.
LEMMA SuccRunning ==
  ASSUME SuccInv, NEW s \in Supervisors, rSup[s].at \in SuccRuns
  PROVE  Unpublished /\ Successor!Terminals(rSup[s].lane) = {} /\ rSup[s].lane \in Successor!Lanes
    /\ rSup[s].cell \in 1 .. BlockCells + 1
  <1>1. PICK D : \E old \in SuccCommand(D) : SuccHas(D) /\ old = rSup[s] /\ SuccAt(old)
    BY SuccOld
  <1>2. PICK old \in SuccCommand(D) : old = rSup[s] /\ SuccAt(old)
    BY <1>1
  <1>3. old.at \in SuccRuns
    BY <1>2
  <1>4. Unpublished /\ Successor!Terminals(old.lane) = {} /\ old.lane \in Successor!Lanes
        /\ old.cell \in 1 .. BlockCells + 1
    BY <1>2, <1>3 DEF SuccAt, SuccCommand
  <1> QED
    BY <1>2, <1>4

\* The environment is looked at.
LEMMA SuccEnvironment ==
  ASSUME OneSupervisor, SuccInv, NEW s \in Supervisors, Successor!Environment(s) PROVE SuccInv'
  <1>0. UNCHANGED <<rEvidence, rPaper>> /\ rSup[s].at \in {"environment", "post"}
    BY DEF Successor!Environment
  <1>1. Unpublished /\ Successor!Terminals(rSup[s].lane) = {}
    BY <1>0, SuccRunning DEF SuccRuns
  <1>2. CASE Successor!Over(s)
    BY <1>0, <1>2, SuccOver
  <1>3. CASE Successor!Goto(s, IF rSup[s].at = "post" THEN "seal" ELSE "start")
    <2>1. PICK a \in {"seal", "start"} : a = IF rSup[s].at = "post" THEN "seal" ELSE "start"
      OBVIOUS
    <2>2. a \in SuccRuns \ {"attempt"} /\ Successor!Goto(s, a)
      BY <1>3, <2>1 DEF SuccRuns
    <2> QED
      BY <1>0, <1>1, <2>2, SuccOn
  <1> QED
    BY <1>2, <1>3 DEF Successor!Environment

\* A document is taken in hand: of a lane that runs, or the next one of the chain.
LEMMA SuccHand ==
  ASSUME OneSupervisor, SuccInv, NEW s \in Supervisors, UNCHANGED <<rEvidence, rPaper>>,
         NEW n \in Successor!Papers, NEW x, NEW at \in {"payload", "marker"},
         rSup' = [rSup EXCEPT ![s] = [@ EXCEPT !.at = at, !.out = n, !.doc = x]],
         \/ n \in SuccBlock /\ rSup[s].at \in SuccRuns
         \/ rSup[s].final \in 1 .. 5 /\ n = <<Successor!Finals[rSup[s].final], 0>> /\ BothMarked,
         at = "marker" => rPaper[n].file # "absent"
  PROVE  SuccInv'
  <1>1. PICK D : SuccHas(D) /\ {x} \subseteq D /\ rSup[s] \in SuccCommand(D) /\ SuccAt(rSup[s])
    BY SuccHave
  <1>2. PICK old \in SuccCommand(D) : old = rSup[s] /\ SuccAt(old)
    BY <1>1
  <1>3. PICK d : d = [old EXCEPT !.at = at, !.out = n, !.doc = x]
    OBVIOUS
  <1>4. /\ d \in SuccCommand(D) /\ d.at = at /\ d.out = n /\ d.final = old.final
             /\ d.lane = old.lane
    BY <1>1, <1>3 DEF SuccCommand, SuccAts
  <1>5. rSup' = [rSup EXCEPT ![s] = d]
    BY <1>2, <1>3
  <1>6. at \notin SuccRuns \cup {"lease", "terminal", "attempt"}
    BY DEF SuccRuns
  <1>7. SuccAt(d)
    <2>1. CASE n \in SuccBlock /\ rSup[s].at \in SuccRuns
      <3>1. Unpublished /\ Successor!Terminals(old.lane) = {}
        BY <1>2, <2>1, SuccRunning
      <3> QED
        BY <1>2, <1>4, <1>6, <2>1, <3>1 DEF SuccAt
    <2>2. CASE rSup[s].final \in 1 .. 5 /\ n = <<Successor!Finals[rSup[s].final], 0>> /\ BothMarked
      BY <1>2, <1>4, <1>6, <2>2 DEF SuccAt
    <2> QED
      BY <2>1, <2>2
  <1> QED
    BY <1>1, <1>4, <1>5, <1>7, SuccGoes

\* A lane begins.
LEMMA SuccBlockStart ==
  ASSUME OneSupervisor, SuccInv, NEW s \in Supervisors, Successor!BlockStart(s) PROVE SuccInv'
  <1>0. UNCHANGED <<rEvidence, rPaper>> /\ rSup[s].at = "start"
    BY DEF Successor!BlockStart, Successor!Quiet
  <1>1. Unpublished /\ Successor!Terminals(rSup[s].lane) = {} /\ rSup[s].lane \in Successor!Lanes
    BY <1>0, SuccRunning DEF SuccRuns
  <1>2. PICK n \in SuccBlock : n = <<"start", rSup[s].lane>>
    BY <1>1 DEF SuccBlock
  <1>3. n \in Successor!Papers /\ rSup[s].at \in SuccRuns
    BY <1>0, SuccNames DEF SuccRuns
  <1>4. CASE Successor!Over(s)
    BY <1>0, <1>4, SuccOver
  <1>5. CASE Successor!Write(s, n, Nil)
    BY <1>0, <1>3, <1>5, SuccHand DEF Successor!Write
  <1>6. CASE Successor!Goto(s, "cell")
    BY <1>0, <1>1, <1>6, SuccOn DEF SuccRuns
  <1>7. CASE rPaper[n].file = "whole"
        /\ rSup' = [rSup EXCEPT ![s] = [@ EXCEPT !.at = "marker", !.out = n]]
    <2>1. PICK x : x = rSup[s].doc
      OBVIOUS
    <2>2. PICK D : rSup[s] \in SuccCommand(D)
      BY SuccHave
    <2>3. [rSup[s] EXCEPT !.at = "marker", !.out = n] = [rSup[s] EXCEPT !.at = "marker",
          !.out = n, !.doc = x]
      BY <2>1, <2>2 DEF SuccCommand
    <2>4. rSup' = [rSup EXCEPT ![s] = [@ EXCEPT !.at = "marker", !.out = n, !.doc = x]]
      BY <1>7, <2>3
    <2>5. rPaper[n].file # "absent"
      BY <1>7
    <2> QED
      BY <1>0, <1>3, <2>4, <2>5, SuccHand
  <1> QED
    BY <1>2, <1>4, <1>5, <1>6, <1>7 DEF Successor!BlockStart

\* The cell at hand is committed something, and the command stays with it.
LEMMA SuccCommits ==
  ASSUME OneSupervisor, SuccInv, NEW s \in Supervisors, UNCHANGED rPaper, rSup[s].at \in SuccRuns,
         rSup[s].cell \in Successor!Ids, NEW o \in SuccCells,
           Successor!Commit(rSup[s].lane, rSup[s].cell, o),
         NEW at \in {"cell", "attempt"}, NEW b \in BOOLEAN,
         rSup' = [rSup EXCEPT ![s] = [@ EXCEPT !.at = at, !.mine = b]],
         at = "attempt" =>
           o \in {"started", "prep1", "retry", "attesting", "attested", "prep2"}
                 \cup (IF b THEN {"run1", "run2"} ELSE {})
  PROVE  SuccInv'
  <1>1. PICK D : \E old \in SuccCommand(D) : SuccHas(D) /\ old = rSup[s] /\ SuccAt(old)
    BY SuccOld
  <1>2. PICK old \in SuccCommand(D) : SuccHas(D) /\ old = rSup[s] /\ SuccAt(old)
    BY <1>1
  <1>3. PICK d : d = [old EXCEPT !.at = at, !.mine = b]
    OBVIOUS
  <1>4. /\ d \in SuccCommand(D) /\ d.at = at /\ d.final = old.final /\ d.lane = old.lane
        /\ d.cell = old.cell /\ d.mine = b
    BY <1>3 DEF SuccCommand, SuccAts, SuccRuns
  <1>5. rSup' = [rSup EXCEPT ![s] = d]
    BY <1>2, <1>3
  <1>6. Unpublished /\ Successor!Terminals(old.lane) = {} /\ old.lane \in Successor!Lanes
        /\ old.cell \in Successor!Ids
    BY <1>2, SuccRunning
  <1>7. rEvidence' = [rEvidence EXCEPT ![old.lane][old.cell] = o]
    BY <1>2 DEF Successor!Commit
  <1>8. SuccStore' /\ rEvidence'[old.lane][old.cell] = o
    BY <1>6, <1>7 DEF SuccInv, SuccStore
  <1>9. SuccPapers' /\ Unpublished' /\ Successor!Terminals(old.lane)' = {}
    BY <1>6, SuccSame DEF SuccInv
  <1>10. \A j \in 1 .. 5 : j < old.final => Successor!Done(<<Successor!Finals[j], 0>>)'
    BY <1>2, SuccSame DEF SuccAt
  <1>11. SuccAt(d)'
    BY <1>4, <1>6, <1>8, <1>9, <1>10 DEF SuccAt, SuccRuns, Successor!Ids
  <1> QED
    BY <1>2, <1>4, <1>5, <1>8, <1>9, <1>11, SuccMove DEF SuccHas

\* The same when nothing of the command changes, or only its place.
LEMMA SuccStays ==
  ASSUME OneSupervisor, SuccInv, NEW s \in Supervisors, UNCHANGED rPaper,
         rSup[s].cell \in Successor!Ids, NEW o \in SuccCells,
           Successor!Commit(rSup[s].lane, rSup[s].cell, o),
         \/ rSup[s].at \in {"cell", "attempt"} /\ Successor!Goto(s, "cell")
         \/ rSup[s].at = "cell" /\ UNCHANGED rSup
         \/ /\ rSup[s].at = "attempt" /\ UNCHANGED rSup
            /\ o \in {"started", "prep1", "retry", "attesting", "attested", "prep2"}
  PROVE  SuccInv'
  <1>1. PICK D : \E old \in SuccCommand(D) : SuccHas(D) /\ old = rSup[s] /\ SuccAt(old)
    BY SuccOld
  <1>2. PICK old \in SuccCommand(D) : SuccHas(D) /\ old = rSup[s]
    BY <1>1
  <1>3. old.mine \in BOOLEAN
    BY DEF SuccCommand
  <1>4. PICK at \in {"cell", "attempt"} :
          rSup' = [rSup EXCEPT ![s] = [old EXCEPT !.at = at]] /\ (at = "attempt" =>
            o \in {"started", "prep1", "retry", "attesting", "attested", "prep2"})
    <2>1. CASE Successor!Goto(s, "cell")
      BY <1>2, <2>1 DEF Successor!Goto
    <2>2. CASE UNCHANGED rSup /\ ~Successor!Goto(s, "cell")
      <3>1. PICK a \in {"cell", "attempt"} : a = old.at
        BY <1>2, <2>2
      <3>2. [old EXCEPT !.at = a] = old
        BY <3>1 DEF SuccCommand
      <3>3. rSup' = [rSup EXCEPT ![s] = old]
        BY <1>2, <2>2 DEF SuccHas
      <3>4. rSup' = [rSup EXCEPT ![s] = [old EXCEPT !.at = a]]
        BY <3>2, <3>3
      <3>5. a = "attempt" => o \in {"started", "prep1", "retry", "attesting", "attested", "prep2"}
        BY <1>2, <2>2, <3>1
      <3> QED
        BY <3>4, <3>5
    <2> QED
      BY <2>1, <2>2
  <1>5. PICK b \in BOOLEAN : b = old.mine
    BY <1>3
  <1>6. [old EXCEPT !.at = at] = [old EXCEPT !.at = at, !.mine = b]
    BY <1>5 DEF SuccCommand
  <1>7. rSup' = [rSup EXCEPT ![s] = [@ EXCEPT !.at = at, !.mine = b]]
    BY <1>2, <1>4, <1>6
  <1>8. rSup[s].at \in SuccRuns
    BY DEF SuccRuns
  <1> QED
    BY <1>4, <1>7, <1>8, SuccCommits

\* The cell is known to be one that may be attempted, or the loop goes on.
LEMMA SuccCell == ASSUME OneSupervisor, SuccInv, NEW s \in Supervisors, Successor!Cell(s)
  PROVE SuccInv'
  <1>0. UNCHANGED rPaper /\ rSup[s].at = "cell" /\ rSup[s].at \in SuccRuns
    BY DEF Successor!Cell, SuccRuns
  <1>1. Unpublished /\ Successor!Terminals(rSup[s].lane) = {} /\ rSup[s].lane \in Successor!Lanes
        /\ rSup[s].cell \in 1 .. BlockCells + 1
    BY <1>0, SuccRunning
  <1>2. PICK o : o = IF rSup[s].cell > BlockCells THEN "end" ELSE rEvidence[rSup[s].lane][rSup[s].cell]
    OBVIOUS
  <1>3. o # "end" => rSup[s].cell \in Successor!Ids /\ o = rEvidence[rSup[s].lane][rSup[s].cell]
    BY <1>1, <1>2, SuccConstants DEF Successor!Ids
  <1>4. o = "end" \/ o \in SuccCells
    BY <1>1, <1>3 DEF SuccInv, SuccStore
  <1>5. CASE Successor!Over(s) /\ UNCHANGED rEvidence
    BY <1>0, <1>5, SuccOver
  <1>6. ASSUME UNCHANGED rEvidence, NEW why, Successor!Terminate(s, why) PROVE SuccInv'
    <2>1. PICK x : x = [reason |-> why]
      OBVIOUS
    <2>2. PICK D : SuccHas(D) /\ {x} \subseteq D /\ rSup[s] \in SuccCommand(D) /\ SuccAt(rSup[s])
      BY SuccHave
    <2>3. PICK old \in SuccCommand(D) : old = rSup[s] /\ SuccAt(old)
      BY <2>2
    <2>4. PICK d : d = [old EXCEPT !.at = "term", !.doc = x]
      OBVIOUS
    <2>5. d \in SuccCommand(D) /\ d.at = "term" /\ d.final = old.final /\ d.lane = old.lane
      BY <2>2, <2>4 DEF SuccCommand, SuccAts, SuccRuns
    <2>6. rSup' = [rSup EXCEPT ![s] = d]
      BY <1>6, <2>1, <2>3, <2>4 DEF Successor!Terminate
    <2>7. SuccAt(d)
      BY <1>1, <2>3, <2>5 DEF SuccAt
    <2> QED
      BY <1>0, <1>6, <2>2, <2>5, <2>6, <2>7, SuccGoes
  <1>7. CASE o = "end" /\ Successor!Goto(s, "post") /\ UNCHANGED rEvidence
    BY <1>0, <1>1, <1>7, SuccOn DEF SuccRuns
  <1>8. CASE o \in {"none", "starting"} /\ UNCHANGED rSup
             /\ \E x \in {"starting", "started"} : Successor!Commit(rSup[s].lane, rSup[s].cell, x)
    <2>1. PICK x \in SuccCells : Successor!Commit(rSup[s].lane, rSup[s].cell, x)
      BY <1>8 DEF SuccCells
    <2>2. rSup[s].cell \in Successor!Ids
      BY <1>3, <1>8
    <2> QED
      BY <1>0, <1>8, <2>1, <2>2, SuccStays
  <1>9. CASE o = "valid" /\ rSup' = [rSup EXCEPT ![s].cell = rSup[s].cell + 1]
        /\ UNCHANGED rEvidence
    <2>1. PICK D : \E old \in SuccCommand(D) : SuccHas(D) /\ old = rSup[s] /\ SuccAt(old)
      BY SuccOld
    <2>2. PICK old \in SuccCommand(D) : SuccHas(D) /\ old = rSup[s] /\ SuccAt(old)
      BY <2>1
    <2>3. PICK d : d = [old EXCEPT !.cell = old.cell + 1]
      OBVIOUS
    <2>4. old.cell + 1 \in 1 .. BlockCells + 1
      BY <1>3, <1>9, <2>2, SuccConstants DEF Successor!Ids
    <2>5. d \in SuccCommand(D) /\ d.at = old.at /\ d.final = old.final /\ d.lane = old.lane
      BY <2>3, <2>4 DEF SuccCommand
    <2>6. rSup' = [rSup EXCEPT ![s] = d]
      BY <1>9, <2>2, <2>3
    <2>7. SuccAt(d)
      BY <1>0, <1>1, <2>2, <2>5 DEF SuccAt
    <2> QED
      BY <1>0, <1>9, <2>2, <2>5, <2>6, <2>7, SuccGoes
  <1>10. CASE o \in {"started", "prep1", "retry", "attesting", "attested", "prep2"}
              /\ Successor!Goto(s, "attempt") /\ UNCHANGED rEvidence
    <2>1. PICK D : \E old \in SuccCommand(D) : SuccHas(D) /\ old = rSup[s] /\ SuccAt(old)
      BY SuccOld
    <2>2. PICK old \in SuccCommand(D) : SuccHas(D) /\ old = rSup[s] /\ SuccAt(old)
      BY <2>1
    <2>3. PICK d : d = [old EXCEPT !.at = "attempt"]
      OBVIOUS
    <2>4. d \in SuccCommand(D) /\ d.at = "attempt" /\ d.final = old.final /\ d.lane = old.lane
          /\ d.cell = old.cell
      BY <2>3 DEF SuccCommand, SuccAts, SuccRuns
    <2>5. rSup' = [rSup EXCEPT ![s] = d]
      BY <1>10, <2>2, <2>3 DEF Successor!Goto
    <2>6. d.cell \in Successor!Ids /\ o = rEvidence[d.lane][d.cell]
      BY <1>3, <1>10, <2>2, <2>4
    <2>7. SuccAt(d)
      BY <1>1, <1>10, <2>2, <2>4, <2>6 DEF SuccAt
    <2> QED
      BY <1>0, <1>10, <2>2, <2>4, <2>5, <2>7, SuccGoes
  <1>11. \/ Successor!Over(s) /\ UNCHANGED rEvidence
         \/ o = "end" /\ Successor!Goto(s, "post") /\ UNCHANGED rEvidence
         \/ (\E why : Successor!Terminate(s, why)) /\ UNCHANGED rEvidence
         \/ /\ o \in {"none", "starting"} /\ UNCHANGED rSup
            /\ \E x \in {"starting", "started"} : Successor!Commit(rSup[s].lane, rSup[s].cell, x)
         \/ o = "valid" /\ rSup' = [rSup EXCEPT ![s].cell = rSup[s].cell + 1] /\ UNCHANGED rEvidence
         \/ /\ o \in {"started", "prep1", "retry", "attesting", "attested", "prep2"}
            /\ Successor!Goto(s, "attempt") /\ UNCHANGED rEvidence
    <2>1. CASE o = "torn"
      BY <1>2, <2>1 DEF Successor!Cell
    <2>2. CASE o \in {"end", "none", "starting", "valid"}
      BY <1>2, <2>2 DEF Successor!Cell
    <2>3. CASE o \in {"environment", "instrument"}
      BY <1>2, <2>3 DEF Successor!Cell
    <2>4. CASE o \in {"run1", "run2"}
      BY <1>2, <2>4 DEF Successor!Cell, Successor!Abandoned
    <2>5. CASE o \in {"started", "prep1", "retry", "attesting", "attested", "prep2"}
      BY <1>2, <2>5 DEF Successor!Cell, Successor!Abandoned
    <2> QED
      BY <1>4, <2>1, <2>2, <2>3, <2>4, <2>5 DEF SuccCells
  <1> QED
    BY <1>5, <1>6, <1>7, <1>8, <1>9, <1>10, <1>11

\* Who begins an attempt is the one that prepares it.
LEMMA SuccAttempt == ASSUME OneSupervisor, SuccInv, NEW s \in Supervisors, Successor!Attempt(s)
  PROVE SuccInv'
  <1>0. UNCHANGED rPaper /\ rSup[s].at = "attempt" /\ rSup[s].at \in SuccRuns
    BY DEF Successor!Attempt, SuccRuns
  <1>1. PICK o : o = rEvidence[rSup[s].lane][rSup[s].cell]
    OBVIOUS
  <1>2. /\ rSup[s].cell \in Successor!Ids
        /\ o \in {"started", "prep1", "retry", "attesting", "attested", "prep2"}
                 \cup (IF rSup[s].mine THEN {"run1", "run2"} ELSE {})
    BY <1>0, <1>1 DEF SuccInv, SuccWho, SuccAt
  <1>3. CASE Successor!Over(s) /\ UNCHANGED rEvidence
    BY <1>0, <1>3, SuccOver
  <1>4. CASE \E x \in {"valid", "environment", "instrument"} :
               Successor!Commit(rSup[s].lane, rSup[s].cell, x) /\ Successor!Goto(s, "cell")
    <2>1. PICK x \in SuccCells : Successor!Commit(rSup[s].lane, rSup[s].cell, x)
          /\ Successor!Goto(s, "cell")
      BY <1>4 DEF SuccCells
    <2> QED
      BY <1>0, <1>2, <2>1, SuccStays
  <1>5. CASE Successor!Commit(rSup[s].lane, rSup[s].cell, "retry") /\ UNCHANGED rSup
    <2>1. "retry" \in SuccCells
      BY DEF SuccCells
    <2> QED
      BY <1>0, <1>2, <1>5, <2>1, SuccStays
  <1>6. ASSUME NEW x \in {"run1", "run2", "prep1", "prep2", "attesting", "attested"},
        NEW b \in BOOLEAN,
               Successor!Commit(rSup[s].lane, rSup[s].cell, x), Successor!Mine(s, b),
                 x \in {"run1", "run2"} => b
        PROVE  SuccInv'
    <2>1. PICK D : \E old \in SuccCommand(D) : SuccHas(D) /\ old = rSup[s] /\ SuccAt(old)
      BY SuccOld
    <2>2. PICK old \in SuccCommand(D) : SuccHas(D) /\ old = rSup[s]
      BY <2>1
    <2>3. [old EXCEPT !.mine = b] = [old EXCEPT !.at = "attempt", !.mine = b]
      BY <1>0, <2>2 DEF SuccCommand
    <2>4. rSup' = [rSup EXCEPT ![s] = [@ EXCEPT !.at = "attempt", !.mine = b]]
      BY <1>6, <2>2, <2>3 DEF Successor!Mine
    <2>5. x \in SuccCells
      BY DEF SuccCells
    <2> QED
      BY <1>0, <1>2, <1>6, <2>4, <2>5, SuccCommits
  <1>7. \/ Successor!Over(s) /\ UNCHANGED rEvidence
        \/ \E x \in {"valid", "environment", "instrument"} :
             Successor!Commit(rSup[s].lane, rSup[s].cell, x) /\ Successor!Goto(s, "cell")
        \/ Successor!Commit(rSup[s].lane, rSup[s].cell, "retry") /\ UNCHANGED rSup
        \/ \E x \in {"run1", "run2", "prep1", "prep2", "attesting", "attested"}, b \in BOOLEAN :
             /\ Successor!Commit(rSup[s].lane, rSup[s].cell, x) /\ Successor!Mine(s, b)
                  /\ (x \in {"run1", "run2"} => b)
    <2>1. CASE o = "retry"
      BY <1>1, <2>1 DEF Successor!Attempt
    <2>2. CASE o = "attesting"
      BY <1>1, <2>2 DEF Successor!Attempt
    <2>3. CASE o \in {"started", "attested"}
      <3>1. \E x \in {"run1", "run2"} : Successor!Commit(rSup[s].lane, rSup[s].cell, x)
            /\ Successor!Mine(s, TRUE)
        BY <1>1, <2>3 DEF Successor!Attempt
      <3> QED
        BY <3>1
    <2>4. CASE o \in {"run1", "run2"}
      <3>1. rSup[s].mine
        BY <1>2, <2>4
      <3>2. CASE o = "run1"
        BY <1>1, <3>1, <3>2 DEF Successor!Attempt
      <3>3. CASE o = "run2"
        BY <1>1, <3>1, <3>3 DEF Successor!Attempt
      <3> QED
        BY <2>4, <3>2, <3>3
    <2>5. CASE o = "prep1"
      BY <1>1, <2>5 DEF Successor!Attempt
    <2>6. CASE o = "prep2"
      BY <1>1, <2>6 DEF Successor!Attempt
    <2> QED
      BY <1>2, <2>1, <2>2, <2>3, <2>4, <2>5, <2>6
  <1> QED
    BY <1>3, <1>4, <1>5, <1>6, <1>7

\* A lane is sealed or terminated.
LEMMA SuccConclude ==
  ASSUME OneSupervisor, SuccInv, NEW s \in Supervisors, Successor!Conclude(s) PROVE SuccInv'
  <1>0. UNCHANGED <<rEvidence, rPaper>> /\ rSup[s].at \in {"seal", "term"}
        /\ rSup[s].at \in SuccRuns
    BY DEF Successor!Conclude, Successor!Quiet, SuccRuns
  <1>1. rSup[s].lane \in Successor!Lanes
    BY <1>0, SuccRunning
  <1>2. CASE Successor!Over(s)
    BY <1>0, <1>2, SuccOver
  <1>3. CASE \E k \in {"seal", "term"} : \E x : Successor!Write(s, <<k, rSup[s].lane>>, x)
    <2>1. PICK k \in {"seal", "term"} : \E x : Successor!Write(s, <<k, rSup[s].lane>>, x)
      BY <1>3
    <2>4. PICK x : Successor!Write(s, <<k, rSup[s].lane>>, x)
      BY <2>1
    <2>2. PICK n \in SuccBlock : n = <<k, rSup[s].lane>>
      BY <1>1 DEF SuccBlock
    <2>3. n \in Successor!Papers
      BY SuccNames
    <2> QED
      BY <1>0, <2>4, <2>2, <2>3, SuccHand DEF Successor!Write
  <1>4. Successor!Over(s)
        \/ \E k \in {"seal", "term"} : \E x : Successor!Write(s, <<k, rSup[s].lane>>, x)
    <2>1. CASE rSup[s].at = "seal"
      BY <2>1 DEF Successor!Conclude
    <2>2. CASE rSup[s].at # "seal"
      BY <2>2 DEF Successor!Conclude
    <2> QED
      BY <2>1, <2>2
  <1> QED
    BY <1>2, <1>3, <1>4

\* A document of the chain is written when both lanes are marked and the one before it is.
LEMMA SuccFinalPaper ==
  ASSUME SuccInv, NEW i \in 1 .. 5, NEW r,
    rPaper' = [rPaper EXCEPT ![<<Successor!Finals[i], 0>>] = r], BothMarked,
         r.file # "absent", \A j \in 1 .. 5 : j < i => Successor!Done(<<Successor!Finals[j], 0>>),
         rPaper[<<Successor!Finals[i], 0>>].file = "absent" \/ r.file = "done"
  PROVE  /\ SuccPapers' /\ BothMarked'
              /\ \A j \in 1 .. 5 : Successor!Done(<<Successor!Finals[j], 0>>) =>
                   Successor!Done(<<Successor!Finals[j], 0>>)'
  <1>1. PICK D : rPaper \in [Successor!Papers -> [file : Successor!Files, doc : D]]
    BY DEF SuccInv, SuccHas
  <1>2. PICK n : n = <<Successor!Finals[i], 0>>
    OBVIOUS
  <1>3. n \in Successor!Papers \ SuccBlock
    BY <1>2, SuccNames
  <1>4. rPaper'[n] = r /\ \A m \in Successor!Papers : m # n => rPaper'[m] = rPaper[m]
    BY <1>1, <1>2, <1>3
  <1>5. \A m \in SuccBlock : rPaper'[m] = rPaper[m]
    BY <1>3, <1>4, SuccNames
  <1>6. BothMarked'
    <2>1. ASSUME NEW l \in Successor!Lanes PROVE Successor!Marked(l)'
      <3>1. \A k \in {"seal", "term"} : rPaper'[<<k, l>>] = rPaper[<<k, l>>]
        BY <1>5 DEF SuccBlock
      <3>2. Successor!Terminals(l)' = Successor!Terminals(l)
        BY <3>1 DEF Successor!Terminals, Successor!Done
      <3> QED
        BY <3>1, <3>2 DEF BothMarked, Successor!Marked
    <2> QED
      BY <2>1 DEF BothMarked
  <1>7. \A j \in 1 .. 5 : j # i =>
        rPaper'[<<Successor!Finals[j], 0>>] = rPaper[<<Successor!Finals[j], 0>>]
    BY <1>2, <1>4, SuccNames
  <1>8. \A j \in 1 .. 5 : Successor!Done(<<Successor!Finals[j], 0>>) =>
        Successor!Done(<<Successor!Finals[j], 0>>)'
    <2> TAKE j \in 1 .. 5
    <2>1. CASE j # i
      BY <1>7, <2>1 DEF Successor!Done
    <2>2. CASE j = i
      BY <1>2, <1>4, <2>2 DEF Successor!Done
    <2> QED
      BY <2>1, <2>2
  <1>9. ASSUME NEW j \in 1 .. 5, Successor!Published(j)'
        PROVE  Successor!Published(1)' /\ (j > 1 => Successor!Done(<<Successor!Finals[j - 1], 0>>)')
    <2>1. CASE j # i
      <3>1. Successor!Published(j)
        BY <1>7, <1>9, <2>1 DEF Successor!Published
      <3>2. Successor!Published(1) /\ (j > 1 => Successor!Done(<<Successor!Finals[j - 1], 0>>))
        BY <3>1 DEF SuccInv, SuccPapers
      <3>3. Successor!Published(1)'
        BY <1>2, <1>4, <1>7, <3>2 DEF Successor!Published
      <3>4. j > 1 => j - 1 \in 1 .. 5
        OBVIOUS
      <3> QED
        BY <1>8, <3>2, <3>3, <3>4
    <2>2. CASE j = i
      <3>1. j > 1 => j - 1 \in 1 .. 5 /\ Successor!Done(<<Successor!Finals[j - 1], 0>>)
            /\ Successor!Done(<<Successor!Finals[1], 0>>)
        BY <2>2
      <3>2. j > 1 => Successor!Done(<<Successor!Finals[1], 0>>)'
            /\ Successor!Done(<<Successor!Finals[j - 1], 0>>)'
        BY <1>8, <3>1
      <3>3. j = 1 => Successor!Published(1)'
        BY <1>9
      <3>4. j > 1 => Successor!Published(1)'
        BY <3>2 DEF Successor!Published, Successor!Done
      <3> QED
        BY <3>2, <3>3, <3>4
    <2> QED
      BY <2>1, <2>2
  <1>10. SuccPapers'
    BY <1>6, <1>9 DEF SuccPapers
  <1> QED
    BY <1>6, <1>8, <1>10

\* A document in hand: where it belongs, and what is written of it.
LEMMA SuccWritten ==
  ASSUME SuccInv, NEW s \in Supervisors, NEW old, old = rSup[s], SuccAt(old),
    old.at \in {"payload", "marker"},
         NEW r, rPaper' = [rPaper EXCEPT ![old.out] = r], r.file # "absent",
         old.at = "payload" => rPaper[old.out].file = "absent", old.at = "marker" => r.file = "done"
  PROVE  /\ SuccPapers' /\ \A j \in 1 .. 5 : Successor!Done(<<Successor!Finals[j], 0>>) =>
              Successor!Done(<<Successor!Finals[j], 0>>)'
         /\ old.out \in Successor!Papers
         /\ \/ old.out \in SuccBlock /\ Unpublished'
               /\ (old.out[1] = "start" =>
                    \A l \in Successor!Lanes : Successor!Terminals(l)' = Successor!Terminals(l))
            \/ old.final \in 1 .. 5 /\ old.out = <<Successor!Finals[old.final], 0>> /\ BothMarked'
  <1>1. CASE old.out \in SuccBlock /\ Unpublished
    <2>1. PICK n \in SuccBlock : n = old.out
      BY <1>1
    <2>2. rPaper' = [rPaper EXCEPT ![n] = r]
      BY <2>1
    <2>3. /\ Unpublished' /\ SuccPapers'
          /\ \A j \in 1 .. 5 : Successor!Done(<<Successor!Finals[j],
               0>>)' = Successor!Done(<<Successor!Finals[j], 0>>)
          /\ n[1] = "start" =>
               \A l \in Successor!Lanes : Successor!Terminals(l)' = Successor!Terminals(l)
      BY <1>1, <2>2, SuccPaper
    <2> QED
      BY <2>1, <2>3, SuccNames
  <1>2. CASE old.final \in 1 .. 5 /\ old.out = <<Successor!Finals[old.final], 0>> /\ BothMarked
    <2>1. PICK i \in 1 .. 5 : i = old.final
      BY <1>2
    <2>2. \A j \in 1 .. 5 : j < i => Successor!Done(<<Successor!Finals[j], 0>>)
      BY <2>1 DEF SuccAt
    <2>3. /\ SuccPapers' /\ BothMarked'
          /\ \A j \in 1 .. 5 : Successor!Done(<<Successor!Finals[j], 0>>) =>
               Successor!Done(<<Successor!Finals[j], 0>>)'
      BY <1>2, <2>1, <2>2, SuccFinalPaper
    <2> QED
      BY <1>2, <2>1, <2>3, SuccNames
  <1> QED
    BY <1>1, <1>2 DEF SuccAt

\* The document in hand is written.
LEMMA SuccPayload == ASSUME OneSupervisor, SuccInv, NEW s \in Supervisors, Successor!Payload(s)
  PROVE SuccInv'
  <1>0. UNCHANGED rEvidence /\ rSup[s].at = "payload"
    BY DEF Successor!Payload, Successor!Quiet
  <1>1. CASE Successor!Over(s) /\ UNCHANGED rPaper
    BY <1>0, <1>1, SuccOver
  <1>2. CASE /\ rPaper[rSup[s].out].file = "absent" /\ Successor!Goto(s, "marker")
             /\ rPaper' = [rPaper EXCEPT ![rSup[s].out] = [file |-> "whole", doc |-> rSup[s].doc]]
    <2>1. PICK D : \E old \in SuccCommand(D) : SuccHas(D) /\ old = rSup[s] /\ SuccAt(old)
      BY SuccOld
    <2>2. PICK old \in SuccCommand(D) : SuccHas(D) /\ old = rSup[s] /\ SuccAt(old)
      BY <2>1
    <2>3. PICK r : r = [file |-> "whole", doc |-> old.doc]
      OBVIOUS
    <2>4. r \in [file : Successor!Files, doc : D] /\ r.file = "whole"
      BY <2>3 DEF Successor!Files, SuccCommand
    <2>5. rPaper' = [rPaper EXCEPT ![old.out] = r] /\ old.at = "payload"
          /\ rPaper[old.out].file = "absent"
      BY <1>0, <1>2, <2>2, <2>3
    <2>6. /\ SuccPapers' /\ \A j \in 1 .. 5 : Successor!Done(<<Successor!Finals[j], 0>>) =>
               Successor!Done(<<Successor!Finals[j], 0>>)'
          /\ old.out \in Successor!Papers
          /\ \/ old.out \in SuccBlock /\ Unpublished'
                /\ (old.out[1] = "start" =>
                     \A l \in Successor!Lanes : Successor!Terminals(l)' = Successor!Terminals(l))
             \/ old.final \in 1 .. 5 /\ old.out = <<Successor!Finals[old.final], 0>> /\ BothMarked'
      BY <2>2, <2>4, <2>5, SuccWritten
    <2>7. PICK d : d = [old EXCEPT !.at = "marker"]
      OBVIOUS
    <2>8. /\ d \in SuccCommand(D) /\ d.at = "marker" /\ d.out = old.out /\ d.final = old.final
          /\ d.lane = old.lane /\ old.lane \in Successor!Lanes
      BY <2>7 DEF SuccCommand, SuccAts
    <2>9. rSup' = [rSup EXCEPT ![s] = d]
      BY <1>2, <2>2, <2>7 DEF Successor!Goto
    <2>10. rPaper' \in [Successor!Papers -> [file : Successor!Files, doc : D]]
           /\ rPaper'[old.out].file # "absent"
      BY <2>2, <2>4, <2>5, <2>6 DEF SuccHas
    <2>11. old.out \in SuccBlock /\ old.out[1] = "start" => Successor!Terminals(old.lane) = {}
      <3>1. old.out \in SuccBlock => \A i \in 1 .. 5 : old.out # <<Successor!Finals[i], 0>>
        BY SuccNames
      <3> QED
        BY <2>2, <2>5, <3>1 DEF SuccAt
    <2>12. SuccAt(d)'
      BY <2>2, <2>6, <2>8, <2>10, <2>11 DEF SuccAt, SuccRuns
    <2> QED
      BY <1>0, <2>2, <2>6, <2>8, <2>9, <2>10, <2>12, SuccMove DEF SuccInv, SuccStore
  <1> QED
    BY <1>1, <1>2 DEF Successor!Payload

\* The marker of a start lets the cells run, that of a terminal ends the command, that of
\* a document lets the chain go on.
LEMMA SuccMarker == ASSUME OneSupervisor, SuccInv, NEW s \in Supervisors, Successor!Marker(s)
  PROVE SuccInv'
  <1>0. /\ UNCHANGED rEvidence /\ rSup[s].at = "marker"
        /\ rPaper' = [rPaper EXCEPT ![rSup[s].out].file = "done"]
    BY DEF Successor!Marker, Successor!Quiet
  <1>1. PICK D : \E old \in SuccCommand(D) : SuccHas(D) /\ old = rSup[s] /\ SuccAt(old)
    BY SuccOld
  <1>2. PICK old \in SuccCommand(D) : SuccHas(D) /\ old = rSup[s] /\ SuccAt(old)
    BY <1>1
  <1>3. old.out \in Successor!Papers /\ old.at = "marker"
    BY <1>0, <1>2, SuccNames DEF SuccAt
  <1>4. PICK p \in [file : Successor!Files, doc : D] : p = rPaper[old.out]
    BY <1>2, <1>3 DEF SuccHas
  <1>5. PICK r : r = [p EXCEPT !.file = "done"]
    OBVIOUS
  <1>6. r \in [file : Successor!Files, doc : D] /\ r.file = "done"
    BY <1>5 DEF Successor!Files
  <1>7. rPaper' = [rPaper EXCEPT ![old.out] = r]
    BY <1>0, <1>2, <1>4, <1>5
  <1>8. /\ SuccPapers' /\ \A j \in 1 .. 5 : Successor!Done(<<Successor!Finals[j], 0>>) =>
             Successor!Done(<<Successor!Finals[j], 0>>)'
        /\ \/ old.out \in SuccBlock /\ Unpublished'
              /\ (old.out[1] = "start" =>
                   \A l \in Successor!Lanes : Successor!Terminals(l)' = Successor!Terminals(l))
           \/ old.final \in 1 .. 5 /\ old.out = <<Successor!Finals[old.final], 0>> /\ BothMarked'
    BY <1>2, <1>3, <1>6, <1>7, SuccWritten
  <1>9. rPaper' \in [Successor!Papers -> [file : Successor!Files, doc : D]]
    BY <1>2, <1>3, <1>6, <1>7 DEF SuccHas
  <1>10. PICK a \in {"cell", "validate", "final"} :
           Successor!Goto(s, a) /\ (a = "cell" => old.out[1] = "start")
    <2>1. CASE old.out[1] = "start"
      BY <1>2, <2>1 DEF Successor!Marker
    <2>2. CASE old.out[1] \in {"seal", "term"}
      BY <1>2, <2>2 DEF Successor!Marker, Successor!Over
    <2>3. CASE old.out[1] \notin {"start", "seal", "term"}
      BY <1>2, <2>3 DEF Successor!Marker, Successor!Chain, Successor!Goto
    <2> QED
      BY <2>1, <2>2, <2>3
  <1>11. PICK d : d = [old EXCEPT !.at = a]
    OBVIOUS
  <1>12. /\ d \in SuccCommand(D) /\ d.at = a /\ d.final = old.final /\ d.lane = old.lane
              /\ old.lane \in Successor!Lanes
    BY <1>11 DEF SuccCommand, SuccAts, SuccRuns, SuccQuiets
  <1>13. rSup' = [rSup EXCEPT ![s] = d]
    BY <1>2, <1>10, <1>11 DEF Successor!Goto
  <1>14. old.out[1] = "start" => Unpublished' /\ Successor!Terminals(old.lane)' = {}
    <2>1. \A i \in 1 .. 5 : old.out = <<Successor!Finals[i], 0>> => old.out[1] # "start"
      BY SuccNames
    <2>2. old.out[1] = "start" => Successor!Terminals(old.lane) = {}
      BY <1>2, <1>3, <2>1 DEF SuccAt
    <2> QED
      BY <1>8, <1>12, <2>1, <2>2
  <1>15. SuccAt(d)'
    BY <1>2, <1>8, <1>10, <1>12, <1>14 DEF SuccAt, SuccRuns
  <1> QED
    BY <1>0, <1>2, <1>8, <1>9, <1>12, <1>13, <1>15, SuccMove DEF SuccInv, SuccStore

\* A terminal lane is validated.
LEMMA SuccValidate ==
  ASSUME OneSupervisor, SuccInv, NEW s \in Supervisors, Successor!Validate(s) PROVE SuccInv'
  <1>0. UNCHANGED <<rEvidence, rPaper>>
    BY DEF Successor!Validate, Successor!Quiet
  <1>1. CASE Successor!Goto(s, "closed") \/ Successor!Goto(s, "final")
    BY <1>0, <1>1, SuccGoto DEF SuccQuiets
  <1>2. CASE rSup' = [rSup EXCEPT ![s] = [@ EXCEPT !.at = "look", !.lane = 2, !.cell = 1]]
    <2>1. PICK D : \E old \in SuccCommand(D) : SuccHas(D) /\ old = rSup[s]
      BY SuccOld
    <2>2. PICK old \in SuccCommand(D) : SuccHas(D) /\ old = rSup[s]
      BY <2>1
    <2>3. PICK d : d = [old EXCEPT !.at = "look", !.lane = 2, !.cell = 1]
      OBVIOUS
    <2>4. d \in SuccCommand(D) /\ d.at = "look" /\ d.final = old.final
      <3>1. 1 \in 1 .. BlockCells + 1 /\ 2 \in Successor!Lanes
        BY SuccConstants DEF Successor!Lanes
      <3> QED
        BY <2>3, <3>1 DEF SuccCommand, SuccAts, SuccQuiets
    <2>5. rSup' = [rSup EXCEPT ![s] = d]
      BY <1>2, <2>2, <2>3
    <2> QED
      BY <1>0, <2>2, <2>4, <2>5, SuccRest DEF SuccQuiets
  <1> QED
    BY <1>1, <1>2 DEF Successor!Validate, Successor!Chain, Successor!Goto

\* A document of the chain is derived, completed or passed by, under the embargo.
LEMMA SuccFinal == ASSUME OneSupervisor, SuccInv, NEW s \in Supervisors, Successor!Final(s)
  PROVE SuccInv'
  <1>0. UNCHANGED <<rEvidence, rPaper>> /\ rSup[s].at = "final"
    BY DEF Successor!Final, Successor!Quiet
  <1>1. PICK D : \E old \in SuccCommand(D) : SuccHas(D) /\ old = rSup[s] /\ SuccAt(old)
    BY SuccOld
  <1>2. PICK old \in SuccCommand(D) : SuccHas(D) /\ old = rSup[s] /\ SuccAt(old)
    BY <1>1
  <1>3. CASE Successor!Goto(s, "closed") \/ Successor!Goto(s, "finished")
    BY <1>0, <1>3, SuccGoto DEF SuccQuiets
  <1>4. PICK n : n = <<Successor!Finals[rSup[s].final], 0>>
    OBVIOUS
  <1>5. ASSUME ~(Successor!Goto(s, "closed") \/ Successor!Goto(s, "finished"))
    PROVE rSup[s].final \in 1 .. 5 /\ n \in Successor!Papers
    <2>1. ~(rSup[s].final > 5)
      BY <1>5, SuccNames DEF Successor!Final
    <2>2. old.final \in 1 .. 6
      BY DEF SuccCommand
    <2> QED
      BY <1>2, <1>4, <2>1, <2>2, SuccNames
  <1>6. Successor!Embargo => BothMarked
    BY DEF Successor!Embargo, BothMarked
  <1>7. CASE rSup[s].final \in 1 .. 5 /\ n \in Successor!Papers /\ BothMarked
        /\ Successor!Write(s, n, Successor!Dispositions)
    BY <1>0, <1>4, <1>7, SuccHand DEF Successor!Write
  <1>8. CASE /\ rSup[s].final \in 1 .. 5 /\ n \in Successor!Papers /\ BothMarked
                  /\ rPaper[n].file # "absent"
             /\ rSup' = [rSup EXCEPT ![s] = [@ EXCEPT !.at = "marker", !.out = n]]
    <2>1. PICK x : x = old.doc
      OBVIOUS
    <2>2. [old EXCEPT !.at = "marker", !.out = n] = [old EXCEPT !.at = "marker", !.out = n,
          !.doc = x]
      BY <2>1 DEF SuccCommand
    <2>3. rSup' = [rSup EXCEPT ![s] = [@ EXCEPT !.at = "marker", !.out = n, !.doc = x]]
      BY <1>2, <1>8, <2>2
    <2>4. rPaper[n].file # "absent" /\ n \in Successor!Papers
      BY <1>8
    <2>5. rSup[s].final \in 1 .. 5 /\ n = <<Successor!Finals[rSup[s].final], 0>> /\ BothMarked
      BY <1>4, <1>8
    <2>6. PICK at \in {"payload", "marker"} : at = "marker"
      OBVIOUS
    <2>7. rSup' = [rSup EXCEPT ![s] = [@ EXCEPT !.at = at, !.out = n, !.doc = x]]
      BY <2>3, <2>6
    <2> QED
      BY <1>0, <2>4, <2>5, <2>6, <2>7, SuccHand
  <1>9. CASE /\ rSup[s].final \in 1 .. 5 /\ Successor!Done(n)
             /\ rSup' = [rSup EXCEPT ![s] = [@ EXCEPT !.final = rSup[s].final + 1]]
    <2>1. PICK d : d = [old EXCEPT !.final = old.final + 1]
      OBVIOUS
    <2>2. old.final + 1 \in 1 .. 6
      BY <1>2, <1>9
    <2>3. d \in SuccCommand(D) /\ d.at = "final" /\ d.final = old.final + 1
      BY <1>0, <1>2, <2>1, <2>2 DEF SuccCommand
    <2>4. rSup' = [rSup EXCEPT ![s] = d]
      BY <1>2, <1>9, <2>1
    <2>5. \A j \in 1 .. 5 : j < old.final + 1 => Successor!Done(<<Successor!Finals[j], 0>>)
      <3> SUFFICES ASSUME NEW j \in 1 .. 5, j < old.final + 1
        PROVE Successor!Done(<<Successor!Finals[j], 0>>)
        OBVIOUS
      <3>1. CASE j < old.final
        BY <1>2, <3>1 DEF SuccAt
      <3>2. CASE j = old.final
        BY <1>2, <1>4, <1>9, <3>2
      <3> QED
        BY <1>2, <1>9, <3>1, <3>2
    <2>6. SuccAt(d)
      BY <2>3, <2>5 DEF SuccAt, SuccRuns
    <2> QED
      BY <1>0, <1>2, <2>3, <2>4, <2>6, SuccGoes
  <1>10. CASE ~(Successor!Goto(s, "closed") \/ Successor!Goto(s, "finished"))
    <2>1. rSup[s].final \in 1 .. 5 /\ n \in Successor!Papers
          /\ ~(rSup[s].final > Len(Successor!Finals))
      BY <1>5, <1>10, SuccNames
    <2>2. rPaper[n].file \in Successor!Files
      BY <1>2, <2>1 DEF SuccHas
    <2>3. rPaper[n].file # "torn" /\ Successor!Embargo
      BY <1>4, <1>10, <2>1 DEF Successor!Final
    <2>4. CASE rPaper[n].file = "absent"
      BY <1>4, <1>6, <1>7, <2>1, <2>3, <2>4 DEF Successor!Final
    <2>5. CASE rPaper[n].file = "done"
      BY <1>4, <1>9, <1>10, <2>1, <2>3, <2>5 DEF Successor!Final, Successor!Finished, Successor!Done
    <2>6. CASE rPaper[n].file = "whole"
      BY <1>4, <1>6, <1>8, <1>10, <2>1, <2>3, <2>6 DEF Successor!Final, Successor!Finished
    <2> QED
      BY <2>2, <2>3, <2>4, <2>5, <2>6 DEF Successor!Files
  <1> QED
    BY <1>3, <1>10

\* A kill leaves the command closed, and at most a torn file behind.
LEMMA SuccKill == ASSUME OneSupervisor, SuccInv, NEW s \in Supervisors, Successor!Kill(s)
  PROVE SuccInv'
  <1>1. PICK X : X = {Nil, 0}
    OBVIOUS
  <1>2. PICK D : SuccHas(D) /\ X \subseteq D /\ rSup[s] \in SuccCommand(D) /\ SuccAt(rSup[s])
    BY SuccHave
  <1>3. Nil \in D /\ 0 \in D
    BY <1>1, <1>2
  <1>4. PICK d : d = Successor!Begin("closed")
    OBVIOUS
  <1>5. d \in SuccCommand(D) /\ d.at = "closed" /\ d.final = 1
    BY <1>3, <1>4, SuccConstants
    DEF Successor!Begin, SuccCommand, SuccAts, SuccQuiets, Successor!Lanes
  <1>6. rSup' = [rSup EXCEPT ![s] = d]
    BY <1>4 DEF Successor!Kill
  <1>7. SuccAt(d)'
    BY <1>5 DEF SuccAt, SuccRuns
  <1>8. CASE UNCHANGED <<rEvidence, rPaper>>
    BY <1>2, <1>5, <1>6, <1>8, SuccRest DEF SuccQuiets
  <1>9. CASE /\ rSup[s].at = "payload" /\ rPaper[rSup[s].out].file = "absent" /\ UNCHANGED rEvidence
             /\ rPaper' = [rPaper EXCEPT ![rSup[s].out].file = "torn"]
    <2>1. PICK old \in SuccCommand(D) : old = rSup[s] /\ SuccAt(old)
      BY <1>2
    <2>2. old.out \in Successor!Papers /\ old.at = "payload"
      BY <1>9, <2>1, SuccNames DEF SuccAt
    <2>3. PICK p \in [file : Successor!Files, doc : D] : p = rPaper[old.out]
      BY <1>2, <2>2 DEF SuccHas
    <2>4. PICK r : r = [p EXCEPT !.file = "torn"]
      OBVIOUS
    <2>5. r \in [file : Successor!Files, doc : D] /\ r.file = "torn"
      BY <2>4 DEF Successor!Files
    <2>6. rPaper' = [rPaper EXCEPT ![old.out] = r] /\ rPaper[old.out].file = "absent"
      BY <1>9, <2>1, <2>3, <2>4
    <2>7. SuccPapers'
      BY <2>1, <2>2, <2>5, <2>6, SuccWritten
    <2>8. rPaper' \in [Successor!Papers -> [file : Successor!Files, doc : D]]
      BY <1>2, <2>2, <2>5, <2>6 DEF SuccHas
    <2> QED
      BY <1>2, <1>5, <1>6, <1>7, <1>9, <2>7, <2>8, SuccMove DEF SuccInv, SuccStore
  <1>10. CASE /\ rSup[s].at = "cell" /\ rSup[s].cell <= BlockCells /\ UNCHANGED rPaper
              /\ Successor!Commit(rSup[s].lane, rSup[s].cell, "torn")
    <2>1. rSup[s].lane \in Successor!Lanes /\ rSup[s].cell \in Successor!Ids
      BY <1>10, SuccRunning, SuccConstants DEF SuccRuns, Successor!Ids
    <2>2. SuccStore'
      BY <1>10, <2>1 DEF SuccInv, SuccStore, SuccCells, Successor!Commit
    <2> QED
      BY <1>2, <1>5, <1>6, <1>7, <1>10, <2>2, SuccMove, SuccSame DEF SuccInv, SuccHas
  <1> QED
    BY <1>8, <1>9, <1>10 DEF Successor!Kill

\* The inductive invariant holds for good.
LEMMA SuccStep == OneSupervisor /\ SuccInv /\ [Successor!Next]_(Successor!vars) => SuccInv'
  <1> SUFFICES ASSUME OneSupervisor, SuccInv, [Successor!Next]_(Successor!vars) PROVE SuccInv'
    OBVIOUS
  <1>1. CASE UNCHANGED <<rEvidence, rPaper, rSup>>
    <2>1. \A D : SuccHas(D)' = SuccHas(D)
      BY <1>1 DEF SuccHas
    <2>2. SuccStore' /\ SuccPapers'
      BY <1>1, SuccSame DEF SuccInv, SuccStore
    <2>3. SuccWho'
      <3> SUFFICES ASSUME NEW s \in Supervisors PROVE SuccAt(rSup[s])'
        BY <1>1 DEF SuccWho
      <3>1. PICK d : d = rSup[s]
        OBVIOUS
      <3>2. SuccAt(d)
        BY <3>1 DEF SuccInv, SuccWho
      <3>3. SuccAt(d)'
        BY <1>1, <3>2, SuccSame DEF SuccAt, Successor!Ids
      <3> QED
        BY <1>1, <3>1, <3>3
    <2> QED
      BY <2>1, <2>2, <2>3 DEF SuccInv
  <1>2. CASE Successor!HardStop
    BY <1>1, <1>2 DEF Successor!HardStop
  <1>3. ASSUME NEW s \in Supervisors, Successor!Step(s) \/ Successor!Kill(s) PROVE SuccInv'
    BY <1>3, SuccLook, SuccLeaseSteps, SuccCheck, SuccLease, SuccReadTerminal, SuccEnvironment,
       SuccBlockStart, SuccCell, SuccAttempt, SuccConclude, SuccPayload, SuccMarker, SuccValidate,
       SuccFinal, SuccKill DEF Successor!Step
  <1> QED
    BY <1>1, <1>2, <1>3 DEF Successor!Next, Successor!Step, Successor!vars

\* Nothing is published of the conclusions that is not allowed.
LEMMA SuccMeans == SuccInv => Successor!Embargoed
  <1> SUFFICES ASSUME SuccInv PROVE Successor!Embargoed
    OBVIOUS
  <1>1. DOMAIN Successor!Finals = 1 .. 5
    BY SuccNames
  <1> QED
    BY <1>1 DEF SuccInv, SuccPapers, BothMarked, Successor!Embargoed

\* A cell that is committed something gets further, in a lane that is not terminal.
LEMMA SuccFurther ==
  ASSUME SuccInv, NEW s \in Supervisors, rSup[s].at \in SuccRuns, rSup[s].cell \in Successor!Ids,
         NEW o \in SuccCells, Successor!Commit(rSup[s].lane, rSup[s].cell, o),
         Successor!Rank(rEvidence[rSup[s].lane][rSup[s].cell]) < Successor!Rank(o)
  PROVE  \A l \in Successor!Lanes, c \in Successor!Ids :
           \/ rEvidence'[l][c] = rEvidence[l][c]
           \/ /\ Successor!Rank(rEvidence[l][c]) < Successor!Rank(rEvidence'[l][c])
                   /\ Successor!Terminals(l) = {}
              /\ rEvidence'[l][c] # "again"
  <1>1. PICK m : m = rSup[s].lane
    OBVIOUS
  <1>2. PICK k \in Successor!Ids : k = rSup[s].cell
    OBVIOUS
  <1>3. m \in Successor!Lanes /\ Successor!Terminals(m) = {}
    BY <1>1, SuccRunning
  <1>4. rEvidence' = [rEvidence EXCEPT ![m][k] = o]
    BY <1>1, <1>2 DEF Successor!Commit
  <1>5. rEvidence'[m][k] = o /\ \A l \in Successor!Lanes,
        c \in Successor!Ids : <<l, c>> # <<m, k>> => rEvidence'[l][c] = rEvidence[l][c]
    BY <1>3, <1>4 DEF SuccInv, SuccStore
  <1>6. o # "again"
    BY DEF SuccCells
  <1> TAKE l \in Successor!Lanes, c \in Successor!Ids
  <1>7. CASE <<l, c>> = <<m, k>>
    BY <1>1, <1>2, <1>3, <1>5, <1>6, <1>7
  <1> QED
    BY <1>5, <1>7

\* Only a cell, an attempt and a kill write to the store.
LEMMA SuccChances ==
  ASSUME SuccInv, [Successor!Next]_(Successor!vars)
  PROVE  \A l \in Successor!Lanes, c \in Successor!Ids :
           \/ rEvidence'[l][c] = rEvidence[l][c]
           \/ /\ Successor!Rank(rEvidence[l][c]) < Successor!Rank(rEvidence'[l][c])
                   /\ Successor!Terminals(l) = {}
              /\ rEvidence'[l][c] # "again"
  <1>1. CASE UNCHANGED rEvidence
    BY <1>1
  <1>2. ASSUME NEW s \in Supervisors, Successor!Cell(s), ~UNCHANGED rEvidence
        PROVE  /\ rSup[s].at \in SuccRuns /\ rSup[s].cell \in Successor!Ids
               /\ \E o \in SuccCells :
                    /\ Successor!Commit(rSup[s].lane, rSup[s].cell, o)
                    /\ Successor!Rank(rEvidence[rSup[s].lane][rSup[s].cell]) < Successor!Rank(o)
    <2>1. rSup[s].at = "cell" /\ rSup[s].at \in SuccRuns
      BY <1>2 DEF Successor!Cell, SuccRuns
    <2>2. rSup[s].lane \in Successor!Lanes /\ rSup[s].cell \in 1 .. BlockCells + 1
      BY <2>1, SuccRunning
    <2>3. PICK o : o = IF rSup[s].cell > BlockCells THEN "end" ELSE rEvidence[rSup[s].lane][rSup[s].cell]
      OBVIOUS
    <2>4. o # "end" => rSup[s].cell \in Successor!Ids /\ o = rEvidence[rSup[s].lane][rSup[s].cell]
      BY <2>2, <2>3, SuccConstants DEF Successor!Ids
    <2>5. o = "end" \/ o \in SuccCells
      BY <2>2, <2>4 DEF SuccInv, SuccStore
    <2>6. CASE o = "none"
      <3>1. Successor!Commit(rSup[s].lane, rSup[s].cell, "starting")
        BY <1>2, <2>3, <2>6 DEF Successor!Cell
      <3>2. Successor!Rank("none") = 0 /\ Successor!Rank("starting") = 1 /\ "starting" \in SuccCells
        BY DEF Successor!Rank, SuccCells
      <3>3. Successor!Rank("none") < Successor!Rank("starting")
        BY <3>2
      <3> QED
        BY <2>1, <2>4, <2>6, <3>1, <3>2, <3>3
    <2>7. CASE o = "starting"
      <3>1. Successor!Commit(rSup[s].lane, rSup[s].cell, "started")
        BY <1>2, <2>3, <2>7 DEF Successor!Cell
      <3>2. Successor!Rank("starting") = 1 /\ Successor!Rank("started") = 2
            /\ "started" \in SuccCells
        BY DEF Successor!Rank, SuccCells
      <3>3. Successor!Rank("starting") < Successor!Rank("started")
        BY <3>2
      <3> QED
        BY <2>1, <2>4, <2>7, <3>1, <3>2, <3>3
    <2>8. CASE o \in {"end", "valid", "torn"}
      BY <1>2, <2>3, <2>8 DEF Successor!Cell
    <2>9. CASE o \in {"environment", "instrument"}
      BY <1>2, <2>3, <2>9 DEF Successor!Cell
    <2>10. CASE o \in {"run1", "run2"}
      BY <1>2, <2>3, <2>10 DEF Successor!Cell, Successor!Abandoned
    <2>11. CASE o \in {"started", "prep1", "retry", "attesting", "attested", "prep2"}
      BY <1>2, <2>3, <2>11 DEF Successor!Cell, Successor!Abandoned
    <2> QED
      BY <2>5, <2>6, <2>7, <2>8, <2>9, <2>10, <2>11 DEF SuccCells
  <1>3. ASSUME NEW s \in Supervisors, Successor!Attempt(s), ~UNCHANGED rEvidence
        PROVE  /\ rSup[s].at \in SuccRuns /\ rSup[s].cell \in Successor!Ids
               /\ \E o \in SuccCells :
                    /\ Successor!Commit(rSup[s].lane, rSup[s].cell, o)
                    /\ Successor!Rank(rEvidence[rSup[s].lane][rSup[s].cell]) < Successor!Rank(o)
    <2>1. rSup[s].at = "attempt" /\ rSup[s].at \in SuccRuns
      BY <1>3 DEF Successor!Attempt, SuccRuns
    <2>2. PICK o : o = rEvidence[rSup[s].lane][rSup[s].cell]
      OBVIOUS
    <2>3. /\ rSup[s].cell \in Successor!Ids
          /\ o \in {"started", "prep1", "retry", "attesting", "attested", "prep2"}
                   \cup (IF rSup[s].mine THEN {"run1", "run2"} ELSE {})
      BY <2>1, <2>2 DEF SuccInv, SuccWho, SuccAt
    <2>4. /\ Successor!Rank("started") = 2 /\ Successor!Rank("run1") = 3
               /\ Successor!Rank("prep1") = 4 /\ Successor!Rank("retry") = 5
          /\ Successor!Rank("attesting") = 6 /\ Successor!Rank("attested") = 7
               /\ Successor!Rank("run2") = 8 /\ Successor!Rank("prep2") = 9
          /\ \A x \in {"valid", "environment", "instrument"} : Successor!Rank(x) = 10
      BY DEF Successor!Rank
    <2>5. ASSUME NEW x \in SuccCells, Successor!Commit(rSup[s].lane, rSup[s].cell, x),
          Successor!Rank(o) < Successor!Rank(x)
          PROVE  \E y \in SuccCells : /\ Successor!Commit(rSup[s].lane, rSup[s].cell, y)
                                      /\ Successor!Rank(rEvidence[rSup[s].lane][rSup[s].cell]) < Successor!Rank(y)
      BY <2>2, <2>5
    <2>6. {"run1", "run2", "prep1", "prep2", "retry", "attesting", "attested", "valid",
          "environment",
           "instrument"} \subseteq SuccCells
      BY DEF SuccCells
    <2>7. CASE o = "retry"
      <3>1. Successor!Commit(rSup[s].lane, rSup[s].cell, "attesting")
        BY <1>3, <2>2, <2>7 DEF Successor!Attempt
      <3> QED
        BY <2>1, <2>3, <2>4, <2>5, <2>6, <2>7, <3>1
    <2>8. CASE o = "attesting"
      <3>1. Successor!Commit(rSup[s].lane, rSup[s].cell, "attested")
        BY <1>3, <2>2, <2>8 DEF Successor!Attempt
      <3> QED
        BY <2>1, <2>3, <2>4, <2>5, <2>6, <2>8, <3>1
    <2>9. CASE o = "started"
      <3>1. Successor!Commit(rSup[s].lane, rSup[s].cell, "run1")
        BY <1>3, <2>2, <2>9 DEF Successor!Attempt
      <3> QED
        BY <2>1, <2>3, <2>4, <2>5, <2>6, <2>9, <3>1
    <2>10. CASE o = "attested"
      <3>1. Successor!Commit(rSup[s].lane, rSup[s].cell, "run2")
        BY <1>3, <2>2, <2>10 DEF Successor!Attempt
      <3> QED
        BY <2>1, <2>3, <2>4, <2>5, <2>6, <2>10, <3>1
    <2>11. CASE o = "run1"
      <3>1. rSup[s].mine
        BY <2>3, <2>11
      <3>2. Successor!Commit(rSup[s].lane, rSup[s].cell, "prep1")
        BY <1>3, <2>2, <2>11, <3>1 DEF Successor!Attempt
      <3> QED
        BY <2>1, <2>3, <2>4, <2>5, <2>6, <2>11, <3>2
    <2>12. CASE o = "run2"
      <3>1. rSup[s].mine
        BY <2>3, <2>12
      <3>2. Successor!Commit(rSup[s].lane, rSup[s].cell, "prep2")
        BY <1>3, <2>2, <2>12, <3>1 DEF Successor!Attempt
      <3> QED
        BY <2>1, <2>3, <2>4, <2>5, <2>6, <2>12, <3>2
    <2>13. CASE o \in {"prep1", "prep2"}
      <3>1. \/ \E x \in {"valid", "environment", "instrument"} : Successor!Commit(rSup[s].lane,
                 rSup[s].cell, x)
            \/ o = "prep1" /\ Successor!Commit(rSup[s].lane, rSup[s].cell, "retry")
        <4>1. CASE o = "prep1"
          BY <1>3, <2>2, <4>1 DEF Successor!Attempt
        <4>2. CASE o = "prep2"
          BY <1>3, <2>2, <4>2 DEF Successor!Attempt
        <4> QED
          BY <2>13, <4>1, <4>2
      <3>2. CASE o = "prep1" /\ Successor!Commit(rSup[s].lane, rSup[s].cell, "retry")
        BY <2>1, <2>3, <2>4, <2>5, <2>6, <3>2
      <3>3. CASE \E x \in {"valid", "environment", "instrument"} : Successor!Commit(rSup[s].lane,
            rSup[s].cell, x)
        <4>1. PICK x \in {"valid", "environment", "instrument"} : Successor!Commit(rSup[s].lane,
              rSup[s].cell, x)
          BY <3>3
        <4>2. x \in SuccCells /\ Successor!Rank(x) = 10 /\ Successor!Rank(o) < 10
          BY <2>4, <2>6, <2>13
        <4> QED
          BY <2>1, <2>3, <2>5, <4>1, <4>2
      <3> QED
        BY <3>1, <3>2, <3>3
    <2> QED
      BY <2>3, <2>7, <2>8, <2>9, <2>10, <2>11, <2>12, <2>13
  <1>4. ASSUME NEW s \in Supervisors, Successor!Kill(s), ~UNCHANGED rEvidence
        PROVE  /\ rSup[s].at \in SuccRuns /\ rSup[s].cell \in Successor!Ids
               /\ \E o \in SuccCells :
                    /\ Successor!Commit(rSup[s].lane, rSup[s].cell, o)
                    /\ Successor!Rank(rEvidence[rSup[s].lane][rSup[s].cell]) < Successor!Rank(o)
    <2>1. /\ rSup[s].at = "cell" /\ rSup[s].cell <= BlockCells
          /\ rEvidence[rSup[s].lane][rSup[s].cell] = "none"
               /\ Successor!Commit(rSup[s].lane, rSup[s].cell, "torn")
      BY <1>4 DEF Successor!Kill
    <2>2. rSup[s].at \in SuccRuns
      BY <2>1 DEF SuccRuns
    <2>3. rSup[s].cell \in Successor!Ids
      BY <2>1, <2>2, SuccRunning, SuccConstants DEF Successor!Ids
    <2>4. Successor!Rank("none") = 0 /\ Successor!Rank("torn") = 1 /\ "torn" \in SuccCells
      BY DEF Successor!Rank, SuccCells
    <2>5. Successor!Rank("none") < Successor!Rank("torn")
      BY <2>4
    <2> QED
      BY <2>1, <2>2, <2>3, <2>4, <2>5
  <1>5. UNCHANGED rEvidence \/ \E s \in Supervisors : Successor!Cell(s) \/ Successor!Attempt(s)
        \/ Successor!Kill(s)
    BY
    DEF Successor!Next, Successor!vars, Successor!HardStop, Successor!Quiet, Successor!Look,
        Successor!Recover, Successor!Audit, Successor!Recheck, Successor!Unlink, Successor!Check,
        Successor!Lease, Successor!ReadTerminal, Successor!Environment, Successor!BlockStart,
        Successor!Conclude, Successor!Payload, Successor!Marker, Successor!Validate,
        Successor!Final, Successor!Start
  <1>6. CASE ~UNCHANGED rEvidence
    <2>1. PICK s \in Supervisors : Successor!Cell(s) \/ Successor!Attempt(s) \/ Successor!Kill(s)
      BY <1>5, <1>6
    <2>2. /\ rSup[s].at \in SuccRuns /\ rSup[s].cell \in Successor!Ids
          /\ \E o \in SuccCells : /\ Successor!Commit(rSup[s].lane, rSup[s].cell, o)
                                  /\ Successor!Rank(rEvidence[rSup[s].lane][rSup[s].cell]) < Successor!Rank(o)
      BY <1>2, <1>3, <1>4, <1>6, <2>1
    <2> QED
      BY <2>2, SuccFurther
  <1> QED
    BY <1>1, <1>6

\* With one supervisor nothing is computed of the results of the successor before both
\* lanes are terminal, whatever dies and whatever is found half done.
THEOREM SuccHolds == ASSUME OneSupervisor PROVE Successor!Spec => []Successor!Embargoed
  <1>1. Successor!Init => SuccInv
    BY SuccInit
  <1>2. SuccInv /\ [Successor!Next]_(Successor!vars) => SuccInv'
    BY SuccStep
  <1> QED
    BY <1>1, <1>2, SuccMeans, PTL DEF Successor!Spec

\* With one supervisor no cell of the successor is run a second time without having earned
\* it, nor once its lane is terminal.
THEOREM SuccChance == ASSUME OneSupervisor PROVE Successor!Spec => Successor!NoSecondChance
  <1>1. Successor!Init => SuccInv
    BY SuccInit
  <1>2. SuccInv /\ [Successor!Next]_(Successor!vars) =>
          [\A l \in Successor!Lanes, c \in Successor!Ids :
             \/ rEvidence'[l][c] = rEvidence[l][c]
             \/ /\ Successor!Rank(rEvidence[l][c]) < Successor!Rank(rEvidence'[l][c])
                     /\ Successor!Terminals(l) = {}
                /\ rEvidence'[l][c] # "again"]_(Successor!vars)
    BY SuccChances
  <1>3. SuccInv /\ [Successor!Next]_(Successor!vars) => SuccInv'
    BY SuccStep
  <1> QED
    BY <1>1, <1>2, <1>3, PTL DEF Successor!Spec, Successor!NoSecondChance

-----------------------------------------------------------------------------
(* The terminals of the successor *)

\* The cells of a lane are run in their order, each after the one before it is valid.
InOrder(l) == \A c, d \in Successor!Ids :
                c < d /\ rEvidence[l][d] # "none" => rEvidence[l][c] = "valid"
\* Neither terminal of the lane has been written, not even in part.
Bare(l)  == rPaper[<<"seal", l>>].file = "absent" /\ rPaper[<<"term", l>>].file = "absent"
\* A document that can be read, with its marker or without.
Reads(n) == rPaper[n].file \in {"whole", "done"}
\* What a seal or a termination of the lane has to say, by the evidence.
Says(k, l, doc) ==
  /\ Successor!Readable(l) /\ doc.inventory = Successor!Inventory(l)
  /\ k = "seal" => \A c \in Successor!Ids : rEvidence[l][c] = "valid"
  /\ k = "term" => Successor!Grounds(l, doc.reason)
\* A lane has one terminal at most, and what can be read of it follows from the evidence.
LaneStands(l) ==
  /\ InOrder(l)
  /\ rPaper[<<"seal", l>>].file = "absent" \/ rPaper[<<"term", l>>].file = "absent"
  /\ \A k \in {"seal", "term"} : Reads(<<k, l>>) =>
       Successor!Done(<<"start", l>>) /\ Says(k, l, rPaper[<<k, l>>].doc)
LanesStand  == \A l \in Successor!Lanes : LaneStands(l)
ChainStands == \A i \in 1 .. 5 : Reads(<<Successor!Finals[i], 0>>) =>
                 rPaper[<<Successor!Finals[i], 0>>].doc = Successor!Dispositions

\* Why a lane may be terminated at the cell it has come to.
Reason(why, o) == \/ why = "deadline" /\ o = "none"
                  \/ why = "environment_failure" /\ o = "environment"
                  \/ why = "instrument_failure" /\ o \in {"instrument", "run1", "run2"}
SuccBegun == {"cell", "attempt", "post", "seal", "term"}
\* What a command d holds: the cells behind it are valid, the lane it runs has no terminal,
\* and what it is about to publish follows from the evidence.
SuccHolding(d) ==
  /\ d.at = "payload" /\ d.out \in SuccBlock =>
       /\ d.out[2] = d.lane /\ Bare(d.lane)
       /\ d.out[1] # "start" => Successor!Done(<<"start", d.lane>>) /\ Says(d.out[1], d.lane, d.doc)
  /\ d.at = "payload" /\ d.out \notin SuccBlock => d.doc = Successor!Dispositions
  /\ d.at = "marker" => Reads(d.out)
  /\ d.at = "marker" /\ d.out \in SuccBlock =>
       d.out[2] = d.lane /\ (d.out[1] = "start" => Bare(d.lane))
SuccLane(d) ==
  /\ \A c \in Successor!Ids : c < d.cell => rEvidence[d.lane][c] = "valid"
  /\ d.at \in SuccRuns => Bare(d.lane)
  /\ d.at \in SuccBegun => Successor!Done(<<"start", d.lane>>)
  /\ d.at = "term" => d.cell \in Successor!Ids /\ Reason(d.doc.reason, rEvidence[d.lane][d.cell])
TermAt(d) == SuccLane(d) /\ SuccHolding(d)
TermWho   == \A s \in Supervisors : TermAt(rSup[s])
\* The inductive invariant of the terminals, beside SuccInv.
TermInv == LanesStand /\ ChainStands /\ TermWho

\* Its Cardinality is the one of the theorems.
LEMMA SuccSize == \A S : Successor!Cardinality(S) = Cardinality(S)
  BY Zenon DEF Successor!Cardinality, Cardinality

\* What a terminal has to say depends on the evidence of its lane alone.
LEMMA TermEvidence ==
  ASSUME NEW l, rEvidence'[l] = rEvidence[l]
  PROVE  /\ InOrder(l)' = InOrder(l) /\ Successor!Inventory(l)' = Successor!Inventory(l)
         /\ \A k, doc : Says(k, l, doc)' = Says(k, l, doc)
  <1>1. InOrder(l)' = InOrder(l) BY DEF InOrder, Successor!Ids
  <1>2. /\ Successor!Inventory(l)' = Successor!Inventory(l)
        /\ Successor!Readable(l)' = Successor!Readable(l)
    BY DEF Successor!Inventory, Successor!Readable, Successor!Ids
  <1>3. /\ Successor!Missing(l)' = Successor!Missing(l)
        /\ Successor!Invalid(l)' = Successor!Invalid(l)
        /\ Successor!Orphans(l)' = Successor!Orphans(l) /\ Successor!Pending(l)' = Successor!Pending(l)
        /\ Successor!HasInstrument(l)' = Successor!HasInstrument(l)
    BY DEF Successor!Missing, Successor!Invalid, Successor!Orphans, Successor!Pending,
           Successor!HasInstrument, Successor!Ids, Successor!Retrying, Successor!Uncommitted
  <1>4. \A why : Successor!Grounds(l, why)' = Successor!Grounds(l, why)
    BY <1>3, SuccSize DEF Successor!Grounds
  <1>5. (\A c \in Successor!Ids : rEvidence[l][c] = "valid")' =
        (\A c \in Successor!Ids : rEvidence[l][c] = "valid")
    BY DEF Successor!Ids
  <1> QED BY <1>1, <1>2, <1>4, <1>5 DEF Says

\* The cells of the lane are unwritten behind the one that is not valid yet.
LEMMA TermBehind ==
  ASSUME NEW l, InOrder(l), NEW c \in Successor!Ids,
         \A d \in Successor!Ids : d < c => rEvidence[l][d] = "valid", rEvidence[l][c] # "valid"
  PROVE  \A d \in Successor!Ids : d # c => rEvidence[l][d] \in {"valid", "none"}
  BY DEF InOrder, Successor!Ids

\* A lane that has come to a cell for a reason has the grounds for it.
LEMMA TermGrounds ==
  ASSUME NEW l, InOrder(l), NEW c \in Successor!Ids, NEW why, Reason(why, rEvidence[l][c]),
         \A d \in Successor!Ids : d < c => rEvidence[l][d] = "valid"
  PROVE  Successor!Readable(l) /\ Successor!Grounds(l, why)
  <1>1. rEvidence[l][c] \in {"none", "environment", "instrument", "run1", "run2"} BY DEF Reason
  <1>2. \A d \in Successor!Ids : d # c => rEvidence[l][d] \in {"valid", "none"} BY <1>1, TermBehind
  <1>3. Successor!Readable(l) BY <1>1, <1>2 DEF Successor!Readable
  <1>4. Successor!Orphans(l) = {} BY <1>1, <1>2 DEF Successor!Orphans
  <1>5. CASE why = "deadline" /\ rEvidence[l][c] = "none"
    <2>1. c \in Successor!Missing(l) BY <1>5 DEF Successor!Missing
    <2>2. Successor!Invalid(l) = {} /\ Successor!Pending(l) = {}
      BY <1>2, <1>5 DEF Successor!Invalid, Successor!Pending, Successor!Retrying,
                        Successor!Uncommitted
    <2> QED BY <1>3, <1>4, <1>5, <2>1, <2>2 DEF Successor!Grounds
  <1>6. CASE why = "environment_failure" /\ rEvidence[l][c] = "environment"
    <2>1. Successor!Invalid(l) = {c}
      BY <1>2, <1>6 DEF Successor!Invalid, Successor!Retrying
    <2>2. Successor!Pending(l) = {} /\ ~Successor!HasInstrument(l)
      BY <1>2, <1>6 DEF Successor!Pending, Successor!HasInstrument, Successor!Uncommitted
    <2>3. Cardinality({c}) = 1 BY FS_Singleton
    <2> QED BY <1>3, <1>4, <1>6, <2>1, <2>2, <2>3, SuccSize DEF Successor!Grounds
  <1>7. CASE why = "instrument_failure" /\ rEvidence[l][c] \in {"instrument", "run1", "run2"}
    <2>1. Successor!HasInstrument(l) \/ c \in Successor!Pending(l)
      BY <1>7 DEF Successor!Pending, Successor!HasInstrument, Successor!Uncommitted
    <2> QED BY <1>3, <1>7, <2>1 DEF Successor!Grounds
  <1> QED BY <1>5, <1>6, <1>7 DEF Reason

\* The only command is where it is now.
LEMMA TermMove ==
  ASSUME OneSupervisor, NEW s \in Supervisors, NEW d, rSup'[s] = d, TermAt(d)',
         LanesStand', ChainStands'
  PROVE  TermInv'
  <1>1. \A t \in Supervisors : rSup'[t] = d BY DEF OneSupervisor
  <1> QED BY <1>1 DEF TermInv, TermWho

\* A step that writes nothing.
LEMMA TermSame ==
  ASSUME UNCHANGED <<rEvidence, rPaper>>
  PROVE  LanesStand' = LanesStand /\ ChainStands' = ChainStands /\ \A d : TermAt(d)' = TermAt(d)
  <1>1. \A l : /\ InOrder(l)' = InOrder(l) /\ Successor!Inventory(l)' = Successor!Inventory(l)
               /\ \A k, doc : Says(k, l, doc)' = Says(k, l, doc)
    BY TermEvidence
  <1>2. /\ \A n : Reads(n)' = Reads(n) /\ Successor!Done(n)' = Successor!Done(n)
        /\ \A l : Bare(l)' = Bare(l) /\ Successor!Terminals(l)' = Successor!Terminals(l)
    BY DEF Reads, Bare, Successor!Done, Successor!Terminals
  <1>3. Successor!Dispositions' = Successor!Dispositions
    BY <1>1, <1>2 DEF Successor!Dispositions
  <1>4. \A l : LaneStands(l)' = LaneStands(l) BY <1>1, <1>2 DEF LaneStands
  <1>5. \A d : SuccLane(d)' = SuccLane(d) BY <1>2 DEF SuccLane, Successor!Ids
  <1>6. \A d : SuccHolding(d)' = SuccHolding(d) BY <1>1, <1>2, <1>3 DEF SuccHolding
  <1> QED BY <1>2, <1>3, <1>4, <1>5, <1>6 DEF LanesStand, ChainStands, TermAt

\* What the command of s is, was, and knows.
LEMMA TermOld ==
  ASSUME SuccInv, TermInv, NEW s \in Supervisors
  PROVE  \E D : \E old \in SuccCommand(D) : SuccHas(D) /\ old = rSup[s] /\ SuccAt(old) /\ TermAt(old)
  BY SuccOld DEF TermInv, TermWho

\* The command goes on and writes nothing.
LEMMA TermGoes ==
  ASSUME OneSupervisor, TermInv, NEW s \in Supervisors, UNCHANGED <<rEvidence, rPaper>>,
         NEW d, rSup'[s] = d, TermAt(d)
  PROVE  TermInv'
  BY TermSame, TermMove DEF TermInv

\* It is where it holds nothing, and as far as it was, or begins.
LEMMA TermRest ==
  ASSUME OneSupervisor, SuccInv, TermInv, NEW s \in Supervisors, UNCHANGED <<rEvidence, rPaper>>,
         NEW d, rSup'[s] = d, d.at \in SuccQuiets \cup {"lease", "terminal"},
         d.cell = 1 \/ (d.cell = rSup[s].cell /\ d.lane = rSup[s].lane)
  PROVE  TermInv'
  <1>1. TermAt(rSup[s]) BY DEF TermInv, TermWho
  <1>2. \A c \in Successor!Ids : ~(c < 1) BY DEF Successor!Ids
  <1>3. d.at \notin SuccRuns \cup SuccBegun \cup {"payload", "marker"}
    BY DEF SuccQuiets, SuccRuns, SuccBegun
  <1>4. SuccLane(d) BY <1>1, <1>2, <1>3 DEF TermAt, SuccLane, SuccBegun
  <1>5. SuccHolding(d) BY <1>3 DEF SuccHolding
  <1> QED BY <1>4, <1>5, TermGoes DEF TermAt

\* It goes to such a place, or is over.
LEMMA TermGoto ==
  ASSUME OneSupervisor, SuccInv, TermInv, NEW s \in Supervisors, UNCHANGED <<rEvidence, rPaper>>,
         \/ Successor!Over(s)
         \/ \E at \in SuccQuiets \cup {"lease", "terminal"} : Successor!Goto(s, at)
  PROVE  TermInv'
  <1>1. PICK D : \E old \in SuccCommand(D) : SuccHas(D) /\ old = rSup[s] BY SuccOld
  <1>2. PICK old \in SuccCommand(D) : SuccHas(D) /\ old = rSup[s] BY <1>1
  <1>3. PICK at \in SuccQuiets \cup {"lease", "terminal"} : Successor!Goto(s, at)
    BY DEF Successor!Over, SuccQuiets
  <1>4. PICK d : d = [old EXCEPT !.at = at] OBVIOUS
  <1>5. rSup'[s] = d BY <1>2, <1>3, <1>4 DEF Successor!Goto, SuccHas
  <1>6. d.at = at /\ d.cell = old.cell /\ d.lane = old.lane BY <1>4 DEF SuccCommand
  <1> QED BY <1>2, <1>5, <1>6, TermRest

\* Looking, recovering a lease, starting, checking and taking the lease.
LEMMA TermIdle ==
  ASSUME OneSupervisor, SuccInv, TermInv, NEW s \in Supervisors,
         \/ Successor!Look(s) \/ Successor!Recover(s) \/ Successor!Audit(s) \/ Successor!Recheck(s)
         \/ Successor!Unlink(s) \/ Successor!Start(s) \/ Successor!Check(s) \/ Successor!Lease(s)
         \/ Successor!Validate(s)
  PROVE  TermInv'
  <1>0. UNCHANGED <<rEvidence, rPaper>>
    BY DEF Successor!Look, Successor!Recover, Successor!Audit, Successor!Recheck, Successor!Unlink,
           Successor!Start, Successor!Check, Successor!Lease, Successor!Validate, Successor!Quiet
  <1>1. PICK D : \E old \in SuccCommand(D) : SuccHas(D) /\ old = rSup[s] BY SuccOld
  <1>2. PICK old \in SuccCommand(D) : SuccHas(D) /\ old = rSup[s] BY <1>1
  <1>3. ASSUME NEW d, rSup' = [rSup EXCEPT ![s] = d], d.at \in SuccQuiets,
               d.cell = 1 \/ (d.cell = old.cell /\ d.lane = old.lane)
        PROVE  TermInv'
    <2>1. rSup'[s] = d BY <1>2, <1>3 DEF SuccHas
    <2> QED BY <1>0, <1>2, <1>3, <2>1, TermRest
  <1>4. Successor!AfterRecovery(s) \in SuccQuiets BY DEF Successor!AfterRecovery, SuccQuiets
  <1>5. CASE Successor!Look(s)
    <2>1. CASE Successor!Goto(s, "closed") BY <1>0, <2>1, TermGoto DEF SuccQuiets
    <2>2. CASE \E t : rSup' = [rSup EXCEPT ![s] = [@ EXCEPT !.at = "recover", !.terminal = t]]
      <3>1. PICK t : rSup' = [rSup EXCEPT ![s] = [@ EXCEPT !.at = "recover", !.terminal = t]]
        BY <2>2
      <3>2. PICK d : d = [old EXCEPT !.at = "recover", !.terminal = t] OBVIOUS
      <3>3. d.at = "recover" /\ d.cell = old.cell /\ d.lane = old.lane BY <3>2 DEF SuccCommand
      <3> QED BY <1>2, <1>3, <3>1, <3>2, <3>3 DEF SuccQuiets
    <2> QED BY <1>5, <2>1, <2>2 DEF Successor!Look
  <1>6. CASE Successor!Recover(s)
    <2>1. CASE \E a \in SuccQuiets : rSup' = [rSup EXCEPT ![s] = [@ EXCEPT !.at = a]]
      BY <1>0, <2>1, TermGoto DEF Successor!Goto
    <2>2. CASE rSup' = [rSup EXCEPT ![s] = [@ EXCEPT !.at = "audit", !.seen = rLease.id]]
      <3>1. PICK d : d = [old EXCEPT !.at = "audit", !.seen = rLease.id] OBVIOUS
      <3>2. d.at = "audit" /\ d.cell = old.cell /\ d.lane = old.lane BY <3>1 DEF SuccCommand
      <3> QED BY <1>2, <1>3, <2>2, <3>1, <3>2 DEF SuccQuiets
    <2> QED BY <1>4, <1>6, <2>1, <2>2 DEF Successor!Recover, SuccQuiets
  <1>7. CASE Successor!Audit(s)
    <2>1. CASE UNCHANGED rSup BY <1>0, <2>1, TermGoes DEF TermInv, TermWho
    <2> QED BY <1>0, <1>7, <2>1, TermGoto DEF Successor!Audit, SuccQuiets
  <1>8. CASE Successor!Recheck(s) BY <1>0, <1>8, TermGoto DEF Successor!Recheck, SuccQuiets
  <1>9. CASE Successor!Unlink(s)
    <2>1. PICK a \in SuccQuiets : a = IF rLease = Nil THEN "closed" ELSE Successor!AfterRecovery(s)
      BY <1>4 DEF SuccQuiets
    <2>2. PICK d : d = [old EXCEPT !.seen = 0, !.at = a] OBVIOUS
    <2>3. d.at = a /\ d.cell = old.cell /\ d.lane = old.lane BY <2>2 DEF SuccCommand
    <2>4. rSup' = [rSup EXCEPT ![s] = d] BY <1>2, <1>9, <2>1, <2>2 DEF Successor!Unlink
    <2> QED BY <1>3, <2>3, <2>4
  <1>10. CASE Successor!Start(s)
    <2>1. PICK d : d = Successor!Begin("look") OBVIOUS
    <2>2. d.at = "look" /\ d.cell = 1 BY <2>1 DEF Successor!Begin
    <2> QED BY <1>3, <1>10, <2>1, <2>2 DEF Successor!Start, SuccQuiets
  <1>11. CASE Successor!Check(s) \/ Successor!Lease(s)
    BY <1>0, <1>11, TermGoto DEF Successor!Check, Successor!Lease
  <1>12. CASE Successor!Validate(s)
    <2>1. CASE Successor!Goto(s, "closed") \/ Successor!Goto(s, "final")
      BY <1>0, <2>1, TermGoto DEF SuccQuiets
    <2>2. CASE rSup' = [rSup EXCEPT ![s] = [@ EXCEPT !.at = "look", !.lane = 2, !.cell = 1]]
      <3>1. PICK d : d = [old EXCEPT !.at = "look", !.lane = 2, !.cell = 1] OBVIOUS
      <3>2. d.at = "look" /\ d.cell = 1 BY <3>1 DEF SuccCommand
      <3> QED BY <1>2, <1>3, <2>2, <3>1, <3>2 DEF SuccQuiets
    <2> QED BY <1>12, <2>1, <2>2 DEF Successor!Validate, Successor!Chain, Successor!Goto
  <1> QED BY <1>5, <1>6, <1>7, <1>8, <1>9, <1>10, <1>11, <1>12

\* The lane goes on at another place.
LEMMA TermOn ==
  ASSUME OneSupervisor, SuccInv, TermInv, NEW s \in Supervisors, UNCHANGED <<rEvidence, rPaper>>,
         NEW at \in SuccRuns \ {"term"}, Successor!Goto(s, at), Bare(rSup[s].lane),
         at \in SuccBegun => Successor!Done(<<"start", rSup[s].lane>>)
  PROVE  TermInv'
  <1>1. PICK D : \E old \in SuccCommand(D) :
          SuccHas(D) /\ old = rSup[s] /\ SuccAt(old) /\ TermAt(old)
    BY TermOld
  <1>2. PICK old \in SuccCommand(D) : SuccHas(D) /\ old = rSup[s] /\ TermAt(old) BY <1>1
  <1>3. PICK d : d = [old EXCEPT !.at = at] OBVIOUS
  <1>4. d.at = at /\ d.lane = old.lane /\ d.cell = old.cell BY <1>3 DEF SuccCommand
  <1>5. rSup'[s] = d BY <1>2, <1>3 DEF Successor!Goto, SuccHas
  <1>6. SuccLane(d) BY <1>2, <1>4 DEF TermAt, SuccLane
  <1>7. SuccHolding(d) BY <1>4 DEF SuccHolding, SuccRuns
  <1> QED BY <1>5, <1>6, <1>7, TermGoes DEF TermAt

\* What holds while the lane runs.
LEMMA TermRunning ==
  ASSUME SuccInv, TermInv, NEW s \in Supervisors
  PROVE  /\ rSup[s].at \in SuccRuns => Bare(rSup[s].lane)
         /\ rSup[s].at \in SuccBegun => Successor!Done(<<"start", rSup[s].lane>>)
         /\ \A c \in Successor!Ids : c < rSup[s].cell => rEvidence[rSup[s].lane][c] = "valid"
  BY DEF TermInv, TermWho, TermAt, SuccLane

\* The environment is looked at.
LEMMA TermEnvironment ==
  ASSUME OneSupervisor, SuccInv, TermInv, NEW s \in Supervisors, Successor!Environment(s)
  PROVE  TermInv'
  <1>0. UNCHANGED <<rEvidence, rPaper>> /\ rSup[s].at \in {"environment", "post"}
    BY DEF Successor!Environment
  <1>1. CASE Successor!Over(s) BY <1>0, <1>1, TermGoto
  <1>2. CASE Successor!Goto(s, IF rSup[s].at = "post" THEN "seal" ELSE "start")
    <2>1. Bare(rSup[s].lane) BY <1>0, TermRunning DEF SuccRuns
    <2>2. CASE rSup[s].at = "post"
      <3>1. Successor!Done(<<"start", rSup[s].lane>>) BY <2>2, TermRunning DEF SuccBegun
      <3> QED BY <1>0, <1>2, <2>1, <2>2, <3>1, TermOn DEF SuccRuns
    <2>3. CASE rSup[s].at # "post"
      BY <1>0, <1>2, <2>1, <2>3, TermOn DEF SuccRuns, SuccBegun
    <2> QED BY <2>2, <2>3
  <1> QED BY <1>1, <1>2 DEF Successor!Environment

\* A paper of a lane is written: it follows from the evidence, and is the only terminal.
LEMMA TermPaper ==
  ASSUME SuccInv, TermInv, UNCHANGED rEvidence, Unpublished,
         NEW k \in {"start", "seal", "term"}, NEW l \in Successor!Lanes, NEW r,
         rPaper' = [rPaper EXCEPT ![<<k, l>>] = r], Successor!Done(<<k, l>>) => r.file = "done",
         k = "seal" => rPaper[<<"term", l>>].file = "absent",
         k = "term" => rPaper[<<"seal", l>>].file = "absent",
         k # "start" /\ r.file \in {"whole", "done"} =>
           Successor!Done(<<"start", l>>) /\ Says(k, l, r.doc)
  PROVE  LanesStand' /\ ChainStands'
  <1>1. PICK D : rPaper \in [Successor!Papers -> [file : Successor!Files, doc : D]]
    BY DEF SuccInv, SuccHas
  <1>2. PICK n \in SuccBlock : n = <<k, l>> BY DEF SuccBlock
  <1>3. n \in Successor!Papers BY SuccNames
  <1>4. rPaper'[n] = r /\ \A m : m # n => rPaper'[m] = rPaper[m] BY <1>1, <1>2, <1>3
  <1>5. \A m : Successor!Done(m) => Successor!Done(m)' BY <1>2, <1>4 DEF Successor!Done
  <1>6. Unpublished' BY <1>2, SuccPaper
  <1>7. ChainStands' BY <1>6 DEF ChainStands, Unpublished, Successor!Published, Reads
  <1>8. ASSUME NEW m \in Successor!Lanes PROVE LaneStands(m)'
    <2>1. InOrder(m)' = InOrder(m) /\ \A j, doc : Says(j, m, doc)' = Says(j, m, doc)
      BY TermEvidence
    <2>2. LaneStands(m) BY DEF TermInv, LanesStand
    <2>3. ASSUME NEW j \in {"seal", "term"}, Reads(<<j, m>>)'
          PROVE  Successor!Done(<<"start", m>>)' /\ Says(j, m, rPaper[<<j, m>>].doc)'
      <3>1. CASE <<j, m>> = n
        BY <1>2, <1>4, <1>5, <2>1, <2>3, <3>1 DEF Reads
      <3>2. CASE <<j, m>> # n
        BY <1>4, <1>5, <2>1, <2>2, <2>3, <3>2 DEF Reads, LaneStands
      <3> QED BY <3>1, <3>2
    <2>4. rPaper'[<<"seal", m>>].file = "absent" \/ rPaper'[<<"term", m>>].file = "absent"
      BY <1>2, <1>4, <2>2 DEF LaneStands
    <2> QED BY <2>1, <2>2, <2>3, <2>4 DEF LaneStands
  <1> QED BY <1>7, <1>8 DEF LanesStand

\* The terminal of the lane is read, and one that lacks only its marker is completed.
LEMMA TermReadTerminal ==
  ASSUME OneSupervisor, SuccInv, TermInv, NEW s \in Supervisors, Successor!ReadTerminal(s)
  PROVE  TermInv'
  <1>0. UNCHANGED rEvidence /\ rSup[s].at = "terminal"
    BY DEF Successor!ReadTerminal, Successor!Quiet
  <1>1. PICK D : \E old \in SuccCommand(D) :
          SuccHas(D) /\ old = rSup[s] /\ SuccAt(old) /\ TermAt(old)
    BY TermOld
  <1>2. PICK old \in SuccCommand(D) : SuccHas(D) /\ old = rSup[s] /\ SuccAt(old) /\ TermAt(old)
    BY <1>1
  <1>3. Unpublished /\ old.lane \in Successor!Lanes BY <1>0, <1>2 DEF SuccAt, SuccCommand
  <1>4. PICK l \in Successor!Lanes : l = rSup[s].lane BY <1>2, <1>3
  <1>5. \A k \in {"seal", "term"} : <<k, l>> \in Successor!Papers BY DEF Successor!Papers
  <1>6. CASE Successor!Over(s) /\ UNCHANGED rPaper BY <1>0, <1>6, TermGoto
  <1>7. CASE UNCHANGED rSup /\ \E k \in {"seal", "term"} : /\ Successor!Completes(l, k)
          /\ rPaper' = [rPaper EXCEPT ![<<k, l>>].file = "done"]
    <2>1. PICK k \in {"seal", "term"} : /\ Successor!Completes(l, k)
                                         /\ rPaper' = [rPaper EXCEPT ![<<k, l>>].file = "done"]
      BY <1>7
    <2>2. PICK p \in [file : Successor!Files, doc : D] : p = rPaper[<<k, l>>]
      BY <1>2, <1>5 DEF SuccHas
    <2>3. PICK r : r = [p EXCEPT !.file = "done"] OBVIOUS
    <2>4. r.file = "done" /\ r.doc = p.doc BY <2>3
    <2>5. rPaper' = [rPaper EXCEPT ![<<k, l>>] = r] BY <2>1, <2>2, <2>3
    <2>6. Reads(<<k, l>>) BY <2>1 DEF Successor!Completes, Reads
    <2>7. LaneStands(l) BY DEF TermInv, LanesStand
    <2>8. Successor!Done(<<"start", l>>) /\ Says(k, l, r.doc)
      BY <2>2, <2>4, <2>6, <2>7 DEF LaneStands
    <2>9. /\ k = "seal" => rPaper[<<"term", l>>].file = "absent"
          /\ k = "term" => rPaper[<<"seal", l>>].file = "absent"
      BY <2>6, <2>7 DEF LaneStands, Reads
    <2>10. LanesStand' /\ ChainStands' BY <1>0, <1>3, <2>4, <2>5, <2>8, <2>9, TermPaper
    <2>11. SuccLane(old)' BY <1>0, <1>2 DEF TermAt, SuccLane, SuccRuns, SuccBegun, Successor!Ids
    <2>12. SuccHolding(old)' BY <1>0, <1>2 DEF SuccHolding
    <2> QED BY <1>2, <1>7, <2>10, <2>11, <2>12, TermMove DEF TermAt
  <1>8. CASE /\ \A k \in {"seal", "term"} : rPaper[<<k, l>>].file \notin {"torn", "whole"}
             /\ Successor!Terminals(l) = {} /\ Successor!Goto(s, "environment")
             /\ UNCHANGED rPaper
    <2>1. \A k \in {"seal", "term"} : rPaper[<<k, l>>].file # "done"
      BY <1>8 DEF Successor!Terminals, Successor!Done
    <2>2. \A k \in {"seal", "term"} : rPaper[<<k, l>>].file \in Successor!Files
      BY <1>2, <1>5 DEF SuccHas
    <2>3. Bare(l) BY <1>8, <2>1, <2>2 DEF Bare, Successor!Files
    <2> QED BY <1>0, <1>4, <1>8, <2>3, TermOn DEF SuccRuns, SuccBegun
  <1> QED BY <1>4, <1>6, <1>7, <1>8 DEF Successor!ReadTerminal

\* The cell at hand is written: its lane has no terminal, and the cells behind it stay.
LEMMA TermCommit ==
  ASSUME SuccInv, TermInv, NEW s \in Supervisors, UNCHANGED rPaper, rSup[s].at \in SuccRuns,
         rSup[s].cell \in Successor!Ids, rEvidence[rSup[s].lane][rSup[s].cell] # "valid",
         NEW o \in SuccCells, Successor!Commit(rSup[s].lane, rSup[s].cell, o)
  PROVE  /\ LanesStand' /\ ChainStands'
         /\ \A c \in Successor!Ids : c < rSup[s].cell => rEvidence'[rSup[s].lane][c] = "valid"
  <1>1. PICK l \in Successor!Lanes : l = rSup[s].lane /\ Bare(l)
    BY SuccRunning, TermRunning
  <1>2. PICK k \in Successor!Ids : k = rSup[s].cell OBVIOUS
  <1>3. rEvidence' = [rEvidence EXCEPT ![l][k] = o] BY <1>1, <1>2 DEF Successor!Commit
  <1>4. /\ \A m \in Successor!Lanes : m # l => rEvidence'[m] = rEvidence[m]
        /\ \A c \in Successor!Ids : c # k => rEvidence'[l][c] = rEvidence[l][c]
    BY <1>3 DEF SuccInv, SuccStore
  <1>5. \A c \in Successor!Ids : c < k => rEvidence[l][c] = "valid" /\ c # k
    BY <1>1, <1>2, TermRunning DEF Successor!Ids
  <1>6. \A m : Reads(m)' = Reads(m) /\ Successor!Done(m)' = Successor!Done(m)
    BY DEF Reads, Successor!Done
  <1>7. ASSUME NEW m \in Successor!Lanes, m # l PROVE LaneStands(m)'
    <2>1. InOrder(m)' = InOrder(m) /\ \A j, doc : Says(j, m, doc)' = Says(j, m, doc)
      BY <1>4, <1>7, TermEvidence
    <2> QED BY <1>6, <2>1 DEF TermInv, LanesStand, LaneStands
  <1>8. LaneStands(l)'
    <2>1. InOrder(l) BY DEF TermInv, LanesStand, LaneStands
    <2>2. ASSUME NEW c \in Successor!Ids, NEW d \in Successor!Ids, c < d,
                 rEvidence'[l][d] # "none"
          PROVE  rEvidence'[l][c] = "valid"
      <3>1. CASE d = k BY <1>4, <1>5, <2>2, <3>1
      <3>2. CASE d # k
        <4>1. rEvidence[l][c] = "valid" BY <1>4, <2>1, <2>2, <3>2 DEF InOrder
        <4>2. c # k BY <1>1, <1>2, <4>1
        <4> QED BY <1>4, <4>1, <4>2
      <3> QED BY <3>1, <3>2
    <2>3. InOrder(l)' BY <2>2 DEF InOrder, Successor!Ids
    <2>4. \A j \in {"seal", "term"} : ~Reads(<<j, l>>)' BY <1>1 DEF Bare, Reads
    <2> QED BY <1>1, <2>3, <2>4 DEF LaneStands, Bare
  <1>9. Unpublished BY SuccRunning
  <1>10. ChainStands' BY <1>9 DEF ChainStands, Unpublished, Successor!Published, Reads
  <1> QED BY <1>1, <1>2, <1>4, <1>5, <1>7, <1>8, <1>10 DEF LanesStand

\* The command stays with its cell, at the next place of the loop.
LEMMA TermStays ==
  ASSUME OneSupervisor, SuccInv, TermInv, NEW s \in Supervisors, UNCHANGED rPaper,
         rSup[s].at \in {"cell", "attempt"},
         rSup[s].cell \in Successor!Ids, rEvidence[rSup[s].lane][rSup[s].cell] # "valid",
         NEW o \in SuccCells, Successor!Commit(rSup[s].lane, rSup[s].cell, o),
         \/ UNCHANGED rSup \/ Successor!Goto(s, "cell") \/ \E b \in BOOLEAN : Successor!Mine(s, b)
  PROVE  TermInv'
  <1>1. PICK D : \E old \in SuccCommand(D) :
          SuccHas(D) /\ old = rSup[s] /\ SuccAt(old) /\ TermAt(old)
    BY TermOld
  <1>2. PICK old \in SuccCommand(D) : SuccHas(D) /\ old = rSup[s] /\ TermAt(old) BY <1>1
  <1>3. PICK d : d.at \in {"cell", "attempt"} /\ d.lane = old.lane /\ d.cell = old.cell
                 /\ rSup'[s] = d
    <2>1. CASE UNCHANGED rSup BY <1>2, <2>1
    <2>2. CASE Successor!Goto(s, "cell")
      <3>1. PICK d : d = [old EXCEPT !.at = "cell"] OBVIOUS
      <3>2. d.at = "cell" /\ d.lane = old.lane /\ d.cell = old.cell BY <3>1 DEF SuccCommand
      <3> QED BY <1>2, <2>2, <3>1, <3>2 DEF Successor!Goto, SuccHas
    <2>3. CASE \E b \in BOOLEAN : Successor!Mine(s, b)
      <3>1. PICK b \in BOOLEAN : Successor!Mine(s, b) BY <2>3
      <3>2. PICK d : d = [old EXCEPT !.mine = b] OBVIOUS
      <3>3. d.at = old.at /\ d.lane = old.lane /\ d.cell = old.cell BY <3>2 DEF SuccCommand
      <3> QED BY <1>2, <3>1, <3>2, <3>3 DEF Successor!Mine, SuccHas
    <2> QED BY <2>1, <2>2, <2>3
  <1>4. /\ LanesStand' /\ ChainStands'
        /\ \A c \in Successor!Ids : c < old.cell => rEvidence'[old.lane][c] = "valid"
    BY <1>2, TermCommit DEF SuccRuns
  <1>5. Bare(old.lane) /\ Successor!Done(<<"start", old.lane>>)
    BY <1>2, TermRunning DEF SuccRuns, SuccBegun
  <1>6. SuccLane(d)' BY <1>3, <1>4, <1>5 DEF SuccLane, Bare, Successor!Done, Successor!Ids
  <1>7. SuccHolding(d)' BY <1>3 DEF SuccHolding
  <1> QED BY <1>3, <1>4, <1>6, <1>7, TermMove DEF TermAt

\* The loop comes to a cell.
LEMMA TermCell ==
  ASSUME OneSupervisor, SuccInv, TermInv, NEW s \in Supervisors, Successor!Cell(s) PROVE TermInv'
  <1>0. UNCHANGED rPaper /\ rSup[s].at = "cell" /\ rSup[s].at \in SuccRuns
    BY DEF Successor!Cell, SuccRuns
  <1>1. PICK D : \E old \in SuccCommand(D) :
          SuccHas(D) /\ old = rSup[s] /\ SuccAt(old) /\ TermAt(old)
    BY TermOld
  <1>2. PICK old \in SuccCommand(D) : SuccHas(D) /\ old = rSup[s] /\ TermAt(old) BY <1>1
  <1>3. Bare(old.lane) /\ Successor!Done(<<"start", old.lane>>) /\ old.lane \in Successor!Lanes
        /\ old.cell \in 1 .. BlockCells + 1
    BY <1>0, <1>2, SuccRunning, TermRunning DEF SuccBegun
  <1>4. PICK o : o = IF rSup[s].cell > BlockCells THEN "end"
                      ELSE rEvidence[rSup[s].lane][rSup[s].cell]
    OBVIOUS
  <1>5. old.cell <= BlockCells => old.cell \in Successor!Ids /\ o = rEvidence[old.lane][old.cell]
    BY <1>2, <1>3, <1>4, SuccConstants DEF Successor!Ids
  <1>6. \/ o = "end" /\ old.cell > BlockCells
        \/ o \in SuccCells /\ old.cell \in Successor!Ids /\ o = rEvidence[old.lane][old.cell]
    BY <1>2, <1>3, <1>4, <1>5, SuccConstants DEF SuccInv, SuccStore, Successor!Ids
  <1>7. CASE Successor!Over(s) /\ UNCHANGED rEvidence BY <1>0, <1>7, TermGoto
  <1>8. CASE Successor!Goto(s, "post") /\ UNCHANGED rEvidence
    BY <1>0, <1>2, <1>3, <1>8, TermOn DEF SuccRuns
  <1>9. CASE Successor!Goto(s, "attempt") /\ UNCHANGED rEvidence
    BY <1>0, <1>2, <1>3, <1>9, TermOn DEF SuccRuns
  <1>10. ASSUME NEW x \in SuccCells, Successor!Commit(old.lane, old.cell, x), UNCHANGED rSup,
                o \in {"none", "starting"}
         PROVE  TermInv'
    <2>1. old.cell \in Successor!Ids /\ rEvidence[old.lane][old.cell] # "valid" BY <1>6, <1>10
    <2> QED BY <1>0, <1>2, <1>10, <2>1, TermStays
  <1>11. CASE o = "valid" /\ rSup' = [rSup EXCEPT ![s].cell = rSup[s].cell + 1]
              /\ UNCHANGED rEvidence
    <2>1. PICK d : d = [old EXCEPT !.cell = old.cell + 1] OBVIOUS
    <2>2. d.at = "cell" /\ d.lane = old.lane /\ d.cell = old.cell + 1
      BY <1>0, <1>2, <2>1 DEF SuccCommand
    <2>3. rSup'[s] = d BY <1>2, <1>11, <2>1 DEF SuccHas
    <2>4. rEvidence[old.lane][old.cell] = "valid" BY <1>6, <1>11
    <2>5. \A c \in Successor!Ids : c < old.cell + 1 => rEvidence[old.lane][c] = "valid"
      BY <1>2, <1>3, <2>4, SuccConstants DEF TermAt, SuccLane, Successor!Ids
    <2>6. SuccLane(d) BY <1>3, <2>2, <2>5 DEF SuccLane
    <2>7. SuccHolding(d) BY <2>2 DEF SuccHolding
    <2> QED BY <1>0, <1>11, <2>3, <2>6, <2>7, TermGoes DEF TermAt
  <1>12. ASSUME NEW why, Reason(why, o), Successor!Terminate(s, why), UNCHANGED rEvidence
         PROVE  TermInv'
    <2>1. PICK d : d = [old EXCEPT !.at = "term", !.doc = [reason |-> why]] OBVIOUS
    <2>2. d.at = "term" /\ d.lane = old.lane /\ d.cell = old.cell /\ d.doc.reason = why
      BY <2>1 DEF SuccCommand
    <2>3. rSup'[s] = d BY <1>2, <1>12, <2>1 DEF Successor!Terminate, SuccHas
    <2>4. o # "end" BY <1>12 DEF Reason
    <2>5. SuccLane(d) BY <1>2, <1>3, <1>6, <1>12, <2>2, <2>4 DEF TermAt, SuccLane
    <2>6. SuccHolding(d) BY <2>2 DEF SuccHolding
    <2> QED BY <1>0, <1>12, <2>3, <2>5, <2>6, TermGoes DEF TermAt
  <1>13. \/ Successor!Over(s) /\ UNCHANGED rEvidence
         \/ Successor!Goto(s, "post") /\ UNCHANGED rEvidence
         \/ Successor!Goto(s, "attempt") /\ UNCHANGED rEvidence
         \/ o \in {"none", "starting"} /\ UNCHANGED rSup /\ \E x \in {"starting", "started"} :
              Successor!Commit(old.lane, old.cell, x)
         \/ o = "valid" /\ rSup' = [rSup EXCEPT ![s].cell = rSup[s].cell + 1]
              /\ UNCHANGED rEvidence
         \/ UNCHANGED rEvidence /\ \E why : Reason(why, o) /\ Successor!Terminate(s, why)
    <2>1. CASE o \in {"torn", "end", "starting", "valid"}
      BY <1>2, <1>4, <2>1 DEF Successor!Cell, Successor!Abandoned
    <2>2. CASE o = "none"
      <3>1. \/ Successor!Commit(old.lane, old.cell, "starting") /\ UNCHANGED rSup
            \/ Successor!Terminate(s, "deadline") /\ UNCHANGED rEvidence
        BY <1>2, <1>4, <2>2 DEF Successor!Cell, Successor!Abandoned
      <3>2. Reason("deadline", o) BY <2>2 DEF Reason
      <3> QED BY <2>2, <3>1, <3>2
    <2>3. CASE o = "environment"
      <3>1. Successor!Terminate(s, "environment_failure") /\ UNCHANGED rEvidence
        BY <1>4, <2>3 DEF Successor!Cell, Successor!Abandoned
      <3>2. Reason("environment_failure", o) BY <2>3 DEF Reason
      <3> QED BY <3>1, <3>2
    <2>4. CASE o \in {"instrument", "run1", "run2"}
      <3>1. Successor!Terminate(s, "instrument_failure") /\ UNCHANGED rEvidence
        BY <1>4, <2>4 DEF Successor!Cell, Successor!Abandoned
      <3>2. Reason("instrument_failure", o) BY <2>4 DEF Reason
      <3> QED BY <3>1, <3>2
    <2>5. CASE o \in {"started", "prep1", "retry", "attesting", "attested", "prep2"}
      BY <1>4, <2>5 DEF Successor!Cell, Successor!Abandoned
    <2> QED BY <1>6, <2>1, <2>2, <2>3, <2>4, <2>5 DEF SuccCells
  <1>14. {"starting", "started"} \subseteq SuccCells BY DEF SuccCells
  <1> QED BY <1>7, <1>8, <1>9, <1>10, <1>11, <1>12, <1>13, <1>14

\* A cell is attempted.
LEMMA TermAttempt ==
  ASSUME OneSupervisor, SuccInv, TermInv, NEW s \in Supervisors, Successor!Attempt(s)
  PROVE  TermInv'
  <1>0. UNCHANGED rPaper /\ rSup[s].at = "attempt" BY DEF Successor!Attempt
  <1>1. PICK o : o = rEvidence[rSup[s].lane][rSup[s].cell] OBVIOUS
  <1>2. rSup[s].cell \in Successor!Ids
        /\ o \in {"started", "prep1", "retry", "attesting", "attested", "prep2", "run1", "run2"}
    BY <1>0, <1>1 DEF SuccInv, SuccWho, SuccAt
  <1>3. CASE Successor!Over(s) /\ UNCHANGED rEvidence BY <1>0, <1>3, TermGoto
  <1>4. ASSUME NEW x \in SuccCells, Successor!Commit(rSup[s].lane, rSup[s].cell, x),
               \/ UNCHANGED rSup \/ Successor!Goto(s, "cell")
               \/ \E b \in BOOLEAN : Successor!Mine(s, b)
        PROVE  TermInv'
    BY <1>0, <1>1, <1>2, <1>4, TermStays
  <1>5. rSup[s].mine \/ o \notin {"run1", "run2"}
    BY <1>0, <1>1 DEF SuccInv, SuccWho, SuccAt
  <1>6. \/ Successor!Over(s) /\ UNCHANGED rEvidence
        \/ \E x \in SuccCells :
             /\ Successor!Commit(rSup[s].lane, rSup[s].cell, x)
             /\ \/ UNCHANGED rSup \/ Successor!Goto(s, "cell")
                \/ \E b \in BOOLEAN : Successor!Mine(s, b)
    <2>0. {"run1", "run2", "prep1", "prep2", "retry", "attesting", "attested", "valid",
           "environment", "instrument"} \subseteq SuccCells
      BY DEF SuccCells
    <2>1. CASE o \in {"retry", "attesting"} BY <1>1, <2>0, <2>1 DEF Successor!Attempt
    <2>2. CASE o \in {"started", "attested"} BY <1>1, <2>0, <2>2 DEF Successor!Attempt
    <2>3. CASE o = "run1" BY <1>1, <1>5, <2>0, <2>3 DEF Successor!Attempt
    <2>4. CASE o = "run2" BY <1>1, <1>5, <2>0, <2>4 DEF Successor!Attempt
    <2>5. CASE o = "prep1" BY <1>1, <2>0, <2>5 DEF Successor!Attempt
    <2>6. CASE o = "prep2" BY <1>1, <2>0, <2>6 DEF Successor!Attempt
    <2> QED BY <1>2, <2>1, <2>2, <2>3, <2>4, <2>5, <2>6
  <1> QED BY <1>3, <1>4, <1>6

\* A document is taken in hand: it follows from the evidence.
LEMMA TermHand ==
  ASSUME OneSupervisor, SuccInv, TermInv, NEW s \in Supervisors, UNCHANGED <<rEvidence, rPaper>>,
         NEW n, NEW x, NEW at \in {"payload", "marker"},
         rSup' = [rSup EXCEPT ![s] = [@ EXCEPT !.at = at, !.out = n, !.doc = x]],
         n \in SuccBlock => n[2] = rSup[s].lane /\ Bare(rSup[s].lane),
         at = "payload" /\ n \in SuccBlock /\ n[1] # "start" =>
           Successor!Done(<<"start", rSup[s].lane>>) /\ Says(n[1], rSup[s].lane, x),
         at = "payload" /\ n \notin SuccBlock => x = Successor!Dispositions,
         at = "marker" => Reads(n)
  PROVE  TermInv'
  <1>1. PICK D : \E old \in SuccCommand(D) :
          SuccHas(D) /\ old = rSup[s] /\ SuccAt(old) /\ TermAt(old)
    BY TermOld
  <1>2. PICK old \in SuccCommand(D) : SuccHas(D) /\ old = rSup[s] /\ TermAt(old) BY <1>1
  <1>3. PICK d : d = [old EXCEPT !.at = at, !.out = n, !.doc = x] OBVIOUS
  <1>4. d.at = at /\ d.out = n /\ d.doc = x /\ d.lane = old.lane /\ d.cell = old.cell
    BY <1>3 DEF SuccCommand
  <1>5. rSup'[s] = d BY <1>2, <1>3 DEF SuccHas
  <1>6. SuccLane(d) BY <1>2, <1>4 DEF TermAt, SuccLane, SuccRuns, SuccBegun
  <1>7. SuccHolding(d) BY <1>2, <1>4 DEF SuccHolding
  <1> QED BY <1>5, <1>6, <1>7, TermGoes DEF TermAt

\* A lane begins.
LEMMA TermBlockStart ==
  ASSUME OneSupervisor, SuccInv, TermInv, NEW s \in Supervisors, Successor!BlockStart(s)
  PROVE  TermInv'
  <1>0. UNCHANGED <<rEvidence, rPaper>> /\ rSup[s].at = "start"
    BY DEF Successor!BlockStart, Successor!Quiet
  <1>1. rSup[s].lane \in Successor!Lanes /\ Bare(rSup[s].lane)
    BY <1>0, SuccRunning, TermRunning DEF SuccRuns
  <1>2. PICK n \in SuccBlock : n = <<"start", rSup[s].lane>> BY <1>1 DEF SuccBlock
  <1>3. n[1] = "start" /\ n[2] = rSup[s].lane BY <1>2
  <1>4. PICK D : \E old \in SuccCommand(D) : SuccHas(D) /\ old = rSup[s] BY SuccOld
  <1>5. PICK old \in SuccCommand(D) : SuccHas(D) /\ old = rSup[s] BY <1>4
  <1>6. CASE Successor!Over(s) BY <1>0, <1>6, TermGoto
  <1>7. CASE Successor!Write(s, n, Nil)
    BY <1>0, <1>1, <1>3, <1>7, TermHand DEF Successor!Write
  <1>8. CASE Successor!Goto(s, "cell") /\ Successor!Done(n)
    BY <1>0, <1>1, <1>2, <1>8, TermOn DEF SuccRuns
  <1>9. CASE rPaper[n].file = "whole"
             /\ rSup' = [rSup EXCEPT ![s] = [@ EXCEPT !.at = "marker", !.out = n]]
    <2>1. PICK x : x = old.doc OBVIOUS
    <2>2. [old EXCEPT !.at = "marker", !.out = n] =
          [old EXCEPT !.at = "marker", !.out = n, !.doc = x]
      BY <2>1 DEF SuccCommand
    <2>3. rSup' = [rSup EXCEPT ![s] = [@ EXCEPT !.at = "marker", !.out = n, !.doc = x]]
      BY <1>5, <1>9, <2>2
    <2>4. Reads(n) BY <1>9 DEF Reads
    <2> QED BY <1>0, <1>1, <1>3, <2>3, <2>4, TermHand
  <1>10. rPaper[n].file \in Successor!Files BY <1>5, SuccNames DEF SuccHas
  <1> QED BY <1>2, <1>6, <1>7, <1>8, <1>9, <1>10
          DEF Successor!BlockStart, Successor!Files, Successor!Done

\* A lane is sealed or terminated, by what its evidence says.
LEMMA TermConclude ==
  ASSUME OneSupervisor, SuccInv, TermInv, NEW s \in Supervisors, Successor!Conclude(s)
  PROVE  TermInv'
  <1>0. UNCHANGED <<rEvidence, rPaper>> /\ rSup[s].at \in {"seal", "term"}
    BY DEF Successor!Conclude, Successor!Quiet
  <1>1. PICK l \in Successor!Lanes : l = rSup[s].lane /\ Bare(l) /\ Successor!Done(<<"start", l>>)
    BY <1>0, SuccRunning, TermRunning DEF SuccRuns, SuccBegun
  <1>2. CASE Successor!Over(s) BY <1>0, <1>2, TermGoto
  <1>3. ASSUME NEW k \in {"seal", "term"}, NEW x, Says(k, l, x), Successor!Write(s, <<k, l>>, x)
        PROVE  TermInv'
    <2>1. PICK n : n = <<k, l>> OBVIOUS
    <2>2. n[1] = k /\ n[2] = l /\ n \in SuccBlock BY <2>1 DEF SuccBlock
    <2> QED BY <1>0, <1>1, <1>3, <2>1, <2>2, TermHand DEF Successor!Write
  <1>4. CASE rSup[s].at = "seal" /\ ~Successor!Over(s)
    <2>1. PICK x : x = [inventory |-> Successor!Inventory(l)] OBVIOUS
    <2>2. /\ \A c \in Successor!Ids : rEvidence[l][c] = "valid"
          /\ Successor!Write(s, <<"seal", l>>, x)
      BY <1>1, <1>4, <2>1 DEF Successor!Conclude
    <2>3. Says("seal", l, x) BY <2>1, <2>2 DEF Says, Successor!Readable
    <2> QED BY <1>3, <2>2, <2>3
  <1>5. CASE rSup[s].at = "term" /\ ~Successor!Over(s)
    <2>1. PICK why : why = rSup[s].doc.reason OBVIOUS
    <2>2. PICK x : x = [inventory |-> Successor!Inventory(l), reason |-> why] OBVIOUS
    <2>3. Successor!Write(s, <<"term", l>>, x)
      BY <1>1, <1>5, <2>1, <2>2 DEF Successor!Conclude
    <2>4. rSup[s].cell \in Successor!Ids /\ Reason(why, rEvidence[l][rSup[s].cell])
      BY <1>1, <1>5, <2>1 DEF TermInv, TermWho, TermAt, SuccLane
    <2>5. \A d \in Successor!Ids : d < rSup[s].cell => rEvidence[l][d] = "valid"
      BY <1>1, TermRunning
    <2>6. InOrder(l) BY DEF TermInv, LanesStand, LaneStands
    <2>7. Successor!Readable(l) /\ Successor!Grounds(l, why) BY <2>4, <2>5, <2>6, TermGrounds
    <2>8. Says("term", l, x) BY <2>2, <2>7 DEF Says
    <2> QED BY <1>3, <2>3, <2>8
  <1> QED BY <1>0, <1>2, <1>4, <1>5

\* A document of the chain is written: the lanes stay.
LEMMA TermChainPaper ==
  ASSUME SuccInv, TermInv, UNCHANGED rEvidence, NEW i \in 1 .. 5, NEW r,
         rPaper' = [rPaper EXCEPT ![<<Successor!Finals[i], 0>>] = r],
         r.file \in {"whole", "done"} => r.doc = Successor!Dispositions
  PROVE  LanesStand' /\ ChainStands'
  <1>1. PICK D : rPaper \in [Successor!Papers -> [file : Successor!Files, doc : D]]
    BY DEF SuccInv, SuccHas
  <1>2. PICK n : n = <<Successor!Finals[i], 0>> OBVIOUS
  <1>3. n \in Successor!Papers \ SuccBlock BY <1>2, SuccNames
  <1>4. rPaper'[n] = r /\ \A m : m # n => rPaper'[m] = rPaper[m] BY <1>1, <1>2, <1>3
  <1>5. \A k \in {"start", "seal", "term"}, l \in Successor!Lanes :
          rPaper'[<<k, l>>] = rPaper[<<k, l>>]
    BY <1>3, <1>4 DEF SuccBlock
  <1>6. \A l : /\ InOrder(l)' = InOrder(l) /\ Successor!Inventory(l)' = Successor!Inventory(l)
               /\ \A k, doc : Says(k, l, doc)' = Says(k, l, doc)
    BY TermEvidence
  <1>7. \A l \in Successor!Lanes : LaneStands(l)'
    BY <1>5, <1>6 DEF TermInv, LanesStand, LaneStands, Reads, Successor!Done
  <1>8. \A l \in Successor!Lanes : Successor!Terminals(l)' = Successor!Terminals(l)
    BY <1>5 DEF Successor!Terminals, Successor!Done
  <1>9. Successor!Dispositions' = Successor!Dispositions
    BY <1>6, <1>8 DEF Successor!Dispositions
  <1>10. ASSUME NEW j \in 1 .. 5, Reads(<<Successor!Finals[j], 0>>)'
         PROVE  rPaper'[<<Successor!Finals[j], 0>>].doc = Successor!Dispositions
    <2>1. CASE j = i BY <1>2, <1>4, <1>10, <2>1 DEF Reads
    <2>2. CASE j # i
      <3>1. <<Successor!Finals[j], 0>> # n BY <1>2, <2>2, SuccNames
      <3> QED BY <1>4, <1>10, <3>1 DEF Reads, TermInv, ChainStands
    <2> QED BY <2>1, <2>2
  <1> QED BY <1>7, <1>9, <1>10 DEF LanesStand, ChainStands

\* A document d has in hand is written, whole, marked or torn, as it has it.
LEMMA TermWritten ==
  ASSUME SuccInv, TermInv, UNCHANGED rEvidence, NEW s \in Supervisors, NEW d, d = rSup[s],
         d.at \in {"payload", "marker"}, NEW l \in Successor!Lanes, l = d.lane,
         NEW r, rPaper' = [rPaper EXCEPT ![d.out] = r],
         \/ d.at = "payload" /\ rPaper[d.out].file = "absent" /\ r.file = "whole" /\ r.doc = d.doc
         \/ d.at = "payload" /\ rPaper[d.out].file = "absent" /\ r.file = "torn"
         \/ d.at = "marker" /\ r.file = "done" /\ r.doc = rPaper[d.out].doc
  PROVE  /\ LanesStand' /\ ChainStands' /\ d.out \in Successor!Papers
         /\ d.out \in SuccBlock /\ d.out[1] = "start" => d.out = <<"start", l>> /\ Bare(l)'
  <1>1. PICK D : rPaper \in [Successor!Papers -> [file : Successor!Files, doc : D]]
    BY DEF SuccInv, SuccHas
  <1>2. SuccAt(d) /\ TermAt(d) BY DEF SuccInv, SuccWho, TermInv, TermWho
  <1>3. CASE d.out \in SuccBlock
    <2>1. PICK k \in {"start", "seal", "term"} : d.out = <<k, l>>
      BY <1>2, <1>3 DEF SuccBlock, TermAt, SuccHolding
    <2>2. l = d.lane OBVIOUS
    <2>3. Unpublished
      <3>1. \A i \in 1 .. 5 : d.out # <<Successor!Finals[i], 0>> BY <1>3, SuccNames
      <3> QED BY <1>2, <3>1 DEF SuccAt
    <2>4. d.out \in Successor!Papers BY <1>3, SuccNames
    <2>5. LaneStands(l) BY DEF TermInv, LanesStand
    <2>6. d.at = "payload" \/ k = "start" => Bare(l)
      BY <1>2, <1>3, <2>1, <2>2 DEF TermAt, SuccHolding
    <2>7. /\ k = "seal" => rPaper[<<"term", l>>].file = "absent"
          /\ k = "term" => rPaper[<<"seal", l>>].file = "absent"
      <3>1. CASE d.at = "payload" BY <2>6, <3>1 DEF Bare
      <3>2. CASE d.at = "marker"
        <4>1. rPaper[<<k, l>>].file # "absent" BY <1>2, <2>1, <3>2 DEF TermAt, SuccHolding, Reads
        <4> QED BY <2>5, <4>1 DEF LaneStands
      <3> QED BY <3>1, <3>2
    <2>8. k # "start" /\ r.file \in {"whole", "done"} =>
            Successor!Done(<<"start", l>>) /\ Says(k, l, r.doc)
      <3>1. CASE d.at = "payload"
        BY <1>2, <1>3, <2>1, <2>2, <3>1 DEF TermAt, SuccHolding
      <3>2. CASE d.at = "marker"
        <4>1. Reads(<<k, l>>) BY <1>2, <2>1, <3>2 DEF TermAt, SuccHolding
        <4> QED BY <2>1, <2>5, <3>2, <4>1 DEF LaneStands
      <3> QED BY <3>1, <3>2
    <2>9. Successor!Done(<<k, l>>) => r.file = "done" BY <2>1 DEF Successor!Done
    <2>10. LanesStand' /\ ChainStands'
      BY <2>1, <2>3, <2>7, <2>8, <2>9, TermPaper
    <2>11. k = "start" => Bare(l)' BY <1>1, <2>1, <2>4, <2>6 DEF Bare
    <2> QED BY <1>1, <2>1, <2>2, <2>4, <2>10, <2>11
  <1>4. CASE d.out \notin SuccBlock
    <2>1. PICK i \in 1 .. 5 : d.out = <<Successor!Finals[i], 0>> BY <1>2, <1>4 DEF SuccAt
    <2>2. d.out \in Successor!Papers BY <2>1, SuccNames
    <2>3. r.file \in {"whole", "done"} => r.doc = Successor!Dispositions
      BY <1>2, <1>4, <2>1 DEF TermAt, SuccHolding, TermInv, ChainStands
    <2>4. LanesStand' /\ ChainStands' BY <2>1, <2>3, TermChainPaper
    <2> QED BY <1>1, <1>4, <2>2, <2>4
  <1> QED BY <1>3, <1>4

\* The document in hand is written.
LEMMA TermPayload ==
  ASSUME OneSupervisor, SuccInv, TermInv, NEW s \in Supervisors, Successor!Payload(s)
  PROVE  TermInv'
  <1>0. UNCHANGED rEvidence /\ rSup[s].at = "payload" BY DEF Successor!Payload, Successor!Quiet
  <1>1. CASE Successor!Over(s) /\ UNCHANGED rPaper BY <1>0, <1>1, TermGoto
  <1>2. CASE /\ rPaper[rSup[s].out].file = "absent" /\ Successor!Goto(s, "marker")
             /\ rPaper' = [rPaper EXCEPT ![rSup[s].out] = [file |-> "whole", doc |-> rSup[s].doc]]
    <2>1. PICK D : \E old \in SuccCommand(D) :
            SuccHas(D) /\ old = rSup[s] /\ SuccAt(old) /\ TermAt(old)
      BY TermOld
    <2>2. PICK old \in SuccCommand(D) : SuccHas(D) /\ old = rSup[s] /\ TermAt(old) BY <2>1
    <2>3. PICK r : r = [file |-> "whole", doc |-> old.doc] OBVIOUS
    <2>4. r.file = "whole" /\ r.doc = old.doc BY <2>3
    <2>5. rPaper' = [rPaper EXCEPT ![old.out] = r] /\ rPaper[old.out].file = "absent"
          /\ old.at = "payload"
      BY <1>0, <1>2, <2>2, <2>3
    <2>6. PICK l \in Successor!Lanes : l = old.lane BY DEF SuccCommand
    <2>7. /\ LanesStand' /\ ChainStands' /\ old.out \in Successor!Papers
          /\ old.out \in SuccBlock /\ old.out[1] = "start" => Bare(l)'
      <3>1. LanesStand' /\ ChainStands'
        BY <1>0, <2>2, <2>4, <2>5, <2>6, TermWritten
      <3>2. old.out \in Successor!Papers
        BY <1>0, <2>2, <2>4, <2>5, <2>6, TermWritten
      <3>3. old.out \in SuccBlock /\ old.out[1] = "start" => Bare(l)'
        BY <1>0, <2>2, <2>4, <2>5, <2>6, TermWritten
      <3> QED BY <3>1, <3>2, <3>3
    <2>8. PICK d : d = [old EXCEPT !.at = "marker"] OBVIOUS
    <2>9. d.at = "marker" /\ d.lane = old.lane /\ d.cell = old.cell /\ d.out = old.out
      BY <2>8 DEF SuccCommand
    <2>10. rSup'[s] = d BY <1>2, <2>2, <2>8 DEF Successor!Goto, SuccHas
    <2>11. SuccLane(d)'
      BY <1>0, <2>2, <2>9 DEF TermAt, SuccLane, SuccRuns, SuccBegun, Successor!Ids
    <2>12. old.out \in SuccBlock => old.out[2] = old.lane
      BY <1>0, <2>2 DEF TermAt, SuccHolding
    <2>13. rPaper'[old.out] = r BY <2>2, <2>5, <2>7 DEF SuccHas
    <2>14. SuccHolding(d)' BY <2>4, <2>6, <2>7, <2>9, <2>12, <2>13 DEF SuccHolding, Reads, Bare
    <2> QED BY <2>7, <2>10, <2>11, <2>14, TermMove DEF TermAt
  <1> QED BY <1>1, <1>2 DEF Successor!Payload

\* Its marker is written.
LEMMA TermMarker ==
  ASSUME OneSupervisor, SuccInv, TermInv, NEW s \in Supervisors, Successor!Marker(s)
  PROVE  TermInv'
  <1>0. /\ UNCHANGED rEvidence /\ rSup[s].at = "marker"
        /\ rPaper' = [rPaper EXCEPT ![rSup[s].out].file = "done"]
    BY DEF Successor!Marker, Successor!Quiet
  <1>1. PICK D : \E old \in SuccCommand(D) :
          SuccHas(D) /\ old = rSup[s] /\ SuccAt(old) /\ TermAt(old)
    BY TermOld
  <1>2. PICK old \in SuccCommand(D) : SuccHas(D) /\ old = rSup[s] /\ SuccAt(old) /\ TermAt(old)
    BY <1>1
  <1>3. old.out \in Successor!Papers BY <1>0, <1>2, SuccNames DEF SuccAt
  <1>4. PICK p \in [file : Successor!Files, doc : D] : p = rPaper[old.out]
    BY <1>2, <1>3 DEF SuccHas
  <1>5. PICK r : r = [p EXCEPT !.file = "done"] OBVIOUS
  <1>6. r.file = "done" /\ r.doc = p.doc BY <1>5
  <1>7. rPaper' = [rPaper EXCEPT ![old.out] = r] BY <1>0, <1>2, <1>4, <1>5
  <1>8. PICK l \in Successor!Lanes : l = old.lane BY DEF SuccCommand
  <1>9. /\ LanesStand' /\ ChainStands'
        /\ old.out \in SuccBlock /\ old.out[1] = "start" =>
             old.out = <<"start", l>> /\ Bare(l)'
    <2>3. r.doc = rPaper[old.out].doc /\ r.file = "done" /\ old.at = "marker"
      BY <1>0, <1>2, <1>4, <1>6
    <2>1. LanesStand' /\ ChainStands'
      BY <1>0, <1>2, <1>7, <1>8, <2>3, TermWritten
    <2>4. UNCHANGED rEvidence /\ old = rSup[s] BY <1>0, <1>2
    <2>2. old.out \in SuccBlock /\ old.out[1] = "start" => old.out = <<"start", l>>
      BY <1>7, <1>8, <2>3, <2>4, TermWritten
    <2>5. old.out \in SuccBlock /\ old.out[1] = "start" => Bare(l)'
      BY <1>7, <1>8, <2>3, <2>4, TermWritten
    <2> QED BY <2>1, <2>2, <2>5
  <1>10. PICK a \in {"cell", "validate", "final"} :
           Successor!Goto(s, a) /\ (a = "cell" => old.out[1] = "start")
    <2>1. CASE old.out[1] = "start" BY <1>2, <2>1 DEF Successor!Marker
    <2>2. CASE old.out[1] \in {"seal", "term"}
      BY <1>2, <2>2 DEF Successor!Marker, Successor!Over
    <2>3. CASE old.out[1] \notin {"start", "seal", "term"}
      BY <1>2, <2>3 DEF Successor!Marker, Successor!Chain, Successor!Goto
    <2> QED BY <2>1, <2>2, <2>3
  <1>11. PICK d : d = [old EXCEPT !.at = a] OBVIOUS
  <1>12. d.at = a /\ d.lane = old.lane /\ d.cell = old.cell BY <1>11 DEF SuccCommand
  <1>13. rSup'[s] = d BY <1>2, <1>10, <1>11 DEF Successor!Goto, SuccHas
  <1>14. a = "cell" => old.out \in SuccBlock /\ old.out[1] = "start"
    <2>1. \A i \in 1 .. 5 : <<Successor!Finals[i], 0>>[1] # "start" BY SuccNames
    <2> QED BY <1>0, <1>2, <1>10, <2>1 DEF SuccAt
  <1>15. a = "cell" => Bare(l)' /\ Successor!Done(<<"start", l>>)'
    <2>1. rPaper'[old.out] = r BY <1>2, <1>3, <1>7 DEF SuccHas
    <2> QED BY <1>6, <1>9, <1>14, <2>1 DEF Successor!Done
  <1>16. SuccLane(d)'
    BY <1>0, <1>2, <1>8, <1>10, <1>12, <1>15 DEF TermAt, SuccLane, SuccRuns, SuccBegun, Successor!Ids
  <1>17. SuccHolding(d)' BY <1>10, <1>12 DEF SuccHolding
  <1> QED BY <1>9, <1>13, <1>16, <1>17, TermMove DEF TermAt

\* The conclusions are built, read again or completed, from what the lanes show.
LEMMA TermFinal ==
  ASSUME OneSupervisor, SuccInv, TermInv, NEW s \in Supervisors, Successor!Final(s)
  PROVE  TermInv'
  <1>0. UNCHANGED <<rEvidence, rPaper>> /\ rSup[s].at = "final"
    BY DEF Successor!Final, Successor!Quiet
  <1>1. PICK D : \E old \in SuccCommand(D) : SuccHas(D) /\ old = rSup[s] BY SuccOld
  <1>2. PICK old \in SuccCommand(D) : SuccHas(D) /\ old = rSup[s] BY <1>1
  <1>3. CASE Successor!Goto(s, "closed") \/ Successor!Goto(s, "finished")
    BY <1>0, <1>3, TermGoto DEF SuccQuiets
  <1>4. PICK n : n = <<Successor!Finals[rSup[s].final], 0>> OBVIOUS
  <1>5. ASSUME ~(Successor!Goto(s, "closed") \/ Successor!Goto(s, "finished"))
        PROVE  ~(rSup[s].final > Len(Successor!Finals)) /\ n \in Successor!Papers \ SuccBlock
    <2>1. ~(rSup[s].final > 5) BY <1>5, SuccNames DEF Successor!Final
    <2>2. old.final \in 1 .. 6 BY DEF SuccCommand
    <2> QED BY <1>2, <1>4, <2>1, <2>2, SuccNames
  <1>6. CASE n \notin SuccBlock /\ Successor!Write(s, n, Successor!Dispositions)
    BY <1>0, <1>6, TermHand DEF Successor!Write
  <1>7. CASE /\ n \notin SuccBlock /\ rPaper[n].file = "whole"
             /\ rSup' = [rSup EXCEPT ![s] = [@ EXCEPT !.at = "marker", !.out = n]]
    <2>1. PICK x : x = old.doc OBVIOUS
    <2>2. [old EXCEPT !.at = "marker", !.out = n] =
          [old EXCEPT !.at = "marker", !.out = n, !.doc = x]
      BY <2>1 DEF SuccCommand
    <2>3. rSup' = [rSup EXCEPT ![s] = [@ EXCEPT !.at = "marker", !.out = n, !.doc = x]]
      BY <1>2, <1>7, <2>2
    <2>4. Reads(n) BY <1>7 DEF Reads
    <2> QED BY <1>0, <1>7, <2>3, <2>4, TermHand
  <1>8. CASE rSup' = [rSup EXCEPT ![s] = [@ EXCEPT !.final = rSup[s].final + 1]]
    <2>1. PICK d : d = [old EXCEPT !.final = old.final + 1] OBVIOUS
    <2>2. d.at = "final" /\ d.cell = old.cell /\ d.lane = old.lane
      BY <1>0, <1>2, <2>1 DEF SuccCommand
    <2>3. rSup'[s] = d BY <1>2, <1>8, <2>1 DEF SuccHas
    <2> QED BY <1>0, <1>2, <2>2, <2>3, TermRest DEF SuccQuiets
  <1>9. CASE ~(Successor!Goto(s, "closed") \/ Successor!Goto(s, "finished"))
    <2>1. ~(rSup[s].final > Len(Successor!Finals)) /\ n \in Successor!Papers \ SuccBlock
      BY <1>5, <1>9
    <2>2. rPaper[n].file \in Successor!Files BY <1>2, <2>1 DEF SuccHas
    <2>3. rPaper[n].file # "torn" /\ Successor!Embargo
      BY <1>4, <1>9, <2>1 DEF Successor!Final
    <2>4. CASE rPaper[n].file = "absent"
      BY <1>4, <1>6, <2>1, <2>3, <2>4 DEF Successor!Final
    <2>5. CASE rPaper[n].file = "done"
      BY <1>4, <1>8, <1>9, <2>1, <2>3, <2>5 DEF Successor!Final, Successor!Finished
    <2>6. CASE rPaper[n].file = "whole"
      BY <1>4, <1>7, <1>9, <2>1, <2>3, <2>6 DEF Successor!Final, Successor!Finished
    <2> QED BY <2>2, <2>3, <2>4, <2>5, <2>6 DEF Successor!Files
  <1> QED BY <1>3, <1>9

\* A kill leaves a torn file behind at most, and that says nothing.
LEMMA TermKill ==
  ASSUME OneSupervisor, SuccInv, TermInv, NEW s \in Supervisors, Successor!Kill(s)
  PROVE  TermInv'
  <1>1. PICK D : \E old \in SuccCommand(D) :
          SuccHas(D) /\ old = rSup[s] /\ SuccAt(old) /\ TermAt(old)
    BY TermOld
  <1>2. PICK old \in SuccCommand(D) : SuccHas(D) /\ old = rSup[s] /\ SuccAt(old) /\ TermAt(old)
    BY <1>1
  <1>3. PICK d : d = Successor!Begin("closed") OBVIOUS
  <1>4. d.at = "closed" /\ d.cell = 1 BY <1>3 DEF Successor!Begin
  <1>5. rSup'[s] = d BY <1>2, <1>3 DEF Successor!Kill, SuccHas
  <1>6. TermAt(d)'
    BY <1>4 DEF TermAt, SuccLane, SuccHolding, SuccRuns, SuccBegun, Successor!Ids
  <1>7. CASE UNCHANGED <<rEvidence, rPaper>>
    BY <1>4, <1>5, <1>7, TermRest DEF SuccQuiets
  <1>8. CASE /\ rSup[s].at = "payload" /\ rPaper[rSup[s].out].file = "absent"
             /\ rPaper' = [rPaper EXCEPT ![rSup[s].out].file = "torn"] /\ UNCHANGED rEvidence
    <2>1. old.out \in Successor!Papers /\ old.at = "payload"
      BY <1>2, <1>8, SuccNames DEF SuccAt
    <2>2. PICK p \in [file : Successor!Files, doc : D] : p = rPaper[old.out]
      BY <1>2, <2>1 DEF SuccHas
    <2>3. PICK r : r = [p EXCEPT !.file = "torn"] OBVIOUS
    <2>4. r.file = "torn" BY <2>3
    <2>5. rPaper' = [rPaper EXCEPT ![old.out] = r] BY <1>2, <1>8, <2>2, <2>3
    <2>6. UNCHANGED rEvidence /\ old = rSup[s] /\ rPaper[old.out].file = "absent"
      BY <1>2, <1>8
    <2>7. PICK l \in Successor!Lanes : l = old.lane BY DEF SuccCommand
    <2>8. LanesStand' /\ ChainStands'
      BY <2>1, <2>4, <2>5, <2>6, <2>7, TermWritten
    <2> QED BY <1>5, <1>6, <2>8, TermMove
  <1>9. CASE /\ rSup[s].at = "cell" /\ rSup[s].cell <= BlockCells /\ UNCHANGED rPaper
             /\ rEvidence[rSup[s].lane][rSup[s].cell] = "none"
             /\ Successor!Commit(rSup[s].lane, rSup[s].cell, "torn")
    <2>1. rSup[s].cell \in Successor!Ids /\ rSup[s].at \in SuccRuns
      BY <1>9, SuccRunning, SuccConstants DEF SuccRuns, Successor!Ids
    <2>2. LanesStand' /\ ChainStands' BY <1>9, <2>1, TermCommit DEF SuccCells
    <2> QED BY <1>5, <1>6, <2>2, TermMove
  <1> QED BY <1>7, <1>8, <1>9 DEF Successor!Kill

\* Nothing is written to begin with.
LEMMA TermInit == ASSUME Successor!Init PROVE TermInv
  <1>1. \A n \in Successor!Papers : rPaper[n].file = "absent"
    BY DEF Successor!Init, Successor!Absent
  <1>2. \A l \in Successor!Lanes, k \in {"seal", "term"} : <<k, l>> \in Successor!Papers
    BY DEF Successor!Papers
  <1>3. LanesStand
    BY <1>1, <1>2 DEF Successor!Init, LanesStand, LaneStands, InOrder, Reads
  <1>4. ChainStands BY <1>1, SuccNames DEF ChainStands, Reads
  <1>5. TermWho
    BY DEF Successor!Init, Successor!Begin, TermWho, TermAt, SuccLane, SuccHolding, SuccRuns,
           SuccBegun, Successor!Ids
  <1> QED BY <1>3, <1>4, <1>5 DEF TermInv

\* Every step keeps it.
LEMMA TermStep ==
  OneSupervisor /\ SuccInv /\ TermInv /\ [Successor!Next]_(Successor!vars) => TermInv'
  <1> SUFFICES ASSUME OneSupervisor, SuccInv, TermInv, [Successor!Next]_(Successor!vars)
               PROVE  TermInv'
    OBVIOUS
  <1>1. CASE UNCHANGED <<rEvidence, rPaper, rSup>>
    BY <1>1, TermSame DEF TermInv, TermWho
  <1>2. CASE Successor!HardStop BY <1>1, <1>2 DEF Successor!HardStop
  <1>3. ASSUME NEW s \in Supervisors, Successor!Step(s) \/ Successor!Kill(s) PROVE TermInv'
    BY <1>3, TermIdle, TermEnvironment, TermReadTerminal, TermBlockStart, TermCell, TermAttempt,
       TermConclude, TermPayload, TermMarker, TermFinal, TermKill DEF Successor!Step
  <1> QED BY <1>1, <1>2, <1>3 DEF Successor!Next, Successor!Step, Successor!vars

\* What is marked stands, alone, and so does what is concluded.
LEMMA TermMeans == SuccInv /\ TermInv => Successor!TerminalsStand
  <1> SUFFICES ASSUME SuccInv, TermInv PROVE Successor!TerminalsStand OBVIOUS
  <1>1. ASSUME NEW l \in Successor!Lanes, Successor!Terminals(l) # {} PROVE Successor!Terminal(l)
    <2>1. PICK k \in {"seal", "term"} : Successor!Done(<<k, l>>)
      BY <1>1 DEF Successor!Terminals
    <2>2. Reads(<<k, l>>) BY <2>1 DEF Successor!Done, Reads
    <2>3. LaneStands(l) BY DEF TermInv, LanesStand
    <2>4. Successor!Done(<<"start", l>>) /\ Says(k, l, rPaper[<<k, l>>].doc)
      BY <2>2, <2>3 DEF LaneStands
    <2>5. CASE k = "seal"
      <3>1. ~Successor!Done(<<"term", l>>)
        BY <2>1, <2>3, <2>5 DEF LaneStands, Successor!Done
      <3>2. Successor!Terminals(l) = {"seal"} BY <2>1, <2>5, <3>1 DEF Successor!Terminals
      <3>3. Successor!SealStands(l) BY <2>4, <2>5 DEF Says, Successor!SealStands
      <3> QED BY <3>2, <3>3 DEF Successor!Terminal
    <2>6. CASE k = "term"
      <3>1. ~Successor!Done(<<"seal", l>>)
        BY <2>1, <2>3, <2>6 DEF LaneStands, Successor!Done
      <3>2. Successor!Terminals(l) = {"term"} BY <2>1, <2>6, <3>1 DEF Successor!Terminals
      <3>3. Successor!TermStands(l) BY <2>4, <2>6 DEF Says, Successor!TermStands
      <3> QED BY <3>2, <3>3 DEF Successor!Terminal
    <2> QED BY <2>5, <2>6
  <1>2. \A i \in 1 .. 5 : Successor!Done(<<Successor!Finals[i], 0>>) =>
          rPaper[<<Successor!Finals[i], 0>>].doc = Successor!Dispositions
    BY DEF TermInv, ChainStands, Reads, Successor!Done
  <1> QED BY <1>1, <1>2, SuccNames DEF Successor!TerminalsStand

\* With one supervisor a terminal of the successor is for ever: once marked it is the only
\* one of its lane and follows from the evidence, and the documents of the chain conclude
\* from both lanes what they show, whatever dies and whatever is found half done.
THEOREM SuccTerminals == ASSUME OneSupervisor PROVE Successor!Spec => []Successor!TerminalsStand
  <1>1. Successor!Init => SuccInv /\ TermInv BY SuccInit, TermInit
  <1>2. SuccInv /\ TermInv /\ [Successor!Next]_(Successor!vars) => SuccInv' /\ TermInv'
    BY SuccStep, TermStep
  <1> QED BY <1>1, <1>2, TermMeans, PTL DEF Successor!Spec
=============================================================================
