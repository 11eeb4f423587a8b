----------------------- MODULE DecisionArtifactsProofs -----------------------
(***************************************************************************)
(* Proofs about CellScheduler, for any schedule, any selection of          *)
(* conditions and any number of restarts, and about DecisionArtifacts for  *)
(* any number of analysts.  No attempt is ever added to a cell that is     *)
(* settled, and a cell is left only when it is settled: so what a summary  *)
(* says of a cell, in whatever life of the run, stays true, and so does    *)
(* what is decided of evidence whose cells are all settled.                *)
(***************************************************************************)
EXTENDS DecisionArtifacts, FiniteSetTheorems, SequenceTheorems, TLAPS

\* A failure that earns the cell another attempt, as long as there are any.
Excused(r) == r.origin = "environment" /\ r.retryable

\* What StrictIsEarned says of one record.
Earned(r) ==
  /\ r.strict = TRUE => r.origin = "none" /\ r.status = "done"
  /\ r.strict # None => ~policy.deferred /\ r.origin \in {"none", "model"}

\* The committed attempts of a cell: no more than the policy allows, and none
\* behind one that was no excuse.
Attempts ==
  \A c \in AllCells :
    /\ Len(store[c]) <= policy.limit + 1
    /\ \A i \in 1 .. Len(store[c]) : Earned(store[c][i])
    /\ \A i \in 1 .. Len(store[c]) - 1 :
         Excused(store[c][i]) /\ (policy.verify => store[c][i + 1].verified)

\* The loop over the repeats of a cell: what it has passed was excused.
Position ==
  at \in {"run", "publish", "judge", "recover"} =>
    /\ repeat <= Len(store[cell])
    /\ \A i \in 1 .. repeat : Excused(store[cell][i])
    /\ at = "judge" => repeat < Len(store[cell])
    /\ at = "run" /\ repeat > 0 /\ policy.verify => healthy

\* What is made and not committed is the next attempt of an unsettled cell.
Pending ==
  /\ at = "publish" => record # None
  /\ record # None =>
       /\ at \in {"publish", "raised"} /\ cell \in AllCells /\ repeat = Len(store[cell])
       /\ \A i \in 1 .. repeat : Excused(store[cell][i])
       /\ Earned(record) /\ (repeat > 0 /\ policy.verify => record.verified)

Last(c) == store[c][Len(store[c])]

\* The cells that were left are settled and told as they are.
Scheduled ==
  /\ Len(cells) = cell - 1
  /\ \A n \in 1 .. cell - 1 :
       /\ Settled(n)
       /\ cells[n] = [case |-> CaseOf(n), condition |-> Condition(n), final |-> Last(n)]
  /\ at \in {"summary", "over"} => cell = Cases * PerCase + 1

\* A cell is begun when those before it are settled, in this life or an earlier one.
InOrder == \A c \in AllCells : store[c] # <<>> => \A b \in 1 .. c - 1 : Settled(b)

\* Behind a summary every cell is settled, and it was told as it is.
Summed ==
  summary # None =>
    /\ DOMAIN summary = AllCells
    /\ \A n \in AllCells : Settled(n) /\ summary[n].final = Last(n)

IInv == TypeOK /\ Attempts /\ Position /\ Pending /\ Scheduled /\ InOrder /\ Summed

-----------------------------------------------------------------------------
(* The schedule *)

Names == {Selected[i] : i \in DOMAIN Selected}

\* There is a case and a condition, so there is a cell.
LEMMA Sizes ==
  /\ Cases \in Nat \ {0} /\ PerCase \in Nat \ {0} /\ Cases * PerCase \in Nat \ {0}
  /\ DOMAIN Selected = 1 .. PerCase
  <1>1. Families * Waves \in Nat \ {0} BY ScheduleAssumption
  <1>2. Cases \in Nat \ {0} BY <1>1, ScheduleAssumption DEF Cases
  <1>3. PerCase \in Nat \ {0} /\ DOMAIN Selected = 1 .. PerCase
    BY ScheduleAssumption, EmptySeq, LenProperties DEF PerCase
  <1> QED BY <1>2, <1>3

\* Two conditions of a selection have two places in the order of a case.
LEMMA PlaceProperties ==
  ASSUME NEW i \in 1 .. Cases, NEW p \in 1 .. PerCase
  PROVE  /\ Place(i, p) \in Int
         /\ \A q \in 1 .. PerCase : Place(i, q) = Place(i, p) => q = p
  <1> DEFINE order == Order(Wave(i), Family(i))
  <1>1. order[1] # order[2] BY DEF Order
  <1>2. \A q, r \in 1 .. PerCase : Selected[q] = Selected[r] => q = r
    BY Sizes, ScheduleAssumption
  <1> QED BY <1>1, <1>2, Sizes DEF Place

\* The order of a case has every selected condition once.
LEMMA OrderProperties ==
  ASSUME NEW i \in 1 .. Cases
  PROVE  /\ \A n \in 1 .. PerCase : ConditionOrder(i)[n] \in Names
         /\ \A m, n \in 1 .. PerCase :
              ConditionOrder(i)[m] = ConditionOrder(i)[n] => m = n
  <1> DEFINE D == 1 .. PerCase
             T == 0 .. PerCase - 1
             rank == [p \in D |-> Cardinality(Before(i, p))]
  <1>1. IsFiniteSet(D) /\ Cardinality(D) = PerCase /\ IsFiniteSet(T) /\ Cardinality(T) = PerCase
    BY Sizes, FS_Interval
  <1>2. ASSUME NEW p \in D
        PROVE  /\ IsFiniteSet(Before(i, p))
               /\ Cardinality(Before(i, p)) \in T
    <2>1. Before(i, p) \subseteq D \ {p} BY PlaceProperties DEF Before
    <2>2. IsFiniteSet(D \ {p}) /\ Cardinality(D \ {p}) = PerCase - 1 BY <1>1, FS_RemoveElement
    <2>3. IsFiniteSet(Before(i, p)) /\ Cardinality(Before(i, p)) <= PerCase - 1
      BY <2>1, <2>2, FS_Subset
    <2> QED BY <2>3, FS_CardinalityType, Sizes
  <1>3. ASSUME NEW p \in D, NEW q \in D, Place(i, q) < Place(i, p)
        PROVE  rank[p] # rank[q]
    <2>1. Before(i, q) \subseteq Before(i, p) BY <1>3, PlaceProperties DEF Before
    <2>2. q \in Before(i, p) /\ q \notin Before(i, q) BY <1>3, PlaceProperties DEF Before
    <2> QED BY <1>2, <2>1, <2>2, FS_Subset
  <1>4. \A p, q \in D : rank[p] = rank[q] => p = q
    <2> SUFFICES ASSUME NEW p \in D, NEW q \in D, p # q PROVE rank[p] # rank[q]  OBVIOUS
    <2>1. Place(i, p) # Place(i, q) /\ Place(i, p) \in Int /\ Place(i, q) \in Int
      BY PlaceProperties
    <2>2. Place(i, q) < Place(i, p) \/ Place(i, p) < Place(i, q) BY <2>1
    <2> QED BY <1>3, <2>2
  <1>5. rank \in Injection(D, T) BY <1>2, <1>4 DEF Injection, IsInjective
  <1>6. rank \in Surjection(D, T) BY <1>1, <1>5, FS_Injection
  <1>7. ASSUME NEW n \in D
        PROVE  \E p \in D : Cardinality(Before(i, p)) = n - 1
    <2>1. n - 1 \in T BY Sizes
    <2> QED BY <1>6, <2>1 DEF Surjection
  <1> DEFINE place(n) == CHOOSE p \in D : Cardinality(Before(i, p)) = n - 1
  <1>8. \A n \in D : place(n) \in D /\ Cardinality(Before(i, place(n))) = n - 1 BY <1>7
  <1>9. \A n \in D : ConditionOrder(i)[n] = Selected[place(n)] BY DEF ConditionOrder
  <1> HIDE DEF place
  <1>10. \A q, r \in D : Selected[q] = Selected[r] => q = r BY Sizes, ScheduleAssumption
  <1>11. \A n \in D : ConditionOrder(i)[n] \in Names BY <1>8, <1>9, Sizes DEF Names
  <1>12. ASSUME NEW m \in D, NEW n \in D, ConditionOrder(i)[m] = ConditionOrder(i)[n]
         PROVE  m = n
    <2>1. place(m) = place(n) BY <1>8, <1>9, <1>10, <1>12
    <2>2. m - 1 = n - 1 BY <1>8, <2>1
    <2> QED BY <2>2, Sizes
  <1> QED BY <1>11, <1>12

\* Every cell is a case under a selected condition, and no two are the same.
LEMMA CellProperties ==
  ASSUME NEW c \in AllCells
  PROVE  /\ CaseOf(c) \in 1 .. Cases /\ Condition(c) \in Names
         /\ \A d \in AllCells : CaseOf(d) = CaseOf(c) /\ Condition(d) = Condition(c) => d = c
  <1>1. ASSUME NEW d \in AllCells
        PROVE  CaseOf(d) \in 1 .. Cases /\ ((d - 1) % PerCase) + 1 \in 1 .. PerCase
    BY Sizes DEF AllCells, CaseOf
  <1>2. ASSUME NEW d \in AllCells, CaseOf(d) = CaseOf(c), (d - 1) % PerCase = (c - 1) % PerCase
        PROVE  d = c
    BY <1>2, Sizes DEF AllCells, CaseOf
  <1>3. ASSUME NEW d \in AllCells, CaseOf(d) = CaseOf(c), Condition(d) = Condition(c)
        PROVE  d = c
    <2>1. ((d - 1) % PerCase) + 1 = ((c - 1) % PerCase) + 1
      BY <1>1, <1>3, OrderProperties DEF Condition
    <2>2. (d - 1) % PerCase = (c - 1) % PerCase BY <2>1, Sizes DEF AllCells
    <2> QED BY <1>2, <1>3, <2>2
  <1> QED BY <1>1, <1>3, OrderProperties DEF Condition

-----------------------------------------------------------------------------
(* What a step does to the committed attempts *)

\* What the producer makes of an outcome is a record that earned its grade.
LEMMA GradeProperties ==
  ASSUME policy \in Policies, healthy \in BOOLEAN, NEW o \in Outcome!Outcomes, NEW r \in Grade(o)
  PROVE  r \in Records /\ Earned(r) /\ r.verified = healthy
  <1>1. /\ o.status \in {"done", "budget_exhausted", "model_error", "environment_unstable",
                         "runner_error"}
        /\ o.origin \in {"none", "model", "environment", "runner"} /\ o.retryable \in BOOLEAN
        /\ o.origin = "none" => o.status = "done"
    <2>1. CASE \E s \in {"budget_exhausted", "model_error"} :
                 o = [status |-> s, origin |-> "model", retryable |-> FALSE]
      BY <2>1
    <2>2. CASE \E b \in BOOLEAN :
                 o = [status |-> "environment_unstable", origin |-> "environment", retryable |-> b]
      BY <2>2
    <2>3. CASE o = [status |-> "done", origin |-> "none", retryable |-> FALSE]
      BY <2>3
    <2>4. CASE o = [status |-> "runner_error", origin |-> "runner", retryable |-> FALSE]
      BY <2>4
    <2> QED BY <2>1, <2>2, <2>3, <2>4 DEF Outcome!Outcomes
  <1>2. CASE policy.deferred \/ o.origin \notin {"none", "model"}
    <2>1. r = Graded(o, None) BY <1>2 DEF Grade
    <2> QED BY <1>1, <2>1, NoneAssumption DEF Graded, Records, Earned
  <1>3. CASE ~(policy.deferred \/ o.origin \notin {"none", "model"})
    <2>1. CASE r = Graded([status |-> "runner_error", origin |-> "runner", retryable |-> FALSE], None)
      BY <2>1, NoneAssumption DEF Graded, Records, Earned
    <2>2. CASE \E s \in (IF o.origin = "none" THEN BOOLEAN ELSE {FALSE}) : r = Graded(o, s)
      <3>1. PICK s \in BOOLEAN : r = Graded(o, s) /\ (o.origin = "none" \/ s = FALSE) BY <2>2
      <3>2. r \in Records BY <1>1, <3>1 DEF Graded, Records
      <3>3. Earned(r) BY <1>1, <1>3, <3>1 DEF Graded, Earned
      <3> QED BY <3>1, <3>2, <3>3 DEF Graded
    <2> QED BY <1>3, <2>1, <2>2 DEF Grade
  <1> QED BY <1>2, <1>3

\* Whoever has an attempt that is not committed is in an unsettled cell.
LEMMA PendingUnsettled == ASSUME TypeOK, Pending, record # None PROVE ~Settled(cell)
  <1>1. cell \in AllCells /\ store[cell] \in Seq(Records) BY DEF TypeOK, Pending
  <1>2. repeat = Len(store[cell]) /\ repeat <= policy.limit /\ repeat \in Nat
    BY DEF TypeOK, Policies, Pending
  <1>3. CASE repeat = 0 BY <1>1, <1>2, <1>3, EmptySeq DEF Settled
  <1>4. CASE repeat > 0 BY <1>1, <1>2, <1>4 DEF Pending, Settled, Excused
  <1> QED BY <1>2, <1>3, <1>4

\* A commit adds one attempt to its cell and disturbs no other.
LEMMA CommitAdds ==
  ASSUME IInv, record # None, store' = [store EXCEPT ![cell] = Append(@, record)],
         UNCHANGED <<policy, summary>>
  PROVE  /\ store' \in [AllCells -> Seq(Records)]
         /\ Attempts' /\ InOrder' /\ Summed'
         /\ Len(store'[cell]) = Len(store[cell]) + 1
         /\ \A i \in 1 .. Len(store[cell]) : store'[cell][i] = store[cell][i]
         /\ \A c \in AllCells \ {cell} : store'[c] = store[c]
  <1>1. cell \in AllCells /\ record \in Records /\ store \in [AllCells -> Seq(Records)]
    BY DEF IInv, TypeOK, Pending
  <1>2. /\ store'[cell] \in Seq(Records) /\ Len(store'[cell]) = Len(store[cell]) + 1
        /\ \A i \in 1 .. Len(store[cell]) : store'[cell][i] = store[cell][i]
        /\ store'[cell][Len(store[cell]) + 1] = record /\ Len(store[cell]) \in Nat
    BY <1>1, AppendProperties, LenProperties
  <1>3. \A c \in AllCells \ {cell} : store'[c] = store[c] BY <1>1
  <1>4. store' \in [AllCells -> Seq(Records)] BY <1>1, <1>2
  <1>5. Attempts'
    <2> SUFFICES ASSUME NEW c \in AllCells
                 PROVE  /\ Len(store'[c]) <= policy.limit + 1
                        /\ \A i \in 1 .. Len(store'[c]) : Earned(store'[c][i])
                        /\ \A i \in 1 .. Len(store'[c]) - 1 :
                             /\ Excused(store'[c][i])
                             /\ policy.verify => store'[c][i + 1].verified
      BY DEF Attempts, Earned
    <2>1. CASE c # cell BY <1>3, <2>1 DEF IInv, Attempts
    <2>2. CASE c = cell
      <3>1. repeat = Len(store[cell]) /\ repeat <= policy.limit /\ policy.limit \in Nat
        BY DEF IInv, TypeOK, Pending, Policies
      <3>2. \A i \in 1 .. Len(store'[c]) : Earned(store'[c][i])
        BY <1>1, <1>2, <2>2 DEF IInv, Pending, Attempts
      <3>3. ASSUME NEW i \in 1 .. Len(store'[c]) - 1
            PROVE  Excused(store'[c][i]) /\ (policy.verify => store'[c][i + 1].verified)
        <4>1. Excused(store'[c][i]) BY <1>2, <2>2, <3>1 DEF IInv, Pending
        <4>2. CASE i = Len(store[cell]) BY <1>2, <2>2, <3>1, <4>1, <4>2 DEF IInv, Pending
        <4>3. CASE i < Len(store[cell])
          BY <1>1, <1>2, <2>2, <4>1, <4>3 DEF IInv, Attempts
        <4> QED BY <1>2, <2>2, <4>2, <4>3
      <3> QED BY <1>2, <2>2, <3>1, <3>2, <3>3
    <2> QED BY <2>1, <2>2
  <1>6. \A c \in AllCells : Settled(c) => c # cell /\ Settled(c)'
    BY <1>3, PendingUnsettled DEF IInv, Settled
  <1>7. InOrder'
    <2> SUFFICES ASSUME NEW c \in AllCells, store'[c] # <<>>, NEW b \in 1 .. c - 1
                 PROVE  Settled(b)'
      BY DEF InOrder
    <2>1. b \in AllCells BY Sizes DEF AllCells
    <2>2. Settled(b)
      <3>1. CASE c = cell BY <3>1 DEF IInv, Scheduled
      <3>2. CASE c # cell BY <1>3, <3>2 DEF IInv, InOrder
      <3> QED BY <3>1, <3>2
    <2> QED BY <1>6, <2>1, <2>2
  <1>8. Summed' BY <1>1, <1>3, <1>6 DEF IInv, Summed, Last
  <1> QED BY <1>2, <1>3, <1>4, <1>5, <1>7, <1>8

-----------------------------------------------------------------------------
(* The inductive invariant *)

\* The inductive invariant holds at first.
LEMMA InitIInv == Init => IInv
  <1> SUFFICES ASSUME Init PROVE IInv  OBVIOUS
  <1>1. cell \in AllCells BY Sizes DEF Init, AllCells
  <1>2. TypeOK
    <2>1. policy \in Policies /\ 0 \in 0 .. policy.limit BY DEF Init, Policies
    <2>2. store \in [AllCells -> Seq(Records)] /\ cells \in Seq(Cells) BY EmptySeq DEF Init
    <2>3. restarts \in 0 .. MaxRestarts BY ScheduleAssumption DEF Init
    <2> QED BY <1>1, <2>1, <2>2, <2>3 DEF Init, TypeOK
  <1>3. \A c \in AllCells : store[c] = <<>> /\ Len(store[c]) = 0 BY EmptySeq DEF Init
  <1>4. Attempts BY <1>2, <1>3 DEF Attempts, TypeOK, Policies
  <1>5. Position BY <1>1, <1>3 DEF Init, Position
  <1>6. Pending BY DEF Init, Pending
  <1>7. Scheduled BY EmptySeq DEF Init, Scheduled
  <1>8. InOrder BY <1>3 DEF InOrder
  <1>9. Summed BY DEF Init, Summed
  <1> QED BY <1>2, <1>4, <1>5, <1>6, <1>7, <1>8, <1>9 DEF IInv

\* A step that commits nothing keeps what is known of the committed attempts.
LEMMA Uncommitted ==
  ASSUME IInv, UNCHANGED <<policy, store>>
  PROVE  /\ Attempts' /\ InOrder' /\ (UNCHANGED summary => Summed')
         /\ UNCHANGED <<cell, cells>> /\ at' \notin {"summary", "over"} => Scheduled'
  BY DEF IInv, Attempts, Earned, InOrder, Settled, Summed, Last, Scheduled

\* The producer makes the next attempt.
LEMMA ProduceKeeps == ASSUME IInv, Produce PROVE IInv'
  <1>1. PICK o \in Outcome!Outcomes : record' \in Grade(o) BY DEF Produce
  <1>2. record' \in Records /\ Earned(record') /\ record'.verified = healthy
    BY <1>1, GradeProperties DEF IInv, TypeOK
  <1>3. TypeOK' BY <1>2 DEF IInv, TypeOK, Produce
  <1>4. repeat = Len(store[cell]) /\ cell \in AllCells
    BY LenProperties DEF IInv, TypeOK, Policies, Position, Produce, Known
  <1>5. Position' BY DEF IInv, Position, Produce
  <1>6. Pending'
    BY <1>2, <1>4, NoneAssumption DEF IInv, Position, Pending, Produce, Earned
  <1>7. Attempts' /\ InOrder' /\ Summed' /\ Scheduled' BY Uncommitted DEF Produce
  <1> QED BY <1>3, <1>5, <1>6, <1>7 DEF IInv

\* The store commits it.
LEMMA PublishKeeps == ASSUME IInv, Publish PROVE IInv'
  <1>1. record # None /\ UNCHANGED <<policy, summary>> BY DEF IInv, Pending, Publish
  <1>2. store' = [store EXCEPT ![cell] = Append(@, record)] BY DEF Publish
  <1>3. cell \in AllCells /\ Len(store[cell]) \in Nat /\ repeat = Len(store[cell])
    BY <1>1, LenProperties DEF IInv, TypeOK, Pending
  <1>4. TypeOK' BY <1>1, <1>2, <1>3, CommitAdds DEF IInv, TypeOK, Publish
  <1>5. Attempts' /\ InOrder' /\ Summed' BY <1>1, <1>2, CommitAdds
  <1>6. Position' BY <1>1, <1>2, <1>3, CommitAdds DEF IInv, Pending, Position, Publish
  <1>7. Pending' BY DEF Pending, Publish
  <1>8. Scheduled'
    <2>1. \A n \in 1 .. cell - 1 : n \in AllCells \ {cell} BY <1>3, Sizes DEF AllCells
    <2>2. \A n \in 1 .. cell - 1 : store'[n] = store[n] BY <1>1, <1>2, <2>1, CommitAdds
    <2> QED BY <2>2 DEF IInv, Scheduled, Settled, Last, Publish
  <1> QED BY <1>4, <1>5, <1>6, <1>7, <1>8 DEF IInv

\* The last attempt of a cell that is not tried again settles it.
LEMMA JudgedSettled ==
  ASSUME IInv, at = "judge", ~Retryable
  PROVE  cell \in AllCells /\ repeat + 1 = Len(store[cell]) /\ Settled(cell) /\ Final \in Records
  <1>1. /\ cell \in AllCells /\ store[cell] \in Seq(Records) /\ Len(store[cell]) \in Nat
        /\ repeat \in Nat /\ repeat < Len(store[cell]) /\ policy.limit \in Nat
    BY LenProperties DEF IInv, TypeOK, Policies, Position
  <1>2. Len(store[cell]) <= policy.limit + 1 BY <1>1 DEF IInv, Attempts
  <1>3. repeat + 1 = Len(store[cell])
    <2>1. CASE repeat + 1 < Len(store[cell])
      <3>1. Excused(Final) BY <1>1, <2>1 DEF IInv, Attempts, Final
      <3> QED BY <1>1, <1>2, <2>1, <3>1 DEF Excused, Retryable
    <2> QED BY <1>1, <2>1
  <1>4. Settled(cell) BY <1>1, <1>3, EmptySeq DEF Settled, Retryable, Final
  <1> QED BY <1>1, <1>3, <1>4, ElementOfSeq DEF Final

\* The cell is settled, and told.
LEMMA CompleteKeeps == ASSUME IInv, Complete PROVE IInv'
  <1>1. cell \in AllCells /\ repeat + 1 = Len(store[cell]) /\ Settled(cell) /\ Final \in Records
    BY JudgedSettled DEF Complete
  <1>2. cell \in 1 .. Cases * PerCase /\ cell' = cell + 1 /\ cell' \in Nat
    BY <1>1, Sizes DEF AllCells, Complete
  <1>3. Described(Final) \in Cells BY <1>1, CellProperties DEF Described, Cells, Names
  <1>4. /\ cells' \in Seq(Cells) /\ Len(cells') = Len(cells) + 1 /\ Len(cells) \in Nat
        /\ \A n \in 1 .. Len(cells) : cells'[n] = cells[n]
        /\ cells'[Len(cells) + 1] = Described(Final)
    BY <1>3, AppendProperties, LenProperties DEF IInv, TypeOK, Complete
  <1>5. TypeOK'
    <2>1. cell' \in AllCells \cup {Cases * PerCase + 1} BY <1>2, Sizes DEF AllCells
    <2>2. 0 \in 0 .. policy.limit BY DEF IInv, TypeOK, Policies
    <2> QED BY <1>4, <2>1, <2>2 DEF IInv, TypeOK, Complete
  <1>6. Position'
    <2>1. at' \in {"run", "publish", "judge", "recover"} => cell' \in AllCells
      BY DEF Complete
    <2>2. cell' \in AllCells => Len(store[cell']) \in Nat BY LenProperties DEF IInv, TypeOK
    <2> QED BY <2>1, <2>2 DEF Position, Complete
  <1>7. Pending' BY DEF IInv, Pending, Complete
  <1>8. Attempts' /\ InOrder' /\ Summed' BY Uncommitted DEF Complete
  <1>9. Scheduled'
    <2>1. Len(cells) = cell - 1 BY DEF IInv, Scheduled
    <2>2. \A n \in 1 .. cell' - 1 : n \in 1 .. cell - 1 \/ n = cell BY <1>2
    <2>3. \A n \in 1 .. cell' - 1 : Settled(n)' BY <1>1, <2>2 DEF IInv, Scheduled, Settled, Complete
    <2>4. cells'[cell] = [case |-> CaseOf(cell), condition |-> Condition(cell), final |-> Last(cell)]
      BY <1>1, <1>2, <1>4, <2>1 DEF Described, Final, Last, Complete
    <2>5. \A n \in 1 .. cell' - 1 :
            cells'[n] = [case |-> CaseOf(n), condition |-> Condition(n), final |-> Last(n)']
      BY <1>4, <2>1, <2>2, <2>4 DEF IInv, Scheduled, Last, Complete
    <2>6. at' \in {"summary", "over"} => cell' = Cases * PerCase + 1
      BY <1>2, Sizes DEF Complete, AllCells
    <2>7. Len(cells') = cell' - 1 BY <1>2, <1>4, <2>1
    <2> QED BY <2>3, <2>5, <2>6, <2>7 DEF Scheduled
  <1> QED BY <1>5, <1>6, <1>7, <1>8, <1>9 DEF IInv

\* The summary tells every cell.
LEMMA SummariseKeeps == ASSUME IInv, Summarise PROVE IInv'
  <1>1. cell = Cases * PerCase + 1 /\ UNCHANGED <<policy, store, cells, cell, record, repeat>>
    BY DEF IInv, Scheduled, Summarise
  <1>2. TypeOK' BY DEF IInv, TypeOK, Summarise
  <1>3. Attempts' /\ InOrder' BY <1>1, Uncommitted
  <1>4. Position' /\ Pending' BY DEF IInv, Position, Pending, Earned, Summarise
  <1>5. Scheduled' BY <1>1 DEF IInv, Scheduled, Settled, Last
  <1>6. Summed'
    <2>1. CASE UNCHANGED summary BY <1>1, <2>1, Uncommitted
    <2>2. CASE summary' = cells
      <3>1. 1 .. cell - 1 = AllCells BY <1>1, Sizes DEF AllCells
      <3>2. DOMAIN cells = AllCells
        BY <3>1, LenProperties DEF IInv, TypeOK, Scheduled
      <3>3. \A n \in AllCells : Settled(n)' /\ cells[n].final = Last(n)'
        BY <1>1, <3>1 DEF IInv, Scheduled, Settled, Last
      <3> QED BY <2>2, <3>2, <3>3 DEF Summed
    <2> QED BY <2>1, <2>2 DEF Summarise
  <1> QED BY <1>2, <1>3, <1>4, <1>5, <1>6 DEF IInv

\* The run is started again; what was made may have been committed.
LEMMA RestartKeeps == ASSUME IInv, Restart PROVE IInv'
  <1>1. UNCHANGED <<policy, summary>> BY DEF Restart
  <1>2. store' \in [AllCells -> Seq(Records)] /\ Attempts' /\ InOrder' /\ Summed'
    <2>1. CASE UNCHANGED store BY <1>1, <2>1, Uncommitted DEF IInv, TypeOK
    <2>2. CASE record # None /\ store' = [store EXCEPT ![cell] = Append(@, record)]
      BY <1>1, <2>2, CommitAdds
    <2> QED BY <2>1, <2>2 DEF Restart
  <1>3. 1 \in AllCells BY Sizes DEF AllCells
  <1>4. TypeOK'
    <2>1. restarts' \in 0 .. MaxRestarts BY ScheduleAssumption DEF IInv, TypeOK, Restart
    <2>2. 0 \in 0 .. policy.limit BY DEF IInv, TypeOK, Policies
    <2> QED BY <1>2, <1>3, <2>1, <2>2, EmptySeq DEF IInv, TypeOK, Restart
  <1>5. Position' BY <1>2, <1>3, LenProperties DEF Position, Restart
  <1>6. Pending' BY DEF Pending, Restart
  <1>7. Scheduled' BY EmptySeq DEF Scheduled, Restart
  <1> QED BY <1>2, <1>4, <1>5, <1>6, <1>7 DEF IInv

\* Every step keeps the invariant.
LEMMA StepKeeps == ASSUME IInv, Next PROVE IInv'
  <1>1. CASE Produce BY <1>1, ProduceKeeps
  <1>2. CASE Publish BY <1>2, PublishKeeps
  <1>3. CASE Resume
    <2>1. TypeOK' BY <1>3 DEF IInv, TypeOK, Resume
    <2>2. Position' BY <1>3 DEF IInv, Position, Resume, Known
    <2>3. Pending' BY <1>3 DEF IInv, Pending, Resume
    <2>4. Attempts' /\ InOrder' /\ Summed' /\ Scheduled' BY <1>3, Uncommitted DEF Resume
    <2> QED BY <2>1, <2>2, <2>3, <2>4 DEF IInv
  <1>4. CASE NotCommitted
    <2>1. TypeOK' BY <1>4 DEF IInv, TypeOK, NotCommitted
    <2>2. Position' BY <1>4 DEF Position, NotCommitted
    <2>3. Pending' BY <1>4 DEF IInv, Pending, Earned, NotCommitted
    <2>4. Attempts' /\ InOrder' /\ Summed' /\ Scheduled' BY <1>4, Uncommitted DEF NotCommitted
    <2> QED BY <2>1, <2>2, <2>3, <2>4 DEF IInv
  <1>5. CASE Retry
    <2>1. TypeOK' BY <1>5 DEF IInv, TypeOK, Retry, Retryable, Policies
    <2>2. cell \in AllCells /\ Len(store[cell]) \in Nat /\ repeat \in Nat
      BY <1>5, LenProperties DEF IInv, TypeOK, Policies, Retry
    <2>3. Position'
      BY <1>5, <2>2 DEF IInv, Position, Retry, Retryable, Final, Excused
    <2>4. Pending' BY <1>5 DEF IInv, Pending, Retry
    <2>5. Attempts' /\ InOrder' /\ Summed' /\ Scheduled' BY <1>5, Uncommitted DEF Retry
    <2> QED BY <2>1, <2>3, <2>4, <2>5 DEF IInv
  <1>6. CASE VerifyHealth
    <2>1. TypeOK' BY <1>6 DEF IInv, TypeOK, VerifyHealth
    <2>2. Position' BY <1>6 DEF IInv, Position, VerifyHealth
    <2>3. Pending' BY <1>6 DEF IInv, Pending, VerifyHealth
    <2>4. Attempts' /\ InOrder' /\ Summed' /\ Scheduled' BY <1>6, Uncommitted DEF VerifyHealth
    <2> QED BY <2>1, <2>2, <2>3, <2>4 DEF IInv
  <1>7. CASE Complete BY <1>7, CompleteKeeps
  <1>8. CASE Summarise BY <1>8, SummariseKeeps
  <1>9. CASE Restart BY <1>9, RestartKeeps
  <1> QED BY <1>1, <1>2, <1>3, <1>4, <1>5, <1>6, <1>7, <1>8, <1>9 DEF Next

LEMMA SchedulerStep == ASSUME IInv, [Next]_vars PROVE IInv'
  <1>1. CASE Next BY <1>1, StepKeeps
  <1>2. CASE UNCHANGED vars
    <2>1. TypeOK' BY <1>2 DEF vars, IInv, TypeOK
    <2>2. Position' /\ Pending' BY <1>2 DEF vars, IInv, Position, Pending, Earned
    <2>3. Attempts' /\ InOrder' /\ Summed' BY <1>2, Uncommitted DEF vars
    <2>4. Scheduled' BY <1>2 DEF vars, IInv, Scheduled, Settled, Last
    <2> QED BY <2>1, <2>2, <2>3, <2>4 DEF IInv
  <1> QED BY <1>1, <1>2

\* The inductive invariant holds for good.
THEOREM SchedulerInvariance == Spec => []IInv
  <1>1. IInv /\ [Next]_vars => IInv' BY SchedulerStep
  <1> QED BY <1>1, InitIInv, PTL DEF Spec

\* The type invariant of the scheduler, for any schedule, selection and number of restarts.
THEOREM SchedulerTypeOK == Spec => []TypeOK
  <1>1. IInv => TypeOK BY DEF IInv
  <1> QED BY <1>1, SchedulerInvariance, PTL

\* No answer of the model is ever rerolled, in whatever lives the run has, and a
\* retry comes behind a health check where the policy says so.
THEOREM NothingRerolled == Spec => []NoReroll
  <1>1. IInv => NoReroll BY DEF IInv, Attempts, Excused, NoReroll
  <1> QED BY <1>1, SchedulerInvariance, PTL

\* A pass is earned by a done attempt, and no failure of grader or environment is a score.
THEOREM PassesEarned == Spec => []StrictIsEarned
  <1>1. IInv => StrictIsEarned
    <2> SUFFICES ASSUME IInv, NEW c \in AllCells, NEW i \in DOMAIN store[c]
                 PROVE  Earned(store[c][i])
      BY DEF StrictIsEarned, Earned
    <2>1. i \in 1 .. Len(store[c]) BY LenProperties DEF IInv, TypeOK
    <2> QED BY <2>1 DEF IInv, Attempts
  <1> QED BY <1>1, SchedulerInvariance, PTL

\* A summary tells every cell of the schedule once, by its last attempt, and stays true.
THEOREM SummaryStands == Spec => []SummaryIsFinal
  <1>1. ASSUME IInv PROVE SummaryIsFinal
    <2>1. at = "over" => Len(cells) = Cases * PerCase BY <1>1, Sizes DEF IInv, Scheduled
    <2>2. DOMAIN cells = 1 .. cell - 1 BY <1>1, LenProperties DEF IInv, TypeOK, Scheduled
    <2>3. \A n \in DOMAIN cells :
            cells[n] = [case |-> CaseOf(n), condition |-> Condition(n), final |-> Last(n)]
      BY <1>1, <2>2 DEF IInv, Scheduled
    <2>4. DOMAIN cells \subseteq AllCells BY <1>1, <2>2, Sizes DEF IInv, TypeOK, AllCells
    <2>5. \A n \in DOMAIN cells : \A k \in 1 .. n - 1 :
            cells[k].case = cells[n].case => cells[k].condition # cells[n].condition
      <3> SUFFICES ASSUME NEW n \in DOMAIN cells, NEW k \in 1 .. n - 1,
                          cells[k].case = cells[n].case, cells[k].condition = cells[n].condition
                   PROVE  FALSE
        OBVIOUS
      <3>1. k \in DOMAIN cells /\ n \in Nat /\ k # n
        BY <1>1, <2>2, Sizes DEF IInv, TypeOK, AllCells
      <3>2. CaseOf(k) = CaseOf(n) /\ Condition(k) = Condition(n) BY <2>3, <3>1
      <3> QED BY <2>4, <3>1, <3>2, CellProperties
    <2>6. summary # None => \A n \in DOMAIN summary : summary[n].final = store[n][Len(store[n])]
      BY <1>1 DEF IInv, Summed, Last
    <2> QED BY <1>1, <2>1, <2>3, <2>5, <2>6 DEF IInv, InOrder, SummaryIsFinal, Last
  <1> QED BY <1>1, SchedulerInvariance, PTL

-----------------------------------------------------------------------------
(* What is decided                                                          *)

\* Behind these steps a command has a document.
Holding == {"grade", "commit", "mkdir", "artifact", "prepared", "marker", "verify", "told"}

\* A document in hand, or on disk, is the evidence, and it is complete.
InHand  == \A a \in Analysts : analyst[a].at \in Holding => analyst[a].doc = store /\ Decidable(store)
OnDisk  == \A k \in Kinds : "artifact" \in files[k] => content[k] = store /\ Decidable(store)

\* The audit is behind a sealed decision, in every command and on disk.
Behind ==
  /\ files["audit"] # {} => Sealed("decision")
  /\ \A a \in Analysts :
       /\ analyst[a].kind = "audit" /\ analyst[a].at \notin {"closed", "bind"} => Sealed("decision")
       /\ analyst[a].at = "grade" => analyst[a].kind = "audit"

\* What a command has told is what is sealed.
Shown ==
  \A a \in Analysts : analyst[a].at = "told" =>
    Sealed(analyst[a].kind) /\ content[analyst[a].kind] = analyst[a].doc

DInv == IInv /\ DecisionsTypeOK /\ InHand /\ OnDisk /\ Behind /\ Shown

\* Complete evidence is settled: nothing is under way that could be added to it.
LEMMA CompleteEvidence ==
  ASSUME IInv, Decidable(store)
  PROVE  record = None /\ at # "publish" /\ Projections = {store}
  <1>1. record = None
    <2> SUFFICES ASSUME record # None PROVE FALSE
      OBVIOUS
    <2>1. cell \in AllCells /\ ~Settled(cell) BY PendingUnsettled DEF IInv, Pending
    <2>2. Settled(cell) BY <2>1, EmptySeq DEF Decidable, Finals, Settled
    <2> QED BY <2>1, <2>2
  <1>2. at # "publish" BY <1>1 DEF IInv, Pending
  <1> QED BY <1>1, <1>2 DEF Projections

\* A step of the scheduler leaves complete evidence as it is.
LEMMA Stays ==
  ASSUME IInv, Next, Decidable(store)
  PROVE  store' = store /\ Decidable(store)'
  <1>1. record = None /\ at # "publish" BY CompleteEvidence
  <1>2. store' = store /\ policy' = policy
    BY <1>1 DEF Next, Produce, Publish, Resume, NotCommitted, Retry, VerifyHealth, Complete,
                Summarise, Restart
  <1> QED BY <1>2 DEF Decidable, Finals

\* A command that reads the evidence may adopt a record of a run that died: that ends it.
LEMMA ReadKeeps ==
  ASSUME IInv, NEW a \in Analysts, NEW accepted, NEW then, Read(a, accepted, then)
  PROVE  IInv'
  <1> USE DEF Read
  <1>1. CASE store' = store /\ at # "publish"
    <2>1. UNCHANGED vars BY <1>1 DEF vars
    <2> QED BY <2>1, SchedulerStep
  <1>2. CASE at = "publish"
    <2>1. record # None /\ cell \in AllCells BY <1>2 DEF IInv, Pending
    <2>2. at' = "raised" /\ record' = None /\ UNCHANGED <<policy, cell, repeat, cells, healthy,
                                                        restarts, summary>>
      BY <1>2
    <2>3. store' \in [AllCells -> Seq(Records)] /\ Attempts' /\ InOrder' /\ Summed'
          /\ \A c \in AllCells \ {cell} : store'[c] = store[c]
      <3>1. CASE store' = store BY <2>2, <3>1, Uncommitted DEF IInv, TypeOK
      <3>2. CASE store' = [store EXCEPT ![cell] = Append(@, record)]
        BY <2>1, <2>2, <3>2, CommitAdds
      <3> QED BY <1>2, <3>1, <3>2 DEF Projections
    <2>4. TypeOK' BY <2>1, <2>2, <2>3 DEF IInv, TypeOK
    <2>5. Position' /\ Pending' BY <2>2 DEF Position, Pending
    <2>6. Scheduled'
      <3>1. \A n \in 1 .. cell - 1 : n \in AllCells \ {cell} BY <2>1, Sizes DEF AllCells
      <3> QED BY <2>2, <2>3, <3>1 DEF IInv, Scheduled, Settled, Last
    <2> QED BY <2>3, <2>4, <2>5, <2>6 DEF IInv
  <1> QED BY <1>1, <1>2 DEF Projections

\* One command goes on to a step, or ends, and no file or record changes.
LEMMA AnalystMoves ==
  ASSUME DInv, NEW a \in Analysts, NEW step \in Steps, NEW kind \in Kinds,
         NEW doc \in Evidence \cup {None}, UNCHANGED <<scheduler, files, content>>,
         analyst' = [analyst EXCEPT ![a] = [at |-> step, kind |-> kind, doc |-> doc]],
         step \in Holding => doc = store /\ Decidable(store),
         kind = "audit" /\ step \notin {"closed", "bind"} => Sealed("decision"),
         step = "grade" => kind = "audit",
         step = "told" => Sealed(kind) /\ content[kind] = doc
  PROVE  DInv'
  <1> USE DEF DInv
  <1>1. IInv' BY SchedulerStep DEF scheduler
  <1>2. /\ analyst'[a] = [at |-> step, kind |-> kind, doc |-> doc]
        /\ \A b \in Analysts : b # a => analyst'[b] = analyst[b]
    BY DEF DecisionsTypeOK
  <1>3. DecisionsTypeOK' BY <1>2 DEF DecisionsTypeOK
  <1>4. store' = store /\ (Decidable(store) => Decidable(store)')
    BY DEF scheduler, vars, Decidable, Finals
  <1>5. InHand' /\ OnDisk' BY <1>2, <1>4 DEF InHand, OnDisk
  <1>6. Behind' /\ Shown' BY <1>2 DEF Behind, Shown, Sealed
  <1> QED BY <1>1, <1>3, <1>5, <1>6

\* A command that ends.
LEMMA ExitKeeps ==
  ASSUME DInv, NEW a \in Analysts, Exit(a), UNCHANGED <<scheduler, files, content>>
  PROVE  DInv'
  BY AnalystMoves DEF Exit, Closed, Steps, Kinds, Holding

\* A command that goes on with its document.
LEMMA GotoKeeps ==
  ASSUME DInv, NEW a \in Analysts, NEW step \in Holding \ {"grade"}, Goto(a, step),
         UNCHANGED <<scheduler, files, content>>, analyst[a].at \in Holding,
         step = "told" => Sealed(analyst[a].kind) /\ content[analyst[a].kind] = analyst[a].doc
  PROVE  DInv'
  <1>1. analyst[a] \in [at : Steps, kind : Kinds, doc : Evidence \cup {None}]
    BY DEF DInv, DecisionsTypeOK
  <1>2. analyst' = [analyst EXCEPT ![a] = [at |-> step, kind |-> analyst[a].kind,
                                           doc |-> analyst[a].doc]]
    <2>1. [analyst[a] EXCEPT !.at = step]
            = [at |-> step, kind |-> analyst[a].kind, doc |-> analyst[a].doc]
      BY <1>1
    <2> QED BY <2>1 DEF Goto
  <1>3. step \in Steps BY DEF Holding, Steps
  <1>4. /\ analyst[a].doc = store /\ Decidable(store)
        /\ analyst[a].kind = "audit" => Sealed("decision")
    BY DEF DInv, InHand, Behind, Holding
  <1>5. step # "closed" /\ step # "grade" /\ step # "bind" BY DEF Holding
  <1> QED BY <1>1, <1>2, <1>3, <1>4, <1>5, AnalystMoves

\* A command that makes a member of its artifact, with its document in it.
LEMMA MakeKeeps ==
  ASSUME DInv, NEW a \in Analysts, NEW member \in Members, NEW then \in Holding \ {"grade", "told"},
         analyst[a].at \in Holding, Make(a, member, then)
  PROVE  DInv'
  <1> DEFINE k == analyst[a].kind
  <1> USE DEF DInv
  <1>1. analyst[a] \in [at : Steps, kind : Kinds, doc : Evidence \cup {None}]
    BY DEF DecisionsTypeOK
  <1>2. CASE member \in files[k] BY <1>2, ExitKeeps DEF Make
  <1>3. CASE member \notin files[k]
    <2>1. /\ files' = [files EXCEPT ![k] = @ \cup {member}] /\ Goto(a, then) /\ UNCHANGED scheduler
          /\ content' = IF member = "artifact" THEN [content EXCEPT ![k] = analyst[a].doc]
                        ELSE content
      BY <1>3 DEF Make
    <2>2. /\ files \in [Kinds -> SUBSET Members] /\ content \in [Kinds -> Evidence \cup {None}]
          /\ analyst \in [Analysts -> [at : Steps, kind : Kinds, doc : Evidence \cup {None}]]
      BY DEF DecisionsTypeOK
    <2>3. ~Sealed(k) BY <1>3 DEF Sealed
    <2>4. /\ analyst'[a].at = then /\ analyst'[a].kind = k /\ analyst'[a].doc = analyst[a].doc
          /\ \A b \in Analysts : b # a => analyst'[b] = analyst[b]
      BY <2>1, <2>2 DEF Goto
    <2>5. /\ files'[k] = files[k] \cup {member}
          /\ \A i \in Kinds : i # k => files'[i] = files[i] /\ content'[i] = content[i]
      BY <1>1, <2>1, <2>2
    <2>6. \A i \in Kinds : Sealed(i) => i # k /\ Sealed(i)' /\ content'[i] = content[i]
      BY <2>3, <2>5 DEF Sealed
    <2>7. /\ analyst[a].doc = store /\ Decidable(store) /\ (k = "audit" => Sealed("decision"))
      BY DEF InHand, Behind, Holding
    <2>8. store' = store /\ (Decidable(store) => Decidable(store)')
      BY <2>1 DEF scheduler, vars, Decidable, Finals
    <2>9. IInv' BY <2>1, SchedulerStep DEF scheduler
    <2>10. DecisionsTypeOK'
      <3>1. then \in Steps BY DEF Holding, Steps
      <3>2. analyst' \in [Analysts -> [at : Steps, kind : Kinds, doc : Evidence \cup {None}]]
        BY <1>1, <2>1, <2>2, <3>1 DEF Goto
      <3>3. content' \in [Kinds -> Evidence \cup {None}] BY <1>1, <2>1, <2>2
      <3>4. files' \in [Kinds -> SUBSET Members] BY <1>1, <2>1, <2>2
      <3> QED BY <3>2, <3>3, <3>4 DEF DecisionsTypeOK
    <2>11. InHand' BY <2>4, <2>7, <2>8 DEF InHand
    <2>12. OnDisk'
      <3>1. ASSUME NEW i \in Kinds, "artifact" \in files'[i] PROVE content'[i] = store
        <4>1. CASE i = k /\ member = "artifact" BY <1>1, <2>1, <2>2, <2>7, <4>1
        <4>2. CASE ~(i = k /\ member = "artifact")
          <5>1. "artifact" \in files[i] /\ content'[i] = content[i]
            BY <2>1, <2>5, <3>1, <4>2
          <5> QED BY <5>1 DEF OnDisk
        <4> QED BY <4>1, <4>2
      <3> QED BY <2>7, <2>8, <3>1 DEF OnDisk
    <2>13. Behind'
      <3>1. "decision" \in Kinds /\ "audit" \in Kinds BY DEF Kinds
      <3>2. files'["audit"] # {} => Sealed("decision")'
        BY <1>1, <2>5, <2>6, <2>7, <3>1 DEF Behind
      <3>3. ASSUME NEW b \in Analysts
            PROVE  /\ analyst'[b].kind = "audit" /\ analyst'[b].at \notin {"closed", "bind"}
                      => Sealed("decision")'
                   /\ analyst'[b].at = "grade" => analyst'[b].kind = "audit"
        <4>1. CASE b = a BY <2>4, <2>6, <2>7, <3>1, <4>1
        <4>2. CASE b # a BY <2>4, <2>6, <3>1, <4>2 DEF Behind
        <4> QED BY <4>1, <4>2
      <3> QED BY <3>2, <3>3 DEF Behind
    <2>14. Shown'
      <3>1. ASSUME NEW b \in Analysts, analyst'[b].at = "told"
            PROVE  files'[analyst'[b].kind] = Members /\ content'[analyst'[b].kind] = analyst'[b].doc
        <4>1. b # a /\ analyst'[b] = analyst[b] BY <2>4, <3>1 DEF Holding
        <4>2. /\ analyst[b].kind \in Kinds /\ Sealed(analyst[b].kind)
              /\ content[analyst[b].kind] = analyst[b].doc
          BY <2>2, <3>1, <4>1 DEF Shown
        <4>3. ASSUME NEW i \in Kinds, Sealed(i)
              PROVE  files'[i] = Members /\ content'[i] = content[i]
          BY <2>6, <4>3 DEF Sealed
        <4> QED BY <4>1, <4>2, <4>3
      <3> QED BY <3>1 DEF Shown, Sealed
    <2> QED BY <2>9, <2>10, <2>11, <2>12, <2>13, <2>14
  <1> QED BY <1>2, <1>3

\* A command that reads the evidence goes on only with what it will stay.
LEMMA DecideKeeps ==
  ASSUME DInv, NEW a \in Analysts, NEW accepted \in SUBSET {st \in Projections : Decidable(st)},
         NEW then \in Holding \ {"told"}, Read(a, accepted, then),
         analyst[a].kind = "audit" => Sealed("decision"), then = "grade" => analyst[a].kind = "audit"
  PROVE  DInv'
  <1> USE DEF DInv
  <1>1. IInv' BY ReadKeeps
  <1>2. analyst[a] \in [at : Steps, kind : Kinds, doc : Evidence \cup {None}]
    BY DEF DecisionsTypeOK
  <1>3. UNCHANGED <<policy, files, content>> /\ store' \in Projections BY DEF Read
  <1>4. \A b \in Analysts : b # a => analyst'[b] = analyst[b]
    BY DEF Read, DecisionsTypeOK
  <1>5. \/ analyst'[a] = Closed
        \/ /\ analyst'[a] = [at |-> then, kind |-> analyst[a].kind, doc |-> store']
           /\ Decidable(store')
    BY <1>2 DEF Read, DecisionsTypeOK
  <1>6. Decidable(store') => Decidable(store)' BY <1>3 DEF Decidable, Finals
  <1>7. Decidable(store) => store' = store /\ Decidable(store)'
    BY <1>3, <1>6, CompleteEvidence
  <1>8. DecisionsTypeOK'
    <2>1. store' \in Evidence BY <1>1 DEF IInv, TypeOK, Evidence
    <2>2. Closed \in [at : Steps, kind : Kinds, doc : Evidence \cup {None}]
      BY DEF Closed, Steps, Kinds
    <2>3. then \in Steps BY DEF Holding, Steps
    <2>4. analyst'[a] \in [at : Steps, kind : Kinds, doc : Evidence \cup {None}]
      BY <1>2, <1>5, <2>1, <2>2, <2>3
    <2>5. analyst' = [analyst EXCEPT ![a] = analyst'[a]] BY DEF Read, DecisionsTypeOK
    <2> QED BY <1>3, <2>4, <2>5 DEF DecisionsTypeOK
  <1>9. InHand'
    <2> SUFFICES ASSUME NEW b \in Analysts, analyst'[b].at \in Holding
                 PROVE  analyst'[b].doc = store' /\ Decidable(store)'
      BY DEF InHand
    <2>1. CASE b = a BY <1>5, <1>6, <2>1 DEF Closed, Holding
    <2>2. CASE b # a BY <1>4, <1>7, <2>2 DEF InHand
    <2> QED BY <2>1, <2>2
  <1>10. OnDisk' BY <1>3, <1>7 DEF OnDisk
  <1>11. Behind' BY <1>3, <1>4, <1>5 DEF Behind, Sealed, Closed
  <1>12. Shown' BY <1>3, <1>4, <1>5 DEF Shown, Sealed, Closed
  <1> QED BY <1>1, <1>8, <1>9, <1>10, <1>11, <1>12

\* Every step keeps the invariant.
LEMMA DecisionsStep == ASSUME DInv, [DecisionsNext]_dvars PROVE DInv'
  <1> USE DEF DInv
  <1>1. CASE UNCHANGED dvars
    <2>1. IInv' BY <1>1, SchedulerStep DEF dvars
    <2>2. DecisionsTypeOK' BY <1>1 DEF dvars, decisions, DecisionsTypeOK
    <2>3. InHand' /\ OnDisk' BY <1>1 DEF dvars, vars, decisions, InHand, OnDisk, Decidable, Finals
    <2>4. Behind' /\ Shown' BY <1>1 DEF dvars, decisions, Behind, Shown, Sealed
    <2> QED BY <2>1, <2>2, <2>3, <2>4
  <1>2. CASE Next /\ UNCHANGED decisions
    <2>1. IInv' BY <1>2, StepKeeps
    <2>2. Decidable(store) => store' = store /\ Decidable(store)' BY <1>2, Stays
    <2>3. DecisionsTypeOK' BY <1>2 DEF decisions, DecisionsTypeOK
    <2>4. InHand' /\ OnDisk' BY <1>2, <2>2 DEF decisions, InHand, OnDisk
    <2>5. Behind' /\ Shown' BY <1>2 DEF decisions, Behind, Shown, Sealed
    <2> QED BY <2>1, <2>3, <2>4, <2>5
  <1>3. ASSUME NEW a \in Analysts, Open(a) PROVE DInv'
    <2>1. PICK k \in Kinds :
            analyst' = [analyst EXCEPT ![a] =
              [at |-> IF k = "audit" THEN "bind" ELSE "build", kind |-> k, doc |-> None]]
      BY <1>3 DEF Open
    <2> DEFINE step == IF k = "audit" THEN "bind" ELSE "build"
    <2>2. /\ step \in Steps /\ step \notin Holding /\ step # "grade" /\ step # "told"
          /\ (k = "audit" => step = "bind") /\ None \in Evidence \cup {None}
      BY DEF Steps, Holding
    <2>3. UNCHANGED <<scheduler, files, content>> BY <1>3 DEF Open
    <2>4. analyst' = [analyst EXCEPT ![a] = [at |-> step, kind |-> k, doc |-> None]]
      BY <2>1
    <2> HIDE DEF step
    <2> QED BY <2>2, <2>3, <2>4, AnalystMoves
  <1>4. ASSUME NEW a \in Analysts, Bind(a) PROVE DInv'
    <2>1. CASE Sealed("decision")
      <3>1. analyst[a] \in [at : Steps, kind : Kinds, doc : Evidence \cup {None}]
        BY DEF DecisionsTypeOK
      <3>2. analyst' = [analyst EXCEPT ![a] = [at |-> "build", kind |-> analyst[a].kind,
                                               doc |-> analyst[a].doc]]
        <4>1. [analyst[a] EXCEPT !.at = "build"]
                = [at |-> "build", kind |-> analyst[a].kind, doc |-> analyst[a].doc]
          BY <3>1
        <4> QED BY <1>4, <2>1, <4>1 DEF Bind, Goto
      <3>3. "build" \in Steps /\ "build" \notin Holding BY DEF Steps, Holding
      <3>4. UNCHANGED <<scheduler, files, content>> BY <1>4 DEF Bind
      <3> QED BY <2>1, <3>1, <3>2, <3>3, <3>4, AnalystMoves
    <2>2. CASE ~Sealed("decision") BY <1>4, <2>2, ExitKeeps DEF Bind
    <2> QED BY <2>1, <2>2
  <1>5. ASSUME NEW a \in Analysts, Build(a) PROVE DInv'
    <2> DEFINE k == analyst[a].kind
               accepted == {st \in Projections : Decidable(st) /\ Bound(k, st)}
               then == IF k = "audit" THEN "grade" ELSE "commit"
    <2>1. Read(a, accepted, then) /\ accepted \in SUBSET {st \in Projections : Decidable(st)}
      BY <1>5 DEF Build
    <2>2. k = "audit" => Sealed("decision") BY <1>5 DEF Build, Behind
    <2>3. then \in Holding \ {"told"} /\ (then = "grade" => k = "audit") BY DEF Holding
    <2> HIDE DEF accepted, then
    <2> QED BY <2>1, <2>2, <2>3, DecideKeeps
  <1>6. ASSUME NEW a \in Analysts, GradeFinals(a) PROVE DInv'
    <2>1. Decidable(store) /\ Projections = {store}
      BY <1>6, CompleteEvidence DEF GradeFinals, InHand, Holding
    <2>2. {st \in Projections : Finals(st)} \in SUBSET {st \in Projections : Decidable(st)}
      BY <2>1
    <2>3. analyst[a].kind = "audit" => Sealed("decision") BY <1>6 DEF GradeFinals, Behind
    <2> QED BY <1>6, <2>2, <2>3, DecideKeeps DEF GradeFinals, Holding
  <1>7. ASSUME NEW a \in Analysts, Commit(a) PROVE DInv'
    BY <1>7, GotoKeeps DEF Commit, Holding
  <1>8. ASSUME NEW a \in Analysts,
               MakeDirectory(a) \/ WriteDocument(a) \/ WriteBinding(a) \/ WriteMarker(a)
        PROVE  DInv'
    BY <1>8, MakeKeeps DEF MakeDirectory, WriteDocument, WriteBinding, WriteMarker, Members, Holding
  <1>9. ASSUME NEW a \in Analysts, Verify(a) PROVE DInv'
    <2>1. CASE Sealed(analyst[a].kind) /\ content[analyst[a].kind] = analyst[a].doc
      BY <1>9, <2>1, GotoKeeps DEF Verify, Holding
    <2>2. CASE ~(Sealed(analyst[a].kind) /\ content[analyst[a].kind] = analyst[a].doc)
      BY <1>9, <2>2, ExitKeeps DEF Verify
    <2> QED BY <2>1, <2>2
  <1>10. ASSUME NEW a \in Analysts, Die(a) PROVE DInv' BY <1>10, ExitKeeps DEF Die
  <1> QED BY <1>1, <1>2, <1>3, <1>4, <1>5, <1>6, <1>7, <1>8, <1>9, <1>10 DEF DecisionsNext

\* What is known of decisions and of the evidence under them holds for good.
THEOREM DecisionsInvariance == DecisionsSpec => []DInv
  <1>1. DecisionsInit => DInv
    <2> SUFFICES ASSUME DecisionsInit PROVE DInv
      OBVIOUS
    <2>1. IInv BY InitIInv DEF DecisionsInit
    <2>2. DecisionsTypeOK BY DEF DecisionsInit, DecisionsTypeOK, Closed, Steps, Kinds
    <2>3. InHand /\ OnDisk /\ Behind /\ Shown
      BY DEF DecisionsInit, InHand, OnDisk, Behind, Shown, Closed, Holding, Kinds
    <2> QED BY <2>1, <2>2, <2>3 DEF DInv
  <1>2. DInv /\ [DecisionsNext]_dvars => DInv' BY DecisionsStep
  <1> QED BY <1>1, <1>2, PTL DEF DecisionsSpec

\* The types of the scheduler under its analysts, and of what they make.
THEOREM DecisionsTypes == DecisionsSpec => [](TypeOK /\ DecisionsTypeOK)
  <1>1. DInv => TypeOK /\ DecisionsTypeOK BY DEF DInv, IInv
  <1> QED BY <1>1, DecisionsInvariance, PTL

\* A sealed decision or audit is about the evidence as it will stay, nothing is graded
\* before the decision is sealed, and whoever was told a document was told that one.
THEOREM DecisionsStand == DecisionsSpec => []DecisionStands
  <1>1. DInv => DecisionStands
    <2> SUFFICES ASSUME DInv PROVE DecisionStands
      OBVIOUS
    <2>1. \A k \in Kinds : Sealed(k) => content[k] = store /\ Decidable(store)
      BY DEF DInv, OnDisk, Sealed, Members
    <2>2. files["audit"] # {} => Sealed("decision") BY DEF DInv, Behind
    <2>3. ASSUME NEW a \in Analysts
          PROVE  /\ analyst[a].at = "grade" => Sealed("decision")
                 /\ analyst[a].at = "told" => /\ Sealed(analyst[a].kind)
                                              /\ content[analyst[a].kind] = analyst[a].doc
      BY DEF DInv, Behind, Shown
    <2> QED BY <2>1, <2>2, <2>3 DEF DecisionStands
  <1> QED BY <1>1, DecisionsInvariance, PTL
=============================================================================
