--------------------------- MODULE MCStudiesProofs ---------------------------
(***************************************************************************)
(* Proofs about MCStudies. First the parts of the composition beside the   *)
(* publishing programs (StudyProgramsProofs): the focused follow-up, the   *)
(* gate in front of the studies, the grader of the office tasks and the    *)
(* memories of an agent. Then the composition: what is proved of a program *)
(* holds of it, since each of its steps is one of the program or leaves    *)
(* the program alone.                                                      *)
(***************************************************************************)
EXTENDS MCStudies, StudyProgramsProofs

-----------------------------------------------------------------------------
(* The focused follow-up *)

\* Its constants.
LEMMA FocConstants ==
  /\ BlockCells \in Nat \ {0} /\ MaxFaults \in Nat /\ MaxStarts \in Nat
  /\ None \notin Focused!Reasons
  BY ProgramsAssumption, ProgramConstants

\* Its Cardinality is the one of the theorems.
LEMMA FocSize == \A S : Focused!Cardinality(S) = Cardinality(S)
  BY Zenon DEF Focused!Cardinality, Cardinality

\* The types: the documents are those of some set D.
FocCells     == Focused!Committed \cup {"none"}
FocFiles     == {"absent", "torn", "done"}
FocFallbacks == (Focused!Reasons \ {"instrument_failure"}) \cup {None}
FocRuns      == {"mark", "cell", "execute", "attest", "second"}
FocAts       == FocRuns \cup {"closed", "look", "check", "lease", "environment", "post", "seal",
                              "term", "payload", "marker", "analyze", "report", "judge",
                              "finished"}
FocCommand(D) == [at : FocAts, block : Focused!Blocks,
  cmd : Focused!Reasons \cup {"run", "seal", "none"},
                  cell : 1 .. BlockCells + 1, out : Focused!Papers \cup {None}, doc : D,
                  fallback : FocFallbacks]
FocHas(D) == /\ paper \in [Focused!Papers -> [file : FocFiles, doc : D]]
             /\ sup \in [Supervisors -> FocCommand(D)]
FocStore  == /\ clock \in 0 .. 2 /\ evidence \in [Focused!Blocks -> [Focused!Ids -> FocCells]]
             /\ lease \in Supervisors \cup {None, "stale"}
             /\ faults \in 0 .. MaxFaults /\ starts \in 0 .. MaxStarts

\* What the documents say.
SealDoc(b, d) == Focused!Whole(b) /\ d.attempts = Focused!Attempts(b)
  /\ Focused!Done(<<"start", b>>)
TermDoc(b, d) == d.attempts = Focused!Attempts(b) /\ d.reason \in Focused!Reasons
  /\ Focused!Grounds(b, d.reason)
FoundDoc(d)   == d.fallback \in FocFallbacks /\ d.claim # "refused"
  /\ d = Focused!Findings(d.fallback)

\* Something was done or said of a block.
Entered(b) == Focused!Missing(b) # Focused!Ids \/ Focused!Exists(<<"seal", b>>)
  \/ Focused!Exists(<<"term", b>>)
\* A seal is of a whole block that was begun, a termination of one with grounds, and no block
\* has both; a block with a cell comes after the seals it waits for.
FocBlocks ==
  /\ \A b \in Focused!Blocks :
       /\ Focused!Exists(<<"seal", b>>) => SealDoc(b, paper[<<"seal", b>>].doc)
            /\ ~Focused!Exists(<<"term", b>>)
       /\ Focused!Exists(<<"term", b>>) => TermDoc(b, paper[<<"term", b>>].doc)
       /\ Entered(b) => Focused!PriorSeals(b)
  /\ Focused!Missing(Focused!B2) # Focused!Ids => ~Focused!SealedLate
\* An analysis says what it found, and a report what a standing analysis says.
FocFinals ==
  /\ Focused!Closed => FoundDoc(paper[Focused!Analysis].doc)
  /\ Focused!Exists(Focused!Report) => Focused!AnalysisStands
       /\ paper[Focused!Report].doc = paper[Focused!Analysis].doc

\* Nothing is known yet of a block that may be run.
Free(b) == ~Focused!Closed /\ ~Focused!Exists(<<"seal", b>>) /\ ~Focused!Exists(<<"term", b>>)
  /\ Focused!SealSequence(b)

\* The document in hand says what it may say when it is published.
FocHand(d) ==
  /\ d.out \in Focused!Papers
  /\ d.out \notin {Focused!Analysis, Focused!Report} => ~Focused!Closed
  /\ d.out[1] = "start" => d.cmd = "run" /\ Free(d.block)
  /\ d.at = "marker" => Focused!Exists(d.out)
  /\ d.at = "payload" =>
       /\ \A b \in Focused!Blocks :
            /\ d.out = <<"seal", b>> => SealDoc(b, d.doc) /\ Focused!PriorSeals(b)
                 /\ ~Focused!Exists(<<"term", b>>)
            /\ d.out = <<"term", b>> => TermDoc(b, d.doc) /\ Focused!PriorSeals(b)
                 /\ ~Focused!Exists(<<"seal", b>>)
       /\ d.out = Focused!Analysis => FoundDoc(d.doc)
       /\ d.out = Focused!Report => Focused!AnalysisStands /\ d.doc = paper[Focused!Analysis].doc

\* What a supervisor at each of its steps has made sure of.
FocAt(d) ==
  /\ d.at \in FocRuns \cup {"check"} => d.cmd = "run"
  /\ d.at \in {"lease", "environment"} => d.cmd \in {"run", "seal"}
  /\ d.at \in FocRuns \cup {"lease", "environment"} /\ d.cmd = "run" => Free(d.block)
  /\ d.at \in {"execute", "attest", "second"} => d.cell \in Focused!Ids
  /\ d.at = "term" =>
       IF d.cmd = "run" THEN d.doc.reason \in Focused!Reasons ELSE d.cmd \in Focused!Reasons
  /\ d.at \in {"payload", "marker"} => FocHand(d)
FocWho == \A s \in Supervisors : FocAt(sup[s])
\* The inductive invariant.
FocInv == FocStore /\ (\E D : FocHas(D)) /\ FocBlocks /\ FocFinals /\ FocWho

\* The papers are told apart.
LEMMA FocNames ==
  /\ \A b \in Focused!Blocks : /\ <<"start", b>> \in Focused!Papers
                                    /\ <<"seal", b>> \in Focused!Papers
                               /\ <<"term", b>> \in Focused!Papers
                               /\ <<"start", b>> \notin {Focused!Analysis, Focused!Report}
                               /\ <<"seal", b>> \notin {Focused!Analysis, Focused!Report}
                               /\ <<"term", b>> \notin {Focused!Analysis, Focused!Report}
  /\ Focused!Analysis \in Focused!Papers /\ Focused!Report \in Focused!Papers
       /\ Focused!Analysis # Focused!Report
  /\ \A n \in Focused!Papers : \/ n \in {Focused!Analysis, Focused!Report}
                               \/ \E b \in Focused!Blocks : n \in {<<"start", b>>, <<"seal", b>>,
                                    <<"term", b>>}
  /\ Focused!Blocks = {1, 2, 3} /\ Focused!B1a \in Focused!Blocks
       /\ Focused!B1b \in Focused!Blocks /\ Focused!B2 \in Focused!Blocks
  BY
  DEF Focused!Papers, Focused!Analysis, Focused!Report, Focused!Blocks, Focused!B1a, Focused!B1b,
      Focused!B2

\* The invariant holds at first.
LEMMA FocInit == ASSUME Focused!Init PROVE FocInv
  <1>1. FocStore
    BY FocConstants DEF Focused!Init, FocStore, FocCells
  <1>2. FocHas({None})
    BY FocConstants
    DEF Focused!Init, FocHas, FocCommand, Focused!Idle, Focused!Absent, FocFiles, FocAts,
        FocFallbacks, Focused!Blocks
  <1>3. \A n \in Focused!Papers : ~Focused!Exists(n)
    BY DEF Focused!Init, Focused!Exists, Focused!Absent
  <1>4. \A b \in Focused!Blocks : Focused!Missing(b) = Focused!Ids
    BY DEF Focused!Init, Focused!Missing
  <1>5. FocBlocks /\ FocFinals
    BY <1>3, <1>4, FocNames DEF FocBlocks, FocFinals, Entered, Focused!Closed
  <1>6. FocWho
    BY DEF Focused!Init, FocWho, FocAt, Focused!Idle, FocRuns
  <1> QED BY <1>1, <1>2, <1>5, <1>6 DEF FocInv

\* The only supervisor goes on as d.
LEMMA FocMove ==
  ASSUME OneSupervisor, NEW s \in Supervisors, NEW D, FocHas(D), NEW d \in FocCommand(D),
         sup' = [sup EXCEPT ![s] = d], paper' \in [Focused!Papers -> [file : FocFiles, doc : D]],
         FocStore', FocBlocks', FocFinals', FocAt(d)'
  PROVE  FocInv'
  <1>1. sup' \in [Supervisors -> FocCommand(D)] /\ \A t \in Supervisors : sup'[t] = d
    BY DEF FocHas, OneSupervisor
  <1>2. FocHas(D)' BY <1>1 DEF FocHas
  <1>3. FocWho' BY <1>1 DEF FocWho
  <1> QED BY <1>2, <1>3 DEF FocInv

\* What follows from the evidence and the papers stays as they do.
LEMMA FocSame ==
  ASSUME UNCHANGED <<evidence, paper>>
  PROVE  /\ FocBlocks => FocBlocks'
         /\ FocFinals => FocFinals'
         /\ \A d : FocAt(d) => FocAt(d)'
  <1>1. FocBlocks' = FocBlocks
    BY
    DEF FocBlocks, Focused!Exists, SealDoc, TermDoc, Entered, Focused!PriorSeals,
        Focused!SealStands, Focused!SealedLate, Focused!Whole, Focused!Missing, Focused!Invalid,
        Focused!Instrument, Focused!Attempts, Focused!Done, Focused!Grounds
  <1>2. FocFinals' = FocFinals
    BY
    DEF FocFinals, Focused!Exists, FoundDoc, Focused!Closed, Focused!AnalysisStands,
        Focused!Findings, Focused!Consistent, Focused!Claim, Focused!Sealed, Focused!Terminated,
        Focused!ReasonOf, Focused!SealStands, Focused!TermStands, Focused!SealedLate, Focused!Whole,
        Focused!Missing, Focused!Invalid, Focused!Instrument, Focused!Attempts, Focused!Done,
        Focused!Grounds
  <1>3. ASSUME NEW d PROVE FocAt(d)' = FocAt(d)
    BY
    DEF FocAt, FocHand, Free, Focused!SealSequence, Focused!Exists, SealDoc, TermDoc,
        Focused!PriorSeals, Focused!SealStands, Focused!SealedLate, Focused!Whole, Focused!Missing,
        Focused!Invalid, Focused!Instrument, Focused!Attempts, Focused!Done, Focused!Grounds,
        FoundDoc, Focused!Closed, Focused!AnalysisStands, Focused!Findings, Focused!Consistent,
        Focused!Claim, Focused!Sealed, Focused!Terminated, Focused!ReasonOf, Focused!TermStands
  <1> QED BY <1>1, <1>2, <1>3

\* A step of a supervisor that changes no evidence and no paper keeps the invariant if it keeps
\* what is known of where the supervisor is.
LEMMA FocGoes ==
  ASSUME OneSupervisor, FocInv, NEW s \in Supervisors, NEW D, FocHas(D), NEW d \in FocCommand(D),
         sup' = [sup EXCEPT ![s] = d], UNCHANGED <<evidence, paper>>, FocStore', FocAt(d)
  PROVE  FocInv'
  <1>1. FocBlocks' /\ FocFinals' /\ FocAt(d)' BY FocSame DEF FocInv
  <1>2. paper' \in [Focused!Papers -> [file : FocFiles, doc : D]] BY DEF FocHas
  <1> QED BY <1>1, <1>2, FocMove

\* In particular a step to another place.
LEMMA FocGoto ==
  ASSUME OneSupervisor, FocInv, NEW s \in Supervisors, NEW a \in FocAts, Focused!Goto(s, a),
         UNCHANGED <<evidence, paper>>, FocStore',
         \A d : d.at = a /\ d.block = sup[s].block /\ d.cmd = sup[s].cmd /\ d.cell = sup[s].cell
                /\ d.out = sup[s].out /\ d.doc = sup[s].doc => FocAt(d)
  PROVE  FocInv'
  <1>1. PICK D : FocHas(D) BY DEF FocInv
  <1> DEFINE d == [sup[s] EXCEPT !.at = a]
  <1>2. sup[s] \in FocCommand(D) BY <1>1 DEF FocHas
  <1>3. d \in FocCommand(D) /\ d.at = a /\ d.block = sup[s].block /\ d.cmd = sup[s].cmd
        /\ d.cell = sup[s].cell /\ d.out = sup[s].out /\ d.doc = sup[s].doc
    BY <1>2 DEF FocCommand
  <1>4. sup' = [sup EXCEPT ![s] = d] BY DEF Focused!Goto
  <1>5. FocAt(d) BY <1>3
  <1> HIDE DEF d
  <1> QED BY <1>1, <1>3, <1>4, <1>5, FocGoes

\* The command has ended.
LEMMA FocEndedIs ==
  ASSUME NEW D, NEW s, sup[s] \in FocCommand(D)
  PROVE  Focused!Ended(s) \in FocCommand(D) /\ Focused!Ended(s).at \in {"judge", "look"}
  <1>1. Focused!After(sup[s].cmd) \in Focused!Reasons \cup {"run", "seal", "none"}
    BY DEF Focused!After, Focused!Reasons
  <1>2. 1 \in 1 .. BlockCells + 1 BY FocConstants
  <1>3. PICK a \in {"judge", "look"} : Focused!Ended(s) = [sup[s] EXCEPT !.at = a,
        !.cmd = Focused!After(@), !.cell = 1]
    BY DEF Focused!Ended
  <1> QED BY <1>1, <1>2, <1>3 DEF FocCommand, FocAts

\* An end, of a supervisor that can always end.
LEMMA FocEnded ==
  ASSUME OneSupervisor, FocInv, NEW s \in Supervisors, sup' = [sup EXCEPT ![s] = Focused!Ended(s)],
         UNCHANGED <<evidence, paper>>, FocStore'
  PROVE  FocInv'
  <1>1. PICK D : FocHas(D) BY DEF FocInv
  <1>2. sup[s] \in FocCommand(D) BY <1>1 DEF FocHas
  <1>3. Focused!Ended(s) \in FocCommand(D) /\ Focused!Ended(s).at \in {"judge", "look"}
    BY <1>2, FocEndedIs
  <1>4. FocAt(Focused!Ended(s)) BY <1>3 DEF FocAt, FocRuns
  <1> QED BY <1>1, <1>3, <1>4, FocGoes

\* An end that changes nothing but the place.
LEMMA FocOver ==
  ASSUME OneSupervisor, FocInv, NEW s \in Supervisors, Focused!Over(s),
         UNCHANGED <<clock, evidence, paper, faults, starts>>
  PROVE  FocInv'
  <1>1. FocStore' BY DEF Focused!Over, FocInv, FocStore
  <1> QED BY <1>1, FocEnded DEF Focused!Over

\* A cell that is written while its block is free.
LEMMA FocWrite ==
  ASSUME OneSupervisor, FocInv, NEW s \in Supervisors, NEW n \in Focused!Papers, NEW x,
    Focused!Write(s, n, x),
         UNCHANGED <<clock, evidence, paper, lease, faults, starts>>,
         \A d : d.at = "payload" /\ d.block = sup[s].block /\ d.cmd = sup[s].cmd /\ d.out = n
                /\ d.doc = x => FocHand(d)
  PROVE  FocInv'
  <1>1. PICK D : FocHas(D) BY DEF FocInv
  <1> DEFINE d == [sup[s] EXCEPT !.at = "payload", !.out = n, !.doc = x]
             E == D \cup {x}
  <1>2. sup[s] \in FocCommand(D) BY <1>1 DEF FocHas
  <1>3. d \in FocCommand(E) /\ d.at = "payload" /\ d.block = sup[s].block /\ d.cmd = sup[s].cmd
        /\ d.out = n /\ d.doc = x
    BY <1>2 DEF FocCommand, FocAts
  <1>4. FocHas(E) BY <1>1 DEF FocHas, FocCommand
  <1>5. sup' = [sup EXCEPT ![s] = d] BY DEF Focused!Write
  <1>6. FocAt(d) BY <1>3 DEF FocAt, FocRuns
  <1>7. FocStore' BY DEF FocInv, FocStore
  <1> HIDE DEF d, E
  <1> QED BY <1>3, <1>4, <1>5, <1>6, <1>7, FocGoes

\* A termination is taken in hand.
LEMMA FocTerminates ==
  ASSUME OneSupervisor, FocInv, NEW s \in Supervisors, NEW r \in Focused!Reasons,
    Focused!Terminate(s, r),
         UNCHANGED <<evidence, paper>>, FocStore', sup[s].cmd = "run"
  PROVE  FocInv'
  <1>1. PICK D : FocHas(D) BY DEF FocInv
  <1> DEFINE x == [reason |-> r]
             d == [sup[s] EXCEPT !.at = "term", !.doc = x]
             E == D \cup {x}
  <1>2. sup[s] \in FocCommand(D) BY <1>1 DEF FocHas
  <1>0. x.reason = r OBVIOUS
  <1>5. sup' = [sup EXCEPT ![s] = d] BY DEF Focused!Terminate
  <1> HIDE DEF x
  <1>3. d \in FocCommand(E) /\ d.at = "term" /\ d.cmd = "run" /\ d.doc = x
    BY <1>2 DEF FocCommand, FocAts
  <1>4. FocHas(E) BY <1>1 DEF FocHas, FocCommand
  <1>6. FocAt(d) BY <1>0, <1>3 DEF FocAt, FocRuns
  <1> HIDE DEF d, E
  <1> QED BY <1>3, <1>4, <1>5, <1>6, FocGoes

\* A supervisor that looks at what is there keeps the invariant.
LEMMA FocLook == ASSUME OneSupervisor, FocInv, NEW s \in Supervisors, Focused!Look(s) PROVE FocInv'
  <1>1. FocStore' /\ UNCHANGED <<evidence, paper>> BY DEF Focused!Look, FocInv, FocStore
  <1>2. PICK D : FocHas(D) BY DEF FocInv
  <1>3. sup[s] \in FocCommand(D) BY <1>2 DEF FocHas
  <1>4. ASSUME NEW a \in {"closed", "check", "lease", "term"}, Focused!Goto(s, a),
               a = "check" => sup[s].cmd = "run",
               a = "lease" => sup[s].cmd = "seal",
               a = "term" => sup[s].cmd \in Focused!Reasons
        PROVE  FocInv'
    <2>1. \A d : d.at = a /\ d.cmd = sup[s].cmd => FocAt(d)
      BY <1>4 DEF FocAt, FocRuns, Focused!Reasons
    <2>2. a \in FocAts BY DEF FocAts
    <2> QED BY <1>1, <1>4, <2>1, <2>2, FocGoto
  <1>5. ASSUME NEW b \in Focused!Blocks, b = sup[s].block, Focused!Disposed(s, b),
               Focused!SealStands(b) \/ (Focused!Done(<<"term", b>>) /\ Focused!TermStands(b))
        PROVE  FocInv'
    <2>1. ASSUME NEW d \in FocCommand(D), sup' = [sup EXCEPT ![s] = d], d.at \in {"look", "analyze"}
          PROVE  FocInv'
      <3>1. FocAt(d) BY <2>1 DEF FocAt, FocRuns
      <3> QED BY <1>1, <1>2, <2>1, <3>1, FocGoes
    <2>2. CASE Focused!SealStands(b) /\ b = Focused!B2
      <3> DEFINE d == [sup[s] EXCEPT !.at = "analyze"]
      <3>1. d \in FocCommand(D) /\ d.at = "analyze" BY <1>3 DEF FocCommand, FocAts
      <3>2. sup' = [sup EXCEPT ![s] = d] BY <1>5, <2>2 DEF Focused!Disposed
      <3> HIDE DEF d
      <3> QED BY <2>1, <3>1, <3>2
    <2>3. CASE Focused!SealStands(b) /\ b # Focused!B2
      <3> DEFINE d == [sup[s] EXCEPT !.block = b + 1, !.cmd = Focused!First(b + 1)]
      <3>0. b + 1 \in Focused!Blocks
            /\ Focused!First(b + 1) \in Focused!Reasons \cup {"run", "seal", "none"}
        BY <2>3, FocNames DEF Focused!First, Focused!Reasons, Focused!B2
      <3>a. CASE sup[s].at = "look"
        <4>1. d \in FocCommand(D) /\ d.at = "look" BY <1>3, <3>0, <3>a DEF FocCommand
        <4>2. sup' = [sup EXCEPT ![s] = d] BY <1>5, <2>3 DEF Focused!Disposed
        <4> HIDE DEF d
        <4> QED BY <2>1, <4>1, <4>2
      <3> QED BY <3>a DEF Focused!Look
    <2>4. CASE ~Focused!SealStands(b)
      <3> DEFINE f == IF b = Focused!B1b /\ paper[<<"term", b>>].doc.reason # "instrument_failure"
                      THEN paper[<<"term", b>>].doc.reason ELSE None
                 d == [sup[s] EXCEPT !.at = "analyze", !.fallback = f]
      <3>1. paper[<<"term", b>>].doc.reason \in Focused!Reasons
        BY <1>5, <2>4 DEF FocInv, FocBlocks, TermDoc, Focused!Done, Focused!Exists
      <3>2. f \in FocFallbacks BY <3>1 DEF FocFallbacks
      <3> HIDE DEF f
      <3>3. d \in FocCommand(D) /\ d.at = "analyze" BY <1>3, <3>2 DEF FocCommand, FocAts
      <3>4. sup' = [sup EXCEPT ![s] = d] BY <1>5, <2>4 DEF Focused!Disposed, f
      <3> HIDE DEF d
      <3> QED BY <2>1, <3>3, <3>4
    <2> QED BY <2>2, <2>3, <2>4
  <1> DEFINE b == sup[s].block
  <1>6. b \in Focused!Blocks BY <1>3 DEF FocCommand
  <1>7. \/ \E a \in {"closed", "check", "lease", "term"} :
             /\ Focused!Goto(s, a) /\ (a = "check" => sup[s].cmd = "run")
             /\ (a = "lease" => sup[s].cmd = "seal")
             /\ (a = "term" => sup[s].cmd \notin {"none", "run", "seal"})
        \/ Focused!SealStands(b) /\ Focused!Disposed(s, b)
        \/ Focused!Done(<<"term", b>>) /\ Focused!TermStands(b) /\ Focused!Disposed(s, b)
    BY DEF Focused!Look, Focused!Done
  <1>8. sup[s].cmd \notin {"none", "run", "seal"} => sup[s].cmd \in Focused!Reasons
    BY <1>3 DEF FocCommand
  <1> QED BY <1>4, <1>5, <1>6, <1>7, <1>8

\* So does one that checks whether its block may be run.
LEMMA FocCheck == ASSUME OneSupervisor, FocInv, NEW s \in Supervisors, Focused!Check(s)
  PROVE FocInv'
  <1>1. CASE Focused!MayRun(sup[s].block)
    <2>1. Focused!Goto(s, "lease") /\ FocStore' /\ UNCHANGED <<evidence, paper>>
      BY <1>1 DEF Focused!Check, FocInv, FocStore
    <2>2. sup[s].cmd = "run" BY DEF Focused!Check, FocInv, FocWho, FocAt
    <2>3. Free(sup[s].block) BY <1>1 DEF Focused!MayRun, Free
    <2>4. \A d : d.at = "lease" /\ d.cmd = sup[s].cmd /\ d.block = sup[s].block => FocAt(d)
      BY <2>2, <2>3 DEF FocAt, FocRuns
    <2> QED BY <2>1, <2>4, FocGoto DEF FocAts
  <1>2. CASE ~Focused!MayRun(sup[s].block) BY <1>2, FocOver DEF Focused!Check
  <1> QED BY <1>1, <1>2

\* One that takes or finds the lease.
LEMMA FocLease == ASSUME OneSupervisor, FocInv, NEW s \in Supervisors, Focused!Lease(s)
  PROVE FocInv'
  <1>1. CASE lease = None
    <2>1. Focused!Goto(s, "environment") /\ FocStore' /\ UNCHANGED <<evidence, paper>>
      BY <1>1 DEF Focused!Lease, FocInv, FocStore
    <2>2. /\ sup[s].cmd \in {"run", "seal"}
          /\ sup[s].cmd = "run" => Free(sup[s].block)
      BY DEF Focused!Lease, FocInv, FocWho, FocAt
    <2>4. \A d : d.at = "environment" /\ d.cmd = sup[s].cmd /\ d.block = sup[s].block => FocAt(d)
      BY <2>2 DEF FocAt, FocRuns
    <2> QED BY <2>1, <2>4, FocGoto DEF FocAts
  <1>2. CASE lease # None BY <1>2, FocOver DEF Focused!Lease
  <1> QED BY <1>1, <1>2

\* One that looks at the environment.
LEMMA FocEnvironment ==
  ASSUME OneSupervisor, FocInv, NEW s \in Supervisors, Focused!Environment(s) PROVE FocInv'
  <1>1. CASE Focused!Over(s) BY <1>1, FocOver DEF Focused!Environment
  <1>2. CASE sup[s].at # "post" /\ sup[s].cmd # "seal" /\ UNCHANGED lease /\ Focused!Goto(s, "mark")
    <2>1. FocStore' /\ UNCHANGED <<evidence, paper>>
      BY <1>2 DEF Focused!Environment, Focused!Goto, FocInv, FocStore
    <2>2. sup[s].cmd = "run" /\ Free(sup[s].block)
      BY <1>2 DEF Focused!Environment, FocInv, FocWho, FocAt
    <2>4. \A d : d.at = "mark" /\ d.cmd = sup[s].cmd /\ d.block = sup[s].block => FocAt(d)
      BY <2>2 DEF FocAt, FocRuns
    <2> QED BY <1>2, <2>1, <2>4, FocGoto DEF FocAts, FocRuns
  <1>3. CASE UNCHANGED lease /\ Focused!Goto(s, "seal")
    <2>1. FocStore' /\ UNCHANGED <<evidence, paper>>
      BY <1>3 DEF Focused!Environment, FocInv, FocStore
    <2>4. \A d : d.at = "seal" => FocAt(d)
      BY DEF FocAt, FocRuns
    <2> QED BY <1>3, <2>1, <2>4, FocGoto DEF FocAts
  <1> QED BY <1>1, <1>2, <1>3 DEF Focused!Environment

\* One that marks a start.
LEMMA FocMark == ASSUME OneSupervisor, FocInv, NEW s \in Supervisors, Focused!Mark(s) PROVE FocInv'
  <1>1. sup[s].cmd = "run" /\ Free(sup[s].block)
    BY DEF Focused!Mark, FocInv, FocWho, FocAt, FocRuns
  <1>2. CASE Focused!Goto(s, "cell") /\ UNCHANGED lease
    <2>1. FocStore' /\ UNCHANGED <<evidence, paper>>
      BY <1>2 DEF Focused!Mark, FocInv, FocStore
    <2>4. \A d : d.at = "cell" /\ d.cmd = sup[s].cmd /\ d.block = sup[s].block => FocAt(d)
      BY <1>1 DEF FocAt, FocRuns
    <2> QED BY <1>2, <2>1, <2>4, FocGoto DEF FocAts, FocRuns
  <1>3. CASE Focused!Over(s) BY <1>3, FocOver DEF Focused!Mark
  <1>4. CASE Focused!Write(s, <<"start", sup[s].block>>, None) /\ UNCHANGED lease
    <2>1. sup[s].block \in Focused!Blocks
      <3>1. PICK D : FocHas(D) BY DEF FocInv
      <3> QED BY <3>1 DEF FocHas, FocCommand
    <2>2. <<"start", sup[s].block>> \in Focused!Papers
          /\ <<"start", sup[s].block>> \notin {Focused!Analysis, Focused!Report}
      BY <2>1, FocNames
    <2>3. \A d : d.at = "payload" /\ d.block = sup[s].block /\ d.cmd = sup[s].cmd
                 /\ d.out = <<"start", sup[s].block>> /\ d.doc = None => FocHand(d)
      BY <1>1, <2>2 DEF FocHand, Free
    <2>4. UNCHANGED <<clock, evidence, paper, lease, faults, starts>>
      BY <1>4 DEF Focused!Mark
    <2> QED BY <1>4, <2>2, <2>3, <2>4, FocWrite
  <1> QED BY <1>2, <1>3, <1>4 DEF Focused!Mark

\* One that comes to its next cell.
LEMMA FocCell == ASSUME OneSupervisor, FocInv, NEW s \in Supervisors, Focused!Cell(s) PROVE FocInv'
  <1>1. sup[s].cmd = "run" /\ Free(sup[s].block)
    BY DEF Focused!Cell, FocInv, FocWho, FocAt, FocRuns
  <1>2. FocStore' /\ UNCHANGED <<evidence, paper>>
    BY DEF Focused!Cell, FocInv, FocStore
  <1>3. PICK D : FocHas(D) BY DEF FocInv
  <1>4. sup[s] \in FocCommand(D) BY <1>3 DEF FocHas
  <1>5. CASE Focused!Goto(s, "post")
    <2>4. \A d : d.at = "post" => FocAt(d) BY DEF FocAt, FocRuns
    <2> QED BY <1>5, <1>2, <2>4, FocGoto DEF FocAts
  <1>6. CASE Focused!Terminate(s, "deadline")
    BY <1>1, <1>2, <1>6, FocTerminates DEF Focused!Reasons
  <1>7. CASE sup[s].cell <= BlockCells /\ Focused!Goto(s, "execute")
    <2>1. sup[s].cell \in Focused!Ids BY <1>4, <1>7, FocConstants DEF FocCommand, Focused!Ids
    <2>4. \A d : d.at = "execute" /\ d.cmd = sup[s].cmd /\ d.block = sup[s].block
                 /\ d.cell = sup[s].cell => FocAt(d)
      BY <1>1, <2>1 DEF FocAt, FocRuns
    <2> QED BY <1>7, <1>2, <2>4, FocGoto DEF FocAts, FocRuns
  <1>8. sup[s].cell > BlockCells \/ sup[s].cell <= BlockCells BY <1>4, FocConstants DEF FocCommand
  <1> QED BY <1>5, <1>6, <1>7, <1>8 DEF Focused!Cell

\* A complete block has no ground for a termination.
LEMMA FocApart == ASSUME NEW b \in Focused!Blocks, NEW d, TermDoc(b, d), Focused!Whole(b)
  PROVE FALSE
  <1>1. Focused!Missing(b) = {} /\ Focused!Invalid(b) = {} BY DEF Focused!Whole
  <1>2. Cardinality(Focused!Invalid(b)) = 0 BY <1>1, FS_EmptySet
  <1>3. Focused!Instrument(b) = {} BY <1>1 DEF Focused!Invalid, Focused!Instrument
  <1>4. Focused!Ids # {} BY FocConstants DEF Focused!Ids
  <1> QED BY <1>1, <1>2, <1>3, <1>4, FocSize DEF TermDoc, Focused!Grounds

\* One that seals.
LEMMA FocSeal == ASSUME OneSupervisor, FocInv, NEW s \in Supervisors, Focused!Seal(s) PROVE FocInv'
  <1> DEFINE b == sup[s].block
             n == <<"seal", b>>
             x == [attempts |-> Focused!Attempts(b), clock |-> clock]
  <1>1. CASE Focused!Over(s) BY <1>1, FocOver DEF Focused!Seal
  <1>2. CASE /\ ~Focused!Exists(n) /\ Focused!SealSequence(b) /\ ~Focused!Closed
                  /\ Focused!Sealable(b)
             /\ Focused!Write(s, n, x) /\ UNCHANGED lease
    <2>1. b \in Focused!Blocks
      <3>1. PICK D : FocHas(D) BY DEF FocInv
      <3> QED BY <3>1 DEF FocHas, FocCommand
    <2>2. n \in Focused!Papers /\ n \notin {Focused!Analysis, Focused!Report} BY <2>1, FocNames
    <2>3. SealDoc(b, x) /\ Focused!PriorSeals(b)
      BY <1>2 DEF SealDoc, Focused!Sealable, Focused!SealSequence
    <2>4. ~Focused!Exists(<<"term", b>>)
      BY <1>2, <2>1, FocApart DEF FocInv, FocBlocks, Focused!Sealable
    <2>5. \A d : d.at = "payload" /\ d.out = n /\ d.doc = x => FocHand(d)
      BY <1>2, <2>2, <2>3, <2>4 DEF FocHand
    <2>6. UNCHANGED <<clock, evidence, paper, lease, faults, starts>> BY <1>2 DEF Focused!Seal
    <2> HIDE DEF n, x, b
    <2> QED BY <1>2, <2>2, <2>5, <2>6, FocWrite
  <1> QED BY <1>1, <1>2 DEF Focused!Seal

\* One that terminates a block.
LEMMA FocTerm == ASSUME OneSupervisor, FocInv, NEW s \in Supervisors, Focused!Term(s) PROVE FocInv'
  <1> DEFINE b == sup[s].block
             n == <<"term", b>>
             r == IF sup[s].cmd = "run" THEN sup[s].doc.reason ELSE sup[s].cmd
             x == [attempts |-> Focused!Attempts(b), reason |-> r]
  <1>1. CASE Focused!Over(s) BY <1>1, FocOver DEF Focused!Term
  <1>2. CASE Focused!MayTerminate(b, r) /\ Focused!Write(s, n, x) /\ UNCHANGED lease
    <2>1. b \in Focused!Blocks
      <3>1. PICK D : FocHas(D) BY DEF FocInv
      <3> QED BY <3>1 DEF FocHas, FocCommand
    <2>2. n \in Focused!Papers /\ n \notin {Focused!Analysis, Focused!Report} BY <2>1, FocNames
    <2>3. r \in Focused!Reasons BY DEF Focused!Term, FocInv, FocWho, FocAt
    <2> HIDE DEF r
    <2>4. /\ TermDoc(b, x) /\ Focused!PriorSeals(b) /\ ~Focused!Exists(<<"seal", b>>)
               /\ ~Focused!Closed
      BY <1>2, <2>3 DEF TermDoc, Focused!MayTerminate
    <2>5. \A d : d.at = "payload" /\ d.out = n /\ d.doc = x => FocHand(d)
      BY <2>2, <2>4 DEF FocHand
    <2>6. UNCHANGED <<clock, evidence, paper, lease, faults, starts>> BY <1>2 DEF Focused!Term
    <2> HIDE DEF n, x, b
    <2> QED BY <1>2, <2>2, <2>5, <2>6, FocWrite
  <1> QED BY <1>1, <1>2 DEF Focused!Term

\* What stays of a block when the evidence and its papers do.
LEMMA FocBlockSame ==
  ASSUME UNCHANGED evidence
  PROVE  /\ \A b \in Focused!Blocks : /\ Focused!Missing(b)' = Focused!Missing(b)
                                           /\ Focused!Invalid(b)' = Focused!Invalid(b)
                             /\ Focused!Instrument(b)' = Focused!Instrument(b)
                                  /\ Focused!Attempts(b)' = Focused!Attempts(b)
                             /\ Focused!Whole(b)' = Focused!Whole(b)
  BY DEF Focused!Missing, Focused!Invalid, Focused!Instrument, Focused!Attempts, Focused!Whole

\* A cell of the block that may be run is committed.
LEMMA FocCommits ==
  ASSUME OneSupervisor, FocInv, NEW s \in Supervisors, NEW a \in FocAts,
         sup[s].cmd = "run", Free(sup[s].block), sup[s].cell \in Focused!Ids,
         NEW o \in FocCells \ {"none"}, Focused!Commit(sup[s].block, sup[s].cell, o),
           Focused!Goto(s, a),
         UNCHANGED <<clock, paper, lease, faults, starts>>,
         a \in {"execute", "attest", "second"}
  PROVE  FocInv'
  <1>1. PICK D : FocHas(D) BY DEF FocInv
  <1>2. sup[s] \in FocCommand(D) BY <1>1 DEF FocHas
  <1>4. PICK k \in Focused!Blocks : k = sup[s].block BY <1>2 DEF FocCommand
  <1>3. PICK d \in FocCommand(D) : /\ d = [sup[s] EXCEPT !.at = a] /\ d.at = a /\ d.block = k
                                  /\ d.cmd = "run" /\ d.cell \in Focused!Ids
    <2> DEFINE e == [sup[s] EXCEPT !.at = a]
    <2>1. e \in FocCommand(D) /\ e.at = a /\ e.block = k /\ e.cmd = "run" /\ e.cell \in Focused!Ids
      BY <1>2, <1>4 DEF FocCommand
    <2> QED BY <2>1
  <1>5. sup' = [sup EXCEPT ![s] = d] BY <1>3 DEF Focused!Goto
  <1>6. FocStore' BY <1>4 DEF FocInv, FocStore, Focused!Commit
  <1>7. \A b \in Focused!Blocks : b # k => evidence'[b] = evidence[b]
    BY <1>4 DEF Focused!Commit, FocInv, FocStore
  <1>8. \A b \in Focused!Blocks : b # k => /\ Focused!Missing(b)' = Focused!Missing(b)
                                                /\ Focused!Invalid(b)' = Focused!Invalid(b)
                                           /\ Focused!Instrument(b)' = Focused!Instrument(b)
                                                /\ Focused!Attempts(b)' = Focused!Attempts(b)
                                           /\ Focused!Whole(b)' = Focused!Whole(b)
    BY <1>7
    DEF Focused!Missing, Focused!Invalid, Focused!Instrument, Focused!Attempts, Focused!Whole
  <1>9. \A n : Focused!Exists(n)' = Focused!Exists(n) /\ Focused!Done(n)' = Focused!Done(n)
    BY DEF Focused!Exists, Focused!Done
  <1>10. ~Focused!Exists(<<"seal", k>>) /\ ~Focused!Exists(<<"term", k>>) /\ ~Focused!Closed
         /\ Focused!SealSequence(k)
    BY <1>4 DEF Free
  <1>11. Focused!SealStands(k) = FALSE /\ Focused!SealStands(k)' = FALSE
    BY <1>9, <1>10 DEF Focused!SealStands, Focused!Done, Focused!Exists
  <1>12. \A b \in Focused!Blocks : Focused!SealStands(b)' = Focused!SealStands(b)
    BY <1>8, <1>9, <1>11 DEF Focused!SealStands
  <1>13. \A b \in Focused!Blocks : Focused!PriorSeals(b)' = Focused!PriorSeals(b)
    BY <1>12 DEF Focused!PriorSeals
  <1>14. Focused!SealedLate' = Focused!SealedLate BY DEF Focused!SealedLate
  <1>15. \A b \in Focused!Blocks : b # k => \A r : Focused!Grounds(b, r)' = Focused!Grounds(b, r)
    BY <1>8, <1>12, <1>14, FocNames DEF Focused!Grounds
  <1>16. FocBlocks'
    <2>1. ASSUME NEW b \in Focused!Blocks, b # k
          PROVE  /\ Focused!Exists(<<"seal", b>>)' => SealDoc(b, paper[<<"seal", b>>].doc)'
                      /\ ~Focused!Exists(<<"term", b>>)'
                 /\ Focused!Exists(<<"term", b>>)' => TermDoc(b, paper[<<"term", b>>].doc)'
                 /\ Entered(b)' => Focused!PriorSeals(b)'
      BY <2>1, <1>8, <1>9, <1>13, <1>15 DEF FocInv, FocBlocks, SealDoc, TermDoc, Entered
    <2>2. /\ Focused!Exists(<<"seal", k>>)' => SealDoc(k, paper[<<"seal", k>>].doc)'
               /\ ~Focused!Exists(<<"term", k>>)'
          /\ Focused!Exists(<<"term", k>>)' => TermDoc(k, paper[<<"term", k>>].doc)'
          /\ Entered(k)' => Focused!PriorSeals(k)'
      BY <1>4, <1>9, <1>10, <1>13 DEF Focused!SealSequence
    <2>3. (Focused!Missing(Focused!B2) # Focused!Ids => ~Focused!SealedLate)'
      <3>1. CASE k = Focused!B2 BY <3>1, <1>10, <1>14 DEF Focused!SealSequence
      <3>2. CASE k # Focused!B2 BY <3>2, <1>8, <1>14, FocNames DEF FocInv, FocBlocks, Focused!Ids
      <3> QED BY <3>1, <3>2
    <2>4. \A b \in Focused!Blocks :
            /\ Focused!Exists(<<"seal", b>>)' => SealDoc(b, paper[<<"seal", b>>].doc)'
                 /\ ~Focused!Exists(<<"term", b>>)'
            /\ Focused!Exists(<<"term", b>>)' => TermDoc(b, paper[<<"term", b>>].doc)'
            /\ Entered(b)' => Focused!PriorSeals(b)'
      BY <2>1, <2>2
    <2> QED BY <2>3, <2>4 DEF FocBlocks
  <1>17. FocFinals'
    <2>1. ~Focused!Closed' BY <1>9, <1>10 DEF Focused!Closed
    <2>2. ~Focused!Exists(Focused!Report)'
      BY <1>9, <1>10
      DEF FocInv, FocFinals, Focused!AnalysisStands, Focused!Closed, Focused!Done, Focused!Exists
    <2> QED BY <2>1, <2>2 DEF FocFinals
  <1>18. Free(k)'
    BY <1>4, <1>9, <1>10, <1>13, <1>14 DEF Free, Focused!SealSequence, Focused!Closed
  <1>19. FocAt(d)'
    BY <1>3, <1>18 DEF FocAt, FocRuns, Focused!Ids
  <1>20. paper' \in [Focused!Papers -> [file : FocFiles, doc : D]] BY <1>1 DEF FocHas
  <1> QED BY <1>1, <1>3, <1>5, <1>6, <1>16, <1>17, <1>19, <1>20, FocMove

\* One that runs a cell.
LEMMA FocExecute == ASSUME OneSupervisor, FocInv, NEW s \in Supervisors, Focused!Execute(s)
  PROVE FocInv'
  <1> DEFINE b == sup[s].block
             c == sup[s].cell
  <1>1. sup[s].cmd = "run" /\ Free(b) /\ c \in Focused!Ids
    BY DEF Focused!Execute, FocInv, FocWho, FocAt, FocRuns
  <1>2. PICK D : FocHas(D) BY DEF FocInv
  <1>3. sup[s] \in FocCommand(D) BY <1>2 DEF FocHas
  <1>4. CASE (\E o \in Focused!Committed \ {"attesting", "attested"} : Focused!Commit(b, c, o))
        /\ UNCHANGED sup
    <2>1. PICK o \in Focused!Committed \ {"attesting", "attested"} : Focused!Commit(b, c, o) BY <1>4
    <2>2. Focused!Goto(s, "execute")
      <3>1. sup[s] = [sup[s] EXCEPT !.at = "execute"] BY <1>3 DEF Focused!Execute, FocCommand
      <3> QED BY <3>1, <1>2, <1>4 DEF Focused!Goto, FocHas
    <2>3. o \in FocCells \ {"none"} BY DEF FocCells, Focused!Committed, Focused!Open
    <2>4. UNCHANGED <<clock, paper, lease, faults, starts>> BY DEF Focused!Execute
    <2> QED BY <1>1, <2>1, <2>2, <2>3, <2>4, FocCommits DEF FocAts, FocRuns
  <1>5. CASE UNCHANGED evidence
    <2>1. UNCHANGED <<evidence, paper>> /\ FocStore' BY <1>5 DEF Focused!Execute, FocInv, FocStore
    <2>2. CASE sup' = [sup EXCEPT ![s] = [@ EXCEPT !.at = "cell", !.cell = c + 1]]
      <3> DEFINE d == [sup[s] EXCEPT !.at = "cell", !.cell = c + 1]
      <3>0. c + 1 \in 1 .. BlockCells + 1 BY <1>1, FocConstants DEF Focused!Ids
      <3>1. d \in FocCommand(D) /\ d.at = "cell" /\ d.cmd = "run" /\ d.block = b
        BY <1>1, <1>3, <3>0 DEF FocCommand, FocAts, FocRuns
      <3>2. sup' = [sup EXCEPT ![s] = d] BY <2>2
      <3>3. FocAt(d) BY <3>1, <1>1 DEF FocAt, FocRuns
      <3> HIDE DEF d
      <3> QED BY <2>1, <1>2, <3>1, <3>2, <3>3, FocGoes
    <2>3. CASE Focused!Goto(s, "attest")
      <3>1. \A d : d.at = "attest" /\ d.cmd = sup[s].cmd /\ d.block = b /\ d.cell = c => FocAt(d)
        BY <1>1 DEF FocAt, FocRuns
      <3> QED BY <2>1, <2>3, <3>1, FocGoto DEF FocAts, FocRuns
    <2>4. CASE Focused!Terminate(s,
          IF Focused!Instrument(b) # {} THEN "instrument_failure" ELSE "environment_failure")
      BY <1>1, <2>1, <2>4, FocTerminates DEF Focused!Reasons
    <2> QED BY <1>4, <1>5, <2>2, <2>3, <2>4 DEF Focused!Execute
  <1> QED BY <1>4, <1>5 DEF Focused!Execute

\* One that attests a cell.
LEMMA FocAttest == ASSUME OneSupervisor, FocInv, NEW s \in Supervisors, Focused!Attest(s)
  PROVE FocInv'
  <1> DEFINE b == sup[s].block
             c == sup[s].cell
  <1>1. sup[s].cmd = "run" /\ Free(b) /\ c \in Focused!Ids
    BY DEF Focused!Attest, FocInv, FocWho, FocAt, FocRuns
  <1>2. UNCHANGED <<clock, paper, faults, starts>> BY DEF Focused!Attest
  <1>3. CASE Focused!Over(s) /\ UNCHANGED evidence BY <1>2, <1>3, FocOver
  <1>4. CASE Focused!Commit(b, c, "attesting") /\ Focused!Goto(s, "second") /\ UNCHANGED lease
    BY <1>1, <1>2, <1>4, FocCommits DEF FocAts, FocRuns, FocCells, Focused!Committed, Focused!Open
  <1>5. ASSUME NEW o \in {"valid", "environment", "instrument"}, Focused!Commit(b, c, o),
               Focused!Goto(s, "execute"), UNCHANGED lease
        PROVE  FocInv'
    <2>1. o \in FocCells \ {"none"} BY DEF FocCells, Focused!Committed, Focused!Open
    <2> QED BY <1>1, <1>2, <1>5, <2>1, FocCommits DEF FocAts, FocRuns
  <1> QED BY <1>3, <1>4, <1>5 DEF Focused!Attest

\* One that prepares the second run of a cell.
LEMMA FocSecond == ASSUME OneSupervisor, FocInv, NEW s \in Supervisors, Focused!Second(s)
  PROVE FocInv'
  <1>1. sup[s].cmd = "run" /\ Free(sup[s].block) /\ sup[s].cell \in Focused!Ids
    BY DEF Focused!Second, FocInv, FocWho, FocAt, FocRuns
  <1> QED
    BY <1>1, FocCommits
    DEF Focused!Second, FocAts, FocRuns, FocCells, Focused!Committed, Focused!Open

\* A paper of a block is written or marked, before there is an analysis.
LEMMA FocPaper ==
  ASSUME FocBlocks, FocFinals, ~Focused!Closed, UNCHANGED evidence, NEW D,
         paper \in [Focused!Papers -> [file : FocFiles, doc : D]],
           NEW n \in Focused!Papers \ {Focused!Analysis, Focused!Report},
         NEW x \in [file : {"torn", "done"}, doc : D], paper' = [paper EXCEPT ![n] = x],
         \/ Focused!Exists(n) /\ x.doc = paper[n].doc /\ x.file = "done"
         \/ /\ ~Focused!Exists(n) /\ x.file = "torn"
            /\ \A b \in Focused!Blocks :
                 /\ n = <<"seal", b>> => SealDoc(b, x.doc) /\ Focused!PriorSeals(b)
                      /\ ~Focused!Exists(<<"term", b>>)
                 /\ n = <<"term", b>> => TermDoc(b, x.doc) /\ Focused!PriorSeals(b)
                      /\ ~Focused!Exists(<<"seal", b>>)
  PROVE  /\ FocBlocks' /\ FocFinals' /\ ~Focused!Closed'
         /\ n[1] = "start" => \A b \in Focused!Blocks : Free(b) => Free(b)'
  <1>1. \A m \in Focused!Papers : m # n => paper'[m] = paper[m] OBVIOUS
  <1>2. paper'[n] = x OBVIOUS
  <1>3. \A m \in Focused!Papers : /\ Focused!Exists(m)' <=> Focused!Exists(m) \/ m = n
                                  /\ Focused!Done(m) => Focused!Done(m)'
                                  /\ Focused!Exists(m) => paper'[m].doc = paper[m].doc
    BY <1>1, <1>2 DEF Focused!Exists, Focused!Done
  <1>4. \A b \in Focused!Blocks : /\ Focused!Missing(b)' = Focused!Missing(b)
                                       /\ Focused!Invalid(b)' = Focused!Invalid(b)
                                  /\ Focused!Instrument(b)' = Focused!Instrument(b)
                                       /\ Focused!Attempts(b)' = Focused!Attempts(b)
                                  /\ Focused!Whole(b)' = Focused!Whole(b)
    BY FocBlockSame
  <1>5. \A b \in Focused!Blocks : Focused!SealStands(b) => Focused!SealStands(b)'
    BY <1>3, <1>4, FocNames DEF Focused!SealStands, Focused!Done, Focused!Exists
  <1>6. \A b \in Focused!Blocks : Focused!PriorSeals(b) => Focused!PriorSeals(b)'
    BY <1>5 DEF Focused!PriorSeals
  <1>7. Focused!SealStands(Focused!B1b) => Focused!SealedLate' = Focused!SealedLate
    BY <1>3, FocNames DEF Focused!SealStands, Focused!SealedLate, Focused!Done, Focused!Exists
  <1>8. \A b \in Focused!Blocks : \A r : Focused!Grounds(b, r) => Focused!Grounds(b, r)'
    BY <1>4, <1>5, <1>7, FocNames DEF Focused!Grounds
  <1>10. Focused!Missing(Focused!B2)' # Focused!Ids => ~Focused!SealedLate'
    <2>1. Focused!B1b \in Focused!Blocks /\ Focused!B1b < Focused!B2
      BY DEF Focused!B1b, Focused!B2, Focused!Blocks, Focused!B1a
    <2>2. Focused!Missing(Focused!B2) # Focused!Ids => Focused!SealStands(Focused!B1b)
      BY <2>1, FocNames DEF FocBlocks, Entered, Focused!PriorSeals
    <2> QED BY <2>2, <1>4, <1>7, FocNames DEF FocBlocks
  <1>11. ASSUME NEW b \in Focused!Blocks
         PROVE  /\ Focused!Exists(<<"seal", b>>)' => SealDoc(b, paper[<<"seal", b>>].doc)'
                     /\ ~Focused!Exists(<<"term", b>>)'
                /\ Focused!Exists(<<"term", b>>)' => TermDoc(b, paper[<<"term", b>>].doc)'
                /\ Entered(b)' => Focused!PriorSeals(b)'
    <2>1. <<"seal", b>> \in Focused!Papers /\ <<"term", b>> \in Focused!Papers
          /\ <<"seal", b>> # <<"term", b>>
      BY FocNames
    <2>2. CASE n \notin {<<"seal", b>>, <<"term", b>>}
      <3>1. /\ (Focused!Exists(<<"seal", b>>)' <=> Focused!Exists(<<"seal", b>>))
                 /\ (Focused!Exists(<<"term", b>>)' <=> Focused!Exists(<<"term", b>>))
            /\ paper'[<<"seal", b>>] = paper[<<"seal", b>>]
                 /\ paper'[<<"term", b>>] = paper[<<"term", b>>]
        BY <2>1, <2>2, <1>1, <1>3
      <3>2. Focused!Exists(<<"seal", b>>) => SealDoc(b, paper[<<"seal", b>>].doc)'
        <4>1. Focused!Done(<<"start", b>>) => Focused!Done(<<"start", b>>)' BY <1>3, FocNames
        <4>2. Focused!Exists(<<"seal", b>>) =>
                /\ Focused!Whole(b) /\ paper[<<"seal", b>>].doc.attempts = Focused!Attempts(b)
                /\ Focused!Done(<<"start", b>>)
          BY DEF FocBlocks, SealDoc
        <4> QED BY <4>1, <4>2, <3>1, <1>4 DEF SealDoc
      <3>3. Focused!Exists(<<"term", b>>) => TermDoc(b, paper[<<"term", b>>].doc)'
        BY <3>1, <1>4, <1>8 DEF FocBlocks, TermDoc
      <3> QED BY <3>1, <3>2, <3>3, <1>4, <1>6 DEF FocBlocks, Entered
    <2>3. CASE n = <<"seal", b>>
      <3>1. /\ Focused!Exists(<<"seal", b>>)'
                 /\ (Focused!Exists(<<"term", b>>)' <=> Focused!Exists(<<"term", b>>))
            /\ paper'[<<"seal", b>>].doc = x.doc
        BY <2>1, <2>3, <1>2, <1>3
      <3>2. SealDoc(b, x.doc) /\ Focused!PriorSeals(b) /\ ~Focused!Exists(<<"term", b>>)
        BY <2>3 DEF FocBlocks, Entered
      <3>3. SealDoc(b, x.doc)' BY <3>2, <1>3, <1>4, FocNames DEF SealDoc
      <3> QED BY <3>1, <3>2, <3>3, <1>6
    <2>4. CASE n = <<"term", b>>
      <3>1. /\ Focused!Exists(<<"term", b>>)'
                 /\ (Focused!Exists(<<"seal", b>>)' <=> Focused!Exists(<<"seal", b>>))
            /\ paper'[<<"term", b>>].doc = x.doc
        BY <2>1, <2>4, <1>2, <1>3
      <3>2. TermDoc(b, x.doc) /\ Focused!PriorSeals(b) /\ ~Focused!Exists(<<"seal", b>>)
        BY <2>4 DEF FocBlocks, Entered
      <3>3. TermDoc(b, x.doc)' BY <3>2, <1>4, <1>8 DEF TermDoc
      <3> QED BY <3>1, <3>2, <3>3, <1>6
    <2> QED BY <2>2, <2>3, <2>4
  <1>12. FocBlocks' BY <1>10, <1>11 DEF FocBlocks
  <1>13. ~Focused!Closed' /\ ~Focused!Exists(Focused!Report)'
    BY <1>3, FocNames
    DEF Focused!Closed, FocFinals, Focused!AnalysisStands, Focused!Done, Focused!Exists
  <1>14. FocFinals' BY <1>13 DEF FocFinals
  <1>15. ASSUME n[1] = "start", NEW b \in Focused!Blocks, Free(b) PROVE Free(b)'
    <2>1. n # <<"seal", b>> /\ n # <<"term", b>> BY <1>15
    <2>2. ~Focused!Exists(<<"seal", b>>)' /\ ~Focused!Exists(<<"term", b>>)'
      BY <2>1, <1>3, <1>15, FocNames DEF Free
    <2>3. Focused!SealedLate' = Focused!SealedLate BY <1>1, <1>15, FocNames DEF Focused!SealedLate
    <2> QED BY <2>2, <2>3, <1>6, <1>13, <1>15 DEF Free, Focused!SealSequence
  <1> QED BY <1>12, <1>13, <1>14, <1>15

\* The analysis or the report is written or marked.
LEMMA FocFinalSame ==
  ASSUME UNCHANGED evidence,
    \A n \in Focused!Papers \ {Focused!Analysis, Focused!Report} : paper'[n] = paper[n]
  PROVE  /\ FocBlocks => FocBlocks'
         /\ \A d : FoundDoc(d) => FoundDoc(d)'
  <1>1. \A b \in Focused!Blocks, k \in {"start", "seal", "term"} :
          /\ paper'[<<k, b>>] = paper[<<k, b>>]
          /\ Focused!Exists(<<k, b>>)' = Focused!Exists(<<k, b>>)
               /\ Focused!Done(<<k, b>>)' = Focused!Done(<<k, b>>)
    BY FocNames DEF Focused!Exists, Focused!Done
  <1>2. \A b \in Focused!Blocks : /\ Focused!Missing(b)' = Focused!Missing(b)
                                       /\ Focused!Invalid(b)' = Focused!Invalid(b)
                                  /\ Focused!Instrument(b)' = Focused!Instrument(b)
                                       /\ Focused!Attempts(b)' = Focused!Attempts(b)
                                  /\ Focused!Whole(b)' = Focused!Whole(b)
    BY FocBlockSame
  <1>3. Focused!SealedLate' = Focused!SealedLate BY <1>1, FocNames DEF Focused!SealedLate
  <1>4. \A b \in Focused!Blocks : Focused!SealStands(b)' = Focused!SealStands(b)
    BY <1>1, <1>2 DEF Focused!SealStands
  <1>5. \A b \in Focused!Blocks : \A r : Focused!Grounds(b, r)' = Focused!Grounds(b, r)
    BY <1>2, <1>3, <1>4, FocNames DEF Focused!Grounds
  <1>6. \A b \in Focused!Blocks : Focused!PriorSeals(b)' = Focused!PriorSeals(b)
    BY <1>4 DEF Focused!PriorSeals
  <1>7. ASSUME NEW b \in Focused!Blocks, NEW d PROVE /\ SealDoc(b, d)' = SealDoc(b, d)
                                            /\ TermDoc(b, d)' = TermDoc(b, d)
    BY <1>1, <1>2, <1>5 DEF SealDoc, TermDoc
  <1>8. FocBlocks => FocBlocks'
    BY <1>1, <1>2, <1>3, <1>6, <1>7, FocNames DEF FocBlocks, Entered
  <1>9. Focused!Sealed' = Focused!Sealed /\ Focused!Terminated' = Focused!Terminated
    BY <1>1 DEF Focused!Sealed, Focused!Terminated
  <1>10. \A b \in Focused!Blocks : Focused!ReasonOf(b)' = Focused!ReasonOf(b)
         /\ Focused!TermStands(b)' = Focused!TermStands(b)
    BY <1>1, <1>2, <1>5 DEF Focused!ReasonOf, Focused!TermStands
  <1>11. Focused!Consistent' = Focused!Consistent
    BY <1>4, <1>9, <1>10 DEF Focused!Consistent, Focused!Sealed, Focused!Terminated
  <1>12. \A f : Focused!Claim(f)' = Focused!Claim(f) BY <1>9, <1>10, FocNames DEF Focused!Claim
  <1>13. \A f : Focused!Findings(f)' = Focused!Findings(f)
    BY <1>9, <1>11, <1>12 DEF Focused!Findings
  <1>14. \A d : FoundDoc(d) => FoundDoc(d)' BY <1>13 DEF FoundDoc
  <1> QED BY <1>8, <1>14

\* One that writes a paper.
LEMMA FocPayload == ASSUME OneSupervisor, FocInv, NEW s \in Supervisors, Focused!Payload(s)
  PROVE FocInv'
  <1>1. CASE Focused!Exists(sup[s].out)
    BY <1>1, FocOver DEF Focused!Payload
  <1>2. CASE ~Focused!Exists(sup[s].out)
    <2>1. PICK D : FocHas(D) BY DEF FocInv
    <2>2. sup[s] \in FocCommand(D) BY <2>1 DEF FocHas
    <2>3. PICK n \in Focused!Papers, y \in D : n = sup[s].out /\ y = sup[s].doc
      BY <2>2 DEF Focused!Payload, FocInv, FocWho, FocAt, FocHand, FocCommand
    <2>4. PICK x \in [file : {"torn", "done"}, doc : D] : x = [file |-> "torn", doc |-> y]
      BY <2>3
    <2>5. paper' = [paper EXCEPT ![n] = x] BY <1>2, <2>3, <2>4 DEF Focused!Payload
    <2>6. PICK d \in FocCommand(D) : /\ d = [sup[s] EXCEPT !.at = "marker"]
                                    /\ d.at = "marker" /\ d.out = n /\ d.cmd = sup[s].cmd
                                    /\ d.block = sup[s].block
      <3> DEFINE e == [sup[s] EXCEPT !.at = "marker"]
      <3>1. e \in FocCommand(D) /\ e.at = "marker" /\ e.out = n /\ e.cmd = sup[s].cmd
            /\ e.block = sup[s].block
        BY <2>2, <2>3 DEF FocCommand, FocAts
      <3> QED BY <3>1
    <2>7. sup' = [sup EXCEPT ![s] = d] /\ FocStore' /\ UNCHANGED evidence
      BY <1>2, <2>6 DEF Focused!Payload, Focused!Goto, FocInv, FocStore
    <2>8. paper' \in [Focused!Papers -> [file : FocFiles, doc : D]]
      BY <2>1, <2>4, <2>5 DEF FocHas, FocFiles
    <2>9. FocHand(sup[s]) BY DEF Focused!Payload, FocInv, FocWho, FocAt
    <2>10. Focused!Exists(n)' BY <2>1, <2>4, <2>5 DEF Focused!Exists, FocHas
    <2>11. CASE n \notin {Focused!Analysis, Focused!Report}
      <3>1. /\ ~Focused!Closed /\ ~Focused!Exists(n)
            /\ \A b \in Focused!Blocks :
                 /\ n = <<"seal", b>> => SealDoc(b, x.doc) /\ Focused!PriorSeals(b)
                      /\ ~Focused!Exists(<<"term", b>>)
                 /\ n = <<"term", b>> => TermDoc(b, x.doc) /\ Focused!PriorSeals(b)
                      /\ ~Focused!Exists(<<"seal", b>>)
        BY <1>2, <2>3, <2>4, <2>9, <2>11 DEF FocHand, Focused!Payload
      <3>2. /\ FocBlocks' /\ FocFinals' /\ ~Focused!Closed'
            /\ n[1] = "start" => \A b \in Focused!Blocks : Free(b) => Free(b)'
        BY <3>1, <2>1, <2>4, <2>5, <2>7, <2>11, FocPaper DEF FocInv, FocHas
      <3>3. n[1] = "start" => d.cmd = "run" /\ Free(d.block) /\ d.block \in Focused!Blocks
        BY <2>2, <2>3, <2>6, <2>9 DEF FocHand, FocCommand
      <3>4. FocAt(d)'
        BY <2>3, <2>6, <2>10, <3>2, <3>3 DEF FocAt, FocHand, FocRuns
      <3> QED BY <2>1, <2>7, <2>8, <3>2, <3>4, FocMove
    <2>12. CASE n \in {Focused!Analysis, Focused!Report}
      <3>1. \A m \in Focused!Papers \ {Focused!Analysis, Focused!Report} : paper'[m] = paper[m]
        BY <2>1, <2>5, <2>12 DEF FocHas
      <3>2. FocBlocks' /\ \A e : FoundDoc(e) => FoundDoc(e)'
        BY <2>7, <3>1, FocFinalSame DEF FocInv
      <3>3. FocFinals'
        <4>1. CASE n = Focused!Analysis
          <5>1. FoundDoc(y) /\ ~Focused!Closed /\ ~Focused!Exists(Focused!Report)
            BY <1>2, <2>3, <2>9, <4>1, FocNames
            DEF FocHand, Focused!Payload, Focused!Closed, FocInv, FocFinals, Focused!AnalysisStands,
                Focused!Done, Focused!Exists
          <5>2. FoundDoc(y)' BY <5>1, <3>2
          <5>3. paper'[Focused!Analysis].doc = y /\ paper'[Focused!Report] = paper[Focused!Report]
            BY <2>1, <2>4, <2>5, <4>1, FocNames DEF FocHas
          <5>4. ~Focused!Exists(Focused!Report)' BY <5>1, <5>3 DEF Focused!Exists
          <5> QED BY <5>2, <5>3, <5>4 DEF FocFinals
        <4>2. CASE n = Focused!Report
          <5>1. Focused!AnalysisStands /\ y = paper[Focused!Analysis].doc
            BY <2>3, <2>9, <4>2 DEF FocHand, Focused!Payload
          <5>2. Focused!Done(Focused!Analysis) /\ FoundDoc(y)
            BY <5>1
            DEF Focused!AnalysisStands, FocInv, FocFinals, Focused!Closed, Focused!Done,
                Focused!Exists
          <5>3. FoundDoc(y)' BY <5>2, <3>2
          <5>4. paper'[Focused!Report].doc = y /\ paper'[Focused!Analysis] = paper[Focused!Analysis]
            BY <2>1, <2>4, <2>5, <4>2, FocNames DEF FocHas
          <5>5. Focused!AnalysisStands'
            BY <5>1, <5>2, <5>3, <5>4 DEF Focused!AnalysisStands, FoundDoc, Focused!Done
          <5> QED BY <5>1, <5>3, <5>4, <5>5 DEF FocFinals
        <4> QED BY <2>12, <4>1, <4>2
      <3>4. FocAt(d)'
        BY <2>3, <2>6, <2>10, <2>12, FocNames
        DEF FocAt, FocHand, FocRuns, Focused!Analysis, Focused!Report
      <3> QED BY <2>1, <2>7, <2>8, <3>2, <3>3, <3>4, FocMove
    <2> QED BY <2>11, <2>12
  <1> QED BY <1>1, <1>2

\* One that marks a paper.
LEMMA FocMarker == ASSUME OneSupervisor, FocInv, NEW s \in Supervisors, Focused!Marker(s)
  PROVE FocInv'
  <1>1. PICK D : FocHas(D) BY DEF FocInv
  <1>2. sup[s] \in FocCommand(D) BY <1>1 DEF FocHas
  <1>3. FocHand(sup[s]) BY DEF Focused!Marker, FocInv, FocWho, FocAt
  <1>4. PICK n \in Focused!Papers : n = sup[s].out /\ Focused!Exists(n)
    BY <1>3 DEF Focused!Marker, FocHand
  <1>5. PICK x \in [file : {"torn", "done"}, doc : D] :
          x = [file |-> "done", doc |-> paper[n].doc]
    BY <1>1 DEF FocHas
  <1>6. paper' = [paper EXCEPT ![n] = x]
    <2>1. paper[n] \in [file : FocFiles, doc : D] BY <1>1 DEF FocHas
    <2>2. x = [paper[n] EXCEPT !.file = "done"] BY <2>1, <1>5
    <2> QED BY <2>2, <1>4 DEF Focused!Marker
  <1>7. PICK d \in FocCommand(D) :
          /\ sup' = [sup EXCEPT ![s] = d]
          /\ d.at \in {"look", "judge", "cell"}
          /\ d.at = "cell" => n[1] = "start" /\ d.cmd = sup[s].cmd /\ d.block = sup[s].block
    <2>1. CASE n[1] = "start"
      <3> DEFINE e == [sup[s] EXCEPT !.at = "cell"]
      <3>1. e \in FocCommand(D) /\ e.at = "cell" /\ e.cmd = sup[s].cmd /\ e.block = sup[s].block
        BY <1>2 DEF FocCommand, FocAts, FocRuns
      <3>2. sup' = [sup EXCEPT ![s] = e] BY <1>4, <2>1 DEF Focused!Marker, Focused!Goto
      <3> QED BY <2>1, <3>1, <3>2
    <2>2. CASE n[1] # "start"
      <3>1. sup' = [sup EXCEPT ![s] = Focused!Ended(s)]
        BY <1>4, <2>2 DEF Focused!Marker, Focused!Over
      <3>2. Focused!Ended(s) \in FocCommand(D) /\ Focused!Ended(s).at \in {"judge", "look"}
        BY <1>2, FocEndedIs
      <3> QED BY <3>1, <3>2
    <2> QED BY <2>1, <2>2
  <1>8. FocStore' /\ UNCHANGED evidence
    BY DEF Focused!Marker, Focused!Over, Focused!Goto, FocInv, FocStore
  <1>9. paper' \in [Focused!Papers -> [file : FocFiles, doc : D]]
    BY <1>1, <1>5, <1>6 DEF FocHas, FocFiles
  <1>10. CASE n \notin {Focused!Analysis, Focused!Report}
    <2>1. ~Focused!Closed BY <1>3, <1>4, <1>10 DEF FocHand
    <2>2. x.doc = paper[n].doc /\ x.file = "done" BY <1>5
    <2>3. /\ FocBlocks' /\ FocFinals' /\ ~Focused!Closed'
          /\ n[1] = "start" => \A b \in Focused!Blocks : Free(b) => Free(b)'
      BY <2>1, <2>2, <1>1, <1>4, <1>5, <1>6, <1>8, <1>10, FocPaper DEF FocInv, FocHas
    <2>4. n[1] = "start" => sup[s].cmd = "run" /\ Free(sup[s].block)
          /\ sup[s].block \in Focused!Blocks
      BY <1>2, <1>3, <1>4 DEF FocHand, FocCommand
    <2>5. FocAt(d)'
      BY <1>7, <2>3, <2>4 DEF FocAt, FocRuns
    <2> QED BY <1>1, <1>7, <1>8, <1>9, <2>3, <2>5, FocMove
  <1>11. CASE n \in {Focused!Analysis, Focused!Report}
    <2>1. \A m \in Focused!Papers \ {Focused!Analysis, Focused!Report} : paper'[m] = paper[m]
      BY <1>1, <1>6, <1>11 DEF FocHas
    <2>2. FocBlocks' /\ \A e : FoundDoc(e) => FoundDoc(e)'
      BY <1>8, <2>1, FocFinalSame DEF FocInv
    <2>3. n[1] # "start" BY <1>11 DEF Focused!Analysis, Focused!Report
    <2>4. FocAt(d)' BY <1>7, <2>3 DEF FocAt, FocRuns
    <2>a. paper'[n] = x /\ \A m \in Focused!Papers : m # n => paper'[m] = paper[m]
      BY <1>1, <1>6 DEF FocHas
    <2>b. x.doc = paper[n].doc /\ x.file = "done" /\ paper[n].file # "absent"
      BY <1>4, <1>5 DEF Focused!Exists
    <2>5. /\ paper'[Focused!Analysis].doc = paper[Focused!Analysis].doc
          /\ paper'[Focused!Report].doc = paper[Focused!Report].doc
          /\ (Focused!Exists(Focused!Analysis)' <=> Focused!Exists(Focused!Analysis))
               /\ (Focused!Exists(Focused!Report)' <=> Focused!Exists(Focused!Report))
          /\ Focused!Done(Focused!Analysis) => Focused!Done(Focused!Analysis)'
      BY <1>11, <2>a, <2>b, FocNames DEF Focused!Exists, Focused!Done
    <2>6. PICK z : z = paper[Focused!Analysis].doc OBVIOUS
    <2>7. Focused!Closed => FoundDoc(z)'
      BY <2>2, <2>6 DEF FocInv, FocFinals
    <2>8. Focused!AnalysisStands => Focused!AnalysisStands'
      <3>1. SUFFICES ASSUME Focused!AnalysisStands PROVE Focused!AnalysisStands' OBVIOUS
      <3>2. Focused!Done(Focused!Analysis) /\ Focused!Closed
        BY <3>1 DEF Focused!AnalysisStands, Focused!Closed, Focused!Done, Focused!Exists
      <3>3. Focused!Done(Focused!Analysis)' /\ paper'[Focused!Analysis].doc = z BY <3>2, <2>5, <2>6
      <3> QED BY <3>2, <3>3, <2>7 DEF Focused!AnalysisStands, FoundDoc
    <2>9. FocFinals'
      BY <2>5, <2>6, <2>7, <2>8 DEF FocInv, FocFinals, Focused!Closed
    <2> QED BY <1>1, <1>7, <1>8, <1>9, <2>2, <2>4, <2>9, FocMove
  <1> QED BY <1>10, <1>11

\* One that analyses, reports or judges.
LEMMA FocFinal == ASSUME OneSupervisor, FocInv, NEW s \in Supervisors, Focused!Final(s)
  PROVE FocInv'
  <1> DEFINE n == IF sup[s].at = "analyze" THEN Focused!Analysis ELSE Focused!Report
             x == IF n = Focused!Analysis THEN Focused!Findings(sup[s].fallback)
                   ELSE paper[Focused!Analysis].doc
  <1>1. PICK D : FocHas(D) BY DEF FocInv
  <1>2. sup[s] \in FocCommand(D) BY <1>1 DEF FocHas
  <1>3. n \in Focused!Papers /\ n \in {Focused!Analysis, Focused!Report} BY FocNames
  <1>4. UNCHANGED <<clock, evidence, paper, lease, faults, starts>> /\ FocStore'
    BY DEF Focused!Final, FocInv, FocStore
  <1>5. CASE sup' = [sup EXCEPT ![s] = [@ EXCEPT !.at = "judge", !.out = n]]
    <2> DEFINE d == [sup[s] EXCEPT !.at = "judge", !.out = n]
    <2> HIDE DEF n
    <2>1. d \in FocCommand(D) /\ d.at = "judge" BY <1>2, <1>3 DEF FocCommand, FocAts
    <2>2. sup' = [sup EXCEPT ![s] = d] BY <1>5
    <2> HIDE DEF d
    <2>3. FocAt(d) BY <2>1 DEF FocAt, FocRuns
    <2> QED BY <1>1, <1>4, <2>1, <2>2, <2>3, FocGoes
  <1>6. CASE Focused!Goto(s, "closed")
    <2>1. \A d : d.at = "closed" => FocAt(d) BY DEF FocAt, FocRuns
    <2> QED BY <1>4, <1>6, <2>1, FocGoto DEF FocAts
  <1>7. CASE x.claim # "refused" /\ (n = Focused!Report => Focused!AnalysisStands)
        /\ Focused!Write(s, n, x)
    <2>1. n = Focused!Analysis => FoundDoc(x)
      <3>1. SUFFICES ASSUME n = Focused!Analysis PROVE FoundDoc(x) OBVIOUS
      <3>2. x = Focused!Findings(sup[s].fallback) BY <3>1
      <3>3. x.fallback = sup[s].fallback BY <3>2 DEF Focused!Findings
      <3> QED BY <1>2, <1>7, <3>2, <3>3 DEF FoundDoc, FocCommand
    <2>2. n = Focused!Report => Focused!AnalysisStands /\ x = paper[Focused!Analysis].doc
      BY <1>7, FocNames
    <2>3. \A d : d.at = "payload" /\ d.out = n /\ d.doc = x => FocHand(d)
      <3> HIDE DEF x
      <3>1. n[1] # "start" /\ \A b \in Focused!Blocks : n # <<"seal", b>> /\ n # <<"term", b>>
        BY DEF Focused!Analysis, Focused!Report
      <3> HIDE DEF n
      <3> QED BY <1>3, <2>1, <2>2, <3>1 DEF FocHand
    <2> HIDE DEF n, x
    <2> QED BY <1>3, <1>4, <1>7, <2>3, FocWrite
  <1> QED BY <1>5, <1>6, <1>7 DEF Focused!Final

\* What it judges it has computed from the papers.
LEMMA FocJudge == ASSUME OneSupervisor, FocInv, NEW s \in Supervisors, Focused!Judge(s)
  PROVE FocInv'
  <1>1. FocStore' /\ UNCHANGED <<evidence, paper>> BY DEF Focused!Judge, FocInv, FocStore
  <1>2. PICK a \in {"closed", "report", "finished"} : Focused!Goto(s, a) BY DEF Focused!Judge
  <1>3. \A d : d.at = a => FocAt(d) BY DEF FocAt, FocRuns
  <1> QED BY <1>1, <1>2, <1>3, FocGoto DEF FocAts

\* One that is started.
LEMMA FocStart == ASSUME OneSupervisor, FocInv, NEW s \in Supervisors, Focused!Start(s)
  PROVE FocInv'
  <1>1. PICK D : FocHas(D) BY DEF FocInv
  <1> DEFINE E == D \cup {None}
  <1>2. FocHas(E) BY <1>1 DEF FocHas, FocCommand
  <1>3. Focused!Idle("look") \in FocCommand(E) /\ Focused!Idle("look").at = "look"
    BY FocConstants, FocNames DEF Focused!Idle, FocCommand, FocAts, FocFallbacks
  <1>4. FocAt(Focused!Idle("look")) BY <1>3 DEF FocAt, FocRuns
  <1>5. FocStore' /\ UNCHANGED <<evidence, paper>>
    BY FocConstants DEF Focused!Start, FocInv, FocStore
  <1>6. sup' = [sup EXCEPT ![s] = Focused!Idle("look")] BY DEF Focused!Start
  <1> HIDE DEF E
  <1> QED BY <1>2, <1>3, <1>4, <1>5, <1>6, FocGoes

\* One that is killed.
LEMMA FocKill == ASSUME OneSupervisor, FocInv, NEW s \in Supervisors, Focused!Kill(s) PROVE FocInv'
  <1>1. FocStore' /\ UNCHANGED <<evidence, paper>>
    BY FocConstants DEF Focused!Kill, FocInv, FocStore
  <1>2. CASE sup' = [sup EXCEPT ![s] = Focused!Ended(s)] BY <1>1, <1>2, FocEnded
  <1>3. CASE Focused!Goto(s, "closed")
    <2>1. \A d : d.at = "closed" => FocAt(d) BY DEF FocAt, FocRuns
    <2> QED BY <1>1, <1>3, <2>1, FocGoto DEF FocAts
  <1> QED BY <1>2, <1>3 DEF Focused!Kill

\* Every step keeps the invariant.
LEMMA FocStep == OneSupervisor /\ FocInv /\ [Focused!Next]_(Focused!vars) => FocInv'
  <1> SUFFICES ASSUME OneSupervisor, FocInv, [Focused!Next]_(Focused!vars) PROVE FocInv' OBVIOUS
  <1>1. ASSUME UNCHANGED <<evidence, paper, sup>>, FocStore' PROVE FocInv'
    <2>1. FocBlocks' /\ FocFinals' BY <1>1, FocSame DEF FocInv
    <2>2. PICK D : FocHas(D) BY DEF FocInv
    <2>3. FocHas(D)' BY <1>1, <2>2 DEF FocHas
    <2>4. \A d : FocAt(d) => FocAt(d)' BY <1>1, FocSame
    <2>5. FocWho' BY <1>1, <2>4 DEF FocInv, FocWho
    <2> QED BY <1>1, <2>1, <2>3, <2>5 DEF FocInv
  <1>2. CASE Focused!Tick BY <1>1, <1>2 DEF Focused!Tick, FocInv, FocStore
  <1>3. CASE Focused!ClearLease BY <1>1, <1>3 DEF Focused!ClearLease, FocInv, FocStore
  <1>4. CASE UNCHANGED Focused!vars BY <1>1, <1>4 DEF Focused!vars, FocInv, FocStore
  <1>5. ASSUME NEW s \in Supervisors,
               \/ Focused!Look(s) \/ Focused!Check(s) \/ Focused!Lease(s)
                    \/ Focused!Environment(s) \/ Focused!Mark(s) \/ Focused!Cell(s)
                         \/ Focused!Execute(s)
               \/ Focused!Attest(s) \/ Focused!Second(s) \/ Focused!Seal(s) \/ Focused!Term(s)
                    \/ Focused!Payload(s) \/ Focused!Marker(s)
               \/ Focused!Final(s) \/ Focused!Judge(s) \/ Focused!Start(s) \/ Focused!Kill(s)
        PROVE  FocInv'
    BY <1>5, FocLook, FocCheck, FocLease, FocEnvironment, FocMark, FocCell, FocExecute, FocAttest,
       FocSecond, FocSeal, FocTerm, FocPayload, FocMarker, FocFinal, FocJudge, FocStart, FocKill
  <1> QED BY <1>2, <1>3, <1>4, <1>5 DEF Focused!Next

\* What an analysis that stands rests on.
LEMMA FocAnalysis ==
  ASSUME FocInv, Focused!Closed
  PROVE  Focused!Consistent
    /\ Focused!Claim(paper[Focused!Analysis].doc.fallback) = paper[Focused!Analysis].doc.claim
  <1>1. FoundDoc(paper[Focused!Analysis].doc) BY DEF FocInv, FocFinals
  <1> QED BY <1>1 DEF FoundDoc, Focused!Findings

\* Papers that say what they may say stand.
LEMMA FocConclusions == FocInv => Focused!ConclusionsStand
  <1> SUFFICES ASSUME FocInv PROVE Focused!ConclusionsStand OBVIOUS
  <1>1. ASSUME NEW b \in Focused!Blocks, Focused!Done(<<"seal", b>>)
    PROVE Focused!SealStands(b) /\ ~Focused!Done(<<"term", b>>)
    BY <1>1 DEF FocInv, FocBlocks, SealDoc, Focused!SealStands, Focused!Done, Focused!Exists
  <1>2. ASSUME NEW b \in Focused!Blocks, Focused!Done(<<"term", b>>) PROVE Focused!TermStands(b)
    BY <1>2 DEF FocInv, FocBlocks, TermDoc, Focused!TermStands, Focused!Done, Focused!Exists
  <1>3. Focused!Done(Focused!Analysis) => Focused!AnalysisStands
    BY
    DEF FocInv, FocFinals, FoundDoc, Focused!AnalysisStands, Focused!Closed, Focused!Done,
        Focused!Exists
  <1>4. Focused!Done(Focused!Report) => paper[Focused!Report].doc = paper[Focused!Analysis].doc
    BY DEF FocInv, FocFinals, Focused!Done, Focused!Exists
  <1> QED BY <1>1, <1>2, <1>3, <1>4 DEF Focused!ConclusionsStand

\* A claim of a published analysis was earned.
LEMMA FocEarned == FocInv => Focused!ClaimEarned
  <1> SUFFICES ASSUME FocInv, Focused!Closed PROVE LET a == paper[Focused!Analysis].doc IN
          /\ a.claim = "primary" =>
               /\ \A b \in {Focused!B1a, Focused!B1b}, c \in Focused!Ids : evidence[b][c] = "valid"
               /\ Focused!SealedLate => evidence[Focused!B2] = [c \in Focused!Ids |-> "none"]
               /\ ~Focused!SealedLate => Focused!Done(<<"seal", Focused!B2>>)
                    \/ Focused!Done(<<"term", Focused!B2>>)
          /\ a.claim = "fallback" =>
               /\ \A c \in Focused!Ids : evidence[Focused!B1a][c] = "valid"
               /\ \E c \in Focused!Ids : evidence[Focused!B1b][c] # "valid"
               /\ Focused!Instrument(Focused!B1b) = {} /\ Focused!Missing(Focused!B2) = Focused!Ids
          /\ a.claim \in {"primary", "fallback", "nothing"}
    BY DEF Focused!ClaimEarned, Focused!Closed
  <1> DEFINE a == paper[Focused!Analysis].doc
  <1>1. Focused!Consistent /\ Focused!Claim(a.fallback) = a.claim BY FocAnalysis
  <1>2. a.claim # "refused" /\ a.fallback \in FocFallbacks BY DEF FocInv, FocFinals, FoundDoc
  <1> HIDE DEF a
  <1>3. \A b \in Focused!Sealed : \A c \in Focused!Ids : evidence[b][c] = "valid"
    BY <1>1
    DEF Focused!Consistent, Focused!SealStands, Focused!Whole, Focused!Missing, Focused!Invalid
  <1>4. Focused!SealedLate => Focused!Missing(Focused!B2) = Focused!Ids BY DEF FocInv, FocBlocks
  <1>5. Focused!Missing(Focused!B2) = Focused!Ids =>
        evidence[Focused!B2] = [c \in Focused!Ids |-> "none"]
    BY FocNames DEF FocInv, FocStore, Focused!Missing
  <1>6. CASE {Focused!B1a, Focused!B1b} \subseteq Focused!Sealed
    <2>1. a.claim = "primary" /\ Focused!B2 \in Focused!Sealed \cup Focused!Terminated
      BY <1>1, <1>2, <1>6 DEF Focused!Claim
    <2>2. Focused!Done(<<"seal", Focused!B2>>) \/ Focused!Done(<<"term", Focused!B2>>)
      BY <2>1 DEF Focused!Sealed, Focused!Terminated
    <2> QED BY <2>1, <2>2, <1>3, <1>4, <1>5, <1>6 DEF a
  <1>7. CASE ~({Focused!B1a, Focused!B1b} \subseteq Focused!Sealed) /\ a.fallback # None
    <2>1. /\ a.claim = "fallback" /\ Focused!B1a \in Focused!Sealed
               /\ Focused!B1b \in Focused!Terminated
          /\ Focused!ReasonOf(Focused!B1b) = a.fallback
      BY <1>1, <1>2, <1>7 DEF Focused!Claim
    <2>2. Focused!ReasonOf(Focused!B1b) \in {"deadline", "environment_failure", "B2_start_cutoff"}
      BY <1>2, <1>7, <2>1 DEF FocFallbacks, Focused!Reasons
    <2>3. Focused!Grounds(Focused!B1b, Focused!ReasonOf(Focused!B1b))
      BY <1>1, <2>1 DEF Focused!Consistent, Focused!TermStands, Focused!ReasonOf
    <2>4. \/ Focused!Missing(Focused!B1b) # {} /\ Focused!Invalid(Focused!B1b) = {}
          \/ Cardinality(Focused!Invalid(Focused!B1b)) = 1 /\ Focused!Instrument(Focused!B1b) = {}
      BY <2>2, <2>3, FocSize DEF Focused!Grounds, Focused!B1b, Focused!B2
    <2>5. Focused!Instrument(Focused!B1b) = {} BY <2>4 DEF Focused!Invalid, Focused!Instrument
    <2>6. \E c \in Focused!Ids : evidence[Focused!B1b][c] # "valid"
      <3>1. Cardinality({}) = 0 BY FS_EmptySet
      <3>2. Focused!Missing(Focused!B1b) # {} \/ Focused!Invalid(Focused!B1b) # {} BY <2>4, <3>1
      <3> QED BY <3>2 DEF Focused!Missing, Focused!Invalid
    <2>7. Focused!Missing(Focused!B2) = Focused!Ids
      <3>1. SUFFICES ASSUME Focused!Missing(Focused!B2) # Focused!Ids PROVE FALSE OBVIOUS
      <3>2. Focused!B1b \in Focused!Blocks /\ Focused!B1b < Focused!B2
            /\ Focused!B2 \in Focused!Blocks
        BY DEF Focused!B1a, Focused!B1b, Focused!B2, Focused!Blocks
      <3>3. Focused!SealStands(Focused!B1b)
        BY <3>1, <3>2 DEF FocInv, FocBlocks, Entered, Focused!PriorSeals
      <3>4. Focused!B1b \in Focused!Sealed BY <3>2, <3>3 DEF Focused!Sealed, Focused!SealStands
      <3> QED BY <3>4, <2>1, <1>7
    <2> QED BY <2>1, <2>5, <2>6, <2>7, <1>3 DEF a
  <1>8. CASE ~({Focused!B1a, Focused!B1b} \subseteq Focused!Sealed) /\ a.fallback = None
    BY <1>1, <1>2, <1>8 DEF Focused!Claim, a
  <1> QED BY <1>6, <1>7, <1>8

\* The types are those the runs check.
LEMMA FocTypes == FocInv => Focused!TypeOK
  <1> SUFFICES ASSUME FocInv PROVE Focused!TypeOK OBVIOUS
  <1>1. PICK D : FocHas(D) BY DEF FocInv
  <1>2. \A n \in Focused!Papers : paper[n].file \in {"absent", "torn", "done"}
    BY <1>1 DEF FocHas, FocFiles
  <1>3. DOMAIN sup = Supervisors BY <1>1 DEF FocHas
  <1>4. ASSUME NEW s \in Supervisors
        PROVE  /\ sup[s].at \in FocAts
               /\ sup[s].block \in Focused!Blocks /\ sup[s].cell \in 1 .. BlockCells + 1
               /\ sup[s].out \in Focused!Papers \cup {None}
                    /\ sup[s].fallback \in Focused!Reasons \cup {None}
    <2>1. sup[s] \in FocCommand(D) BY <1>1 DEF FocHas
    <2> QED BY <2>1 DEF FocCommand, FocFallbacks
  <1>5. clock \in 0 .. 2
        /\ evidence \in [Focused!Blocks -> [Focused!Ids -> Focused!Committed \cup {"none"}]]
        /\ lease \in Supervisors \cup {None, "stale"}
        /\ faults \in 0 .. MaxFaults /\ starts \in 0 .. MaxStarts
    BY DEF FocInv, FocStore, FocCells
  <1>6. FocAts = {"closed", "look", "check", "lease", "environment", "mark", "cell",
                  "execute", "attest", "second", "post", "seal", "term", "payload", "marker",
                  "analyze", "report", "judge", "finished"}
    BY DEF FocAts, FocRuns
  <1> QED BY <1>2, <1>3, <1>4, <1>5, <1>6 DEF Focused!TypeOK

\* With one supervisor what the follow-up has sealed, terminated and published stands on its
\* evidence for ever, and a primary claim rests on the valid cells of both blocks it compares
\* and on the fate of the third, a fallback claim on a second block that is really incomplete.
THEOREM FocHolds ==
  ASSUME OneSupervisor
  PROVE  Focused!Spec => [](Focused!TypeOK /\ Focused!ConclusionsStand /\ Focused!ClaimEarned)
  <1>1. Focused!Init => FocInv BY FocInit
  <1>2. FocInv /\ [Focused!Next]_(Focused!vars) => FocInv' BY FocStep
  <1>3. FocInv => Focused!TypeOK /\ Focused!ConclusionsStand /\ Focused!ClaimEarned
    BY FocTypes, FocConclusions, FocEarned
  <1> QED BY <1>1, <1>2, <1>3, PTL DEF Focused!Spec

\* Once there is an analysis the evidence and the papers of the blocks stay.
FocStops == /\ evidence' = evidence
            /\ \A b \in Focused!Blocks : /\ paper'[<<"seal", b>>] = paper[<<"seal", b>>]
                               /\ paper'[<<"term", b>>] = paper[<<"term", b>>]

\* A supervisor of a closed follow-up that moves leaves evidence and papers alone, but for
\* the report.
LEMMA FocRests == FocInv /\ [Focused!Next]_(Focused!vars) => (Focused!Closed => FocStops)
  <1> SUFFICES ASSUME FocInv, [Focused!Next]_(Focused!vars), Focused!Closed PROVE FocStops OBVIOUS
  <1>1. CASE UNCHANGED <<evidence, paper>> BY <1>1 DEF FocStops
  <1>2. CASE Focused!Tick \/ Focused!ClearLease \/ UNCHANGED Focused!vars
    BY <1>1, <1>2 DEF Focused!Tick, Focused!ClearLease, Focused!vars
  <1>3. ASSUME NEW s \in Supervisors PROVE sup[s].at \notin FocRuns
    BY DEF FocInv, FocWho, FocAt, Free
  <1>4. ASSUME NEW s \in Supervisors, Focused!Payload(s) \/ Focused!Marker(s) PROVE FocStops
    <2>1. sup[s].out \in {Focused!Analysis, Focused!Report}
      BY <1>4 DEF Focused!Payload, Focused!Marker, FocInv, FocWho, FocAt, FocHand
    <2>2. PICK D : FocHas(D) BY DEF FocInv
    <2>3. \A m \in Focused!Papers \ {Focused!Analysis, Focused!Report} : paper'[m] = paper[m]
      BY <1>4, <2>1, <2>2 DEF Focused!Payload, Focused!Marker, FocHas
    <2>4. UNCHANGED evidence BY <1>4 DEF Focused!Payload, Focused!Marker
    <2> QED BY <2>3, <2>4, FocNames DEF FocStops
  <1>5. ASSUME NEW s \in Supervisors, Focused!Mark(s) \/ Focused!Cell(s) \/ Focused!Execute(s)
        \/ Focused!Attest(s) \/ Focused!Second(s)
        PROVE  FALSE
    BY <1>3, <1>5
    DEF Focused!Mark, Focused!Cell, Focused!Execute, Focused!Attest, Focused!Second, FocRuns
  <1>6. ASSUME NEW s \in Supervisors,
               \/ Focused!Look(s) \/ Focused!Check(s) \/ Focused!Lease(s)
                    \/ Focused!Environment(s) \/ Focused!Seal(s) \/ Focused!Term(s)
               \/ Focused!Final(s) \/ Focused!Judge(s) \/ Focused!Start(s) \/ Focused!Kill(s)
        PROVE  FocStops
    BY <1>1, <1>6
    DEF Focused!Look, Focused!Check, Focused!Lease, Focused!Environment, Focused!Seal, Focused!Term,
        Focused!Final, Focused!Judge, Focused!Start, Focused!Kill
  <1> QED BY <1>2, <1>4, <1>5, <1>6 DEF Focused!Next

\* With one supervisor nothing is run, sealed or terminated once the analysis is published:
\* what two supervisors can break (FocusedFollowupRace).
THEOREM FocCloses == ASSUME OneSupervisor PROVE Focused!Spec => Focused!AnalysisCloses
  <1>1. Focused!Init => FocInv BY FocInit
  <1>2. FocInv /\ [Focused!Next]_(Focused!vars) => FocInv' BY FocStep
  <1>3. FocInv /\ [Focused!Next]_(Focused!vars) => [Focused!Closed => FocStops]_(Focused!vars)
    BY FocRests
  <1>4. Focused!AnalysisCloses <=> [][Focused!Closed => FocStops]_(Focused!vars)
    BY DEF Focused!AnalysisCloses, FocStops
  <1> QED BY <1>1, <1>2, <1>3, <1>4, PTL DEF Focused!Spec

-----------------------------------------------------------------------------
(* The feasibility gate *)

\* Its constants.
LEMMA ProbeConstants == Gate!ProbeAssumption
  BY ProgramConstants

\* Its Cardinality is the one of the theorems.
LEMMA GateSize == \A S : Gate!Cardinality(S) = Cardinality(S)
  BY Zenon DEF Gate!Cardinality, Cardinality

\* The steps of the probe.
ProbeSteps == {"start", "repository", "environment", "storage", "server", "pulls", "disk",
  "identify",
               "options", "tools", "runtime", "loaded", "digest", "unloaded", "after", "summary",
               "prepare", "mark", "verify", "ended"}
\* The types, which say more of answers and rows than those of the runs.
ProbeHost ==
  /\ fAt \in ProbeSteps /\ pull \in BOOLEAN /\ gate \in [Gate!Gates -> BOOLEAN \cup {None}]
  /\ unpulled \subseteq Gate!Tags
  /\ failures \subseteq Gate!Gates \cup {"pull", "primary", "exception"}
  /\ passing \in BOOLEAN \cup {None} /\ prepared \in BOOLEAN /\ fCommitted \in BOOLEAN
  /\ whole \in BOOLEAN
ProbeTags ==
  /\ trouble \in 0 .. MaxTrouble
  /\ installed \in [Gate!Tags -> Nat] /\ \A m \in Gate!Tags : installed[m] \in 1 .. trouble + 1
  /\ answered \in [Gate!Tags -> SUBSET Nat]
       /\ \A m \in Gate!Tags : answered[m] \subseteq 1 .. installed[m]
  /\ before = None \/ before \in [Gate!Tags -> 1 .. MaxTrouble + 1]
  /\ after = None \/ after \in [Gate!Tags -> 1 .. MaxTrouble + 1]
ProbeRecords == model \in 0 .. ProbeModels /\ now \in Gate!Row
  /\ row \in [Gate!Tags -> Gate!Row \cup {None}]
ProbeTypes   == ProbeHost /\ ProbeTags /\ ProbeRecords

\* Where it looks at the host, at the models and at a model of its own.
Hosting == {"start", "repository", "environment", "storage", "server", "pulls", "disk"}
Asking  == {"options", "tools", "runtime", "loaded"}
Probing == {"identify", "digest", "unloaded"} \cup Asking

\* A model that is not behind the probe has no row; one in front of it has not been asked.
\* What a row without an error names has answered, and nothing else.
ProbeRows ==
  /\ fAt \in Hosting => model = 0
  /\ fAt \in Probing => model < ProbeModels
  /\ \A m \in Gate!Tags : (row[m] # None) <=> (m < model)
  /\ \A m \in Gate!Tags : m > model \/ (m = model /\ fAt \in Hosting \cup {"identify"}) =>
       answered[m] = {}
  /\ \A m \in Gate!Tags : row[m] # None /\ ~row[m].error => answered[m] = {row[m].digest}

\* While a model is asked, whatever has answered is no older than the digest it was
\* identified by; once it was listed as loaded under that digest, nothing else was.
ProbeAnswers ==
  /\ fAt \in Asking =>
       /\ now.digest \in Nat /\ now.digest <= installed[model] /\ ~now.error
       /\ \A d \in answered[model] : now.digest <= d
       /\ fAt # "options" => answered[model] # {}
  /\ fAt = "digest" => ~now.error
  /\ fAt \in {"digest", "unloaded"} /\ ~now.error => answered[model] = {now.digest}

\* A gate that failed is told; the gates in front of the probe have no record.
ProbeGates ==
  /\ \A g \in Gate!Gates : g \in failures => gate[g] = FALSE
  /\ fAt \in {"start", "repository"} => gate["repository"] = None
  /\ fAt \in {"start", "repository", "environment"} => gate["environment"] = None
  /\ fAt \in {"start", "repository", "environment", "storage"} => gate["storage"] = None
  /\ fAt \in Hosting => gate["disk"] = None
  /\ "pull" \in failures => ~pull
  /\ "primary" \in failures => row[0] # None /\ ~Gate!Passed(row[0])

\* A probe that met no exception has come past every model before it reports, and an
\* unaltered summary says what its parts give.
ProbeReport ==
  /\ fAt \in {"after", "summary", "prepare", "mark", "verify"} \/ passing # None =>
       "exception" \in failures \/ model = ProbeModels
  /\ fAt = "after" => model = ProbeModels
  /\ fAt \in {"prepare", "mark", "verify"} \/ prepared => passing # None
  /\ passing # None => fAt \in {"prepare", "mark", "verify", "ended"}
  /\ passing # None /\ whole => passing = Gate!Overall

\* The inductive invariant.
ProbeInv == ProbeTypes /\ ProbeRows /\ ProbeAnswers /\ ProbeGates /\ ProbeReport

\* What is counted is finite.
LEMMA ProbeSizes ==
  /\ \A S \in SUBSET Gate!Tags : Cardinality(S) \in Nat
  /\ \A S \in SUBSET {"monitor", "listener", "runner", "peak"} : Cardinality(S) \in Nat
  <1>1. IsFiniteSet(Gate!Tags) BY FS_Interval, ProbeConstants DEF Gate!ProbeAssumption, Gate!Tags
  <1>2. IsFiniteSet({"monitor", "listener", "runner", "peak"})
    <2>1. IsFiniteSet({"monitor"}) BY FS_Singleton
    <2>2. IsFiniteSet({"monitor"} \cup {"listener"}) BY <2>1, FS_AddElement
    <2>3. IsFiniteSet({"monitor"} \cup {"listener"} \cup {"runner"}) BY <2>2, FS_AddElement
    <2>4. IsFiniteSet({"monitor"} \cup {"listener"} \cup {"runner"} \cup {"peak"})
      BY <2>3, FS_AddElement
    <2>5. {"monitor"} \cup {"listener"} \cup {"runner"} \cup {"peak"} = {"monitor", "listener",
          "runner", "peak"}
      OBVIOUS
    <2> QED BY <2>4, <2>5
  <1> QED BY <1>1, <1>2, FS_Subset, FS_CardinalityType

\* The shapes a row is given.
LEMMA ProbeShapes ==
  /\ Gate!Error \in Gate!Row /\ \A d \in Nat \cup {None} : Gate!Clean(d) \in Gate!Row
  /\ \A r \in Gate!Row : \A S \in SUBSET Gate!Checks : [r EXCEPT !.bad = @ \cup S] \in Gate!Row
  /\ \A r \in Gate!Row : \A b \in BOOLEAN : [r EXCEPT !.unload = b] \in Gate!Row
  BY DEF Gate!Error, Gate!Clean, Gate!Row

\* A row with more failed checks is a row.
LEMMA ProbeWrong ==
  ASSUME now \in Gate!Row, NEW S \in SUBSET Gate!Checks
    PROVE [now EXCEPT !.bad = now.bad \cup S] \in Gate!Row
  BY DEF Gate!Row

\* Every step keeps what is known of the host.
LEMMA ProbeHosted ==
  ASSUME ProbeInv, [Gate!Next]_(Gate!vars) PROVE ProbeHost'
  <1> USE DEF ProbeInv, Gate!host, Gate!probed, Gate!report, ProbeTypes, ProbeHost, ProbeSteps,
    Gate!Gates, Gate!Overall, Gate!HostPassed, Gate!Eligible
  <1>1. CASE Gate!Start
    BY <1>1, ProbeConstants DEF Gate!Start
  <1>2. CASE Gate!Require("repository", "environment")
    BY <1>2, ProbeConstants DEF Gate!Require, Gate!Raise, Gate!Trouble
  <1>3. CASE Gate!Require("environment", "storage")
    BY <1>3, ProbeConstants DEF Gate!Require, Gate!Raise, Gate!Trouble
  <1>4. CASE Gate!Measure("storage", "server")
    BY <1>4, ProbeConstants DEF Gate!Measure, Gate!Raise, Gate!Trouble
  <1>5. CASE Gate!Server
    BY <1>5, ProbeConstants DEF Gate!Server, Gate!Raise, Gate!Trouble
  <1>6. CASE Gate!Pull
    BY <1>6, ProbeConstants DEF Gate!Pull, Gate!Raise, Gate!Trouble
  <1>7. CASE Gate!Measure("disk", "identify")
    BY <1>7, ProbeConstants DEF Gate!Measure, Gate!Raise, Gate!Trouble
  <1>8. CASE Gate!Identify
    BY <1>8, ProbeConstants DEF Gate!Identify, Gate!Erred, Gate!Error, Gate!Clean, Gate!Trouble
  <1>9. CASE Gate!Recognise
    BY <1>9, ProbeConstants
    DEF Gate!Recognise, Gate!Ask, Gate!Erred, Gate!Error, Gate!Clean, Gate!Trouble
  <1>10. CASE Gate!Conform
    BY <1>10, ProbeConstants
    DEF Gate!Conform, Gate!Ask, Gate!Erred, Gate!Error, Gate!Clean, Gate!Trouble
  <1>11. CASE Gate!Time
    BY <1>11, ProbeConstants
    DEF Gate!Time, Gate!Ask, Gate!Erred, Gate!Error, Gate!Clean, Gate!Trouble
  <1>12. CASE Gate!Loaded
    BY <1>12, ProbeConstants DEF Gate!Loaded, Gate!Erred, Gate!Error, Gate!Clean, Gate!Trouble
  <1>13. CASE Gate!Stable
    BY <1>13, ProbeConstants DEF Gate!Stable, Gate!Erred, Gate!Error, Gate!Clean, Gate!Trouble
  <1>14. CASE Gate!Unloaded
    BY <1>14, ProbeConstants DEF Gate!Unloaded, Gate!Trouble
  <1>15. CASE Gate!ListAfter
    BY <1>15, ProbeConstants DEF Gate!ListAfter, Gate!Raise, Gate!Trouble
  <1>16. CASE Gate!Summarise
    BY <1>16, ProbeConstants DEF Gate!Summarise
  <1>17. CASE Gate!Prepare
    BY <1>17, ProbeConstants DEF Gate!Prepare
  <1>18. CASE Gate!Mark
    BY <1>18, ProbeConstants DEF Gate!Mark, Gate!Trouble
  <1>19. CASE Gate!Verify
    BY <1>19, ProbeConstants DEF Gate!Verify
  <1>20. CASE Gate!Exchange
    BY <1>20, ProbeConstants DEF Gate!Exchange, Gate!Trouble
  <1>21. CASE Gate!Alter
    BY <1>21, ProbeConstants DEF Gate!Alter, Gate!Trouble
  <1>22. CASE Gate!Die
    BY <1>22, ProbeConstants DEF Gate!Die, Gate!Trouble
  <1>23. CASE UNCHANGED Gate!vars
    BY <1>23 DEF Gate!vars, Gate!Overall, Gate!HostPassed, Gate!Eligible, Gate!Passed
  <1> QED BY <1>1, <1>2, <1>3, <1>4, <1>5, <1>6, <1>7, <1>8, <1>9, <1>10, <1>11, <1>12, <1>13,
             <1>14, <1>15, <1>16, <1>17, <1>18, <1>19, <1>20, <1>21, <1>22, <1>23
          DEF Gate!Next, Gate!Probe

\* And of the models that are installed.
LEMMA ProbeTagged ==
  ASSUME ProbeInv, [Gate!Next]_(Gate!vars) PROVE ProbeTags'
  <1> USE DEF ProbeInv, Gate!host, Gate!probed, Gate!report, ProbeTypes, ProbeTags, ProbeHost,
    ProbeRecords, ProbeRows, Probing, Asking, Gate!Tags, Gate!ProbeAssumption
  <1>1. CASE Gate!Start
    BY <1>1, ProbeConstants, ProbeSizes DEF Gate!Start
  <1>2. CASE Gate!Require("repository", "environment")
    BY <1>2, ProbeConstants, ProbeSizes DEF Gate!Require, Gate!Raise, Gate!Trouble
  <1>3. CASE Gate!Require("environment", "storage")
    BY <1>3, ProbeConstants, ProbeSizes DEF Gate!Require, Gate!Raise, Gate!Trouble
  <1>4. CASE Gate!Measure("storage", "server")
    BY <1>4, ProbeConstants, ProbeSizes DEF Gate!Measure, Gate!Raise, Gate!Trouble
  <1>5. CASE Gate!Server
    BY <1>5, ProbeConstants, ProbeSizes DEF Gate!Server, Gate!Raise, Gate!Trouble
  <1>6. CASE Gate!Pull
    <2>1. trouble' \in trouble .. MaxTrouble
      BY <1>6, ProbeSizes, GateSize, ProbeConstants DEF Gate!Pull, Gate!Trouble
    <2>2. UNCHANGED <<installed, answered, after>> BY <1>6 DEF Gate!Pull
    <2>3. before' = None \/ before' \in [Gate!Tags -> 1 .. MaxTrouble + 1]
      BY <1>6, ProbeConstants DEF Gate!Pull, Gate!Raise, Gate!Trouble
    <2> QED BY <2>1, <2>2, <2>3, ProbeConstants
  <1>7. CASE Gate!Measure("disk", "identify")
    BY <1>7, ProbeConstants, ProbeSizes DEF Gate!Measure, Gate!Raise, Gate!Trouble
  <1>8. CASE Gate!Identify
    BY <1>8, ProbeConstants, ProbeSizes
    DEF Gate!Identify, Gate!Erred, Gate!Error, Gate!Clean, Gate!Trouble
  <1>9. CASE Gate!Recognise
    BY <1>9, ProbeConstants, ProbeSizes
    DEF Gate!Recognise, Gate!Ask, Gate!Erred, Gate!Error, Gate!Clean, Gate!Trouble
  <1>10. CASE Gate!Conform
    BY <1>10, ProbeConstants, ProbeSizes
    DEF Gate!Conform, Gate!Ask, Gate!Erred, Gate!Error, Gate!Clean, Gate!Trouble
  <1>11. CASE Gate!Time
    BY <1>11, ProbeConstants, ProbeSizes
    DEF Gate!Time, Gate!Ask, Gate!Erred, Gate!Error, Gate!Clean, Gate!Trouble
  <1>12. CASE Gate!Loaded
    <2>1. trouble' \in trouble .. MaxTrouble
      BY <1>12, ProbeSizes, GateSize, ProbeConstants DEF Gate!Loaded, Gate!Trouble
    <2>2. UNCHANGED <<installed, answered, before, after>> BY <1>12 DEF Gate!Loaded
    <2> QED BY <2>1, <2>2, ProbeConstants
  <1>13. CASE Gate!Stable
    BY <1>13, ProbeConstants, ProbeSizes
    DEF Gate!Stable, Gate!Erred, Gate!Error, Gate!Clean, Gate!Trouble
  <1>14. CASE Gate!Unloaded
    BY <1>14, ProbeConstants, ProbeSizes DEF Gate!Unloaded, Gate!Trouble
  <1>15. CASE Gate!ListAfter
    BY <1>15, ProbeConstants, ProbeSizes DEF Gate!ListAfter, Gate!Raise, Gate!Trouble
  <1>16. CASE Gate!Summarise
    BY <1>16, ProbeConstants, ProbeSizes DEF Gate!Summarise
  <1>17. CASE Gate!Prepare
    BY <1>17, ProbeConstants, ProbeSizes DEF Gate!Prepare
  <1>18. CASE Gate!Mark
    BY <1>18, ProbeConstants, ProbeSizes DEF Gate!Mark, Gate!Trouble
  <1>19. CASE Gate!Verify
    BY <1>19, ProbeConstants, ProbeSizes DEF Gate!Verify
  <1>20. CASE Gate!Exchange
    <2>1. trouble' = trouble + 1 /\ trouble' \in 0 .. MaxTrouble
          /\ UNCHANGED <<answered, before, after>>
      BY <1>20, ProbeConstants DEF Gate!Exchange, Gate!Trouble
    <2>2. PICK m \in Gate!Tags : installed' = [installed EXCEPT ![m] = installed[m] + 1]
      BY <1>20 DEF Gate!Exchange
    <2>3. installed' \in [Gate!Tags -> Nat]
          /\ \A n \in Gate!Tags : installed'[n] \in installed[n] .. installed[n] + 1
      BY <2>2
    <2>4. \A n \in Gate!Tags : installed'[n] \in 1 .. trouble' + 1 BY <2>1, <2>3, ProbeConstants
    <2>5. \A n \in Gate!Tags : answered'[n] \subseteq 1 .. installed'[n] BY <2>1, <2>3
    <2> QED BY <2>1, <2>3, <2>4, <2>5
  <1>21. CASE Gate!Alter
    BY <1>21, ProbeConstants, ProbeSizes DEF Gate!Alter, Gate!Trouble
  <1>22. CASE Gate!Die
    BY <1>22, ProbeConstants, ProbeSizes DEF Gate!Die, Gate!Trouble
  <1>23. CASE UNCHANGED Gate!vars
    BY <1>23 DEF Gate!vars, Gate!Overall, Gate!HostPassed, Gate!Eligible, Gate!Passed
  <1> QED BY <1>1, <1>2, <1>3, <1>4, <1>5, <1>6, <1>7, <1>8, <1>9, <1>10, <1>11, <1>12, <1>13,
             <1>14, <1>15, <1>16, <1>17, <1>18, <1>19, <1>20, <1>21, <1>22, <1>23
          DEF Gate!Next, Gate!Probe

\* And of the records.
LEMMA ProbeRecorded ==
  ASSUME ProbeInv, [Gate!Next]_(Gate!vars) PROVE ProbeRecords'
  <1> USE DEF ProbeInv, Gate!host, Gate!probed, Gate!report, ProbeTypes, ProbeTags, ProbeRecords,
    ProbeRows, Probing, Asking, Gate!Tags, Gate!ProbeAssumption
  <1>1. CASE Gate!Start
    BY <1>1, ProbeConstants, ProbeShapes DEF Gate!Start
  <1>2. CASE Gate!Require("repository", "environment")
    BY <1>2, ProbeConstants, ProbeShapes DEF Gate!Require, Gate!Raise, Gate!Trouble
  <1>3. CASE Gate!Require("environment", "storage")
    BY <1>3, ProbeConstants, ProbeShapes DEF Gate!Require, Gate!Raise, Gate!Trouble
  <1>4. CASE Gate!Measure("storage", "server")
    BY <1>4, ProbeConstants, ProbeShapes DEF Gate!Measure, Gate!Raise, Gate!Trouble
  <1>5. CASE Gate!Server
    BY <1>5, ProbeConstants, ProbeShapes DEF Gate!Server, Gate!Raise, Gate!Trouble
  <1>6. CASE Gate!Pull
    BY <1>6, ProbeConstants, ProbeShapes DEF Gate!Pull, Gate!Raise, Gate!Trouble
  <1>7. CASE Gate!Measure("disk", "identify")
    BY <1>7, ProbeConstants, ProbeShapes DEF Gate!Measure, Gate!Raise, Gate!Trouble
  <1>8. CASE Gate!Identify
    BY <1>8, ProbeConstants, ProbeShapes DEF Gate!Identify, Gate!Erred, Gate!Trouble
  <1>9. CASE Gate!Recognise
    <2>1. UNCHANGED <<model, row>>
          /\ (now' = now \/ now' = Gate!Error
               \/ now' = [now EXCEPT !.bad = now.bad \cup {"options"}])
      BY <1>9 DEF Gate!Recognise, Gate!Ask, Gate!Erred
    <2>2. [now EXCEPT !.bad = now.bad \cup {"options"}] \in Gate!Row BY ProbeWrong DEF Gate!Checks
    <2>3. now' \in Gate!Row BY <2>1, <2>2, ProbeShapes
    <2> QED BY <2>1, <2>3
  <1>10. CASE Gate!Conform
    <2>1. UNCHANGED <<model, row>>
          /\ (now' = now \/ now' = Gate!Error \/ now' = [now EXCEPT !.bad = now.bad \cup {"tools"}])
      BY <1>10 DEF Gate!Conform, Gate!Ask, Gate!Erred
    <2>2. [now EXCEPT !.bad = now.bad \cup {"tools"}] \in Gate!Row BY ProbeWrong DEF Gate!Checks
    <2>3. now' \in Gate!Row BY <2>1, <2>2, ProbeShapes
    <2> QED BY <2>1, <2>3
  <1>11. CASE Gate!Time
    <2>1. UNCHANGED <<model, row>>
          /\ (now' = now \/ now' = Gate!Error
               \/ now' = [now EXCEPT !.bad = now.bad \cup {"throughput"}])
      BY <1>11 DEF Gate!Time, Gate!Ask, Gate!Erred
    <2>2. [now EXCEPT !.bad = now.bad \cup {"throughput"}] \in Gate!Row
      BY ProbeWrong DEF Gate!Checks
    <2>3. now' \in Gate!Row BY <2>1, <2>2, ProbeShapes
    <2> QED BY <2>1, <2>3
  <1>12. CASE Gate!Loaded
    <2>1. UNCHANGED <<model, row>>
          /\ (now' = Gate!Error \/ \E S \in SUBSET {"monitor", "listener", "runner", "peak"} :
                now' = [now EXCEPT !.bad = now.bad \cup S])
      BY <1>12 DEF Gate!Loaded, Gate!Erred
    <2>2. \A S \in SUBSET {"monitor", "listener", "runner", "peak"} :
            [now EXCEPT !.bad = now.bad \cup S] \in Gate!Row
      BY ProbeWrong DEF Gate!Checks
    <2>3. now' \in Gate!Row BY <2>1, <2>2, ProbeShapes
    <2> QED BY <2>1, <2>3
  <1>13. CASE Gate!Stable
    <2>1. UNCHANGED <<model, row>>
          /\ (now' = Gate!Error \/ now' = now
               \/ now' = [now EXCEPT !.bad = now.bad \cup {"digest"}])
      BY <1>13 DEF Gate!Stable, Gate!Erred
    <2>2. [now EXCEPT !.bad = now.bad \cup {"digest"}] \in Gate!Row BY ProbeWrong DEF Gate!Checks
    <2>3. now' \in Gate!Row BY <2>1, <2>2, ProbeShapes
    <2> QED BY <2>1, <2>3
  <1>14. CASE Gate!Unloaded
    BY <1>14, ProbeConstants, ProbeShapes DEF Gate!Unloaded, Gate!Trouble
  <1>15. CASE Gate!ListAfter
    BY <1>15, ProbeConstants, ProbeShapes DEF Gate!ListAfter, Gate!Raise, Gate!Trouble
  <1>16. CASE Gate!Summarise
    BY <1>16, ProbeConstants, ProbeShapes DEF Gate!Summarise
  <1>17. CASE Gate!Prepare
    BY <1>17, ProbeConstants, ProbeShapes DEF Gate!Prepare
  <1>18. CASE Gate!Mark
    BY <1>18, ProbeConstants, ProbeShapes DEF Gate!Mark, Gate!Trouble
  <1>19. CASE Gate!Verify
    BY <1>19, ProbeConstants, ProbeShapes DEF Gate!Verify
  <1>20. CASE Gate!Exchange
    BY <1>20, ProbeConstants, ProbeShapes DEF Gate!Exchange, Gate!Trouble
  <1>21. CASE Gate!Alter
    BY <1>21, ProbeConstants, ProbeShapes DEF Gate!Alter, Gate!Trouble
  <1>22. CASE Gate!Die
    BY <1>22, ProbeConstants, ProbeShapes DEF Gate!Die, Gate!Trouble
  <1>23. CASE UNCHANGED Gate!vars
    BY <1>23 DEF Gate!vars, Gate!Overall, Gate!HostPassed, Gate!Eligible, Gate!Passed
  <1> QED BY <1>1, <1>2, <1>3, <1>4, <1>5, <1>6, <1>7, <1>8, <1>9, <1>10, <1>11, <1>12, <1>13,
             <1>14, <1>15, <1>16, <1>17, <1>18, <1>19, <1>20, <1>21, <1>22, <1>23
          DEF Gate!Next, Gate!Probe

\* And of the rows of the report.
LEMMA ProbeRowed ==
  ASSUME ProbeInv, [Gate!Next]_(Gate!vars) PROVE ProbeRows'
  <1> USE DEF ProbeInv, Gate!host, Gate!probed, Gate!report, ProbeTypes, ProbeHost, ProbeTags,
    ProbeRecords, ProbeSteps, Gate!Tags, Gate!ProbeAssumption, Hosting, Probing, Asking,
      ProbeRows, ProbeAnswers, Gate!Row
  <1>1. CASE Gate!Start
    BY <1>1, ProbeConstants DEF Gate!Start
  <1>2. CASE Gate!Require("repository", "environment")
    BY <1>2, ProbeConstants DEF Gate!Require, Gate!Raise, Gate!Trouble
  <1>3. CASE Gate!Require("environment", "storage")
    BY <1>3, ProbeConstants DEF Gate!Require, Gate!Raise, Gate!Trouble
  <1>4. CASE Gate!Measure("storage", "server")
    BY <1>4, ProbeConstants DEF Gate!Measure, Gate!Raise, Gate!Trouble
  <1>5. CASE Gate!Server
    BY <1>5, ProbeConstants DEF Gate!Server, Gate!Raise, Gate!Trouble
  <1>6. CASE Gate!Pull
    BY <1>6, ProbeConstants DEF Gate!Pull, Gate!Raise, Gate!Trouble
  <1>7. CASE Gate!Measure("disk", "identify")
    BY <1>7, ProbeConstants DEF Gate!Measure, Gate!Raise, Gate!Trouble
  <1>8. CASE Gate!Identify
    BY <1>8, ProbeConstants DEF Gate!Identify, Gate!Erred, Gate!Error, Gate!Clean, Gate!Trouble
  <1>9. CASE Gate!Recognise
    BY <1>9, ProbeConstants
    DEF Gate!Recognise, Gate!Ask, Gate!Erred, Gate!Error, Gate!Clean, Gate!Trouble
  <1>10. CASE Gate!Conform
    BY <1>10, ProbeConstants
    DEF Gate!Conform, Gate!Ask, Gate!Erred, Gate!Error, Gate!Clean, Gate!Trouble
  <1>11. CASE Gate!Time
    BY <1>11, ProbeConstants
    DEF Gate!Time, Gate!Ask, Gate!Erred, Gate!Error, Gate!Clean, Gate!Trouble
  <1>12. CASE Gate!Loaded
    BY <1>12, ProbeConstants DEF Gate!Loaded, Gate!Erred, Gate!Error, Gate!Clean, Gate!Trouble
  <1>13. CASE Gate!Stable
    BY <1>13, ProbeConstants DEF Gate!Stable, Gate!Erred, Gate!Error, Gate!Clean, Gate!Trouble
  <1>14. CASE Gate!Unloaded
    <2>1. fAt = "unloaded" /\ model' = model + 1 /\ fAt' \in {"after", "identify"}
          /\ (fAt' = "identify" => model' # ProbeModels) /\ UNCHANGED answered
      BY <1>14 DEF Gate!Unloaded
    <2>2. PICK b \in BOOLEAN : row' = [row EXCEPT ![model] = [now EXCEPT !.unload = b]]
      BY <1>14 DEF Gate!Unloaded
    <2>3. model \in Gate!Tags /\ model + 1 \in 0 .. ProbeModels BY <2>1, ProbeConstants
    <2>4. row'[model] = [now EXCEPT !.unload = b] /\ row'[model] # None
      <3>1. row'[model] = [now EXCEPT !.unload = b] BY <2>2, <2>3
      <3>2. [now EXCEPT !.unload = b] \in Gate!Row BY DEF Gate!Row
      <3>3. None \notin Gate!Row BY ProbeConstants DEF Gate!ProbeAssumption
      <3> HIDE DEF Gate!Row
      <3> QED BY <3>1, <3>2, <3>3
    <2>5. \A m \in Gate!Tags : m # model => row'[m] = row[m] BY <2>2
    <2>6. \A m \in Gate!Tags : (row'[m] # None) <=> (m < model') BY <2>1, <2>3, <2>4, <2>5
    <2>7. \A m \in Gate!Tags : row'[m] # None /\ ~row'[m].error => answered'[m] = {row'[m].digest}
      BY <2>1, <2>3, <2>4, <2>5
    <2>8. \A m \in Gate!Tags : m >= model' => answered'[m] = {} BY <2>1, <2>3
    <2>9. fAt' \notin Hosting /\ (fAt' \in Probing => model' < ProbeModels)
      BY <2>1, <2>3, ProbeConstants
    <2>10. \A m \in Gate!Tags : m > model'
           \/ (m = model' /\ fAt' \in Hosting \cup {"identify"}) => answered'[m] = {}
      BY <2>3, <2>8, <2>1
    <2> HIDE DEF Hosting, Probing, Gate!Row
    <2> QED BY <2>6, <2>7, <2>9, <2>10
  <1>15. CASE Gate!ListAfter
    BY <1>15, ProbeConstants DEF Gate!ListAfter, Gate!Raise, Gate!Trouble
  <1>16. CASE Gate!Summarise
    BY <1>16, ProbeConstants DEF Gate!Summarise
  <1>17. CASE Gate!Prepare
    BY <1>17, ProbeConstants DEF Gate!Prepare
  <1>18. CASE Gate!Mark
    BY <1>18, ProbeConstants DEF Gate!Mark, Gate!Trouble
  <1>19. CASE Gate!Verify
    BY <1>19, ProbeConstants DEF Gate!Verify
  <1>20. CASE Gate!Exchange
    BY <1>20, ProbeConstants DEF Gate!Exchange, Gate!Trouble
  <1>21. CASE Gate!Alter
    BY <1>21, ProbeConstants DEF Gate!Alter, Gate!Trouble
  <1>22. CASE Gate!Die
    BY <1>22, ProbeConstants DEF Gate!Die, Gate!Trouble
  <1>23. CASE UNCHANGED Gate!vars
    BY <1>23 DEF Gate!vars, Gate!Overall, Gate!HostPassed, Gate!Eligible, Gate!Passed
  <1> QED BY <1>1, <1>2, <1>3, <1>4, <1>5, <1>6, <1>7, <1>8, <1>9, <1>10, <1>11, <1>12, <1>13,
             <1>14, <1>15, <1>16, <1>17, <1>18, <1>19, <1>20, <1>21, <1>22, <1>23
          DEF Gate!Next, Gate!Probe

\* A model that is loaded under the digest it was identified by has answered as that alone.
LEMMA ProbeSole ==
  ASSUME ProbeInv, fAt = "loaded", now.digest = installed[model]
  PROVE  answered[model] = {now.digest}
  <1>1. model \in Gate!Tags
    BY ProbeConstants
    DEF ProbeInv, ProbeTypes, ProbeRecords, ProbeRows, Probing, Asking, Gate!Tags,
        Gate!ProbeAssumption
  <1>2. answered[model] \subseteq 1 .. installed[model] /\ installed[model] \in Nat
    BY <1>1 DEF ProbeInv, ProbeTypes, ProbeTags
  <1>3. answered[model] # {} /\ \A d \in answered[model] : now.digest <= d
    BY DEF ProbeInv, ProbeAnswers, Asking
  <1> QED BY <1>2, <1>3

\* And of what has been answered.
LEMMA ProbeAnswered ==
  ASSUME ProbeInv, [Gate!Next]_(Gate!vars) PROVE ProbeAnswers'
  <1> USE DEF ProbeInv, Gate!host, Gate!probed, Gate!report, ProbeTypes, ProbeHost, ProbeTags,
    ProbeRecords, ProbeSteps, Gate!Tags, Gate!ProbeAssumption, Hosting, Probing, Asking,
      ProbeRows, ProbeAnswers, Gate!Row
  <1>1. CASE Gate!Start
    BY <1>1, ProbeConstants DEF Gate!Start
  <1>2. CASE Gate!Require("repository", "environment")
    BY <1>2, ProbeConstants DEF Gate!Require, Gate!Raise, Gate!Trouble
  <1>3. CASE Gate!Require("environment", "storage")
    BY <1>3, ProbeConstants DEF Gate!Require, Gate!Raise, Gate!Trouble
  <1>4. CASE Gate!Measure("storage", "server")
    BY <1>4, ProbeConstants DEF Gate!Measure, Gate!Raise, Gate!Trouble
  <1>5. CASE Gate!Server
    BY <1>5, ProbeConstants DEF Gate!Server, Gate!Raise, Gate!Trouble
  <1>6. CASE Gate!Pull
    BY <1>6, ProbeConstants DEF Gate!Pull, Gate!Raise, Gate!Trouble
  <1>7. CASE Gate!Measure("disk", "identify")
    BY <1>7, ProbeConstants DEF Gate!Measure, Gate!Raise, Gate!Trouble
  <1>8. CASE Gate!Identify
    BY <1>8, ProbeConstants DEF Gate!Identify, Gate!Erred, Gate!Error, Gate!Clean, Gate!Trouble
  <1>9. CASE Gate!Recognise
    <2>1. /\ answered' = [answered EXCEPT ![model] = answered[model] \cup {installed[model]}]
          /\ UNCHANGED <<model, installed>> /\ fAt \in Asking
               /\ fAt' \in {"tools", "runtime", "loaded", "unloaded"}
          /\ fAt' = "unloaded" => now'.error
          /\ fAt' # "unloaded" => now'.error = now.error /\ now'.digest = now.digest
      BY <1>9 DEF Gate!Recognise, Gate!Ask, Gate!Erred, Gate!Error, Gate!Clean
    <2>2. answered'[model] = answered[model] \cup {installed[model]} BY <2>1, ProbeConstants
    <2> QED BY <2>1, <2>2, ProbeConstants
  <1>10. CASE Gate!Conform
    <2>1. /\ answered' = [answered EXCEPT ![model] = answered[model] \cup {installed[model]}]
          /\ UNCHANGED <<model, installed>> /\ fAt \in Asking
               /\ fAt' \in {"tools", "runtime", "loaded", "unloaded"}
          /\ fAt' = "unloaded" => now'.error
          /\ fAt' # "unloaded" => now'.error = now.error /\ now'.digest = now.digest
      BY <1>10 DEF Gate!Conform, Gate!Ask, Gate!Erred, Gate!Error, Gate!Clean
    <2>2. answered'[model] = answered[model] \cup {installed[model]} BY <2>1, ProbeConstants
    <2> QED BY <2>1, <2>2, ProbeConstants
  <1>11. CASE Gate!Time
    <2>1. /\ answered' = [answered EXCEPT ![model] = answered[model] \cup {installed[model]}]
          /\ UNCHANGED <<model, installed>> /\ fAt \in Asking
               /\ fAt' \in {"tools", "runtime", "loaded", "unloaded"}
          /\ fAt' = "unloaded" => now'.error
          /\ fAt' # "unloaded" => now'.error = now.error /\ now'.digest = now.digest
      BY <1>11 DEF Gate!Time, Gate!Ask, Gate!Erred, Gate!Error, Gate!Clean
    <2>2. answered'[model] = answered[model] \cup {installed[model]} BY <2>1, ProbeConstants
    <2> QED BY <2>1, <2>2, ProbeConstants
  <1>12. CASE Gate!Loaded
    <2>1. UNCHANGED <<model, installed, answered>> /\ fAt = "loaded"
          /\ fAt' \in {"digest", "unloaded"}
      BY <1>12 DEF Gate!Loaded, Gate!Erred
    <2>2. fAt' = "unloaded" => now'.error
      BY <1>12 DEF Gate!Loaded, Gate!Erred, Gate!Error, Gate!Clean
    <2>3. fAt' = "digest" => now'.error = now.error /\ now'.digest = now.digest
          /\ installed[model] = now.digest
      BY <1>12 DEF Gate!Loaded, Gate!Erred
    <2>4. now.digest = installed[model] => answered[model] = {now.digest}
      BY <2>1, ProbeSole
    <2> QED BY <2>1, <2>2, <2>3, <2>4, ProbeConstants
  <1>13. CASE Gate!Stable
    BY <1>13, ProbeConstants DEF Gate!Stable, Gate!Erred, Gate!Error, Gate!Clean, Gate!Trouble
  <1>14. CASE Gate!Unloaded
    BY <1>14, ProbeConstants DEF Gate!Unloaded, Gate!Trouble
  <1>15. CASE Gate!ListAfter
    BY <1>15, ProbeConstants DEF Gate!ListAfter, Gate!Raise, Gate!Trouble
  <1>16. CASE Gate!Summarise
    BY <1>16, ProbeConstants DEF Gate!Summarise
  <1>17. CASE Gate!Prepare
    BY <1>17, ProbeConstants DEF Gate!Prepare
  <1>18. CASE Gate!Mark
    BY <1>18, ProbeConstants DEF Gate!Mark, Gate!Trouble
  <1>19. CASE Gate!Verify
    BY <1>19, ProbeConstants DEF Gate!Verify
  <1>20. CASE Gate!Exchange
    BY <1>20, ProbeConstants DEF Gate!Exchange, Gate!Trouble
  <1>21. CASE Gate!Alter
    BY <1>21, ProbeConstants DEF Gate!Alter, Gate!Trouble
  <1>22. CASE Gate!Die
    BY <1>22, ProbeConstants DEF Gate!Die, Gate!Trouble
  <1>23. CASE UNCHANGED Gate!vars
    BY <1>23 DEF Gate!vars, Gate!Overall, Gate!HostPassed, Gate!Eligible, Gate!Passed
  <1> QED BY <1>1, <1>2, <1>3, <1>4, <1>5, <1>6, <1>7, <1>8, <1>9, <1>10, <1>11, <1>12, <1>13,
             <1>14, <1>15, <1>16, <1>17, <1>18, <1>19, <1>20, <1>21, <1>22, <1>23
          DEF Gate!Next, Gate!Probe

\* And of the gates.
LEMMA ProbeGated ==
  ASSUME ProbeInv, [Gate!Next]_(Gate!vars) PROVE ProbeGates'
  <1> USE DEF ProbeInv, Gate!host, Gate!probed, Gate!report, ProbeTypes, ProbeHost, ProbeTags,
    ProbeRecords, ProbeSteps, Gate!Tags, Gate!ProbeAssumption, Hosting, Probing, Asking,
      ProbeRows, ProbeGates, Gate!Gates, Gate!Row
  <1>1. CASE Gate!Start
    BY <1>1, ProbeConstants DEF Gate!Start
  <1>2. CASE Gate!Require("repository", "environment")
    BY <1>2, ProbeConstants DEF Gate!Require, Gate!Raise, Gate!Trouble
  <1>3. CASE Gate!Require("environment", "storage")
    <2>1. fAt = "environment" /\ UNCHANGED <<pull, row>> /\ fAt' \in {"storage", "summary"}
          /\ \/ gate' = [gate EXCEPT !["environment"] = TRUE] /\ UNCHANGED failures
             \/ gate' = [gate EXCEPT !["environment"] = FALSE]
                /\ failures' = failures \cup {"environment", "exception"}
             \/ failures' = failures \cup {"exception"} /\ UNCHANGED gate
      BY <1>3 DEF Gate!Require, Gate!Raise
    <2>3. \A h \in Gate!Gates : h \in failures' => gate'[h] = FALSE
      <3>1. "environment" \notin failures /\ "environment" \in Gate!Gates BY <2>1, ProbeConstants
      <3>2. SUFFICES ASSUME NEW h \in Gate!Gates, h \in failures' PROVE gate'[h] = FALSE OBVIOUS
      <3>3. CASE h = "environment" BY <2>1, <3>1, <3>2, <3>3
      <3>4. CASE h # "environment" BY <2>1, <3>2, <3>4
      <3> QED BY <3>3, <3>4
    <2>4. fAt' = "storage" => gate'["disk"] = gate["disk"] /\ gate'["storage"] = gate["storage"]
      BY <2>1
    <2> QED BY <2>1, <2>3, <2>4 DEF Gate!Passed
  <1>4. CASE Gate!Measure("storage", "server")
    <2>1. fAt = "storage" /\ UNCHANGED <<pull, row>> /\ fAt' \in {"server", "summary"}
          /\ \/ gate' = [gate EXCEPT !["storage"] = TRUE] /\ UNCHANGED failures
             \/ gate' = [gate EXCEPT !["storage"] = FALSE] /\ failures' = failures \cup {"storage"}
             \/ failures' = failures \cup {"exception"} /\ UNCHANGED gate
      BY <1>4 DEF Gate!Measure, Gate!Raise
    <2>2. gate["storage"] = None BY <2>1
    <2>3. \A h \in Gate!Gates : h \in failures' => gate'[h] = FALSE
      <3>1. "storage" \notin failures /\ "storage" \in Gate!Gates BY <2>2, ProbeConstants
      <3>2. SUFFICES ASSUME NEW h \in Gate!Gates, h \in failures' PROVE gate'[h] = FALSE OBVIOUS
      <3>3. CASE h = "storage" BY <2>1, <3>1, <3>2, <3>3
      <3>4. CASE h # "storage" BY <2>1, <3>2, <3>4
      <3> QED BY <3>3, <3>4
    <2>4. fAt' = "server" => gate'["disk"] = gate["disk"] BY <2>1
    <2> QED BY <2>1, <2>3, <2>4 DEF Gate!Passed
  <1>5. CASE Gate!Server
    BY <1>5, ProbeConstants DEF Gate!Server, Gate!Raise, Gate!Trouble
  <1>6. CASE Gate!Pull
    BY <1>6, ProbeConstants DEF Gate!Pull, Gate!Raise, Gate!Trouble
  <1>7. CASE Gate!Measure("disk", "identify")
    <2>1. fAt = "disk" /\ UNCHANGED <<pull, row>> /\ fAt' \in {"identify", "summary"}
          /\ \/ gate' = [gate EXCEPT !["disk"] = TRUE] /\ UNCHANGED failures
             \/ gate' = [gate EXCEPT !["disk"] = FALSE] /\ failures' = failures \cup {"disk"}
             \/ failures' = failures \cup {"exception"} /\ UNCHANGED gate
      BY <1>7 DEF Gate!Measure, Gate!Raise
    <2>2. gate["disk"] = None BY <2>1
    <2>3. \A h \in Gate!Gates : h \in failures' => gate'[h] = FALSE
      <3>1. "disk" \notin failures /\ "disk" \in Gate!Gates BY <2>2, ProbeConstants
      <3>2. SUFFICES ASSUME NEW h \in Gate!Gates, h \in failures' PROVE gate'[h] = FALSE OBVIOUS
      <3>3. CASE h = "disk" BY <2>1, <3>1, <3>2, <3>3
      <3>4. CASE h # "disk" BY <2>1, <3>2, <3>4
      <3> QED BY <3>3, <3>4
    <2>4. fAt' = "server" => gate'["disk"] = gate["disk"] BY <2>1
    <2> QED BY <2>1, <2>3, <2>4 DEF Gate!Passed
  <1>8. CASE Gate!Identify
    BY <1>8, ProbeConstants DEF Gate!Identify, Gate!Erred, Gate!Error, Gate!Clean, Gate!Trouble
  <1>9. CASE Gate!Recognise
    BY <1>9, ProbeConstants
    DEF Gate!Recognise, Gate!Ask, Gate!Erred, Gate!Error, Gate!Clean, Gate!Trouble
  <1>10. CASE Gate!Conform
    BY <1>10, ProbeConstants
    DEF Gate!Conform, Gate!Ask, Gate!Erred, Gate!Error, Gate!Clean, Gate!Trouble
  <1>11. CASE Gate!Time
    BY <1>11, ProbeConstants
    DEF Gate!Time, Gate!Ask, Gate!Erred, Gate!Error, Gate!Clean, Gate!Trouble
  <1>12. CASE Gate!Loaded
    BY <1>12, ProbeConstants DEF Gate!Loaded, Gate!Erred, Gate!Error, Gate!Clean, Gate!Trouble
  <1>13. CASE Gate!Stable
    BY <1>13, ProbeConstants DEF Gate!Stable, Gate!Erred, Gate!Error, Gate!Clean, Gate!Trouble
  <1>14. CASE Gate!Unloaded
    <2>1. fAt = "unloaded" /\ UNCHANGED <<pull, gate>> /\ fAt' \in {"after", "identify"}
          /\ failures' = IF model = 0
               /\ ~Gate!Passed(row'[0]) THEN failures \cup {"primary"} ELSE failures
      BY <1>14 DEF Gate!Unloaded
    <2>2. PICK b \in BOOLEAN : row' = [row EXCEPT ![model] = [now EXCEPT !.unload = b]]
      BY <1>14 DEF Gate!Unloaded
    <2>3. model \in Gate!Tags /\ 0 \in Gate!Tags BY <2>1, ProbeConstants
    <2>4. row'[model] = [now EXCEPT !.unload = b] /\ row'[model] # None
      BY <2>2, <2>3, ProbeConstants
    <2>5. model # 0 => row'[0] = row[0] BY <2>2, <2>3
    <2>6. model = 0 => row[0] = None BY <2>3
    <2>7. "primary" \in failures' => row'[0] # None /\ ~Gate!Passed(row'[0])
      <3>1. CASE model = 0 BY <3>1, <2>1, <2>4, <2>6
      <3>2. CASE model # 0 BY <3>2, <2>1, <2>5
      <3> QED BY <3>1, <3>2
    <2> HIDE DEF Gate!Row
    <2> QED BY <2>1, <2>7
  <1>15. CASE Gate!ListAfter
    BY <1>15, ProbeConstants DEF Gate!ListAfter, Gate!Raise, Gate!Trouble
  <1>16. CASE Gate!Summarise
    BY <1>16, ProbeConstants DEF Gate!Summarise
  <1>17. CASE Gate!Prepare
    BY <1>17, ProbeConstants DEF Gate!Prepare
  <1>18. CASE Gate!Mark
    BY <1>18, ProbeConstants DEF Gate!Mark, Gate!Trouble
  <1>19. CASE Gate!Verify
    BY <1>19, ProbeConstants DEF Gate!Verify
  <1>20. CASE Gate!Exchange
    BY <1>20, ProbeConstants DEF Gate!Exchange, Gate!Trouble
  <1>21. CASE Gate!Alter
    BY <1>21, ProbeConstants DEF Gate!Alter, Gate!Trouble
  <1>22. CASE Gate!Die
    BY <1>22, ProbeConstants DEF Gate!Die, Gate!Trouble
  <1>23. CASE UNCHANGED Gate!vars
    BY <1>23 DEF Gate!vars, Gate!Overall, Gate!HostPassed, Gate!Eligible, Gate!Passed
  <1> QED BY <1>1, <1>2, <1>3, <1>4, <1>5, <1>6, <1>7, <1>8, <1>9, <1>10, <1>11, <1>12, <1>13,
             <1>14, <1>15, <1>16, <1>17, <1>18, <1>19, <1>20, <1>21, <1>22, <1>23
          DEF Gate!Next, Gate!Probe

\* And of the report.
LEMMA ProbeReported ==
  ASSUME ProbeInv, [Gate!Next]_(Gate!vars) PROVE ProbeReport'
  <1> USE DEF ProbeInv, Gate!host, Gate!probed, Gate!report, ProbeTypes, ProbeHost, ProbeTags,
    ProbeRecords, ProbeSteps, Gate!Tags, Gate!ProbeAssumption, Hosting, Probing, Asking,
      ProbeRows, ProbeReport, Gate!Overall, Gate!HostPassed, Gate!Eligible
  <1>1. CASE Gate!Start
    BY <1>1, ProbeConstants DEF Gate!Start
  <1>2. CASE Gate!Require("repository", "environment")
    BY <1>2, ProbeConstants DEF Gate!Require, Gate!Raise, Gate!Trouble
  <1>3. CASE Gate!Require("environment", "storage")
    BY <1>3, ProbeConstants DEF Gate!Require, Gate!Raise, Gate!Trouble
  <1>4. CASE Gate!Measure("storage", "server")
    BY <1>4, ProbeConstants DEF Gate!Measure, Gate!Raise, Gate!Trouble
  <1>5. CASE Gate!Server
    BY <1>5, ProbeConstants DEF Gate!Server, Gate!Raise, Gate!Trouble
  <1>6. CASE Gate!Pull
    BY <1>6, ProbeConstants DEF Gate!Pull, Gate!Raise, Gate!Trouble
  <1>7. CASE Gate!Measure("disk", "identify")
    BY <1>7, ProbeConstants DEF Gate!Measure, Gate!Raise, Gate!Trouble
  <1>8. CASE Gate!Identify
    BY <1>8, ProbeConstants DEF Gate!Identify, Gate!Erred, Gate!Error, Gate!Clean, Gate!Trouble
  <1>9. CASE Gate!Recognise
    BY <1>9, ProbeConstants
    DEF Gate!Recognise, Gate!Ask, Gate!Erred, Gate!Error, Gate!Clean, Gate!Trouble
  <1>10. CASE Gate!Conform
    BY <1>10, ProbeConstants
    DEF Gate!Conform, Gate!Ask, Gate!Erred, Gate!Error, Gate!Clean, Gate!Trouble
  <1>11. CASE Gate!Time
    BY <1>11, ProbeConstants
    DEF Gate!Time, Gate!Ask, Gate!Erred, Gate!Error, Gate!Clean, Gate!Trouble
  <1>12. CASE Gate!Loaded
    BY <1>12, ProbeConstants DEF Gate!Loaded, Gate!Erred, Gate!Error, Gate!Clean, Gate!Trouble
  <1>13. CASE Gate!Stable
    BY <1>13, ProbeConstants DEF Gate!Stable, Gate!Erred, Gate!Error, Gate!Clean, Gate!Trouble
  <1>14. CASE Gate!Unloaded
    BY <1>14, ProbeConstants DEF Gate!Unloaded, Gate!Trouble
  <1>15. CASE Gate!ListAfter
    BY <1>15, ProbeConstants DEF Gate!ListAfter, Gate!Raise, Gate!Trouble
  <1>16. CASE Gate!Summarise
    BY <1>16, ProbeConstants DEF Gate!Summarise
  <1>17. CASE Gate!Prepare
    BY <1>17, ProbeConstants DEF Gate!Prepare
  <1>18. CASE Gate!Mark
    BY <1>18, ProbeConstants DEF Gate!Mark, Gate!Trouble
  <1>19. CASE Gate!Verify
    BY <1>19, ProbeConstants DEF Gate!Verify
  <1>20. CASE Gate!Exchange
    BY <1>20, ProbeConstants DEF Gate!Exchange, Gate!Trouble
  <1>21. CASE Gate!Alter
    BY <1>21, ProbeConstants DEF Gate!Alter, Gate!Trouble
  <1>22. CASE Gate!Die
    BY <1>22, ProbeConstants DEF Gate!Die, Gate!Trouble
  <1>23. CASE UNCHANGED Gate!vars
    BY <1>23 DEF Gate!vars, Gate!Overall, Gate!HostPassed, Gate!Eligible, Gate!Passed
  <1> QED BY <1>1, <1>2, <1>3, <1>4, <1>5, <1>6, <1>7, <1>8, <1>9, <1>10, <1>11, <1>12, <1>13,
             <1>14, <1>15, <1>16, <1>17, <1>18, <1>19, <1>20, <1>21, <1>22, <1>23
          DEF Gate!Next, Gate!Probe

\* The invariant holds at first.
LEMMA ProbeBegins == Gate!Init => ProbeInv
  <1> SUFFICES ASSUME Gate!Init PROVE ProbeInv OBVIOUS
  <1> USE ProbeConstants DEF Gate!Init, Gate!ProbeAssumption
  <1>1. now \in Gate!Row BY DEF Gate!Clean, Gate!Row
  <1>2. row \in [Gate!Tags -> Gate!Row \cup {None}] OBVIOUS
  <1>3. ProbeHost BY DEF ProbeHost, ProbeSteps, Gate!Gates
  <1>4. ProbeTags BY DEF ProbeTags, Gate!Tags
  <1>5. ProbeRecords BY <1>1, <1>2 DEF ProbeRecords
  <1>6. ProbeRows BY DEF ProbeRows, Hosting, Probing, Asking, Gate!Tags
  <1>7. ProbeAnswers BY DEF ProbeAnswers, Asking
  <1>8. ProbeGates BY DEF ProbeGates, Gate!Gates
  <1>9. ProbeReport BY DEF ProbeReport
  <1> QED BY <1>3, <1>4, <1>5, <1>6, <1>7, <1>8, <1>9 DEF ProbeInv, ProbeTypes

\* A report that verifies as passing was earned.
LEMMA ProbeEarns == ProbeInv => Gate!PassEarned
  <1> SUFFICES ASSUME ProbeInv, Gate!Verified, passing
               PROVE  /\ Gate!Eligible(0)
                      /\ \A m \in Gate!Tags : Gate!Eligible(m) =>
                           answered[m] = {row[m].digest} /\ {before[m], after[m]} = answered[m]
    BY DEF Gate!PassEarned
  <1>1. Gate!SummaryShown /\ \A m \in Gate!Tags : Gate!VerifiedModel(m)
    BY DEF Gate!Verified, Gate!VerifiedPass
  <1>2. ASSUME NEW m \in Gate!Tags, Gate!Eligible(m)
        PROVE  answered[m] = {row[m].digest} /\ {before[m], after[m]} = answered[m]
    <2>1. row[m] # None /\ ~row[m].error BY <1>2 DEF Gate!Eligible, Gate!Passed
    <2>2. answered[m] = {row[m].digest} BY <2>1 DEF ProbeInv, ProbeRows
    <2>3. {before[m], after[m]} = {row[m].digest}
      BY <1>1, <1>2 DEF Gate!VerifiedModel, Gate!Eligible
    <2> QED BY <2>2, <2>3
  <1> QED BY <1>1, <1>2 DEF Gate!SummaryShown

\* What is wrong with a model has a domain.
LEMMA ProbeBlames == \A r \in Gate!Row : Gate!Passed(r) <=> Gate!ModelDomains(r) = {}
  <1> SUFFICES ASSUME NEW r \in Gate!Row PROVE Gate!Passed(r) <=> Gate!ModelDomains(r) = {} OBVIOUS
  <1>1. ASSUME Gate!Passed(r) PROVE Gate!ModelDomains(r) = {}
    BY <1>1 DEF Gate!Passed, Gate!ModelDomains
  <1>2. ASSUME ~Gate!Passed(r) PROVE Gate!ModelDomains(r) # {}
    <2>1. CASE r.error \/ r.unload BY <2>1 DEF Gate!ModelDomains
    <2>2. CASE r.bad # {}
      <3>1. PICK c \in Gate!Checks : c \in r.bad BY <2>2 DEF Gate!Row
      <3>2. CASE c \in {"runner", "listener"} \/ r.bad \cap {"runner", "listener"} # {}
        <4>1. PICK b \in {"runner", "listener"} : b \in r.bad BY <3>1, <3>2
        <4>2. <<b, "instrument">> \in Gate!Blame BY DEF Gate!Blame
        <4> QED BY <4>1, <4>2 DEF Gate!ModelDomains
      <3>3. CASE c \in {"monitor", "peak"} /\ r.bad \cap {"runner", "listener"} = {}
        BY <3>1, <3>3 DEF Gate!ModelDomains
      <3>4. CASE c \in {"digest", "options", "tools", "throughput"}
        <4>1. \E d : <<c, d>> \in Gate!Blame BY <3>4 DEF Gate!Blame
        <4> QED BY <4>1, <3>1 DEF Gate!ModelDomains
      <3> QED BY <3>1, <3>2, <3>3, <3>4 DEF Gate!Checks
    <2> QED BY <1>2, <2>1, <2>2 DEF Gate!Passed
  <1> QED BY <1>1, <1>2

\* What the host has failed for has one.
LEMMA ProbeAccuses ==
  /\ Gate!InstrumentFailed => "instrument" \in Gate!Domains
  /\ \A g \in {"environment", "storage"} : gate[g] # TRUE => g \in Gate!Domains
  <1> DEFINE models == UNION {Gate!ModelDomains(row[m]) : m \in {m \in Gate!Tags : row[m] # None}}
             hosts  == {g \in {"environment", "storage"} : gate[g] # TRUE}
             self    == IF Gate!InstrumentFailed THEN {"instrument"} ELSE {}
  <1>1. Gate!Domains = models \cup hosts \cup self BY DEF Gate!Domains
  <1>2. Gate!InstrumentFailed => "instrument" \in self OBVIOUS
  <1>3. \A g \in {"environment", "storage"} : gate[g] # TRUE => g \in hosts OBVIOUS
  <1> HIDE DEF models, hosts, self
  <1> QED BY <1>1, <1>2, <1>3

\* A report names what it failed for.
LEMMA ProbeNames == ProbeInv => Gate!FailureNamed
  <1> SUFFICES ASSUME ProbeInv, passing # None, whole
               PROVE  /\ ~passing => Gate!Domains # {}
                      /\ passing =>
                           Gate!Domains = UNION {Gate!ModelDomains(row[m]) : m \in Gate!Tags \ {0}}
    BY DEF Gate!FailureNamed
  <1> USE DEF ProbeInv, ProbeTypes
  <1>1. passing = Gate!Overall /\ passing \in BOOLEAN
    BY ProbeConstants DEF ProbeReport, Gate!Overall
  <1>2. 0 \in Gate!Tags BY ProbeConstants DEF Gate!Tags, Gate!ProbeAssumption
  <1>3. \A m \in Gate!Tags : row[m] # None => row[m] \in Gate!Row BY DEF ProbeRecords
  <1>4. Gate!InstrumentFailed => Gate!Domains # {} BY ProbeAccuses
  <1>5. \A g \in {"environment", "storage"} : gate[g] # TRUE => Gate!Domains # {} BY ProbeAccuses
  <1>6. ASSUME ~Gate!Overall PROVE Gate!Domains # {}
    <2>1. CASE ~Gate!HostPassed
      <3>1. CASE ~pull \/ gate["repository"] # TRUE BY <3>1, <1>4 DEF Gate!InstrumentFailed
      <3>2. CASE gate["environment"] # TRUE \/ gate["storage"] # TRUE BY <3>2, <1>5
      <3>3. CASE gate["disk"] # TRUE /\ gate["environment"] = TRUE
        <4>1. gate["disk"] = FALSE \/ gate["disk"] = None
          BY <3>3 DEF ProbeHost, Gate!Gates
        <4> QED BY <4>1, <3>3, <1>4 DEF Gate!InstrumentFailed
      <3> QED BY <2>1, <3>1, <3>2, <3>3 DEF Gate!HostPassed, Gate!Gates
    <2>2. CASE ~Gate!Eligible(0)
      <3>1. CASE row[0] = None BY <3>1, <1>2, <1>4 DEF Gate!InstrumentFailed
      <3>2. CASE row[0] # None
        <4>1. Gate!ModelDomains(row[0]) # {}
          BY <2>2, <3>2, <1>2, <1>3, ProbeBlames DEF Gate!Eligible
        <4>2. Gate!ModelDomains(row[0]) \subseteq Gate!Domains BY <3>2, <1>2 DEF Gate!Domains
        <4> QED BY <4>1, <4>2
      <3> QED BY <3>1, <3>2
    <2>3. CASE failures # {}
      <3>1. PICK f \in Gate!Gates \cup {"pull", "primary", "exception"} : f \in failures
        BY <2>3 DEF ProbeHost
      <3>2. CASE f \in Gate!Gates
        <4>1. gate[f] = FALSE BY <3>1, <3>2 DEF ProbeGates
        <4>2. ~Gate!HostPassed BY <4>1, <3>2 DEF Gate!HostPassed
        <4> QED BY <4>2, <2>1
      <3>3. CASE f = "pull" BY <3>1, <3>3, <1>4 DEF ProbeGates, Gate!InstrumentFailed
      <3>4. CASE f = "primary" BY <3>1, <3>4, <2>2 DEF ProbeGates, Gate!Eligible
      <3>5. CASE f = "exception"
        <4>1. CASE gate["environment"] # FALSE BY <4>1, <3>1, <3>5, <1>4 DEF Gate!InstrumentFailed
        <4>2. CASE gate["environment"] = FALSE
          BY <4>2, <1>5, ProbeConstants DEF Gate!ProbeAssumption
        <4> QED BY <4>1, <4>2
      <3> QED BY <3>1, <3>2, <3>3, <3>4, <3>5
    <2> QED BY <1>6, <2>1, <2>2, <2>3 DEF Gate!Overall
  <1>7. ASSUME Gate!Overall
    PROVE Gate!Domains = UNION {Gate!ModelDomains(row[m]) : m \in Gate!Tags \ {0}}
    <2>1. pull /\ failures = {} /\ \A g \in Gate!Gates : gate[g] = TRUE
      BY <1>7 DEF Gate!Overall, Gate!HostPassed
    <2>2. model = ProbeModels BY <2>1 DEF ProbeReport
    <2>3. \A m \in Gate!Tags : row[m] # None
      BY <2>2, ProbeConstants DEF ProbeRows, Gate!Tags, Gate!ProbeAssumption
    <2>4. ~Gate!InstrumentFailed
      BY <2>1, <2>3, ProbeConstants DEF Gate!InstrumentFailed, Gate!Gates, Gate!ProbeAssumption
    <2>5. {g \in {"environment", "storage"} : gate[g] # TRUE} = {} BY <2>1 DEF Gate!Gates
    <2>6. Gate!ModelDomains(row[0]) = {}
      BY <1>7, <1>2, <1>3, ProbeBlames DEF Gate!Overall, Gate!Eligible
    <2>7. {m \in Gate!Tags : row[m] # None} = Gate!Tags BY <2>3
    <2>8. Gate!Domains = UNION {Gate!ModelDomains(row[m]) : m \in Gate!Tags}
      BY <2>4, <2>5, <2>7 DEF Gate!Domains
    <2>9. UNION {Gate!ModelDomains(row[m]) : m \in Gate!Tags}
          = UNION {Gate!ModelDomains(row[m]) : m \in Gate!Tags \ {0}}
      BY <2>6, <1>2
    <2> QED BY <2>8, <2>9
  <1> QED BY <1>1, <1>6, <1>7

\* The types of the runs.
LEMMA ProbeTypesHold == ProbeInv => Gate!TypeOK
  BY ProbeConstants
  DEF ProbeInv, ProbeTypes, ProbeHost, ProbeTags, ProbeRecords, ProbeSteps, Gate!TypeOK,
      Gate!ProbeAssumption

\* A report that verifies as passing rests on a primary model, and on any other it calls
\* eligible, that answered all its questions itself under the digest the report names,
\* installed so before the first and after the last; a report that fails names why, and one
\* that passes has failures of its descriptive models only.
THEOREM ProbeHolds == Gate!Init /\ [][Gate!Next]_(Gate!vars) =>
  [](Gate!TypeOK /\ Gate!PassEarned /\ Gate!FailureNamed)
  <1>1. ProbeInv /\ [Gate!Next]_(Gate!vars) => ProbeInv'
    BY ProbeHosted, ProbeTagged, ProbeRecorded, ProbeRowed, ProbeAnswered, ProbeGated, ProbeReported
       DEF ProbeInv, ProbeTypes
  <1>2. ProbeInv => Gate!TypeOK /\ Gate!PassEarned /\ Gate!FailureNamed
    BY ProbeTypesHold, ProbeEarns, ProbeNames
  <1> QED BY ProbeBegins, <1>1, <1>2, PTL

-----------------------------------------------------------------------------
(* The office tasks and their grader *)

\* Its constants.
LEMMA OfficeConstants == Office!GradingAssumption
  BY ProgramConstants

\* Its Cardinality is the one of the theorems.
LEMMA OfficeSize == \A S : Office!Cardinality(S) = Cardinality(S)
  BY Zenon DEF Office!Cardinality, Cardinality

\* A record of an act.
IsAct(a) == a = Office!Act(a.tool, a.to, a.what)

\* The acts of an outcome: no two alike, at most one of them makes a file, under the name asked
\* for, and at most one is remembered.
Fits(s) ==
  /\ \E n \in 1 .. 3 : DOMAIN s = 1 .. n
  /\ \A i \in DOMAIN s : /\ IsAct(s[i]) /\ s[i].tool \in Office!Business
                         /\ s[i].tool \in Office!FileTools => s[i].to = "asked"
                         /\ s[i].tool = "save_memory" => s[i].to = "memory"
  /\ \A i, j \in DOMAIN s : i # j =>
       /\ s[i] # s[j] /\ ~(s[i].tool \in Office!FileTools /\ s[j].tool \in Office!FileTools)
       /\ ~(s[i].tool = "save_memory" /\ s[j].tool = "save_memory")

\* The acts of every family are such.
LEMMA FamiliesFit ==
  ASSUME NEW x, NEW y
  PROVE  /\ Fits(Office!Deck(x)) /\ Fits(Office!Sheet(x)) /\ Fits(Office!Briefing(x))
              /\ Fits(Office!Checklist(x))
         /\ Fits(Office!Reply(x, y)) /\ Fits(Office!Meeting(x)) /\ Fits(Office!FocusBlock(x))
              /\ Fits(Office!Bundle(x))
         /\ Fits(Office!Offsite(x))
  <1> USE DEF Fits, IsAct, Office!Act, Office!Business, Office!FileTools, Office!ListTools
  <1>1. ASSUME NEW a, NEW s, s = <<a>>, IsAct(a), a.tool \in Office!Business,
               a.tool \in Office!FileTools => a.to = "asked", a.tool # "save_memory"
        PROVE  Fits(s)
    <2>1. DOMAIN s = 1 .. 1 /\ s[1] = a BY <1>1
    <2> QED BY <1>1, <2>1
  <1>2. ASSUME NEW a, NEW b, NEW s, s = <<a, b>>, IsAct(a), IsAct(b), a # b,
               a.tool \in Office!Business, b.tool \in Office!ListTools,
                 a.tool \notin Office!FileTools,
               a.tool = "save_memory" => a.to = "memory"
        PROVE  Fits(s)
    <2>1. DOMAIN s = 1 .. 2 /\ s[1] = a /\ s[2] = b BY <1>2
    <2> QED BY <1>2, <2>1
  <1>3. Fits(Office!Deck(x)) BY <1>1 DEF Office!Deck
  <1>4. Fits(Office!Sheet(x)) BY <1>1 DEF Office!Sheet
  <1>5. Fits(Office!Reply(x, y)) BY <1>1 DEF Office!Reply
  <1>6. Fits(Office!Meeting(x)) BY <1>1 DEF Office!Meeting
  <1>7. Fits(Office!FocusBlock(x)) BY <1>1 DEF Office!FocusBlock
  <1>8. Fits(Office!Briefing(x))
    <2>1. /\ DOMAIN Office!Briefing(x) = 1 .. 2 /\ Office!Briefing(x)[1].tool = "send_message"
          /\ Office!Briefing(x)[2].tool = "send_message" /\ Office!Briefing(x)[1].to = "recipient"
          /\ Office!Briefing(x)[2].to = "auditor" /\ IsAct(Office!Briefing(x)[1])
               /\ IsAct(Office!Briefing(x)[2])
      BY DEF Office!Briefing
    <2> QED BY <2>1
  <1>9. Fits(Office!Checklist(x))
    <2>1. ASSUME NEW u, NEW v, NEW s,
                 s = <<Office!Act("set_reminder", "self", u),
                   Office!Act("send_message", "recipient", v)>>
          PROVE  Fits(s)
      <3>1. /\ DOMAIN s = 1 .. 2 /\ s[1].tool = "set_reminder" /\ s[2].tool = "send_message"
            /\ IsAct(s[1]) /\ IsAct(s[2])
        BY <2>1
      <3> QED BY <3>1
    <2>2. PICK u, v :
            Office!Checklist(x) = <<Office!Act("set_reminder", "self", u),
              Office!Act("send_message", "recipient", v)>>
      BY DEF Office!Checklist
    <2> QED BY <2>1, <2>2
  <1>10. Fits(Office!Bundle(x)) BY <1>2 DEF Office!Bundle
  <1>11. Fits(Office!Offsite(x))
    <2>1. DOMAIN Office!Offsite(x) = 1 .. 3 /\ Office!Offsite(x)[1].tool = "add_event"
          /\ Office!Offsite(x)[2].tool = "send_email"
               /\ Office!Offsite(x)[3].tool = "create_presentation"
          /\ Office!Offsite(x)[3].to = "asked" /\ IsAct(Office!Offsite(x)[1])
               /\ IsAct(Office!Offsite(x)[2])
          /\ IsAct(Office!Offsite(x)[3])
      BY DEF Office!Offsite
    <2> QED BY <2>1
  <1> QED BY <1>3, <1>4, <1>5, <1>6, <1>7, <1>8, <1>9, <1>10, <1>11

\* The acts that are derived fit, whatever the packet shows.
LEMMA DerivedFit == ASSUME NEW p, p.family \in Office!TaskFamilies
  PROVE Fits(Office!Derived(p).acts)
  <1> USE FamiliesFit DEF Office!Derived, Office!Outcome, Office!DeriveTable, Office!DeriveMail
  <1>1. CASE p.family = "pptx_basic" BY SMT, <1>1 DEF Office!DerivePptxBasic
  <1>2. CASE p.family = "pptx_from_email" BY SMT, <1>2 DEF Office!DerivePptxFromEmail
  <1>3. CASE p.family = "xlsx_basic" BY SMT, <1>3 DEF Office!DeriveXlsxBasic
  <1>4. CASE p.family = "xlsx_from_email" BY SMT, <1>4 DEF Office!DeriveXlsxFromEmail
  <1>5. CASE p.family = "email_reply" BY SMT, <1>5 DEF Office!DeriveEmailReply
  <1>6. CASE p.family = "cal_add" BY SMT, <1>6 DEF Office!DeriveCalAdd
  <1>7. CASE p.family = "cal_freeslot" BY SMT, <1>7 DEF Office!DeriveCalFreeslot
  <1>8. CASE p.family = "cal_brief" BY SMT, <1>8 DEF Office!DeriveCalBrief
  <1>9. CASE p.family = "remind_msg" BY SMT, <1>9 DEF Office!DeriveRemindMsg
  <1>10. CASE p.family = "preference_learning" BY SMT, <1>10 DEF Office!DerivePreferenceLearning
  <1>11. CASE p.family = "multi_offsite" BY SMT, <1>11 DEF Office!DeriveMultiOffsite
  <1> QED BY <1>1, <1>2, <1>3, <1>4, <1>5, <1>6, <1>7, <1>8, <1>9, <1>10, <1>11
          DEF Office!TaskFamilies

\* A packet is of the family that was asked for, under any policy.
LEMMA PacketsFit ==
  ASSUME family \in Office!TaskFamilies
  PROVE  /\ Office!Task.family = family
         /\ \A q : [Office!Task EXCEPT !.policy = q].family = family
  BY DEF Office!Task, Office!Generated

\* What is asked for, and the acts there are.
WantedFit == Fits(Office!Wanted.acts)
\* The acts a model may do fit.
ActsFit   == \A a \in Office!Acts :
               /\ IsAct(a) /\ a.tool \in Office!Business
               /\ a.tool \in Office!FileTools => a.to \in {"asked", "other"}
               /\ a.tool = "save_memory" => a.to = "memory"

\* So do those of the task, and the acts a model may do.
LEMMA OfficeFits ==
  ASSUME family \in Office!TaskFamilies
  PROVE  WantedFit /\ ActsFit /\ Office!WantedActs \subseteq Office!Acts
  <1>1. WantedFit BY PacketsFit, DerivedFit DEF WantedFit, Office!Wanted
  <1>2. \A q : Fits(Office!Derived([Office!Task EXCEPT !.policy = q]).acts)
    BY PacketsFit, DerivedFit
  <1>3. ASSUME NEW s, Fits(s), NEW a \in Office!ToSet(s)
        PROVE  /\ IsAct(a) /\ a.tool \in Office!Business
               /\ a.tool \in Office!FileTools => a.to = "asked"
               /\ a.tool = "save_memory" => a.to = "memory"
    BY <1>3 DEF Fits, Office!ToSet
  <1>4. ASSUME NEW a \in Office!OtherActs
        PROVE  /\ IsAct(a) /\ a.tool \in Office!Business
               /\ a.tool \in Office!FileTools => a.to \in {"asked", "other"}
               /\ a.tool = "save_memory" => a.to = "memory"
    <2>1. CASE \E q \in 1 .. 3
          : a \in Office!ToSet(Office!Derived([Office!Task EXCEPT !.policy = q]).acts)
      BY <1>2, <1>3, <2>1
    <2>2. CASE \E x \in Office!WantedActs : x.tool \in Office!FileTools
          /\ a = [x EXCEPT !.to = "other"]
      <3>1. PICK x \in Office!WantedActs : x.tool \in Office!FileTools
            /\ a = [x EXCEPT !.to = "other"]
        BY <2>2
      <3>2. IsAct(x) BY <1>1, <1>3 DEF Office!WantedActs, WantedFit
      <3>3. a = [tool |-> x.tool, to |-> "other", what |-> x.what]
        BY <3>1, <3>2 DEF IsAct, Office!Act
      <3>4. x.tool # "save_memory" BY <3>1 DEF Office!FileTools
      <3> QED BY <3>1, <3>3, <3>4 DEF IsAct, Office!Act, Office!Business
    <2>3. CASE a \in {Office!Act("send_message", "recipient", <<0>>),
          Office!Act("save_memory", "memory", <<0>>)}
      BY <2>3 DEF IsAct, Office!Act, Office!Business, Office!ListTools, Office!FileTools
    <2> QED BY <2>1, <2>2, <2>3 DEF Office!OtherActs
  <1>5. ActsFit
    <2>1. \A a \in Office!WantedActs :
            /\ IsAct(a) /\ a.tool \in Office!Business
            /\ a.tool \in Office!FileTools => a.to = "asked"
            /\ a.tool = "save_memory" => a.to = "memory"
      BY <1>1, <1>3 DEF Office!WantedActs, WantedFit
    <2> QED BY <1>4, <2>1 DEF ActsFit, Office!Acts
  <1> QED BY <1>1, <1>5 DEF Office!Acts

\* Sequences of acts.
LEMMA MatchEmpty == \A a : Cardinality(Office!Matching(<<>>, a)) = 0
  <1>1. \A a : Office!Matching(<<>>, a) = {} BY DEF Office!Matching
  <1> QED BY <1>1, FS_EmptySet

\* The places of an act in a sequence are finitely many.
LEMMA MatchFinite ==
  ASSUME NEW X, NEW s \in Seq(X), NEW a
  PROVE  /\ IsFiniteSet(DOMAIN s) /\ Cardinality(DOMAIN s) = Len(s)
         /\ IsFiniteSet(Office!Matching(s, a)) /\ Cardinality(Office!Matching(s, a)) \in 0 .. Len(s)
  <1>1. Len(s) \in Nat /\ DOMAIN s = 1 .. Len(s) OBVIOUS
  <1>2. IsFiniteSet(1 .. Len(s)) /\ Cardinality(1 .. Len(s)) = Len(s) BY <1>1, FS_Interval
  <1>3. Office!Matching(s, a) \subseteq 1 .. Len(s) BY <1>1 DEF Office!Matching
  <1>4. IsFiniteSet(Office!Matching(s, a)) /\ Cardinality(Office!Matching(s, a)) <= Len(s)
    BY <1>2, <1>3, FS_Subset
  <1> QED BY <1>1, <1>2, <1>4, FS_CardinalityType

\* One act more.
LEMMA MatchAppend ==
  ASSUME NEW X, NEW s \in Seq(X), NEW a \in X, NEW b
  PROVE  Cardinality(Office!Matching(Append(s, a), b))
           = Cardinality(Office!Matching(s, b)) + (IF a = b THEN 1 ELSE 0)
  <1>1. /\ Len(s) \in Nat /\ DOMAIN s = 1 .. Len(s) /\ DOMAIN Append(s, a) = 1 .. Len(s) + 1
        /\ Append(s, a)[Len(s) + 1] = a /\ \A i \in 1 .. Len(s) : Append(s, a)[i] = s[i]
    OBVIOUS
  <1>2. CASE a = b
    <2>1. Office!Matching(Append(s, a), b) = Office!Matching(s, b) \cup {Len(s) + 1}
      BY <1>1, <1>2 DEF Office!Matching
    <2>2. Len(s) + 1 \notin Office!Matching(s, b) BY <1>1 DEF Office!Matching
    <2> QED BY <1>2, <2>1, <2>2, MatchFinite, FS_AddElement
  <1>3. CASE a # b
    <2>1. Office!Matching(Append(s, a), b) = Office!Matching(s, b) BY <1>1, <1>3 DEF Office!Matching
    <2> QED BY <1>3, <2>1, MatchFinite
  <1> QED BY <1>2, <1>3

\* Behind the effects is a calls of the acts of each tool, of which the world keeps the lists, the
\* count and what was remembered.
OfficeLog(calls) ==
  /\ calls \in [Office!Business -> Seq(Office!Acts)]
  /\ \A t \in Office!Business : \A i \in DOMAIN calls[t] : calls[t][i].tool = t
  /\ \A a \in Office!Acts : effects[a] = Cardinality(Office!Matching(calls[a.tool], a))
  /\ \A t \in Office!ListTools : lists[t] = calls[t]
  /\ \A t \in Office!ListTools \cup Office!FileTools : recorded[t] = Len(calls[t])
  /\ DOMAIN memory = DOMAIN calls["save_memory"]
  /\ \A i \in DOMAIN memory : memory[i] = calls["save_memory"][i].what

\* The types.
OfficeKinds ==
  /\ family \in Office!TaskFamilies /\ ordinal \in Office!Ordinals
  /\ condition \in {"native_tools", "harness_full"}
  /\ effects \in [Office!Acts -> Nat] /\ recorded \in [Office!Business -> Nat]
  /\ lists \in [Office!ListTools -> Seq(Office!Acts)]
  /\ memory \in Seq({a.what : a \in Office!Acts}) /\ recorded["save_memory"] >= Len(memory)
  /\ slips \in 0 .. MaxSlips /\ oStatus \in {"acting", "done", "model_failure"}

\* A file is of an act that was done, and an act that makes a file leaves one of its name.
OfficeFiles ==
  /\ DOMAIN files \subseteq {"asked", "other"}
  /\ \A n \in DOMAIN files : /\ files[n] \in Office!Acts /\ effects[files[n]] > 0
                             /\ files[n].tool \in Office!FileTools /\ files[n].to = n
  /\ \A a \in Office!Acts : a.tool \in Office!FileTools /\ effects[a] > 0 => a.to \in DOMAIN files

\* What is recorded was inspected, and the other way round.
Recorded(r) ==
  \/ r.tool = "list_emails" /\ <<"inbox", 0>> \in inspected
  \/ /\ r.tool = "read_email" /\ r = Office!Read("read_email", r.name, r.arg)
     /\ <<"email", r.arg>> \in inspected
  \/ r.tool = "list_events" /\ (r.arg \in {-1, 0} => <<"calendar", 0>> \in inspected)
\* What was inspected was read by a call that is on record.
Inspected(w) ==
  \/ w[1] = "inbox" /\ \E r \in records : r.tool = "list_emails"
  \/ w[1] = "email" /\ \E n : Office!Read("read_email", n, w[2]) \in records
  \/ w[1] = "calendar"
       /\ (w[2] = 0 => \E d \in {-1, 0} : Office!Read("list_events", "date", d) \in records)
OfficeReads == (\A r \in records : Recorded(r)) /\ (\A w \in inspected : Inspected(w))

\* The inductive invariant.
OfficeInv == (\E calls : OfficeLog(calls)) /\ OfficeKinds /\ OfficeFiles /\ OfficeReads

\* It holds at first.
LEMMA OfficeInit == ASSUME Office!Init PROVE OfficeInv
  <1>1. OfficeLog([t \in Office!Business |-> <<>>])
    BY MatchEmpty, OfficeFits DEF Office!Init, OfficeLog, Office!Nothing, ActsFit, Office!Business
  <1>2. OfficeKinds
    BY OfficeConstants
    DEF Office!Init, OfficeKinds, Office!Nothing, Office!Business, Office!GradingAssumption
  <1>3. OfficeFiles BY DEF Office!Init, OfficeFiles, Office!Nothing
  <1>4. OfficeReads BY DEF Office!Init, OfficeReads
  <1> QED BY <1>1, <1>2, <1>3, <1>4 DEF OfficeInv

\* The task is what it was.
LEMMA OfficeSame ==
  ASSUME UNCHANGED <<family, ordinal>>
  PROVE  Office!Acts' = Office!Acts /\ Office!Wanted' = Office!Wanted
    /\ Office!WantedActs' = Office!WantedActs
  <1>1. Office!Task' = Office!Task BY DEF Office!Task
  <1>2. Office!Wanted' = Office!Wanted BY <1>1 DEF Office!Wanted
  <1>3. Office!WantedActs' = Office!WantedActs BY <1>2 DEF Office!WantedActs
  <1>4. Office!OtherActs' = Office!OtherActs BY <1>1, <1>3 DEF Office!OtherActs
  <1> QED BY <1>2, <1>3, <1>4 DEF Office!Acts

\* A call that reads a source keeps it.
LEMMA OfficeRecord ==
  ASSUME OfficeInv, NEW read, NEW what, Office!Record(read, what), slips' \in 0 .. MaxSlips,
         \/ read.tool = "list_emails" /\ what = <<"inbox", 0>>
         \/ \E n, m : read = Office!Read("read_email", n, m) /\ what = <<"email", m>>
         \/ \E d \in {-1, 0, 1} : /\ read = Office!Read("list_events", "date", d)
                                  /\ what = <<"calendar", IF d = -1 THEN 0 ELSE d>>
  PROVE  OfficeInv'
  <1>1. /\ UNCHANGED <<family, ordinal, condition, recorded, lists, memory, files, effects,
             oStatus>>
        /\ records' = records \cup {read} /\ inspected' = inspected \cup {what}
    BY DEF Office!Record
  <1>2. Office!Acts' = Office!Acts BY <1>1, OfficeSame
  <1>3. (\E calls : OfficeLog(calls)) => (\E calls : OfficeLog(calls))'
    BY <1>1, <1>2 DEF OfficeLog
  <1>4. OfficeKinds' BY <1>1, <1>2 DEF OfficeInv, OfficeKinds
  <1>5. OfficeFiles' BY <1>1, <1>2 DEF OfficeInv, OfficeFiles
  <1>6. OfficeReads'
    <2>1. \A r \in records : Recorded(r)' BY <1>1 DEF OfficeInv, OfficeReads, Recorded
    <2>2. \A w \in inspected : Inspected(w)' BY <1>1 DEF OfficeInv, OfficeReads, Inspected
    <2>3. Recorded(read)' BY <1>1 DEF Recorded, Office!Read
    <2>4. Inspected(what)' BY <1>1 DEF Inspected, Office!Read
    <2> QED BY <1>1, <2>1, <2>2, <2>3, <2>4 DEF OfficeReads
  <1> QED BY <1>3, <1>4, <1>5, <1>6 DEF OfficeInv

\* A call that does something keeps it.
LEMMA OfficeDo == ASSUME OfficeInv, NEW a \in Office!Acts, Office!Do(a) PROVE OfficeInv'
  <1>1. /\ UNCHANGED <<family, ordinal, condition, records, inspected, oStatus>>
        /\ effects' = [effects EXCEPT ![a] = @ + 1]
        /\ recorded' = [recorded EXCEPT ![a.tool] = @ + 1]
        /\ lists' = Office!Lists(a) /\ files' = Office!Files(a) /\ memory' = Office!Memory(a)
        /\ slips' \in 0 .. MaxSlips
    BY OfficeConstants DEF Office!Do, Office!Slip, OfficeInv, OfficeKinds, Office!GradingAssumption
  <1>2. Office!Acts' = Office!Acts BY <1>1, OfficeSame
  <1>3. PICK calls : OfficeLog(calls) BY DEF OfficeInv
  <1>4. /\ IsAct(a) /\ a.tool \in Office!Business
        /\ a.tool \in Office!FileTools => a.to \in {"asked", "other"}
        /\ \A b \in Office!Acts : b.tool \in Office!Business
    BY OfficeFits DEF OfficeInv, OfficeKinds, ActsFit
  <1>5. /\ effects \in [Office!Acts -> Nat] /\ recorded \in [Office!Business -> Nat]
        /\ lists \in [Office!ListTools -> Seq(Office!Acts)]
             /\ memory \in Seq({b.what : b \in Office!Acts})
        /\ recorded["save_memory"] >= Len(memory)
    BY DEF OfficeInv, OfficeKinds
  <1> DEFINE s == calls[a.tool]
             new == [calls EXCEPT ![a.tool] = Append(s, a)]
  <1>6. s \in Seq(Office!Acts) /\ Append(s, a) \in Seq(Office!Acts) BY <1>3, <1>4 DEF OfficeLog
  <1>7. /\ new \in [Office!Business -> Seq(Office!Acts)] /\ new[a.tool] = Append(s, a)
        /\ \A t \in Office!Business : t # a.tool => new[t] = calls[t]
    BY <1>3, <1>4, <1>6 DEF OfficeLog
  <1>8. /\ Len(Append(s, a)) = Len(s) + 1 /\ Len(s) \in Nat /\ DOMAIN s = 1 .. Len(s)
        /\ DOMAIN Append(s, a) = 1 .. Len(s) + 1 /\ Append(s, a)[Len(s) + 1] = a
        /\ \A i \in 1 .. Len(s) : Append(s, a)[i] = s[i]
    BY <1>6
  <1>9. /\ effects' \in [Office!Acts -> Nat] /\ effects'[a] = effects[a] + 1
        /\ \A b \in Office!Acts : b # a => effects'[b] = effects[b]
    BY <1>1, <1>5
  <1>10. /\ recorded' \in [Office!Business -> Nat] /\ recorded'[a.tool] = recorded[a.tool] + 1
         /\ \A t \in Office!Business : t # a.tool => recorded'[t] = recorded[t]
    BY <1>1, <1>4, <1>5
  <1>11. /\ lists' \in [Office!ListTools -> Seq(Office!Acts)]
         /\ a.tool \in Office!ListTools => lists'[a.tool] = Append(lists[a.tool], a)
         /\ \A t \in Office!ListTools : t # a.tool => lists'[t] = lists[t]
    <2>1. CASE a.tool \in Office!ListTools
      <3>1. Append(lists[a.tool], a) \in Seq(Office!Acts) BY <1>5, <2>1
      <3> QED BY <1>1, <1>5, <2>1, <3>1 DEF Office!Lists
    <2>2. CASE a.tool \notin Office!ListTools BY <1>1, <1>5, <2>2 DEF Office!Lists
    <2> QED BY <2>1, <2>2
  <1>12. /\ memory' \in Seq({b.what : b \in Office!Acts})
         /\ a.tool # "save_memory" => memory' = memory
         /\ a.tool = "save_memory" => /\ memory' = Append(memory, a.what)
                                      /\ Len(memory') = Len(memory) + 1
    BY <1>1, <1>5 DEF Office!Memory
  <1>13. OfficeLog(new)'
    <2>1. \A t \in Office!Business : \A i \in DOMAIN new[t] : new[t][i].tool = t
      <3>1. SUFFICES ASSUME NEW t \in Office!Business, NEW i \in DOMAIN new[t]
        PROVE new[t][i].tool = t
        OBVIOUS
      <3>2. CASE t # a.tool BY <1>3, <1>7, <3>1, <3>2 DEF OfficeLog
      <3>3. CASE t = a.tool
        <4>1. i \in 1 .. Len(s) \/ i = Len(s) + 1 BY <1>7, <1>8, <3>1, <3>3
        <4>2. \A j \in 1 .. Len(s) : s[j].tool = a.tool BY <1>3, <1>4, <1>8 DEF OfficeLog
        <4> QED BY <1>7, <1>8, <3>3, <4>1, <4>2
      <3> QED BY <3>2, <3>3
    <2>2. \A b \in Office!Acts : effects'[b] = Cardinality(Office!Matching(new[b.tool], b))
      <3>1. SUFFICES ASSUME NEW b \in Office!Acts
                     PROVE  effects'[b] = Cardinality(Office!Matching(new[b.tool], b))
        OBVIOUS
      <3>2. effects[b] = Cardinality(Office!Matching(calls[b.tool], b)) BY <1>3 DEF OfficeLog
      <3>3. CASE b.tool # a.tool BY <1>4, <1>7, <1>9, <3>2, <3>3
      <3>4. CASE b.tool = a.tool
        <4>1. Cardinality(Office!Matching(Append(s, a), b))
                = Cardinality(Office!Matching(s, b)) + (IF a = b THEN 1 ELSE 0)
          BY <1>6, MatchAppend
        <4>2. effects[b] = Cardinality(Office!Matching(s, b)) BY <3>2, <3>4
        <4>3. new[b.tool] = Append(s, a) BY <1>7, <3>4
        <4>4. Cardinality(Office!Matching(new[b.tool], b)) = effects[b] + (IF a = b THEN 1 ELSE 0)
          BY <4>1, <4>2, <4>3
        <4>5. CASE a = b BY <1>9, <4>4, <4>5
        <4>6. CASE a # b
          <5>1. effects[b] \in Nat BY <1>5
          <5> QED BY <1>9, <4>4, <4>6, <5>1
        <4> QED BY <4>5, <4>6
      <3> QED BY <3>3, <3>4
    <2>3. \A t \in Office!ListTools : lists'[t] = new[t]
      BY <1>3, <1>4, <1>7, <1>11 DEF OfficeLog, Office!Business
    <2>4. \A t \in Office!ListTools \cup Office!FileTools : recorded'[t] = Len(new[t])
      BY <1>3, <1>7, <1>8, <1>10 DEF OfficeLog, Office!Business
    <2>5. /\ DOMAIN memory' = DOMAIN new["save_memory"]
          /\ \A i \in DOMAIN memory' : memory'[i] = new["save_memory"][i].what
      <3>1. CASE a.tool # "save_memory"
        BY <1>3, <1>7, <1>12, <3>1 DEF OfficeLog, Office!Business
      <3>2. CASE a.tool = "save_memory"
        <4>1. /\ DOMAIN memory = DOMAIN s /\ \A i \in DOMAIN memory : memory[i] = s[i].what
          BY <1>3, <3>2 DEF OfficeLog
        <4>2. DOMAIN memory = 1 .. Len(memory) /\ Len(memory) \in Nat BY <1>5
        <4>3. Len(memory) = Len(s) BY <1>8, <4>1, <4>2
        <4>4. /\ DOMAIN memory' = 1 .. Len(memory) + 1 /\ memory'[Len(memory) + 1] = a.what
              /\ \A i \in 1 .. Len(memory) : memory'[i] = memory[i]
          BY <1>5, <1>12, <3>2
        <4>5. new["save_memory"] = Append(s, a) BY <1>7, <3>2
        <4>6. ASSUME NEW i \in DOMAIN memory' PROVE memory'[i] = Append(s, a)[i].what
          <5>1. i \in 1 .. Len(s) \/ i = Len(s) + 1 BY <4>2, <4>3, <4>4
          <5> QED BY <1>8, <4>1, <4>3, <4>4, <5>1
        <4> QED BY <1>8, <4>3, <4>4, <4>5, <4>6
      <3> QED BY <3>1, <3>2
    <2> HIDE DEF new
    <2> QED BY <1>2, <1>7, <2>1, <2>2, <2>3, <2>4, <2>5 DEF OfficeLog
  <1>14. OfficeKinds'
    <2>1. recorded'["save_memory"] >= Len(memory')
      BY <1>4, <1>5, <1>10, <1>12 DEF Office!Business
    <2> QED BY <1>1, <1>2, <1>9, <1>10, <1>11, <1>12, <2>1 DEF OfficeInv, OfficeKinds
  <1>15. OfficeFiles'
    <2>1. OfficeFiles BY DEF OfficeInv
    <2>2. \A b \in Office!Acts : effects[b] > 0 => effects'[b] > 0 BY <1>5, <1>9
    <2>3. effects'[a] > 0 BY <1>5, <1>9
    <2>4. CASE a.tool \notin Office!FileTools
      BY <1>1, <1>2, <1>9, <2>1, <2>2, <2>4 DEF OfficeFiles, Office!Files
    <2>5. CASE a.tool \in Office!FileTools
      <3>1. /\ DOMAIN files' = DOMAIN files \cup {a.to} /\ files'[a.to] = a
            /\ \A n \in DOMAIN files : n # a.to => files'[n] = files[n]
        BY <1>1, <2>5 DEF Office!Files
      <3> QED BY <1>2, <1>4, <1>9, <2>1, <2>2, <2>3, <2>5, <3>1 DEF OfficeFiles
    <2> QED BY <2>4, <2>5
  <1>16. OfficeReads' BY <1>1 DEF OfficeInv, OfficeReads, Recorded, Inspected
  <1> QED BY <1>13, <1>14, <1>15, <1>16 DEF OfficeInv

\* Every step keeps it.
LEMMA OfficeStep == ASSUME OfficeInv, [Office!Next]_(Office!vars) PROVE OfficeInv'
  <1>1. MaxSlips \in Nat BY OfficeConstants DEF Office!GradingAssumption
  <1>2. slips \in 0 .. MaxSlips BY DEF OfficeInv, OfficeKinds
  <1>3. CASE Office!ListEmails
    BY <1>2, <1>3, OfficeRecord DEF Office!ListEmails, Office!Read
  <1>4. ASSUME NEW m, NEW n, Office!ReadEmail(m, n) PROVE OfficeInv'
    <2>1. slips' \in 0 .. MaxSlips BY <1>1, <1>2, <1>4 DEF Office!ReadEmail, Office!Slip
    <2> QED BY <1>4, <2>1, OfficeRecord DEF Office!ReadEmail
  <1>5. ASSUME NEW d \in {-1, 0, 1}, Office!ListEvents(d) PROVE OfficeInv'
    <2>1. slips' \in 0 .. MaxSlips BY <1>1, <1>2, <1>5 DEF Office!ListEvents, Office!Slip
    <2> QED BY <1>5, <2>1, OfficeRecord DEF Office!ListEvents
  <1>6. CASE Office!SaveBlank
    <2>1. /\ UNCHANGED <<family, ordinal, condition, records, lists, memory, files, inspected,
                         effects, oStatus>>
          /\ recorded' = [recorded EXCEPT !["save_memory"] = @ + 1] /\ slips' \in 0 .. MaxSlips
      BY <1>1, <1>2, <1>6 DEF Office!SaveBlank, Office!Slip
    <2>2. Office!Acts' = Office!Acts BY <2>1, OfficeSame
    <2>3. recorded \in [Office!Business -> Nat] /\ "save_memory" \in Office!Business
      BY DEF OfficeInv, OfficeKinds, Office!Business
    <2>4. /\ recorded' \in [Office!Business -> Nat]
          /\ recorded'["save_memory"] = recorded["save_memory"] + 1
          /\ \A t \in Office!ListTools \cup Office!FileTools : recorded'[t] = recorded[t]
      BY <2>1, <2>3 DEF Office!Business, Office!ListTools, Office!FileTools
    <2>5. (\E calls : OfficeLog(calls)) => (\E calls : OfficeLog(calls))'
      BY <2>1, <2>2, <2>4 DEF OfficeLog
    <2>6. OfficeKinds'
      <3>1. recorded'["save_memory"] >= Len(memory')
        BY <2>1, <2>3, <2>4 DEF OfficeInv, OfficeKinds
      <3> QED BY <2>1, <2>2, <2>4, <3>1 DEF OfficeInv, OfficeKinds
    <2>7. OfficeFiles' /\ OfficeReads'
      BY <2>1, <2>2 DEF OfficeInv, OfficeFiles, OfficeReads, Recorded, Inspected
    <2> QED BY <2>5, <2>6, <2>7 DEF OfficeInv
  <1>7. ASSUME UNCHANGED <<family, ordinal, condition, records, recorded, lists, memory, files,
                           inspected, effects, slips>>,
               oStatus' \in {"acting", "done", "model_failure"}
        PROVE  OfficeInv'
    <2>1. Office!Acts' = Office!Acts BY <1>7, OfficeSame
    <2>2. (\E calls : OfficeLog(calls)) => (\E calls : OfficeLog(calls))'
      BY <1>7, <2>1 DEF OfficeLog
    <2>3. OfficeKinds' BY <1>7, <2>1 DEF OfficeInv, OfficeKinds
    <2>4. OfficeFiles' /\ OfficeReads'
      BY <1>7, <2>1 DEF OfficeInv, OfficeFiles, OfficeReads, Recorded, Inspected
    <2> QED BY <2>2, <2>3, <2>4 DEF OfficeInv
  <1>8. ASSUME NEW how \in {"done", "model_failure"}, Office!End(how) PROVE OfficeInv'
    BY <1>7, <1>8 DEF Office!End
  <1>9. CASE UNCHANGED Office!vars
    BY <1>7, <1>9 DEF Office!vars, OfficeInv, OfficeKinds
  <1> QED BY <1>3, <1>4, <1>5, <1>6, <1>8, <1>9, OfficeDo DEF Office!Next

\* Where every act of a sequence was asked for, and each of these occurs once, the sequence is
\* as long as they are many; and conversely.
Asked(t) == {i \in DOMAIN Office!Wanted.acts : Office!Wanted.acts[i].tool = t}

\* The acts asked for of one tool, and their number.
LEMMA AskedFinite ==
  ASSUME WantedFit, NEW t
  PROVE  IsFiniteSet(Asked(t)) /\ Office!Requested(t) = Cardinality(Asked(t))
    /\ Office!Requested(t) \in Nat
  <1>1. PICK n \in 1 .. 3 : DOMAIN Office!Wanted.acts = 1 .. n BY DEF WantedFit, Fits
  <1>2. IsFiniteSet(1 .. n) BY FS_Interval
  <1>3. Asked(t) \subseteq 1 .. n BY <1>1 DEF Asked
  <1>4. IsFiniteSet(Asked(t)) BY <1>2, <1>3, FS_Subset
  <1> QED BY <1>4, FS_CardinalityType, OfficeSize DEF Office!Requested, Asked

\* A sequence that holds each act asked for once is as long as they are many exactly if it
\* holds no other.
LEMMA OnceEach ==
  ASSUME WantedFit, NEW t, NEW s \in Seq(Office!Acts), \A j \in DOMAIN s : s[j].tool = t,
         \A a \in Office!WantedActs : a.tool = t => Cardinality(Office!Matching(s, a)) = 1
  PROVE  (Len(s) = Office!Requested(t)) <=> (\A j \in DOMAIN s : s[j] \in Office!WantedActs)
  <1> DEFINE W == Asked(t)
             Spot(i) == CHOOSE j \in DOMAIN s : s[j] = Office!Wanted.acts[i]
             f == [i \in W |-> Spot(i)]
  <1>1. IsFiniteSet(W) /\ Office!Requested(t) = Cardinality(W) BY AskedFinite
  <1>2. IsFiniteSet(DOMAIN s) /\ Cardinality(DOMAIN s) = Len(s) BY MatchFinite
  <1>3. ASSUME NEW i \in W
        PROVE  /\ Office!Wanted.acts[i] \in Office!WantedActs
               /\ \E j \in DOMAIN s : s[j] = Office!Wanted.acts[i]
               /\ \A j, k \in DOMAIN s : s[j] = Office!Wanted.acts[i]
                    /\ s[k] = Office!Wanted.acts[i] => j = k
    <2>1. Office!Wanted.acts[i] \in Office!WantedActs /\ Office!Wanted.acts[i].tool = t
      BY DEF Office!WantedActs, Office!ToSet, Asked
    <2>2. Cardinality(Office!Matching(s, Office!Wanted.acts[i])) = 1 BY <2>1
    <2>3. IsFiniteSet(Office!Matching(s, Office!Wanted.acts[i])) BY MatchFinite
    <2>4. PICK x : Office!Matching(s, Office!Wanted.acts[i]) = {x} BY <2>2, <2>3, FS_Singleton
    <2> QED BY <2>1, <2>4 DEF Office!Matching
  <1>4. \A i \in W : f[i] \in DOMAIN s /\ s[f[i]] = Office!Wanted.acts[i] BY <1>3
  <1>5. \A i, j \in W : Office!Wanted.acts[i] = Office!Wanted.acts[j] => i = j
    BY DEF WantedFit, Fits, Asked
  <1> HIDE DEF f, W
  <1>6. f \in [W -> DOMAIN s] BY <1>4 DEF f
  <1>7. f \in Injection(W, DOMAIN s) BY <1>4, <1>5, <1>6 DEF Injection, IsInjective
  <1>8. ASSUME Len(s) = Office!Requested(t), NEW j \in DOMAIN s PROVE s[j] \in Office!WantedActs
    <2>1. f \in Surjection(W, DOMAIN s) BY <1>1, <1>2, <1>7, <1>8, FS_Injection
    <2>2. PICK i \in W : f[i] = j BY <2>1 DEF Surjection
    <2> QED BY <1>3, <1>4, <2>2
  <1>9. ASSUME \A j \in DOMAIN s : s[j] \in Office!WantedActs PROVE Len(s) = Office!Requested(t)
    <2>1. \A j \in DOMAIN s : \E i \in W : f[i] = j
      <3>1. SUFFICES ASSUME NEW j \in DOMAIN s PROVE \E i \in W : f[i] = j OBVIOUS
      <3>2. PICK i \in DOMAIN Office!Wanted.acts : s[j] = Office!Wanted.acts[i]
        BY <1>9 DEF Office!WantedActs, Office!ToSet
      <3>3. i \in W BY <3>2 DEF W, Asked
      <3> QED BY <1>3, <1>4, <3>2, <3>3
    <2>2. f \in Surjection(W, DOMAIN s) BY <1>6, <2>1 DEF Surjection
    <2> QED BY <1>1, <1>2, <1>7, <2>2, FS_Injection
  <1> QED BY <1>8, <1>9

\* The effects that count: memory is free where none was asked for.
Counts(t) == t # "save_memory" \/ Office!Requested(t) # 0

\* How often an act was done, from the calls.
LEMMA OfficeCounts ==
  ASSUME OfficeInv, NEW calls, OfficeLog(calls), NEW t \in Office!Business
  PROVE  /\ calls[t] \in Seq(Office!Acts) /\ \A j \in DOMAIN calls[t] : calls[t][j].tool = t
         /\ Len(calls[t]) \in Nat /\ DOMAIN calls[t] = 1 .. Len(calls[t])
         /\ \A j \in DOMAIN calls[t] : calls[t][j] \in Office!Acts /\ effects[calls[t][j]] > 0
         /\ \A a \in Office!Acts : a.tool = t =>
              /\ effects[a] = Cardinality(Office!Matching(calls[t], a))
                   /\ effects[a] \in 0 .. Len(calls[t])
              /\ effects[a] > 0 => \E j \in DOMAIN calls[t] : calls[t][j] = a
  <1>1. calls[t] \in Seq(Office!Acts) /\ \A j \in DOMAIN calls[t] : calls[t][j].tool = t
    BY DEF OfficeLog
  <1>2. Len(calls[t]) \in Nat /\ DOMAIN calls[t] = 1 .. Len(calls[t]) BY <1>1
  <1>3. ASSUME NEW a \in Office!Acts, a.tool = t
        PROVE  /\ effects[a] = Cardinality(Office!Matching(calls[t], a))
                    /\ effects[a] \in 0 .. Len(calls[t])
               /\ effects[a] > 0 <=> Office!Matching(calls[t], a) # {}
    <2>1. effects[a] = Cardinality(Office!Matching(calls[t], a)) BY <1>3 DEF OfficeLog
    <2>2. /\ IsFiniteSet(Office!Matching(calls[t], a))
          /\ Cardinality(Office!Matching(calls[t], a)) \in 0 .. Len(calls[t])
      BY <1>1, MatchFinite
    <2>3. Cardinality(Office!Matching(calls[t], a)) = 0 <=> Office!Matching(calls[t], a) = {}
      BY <2>2, FS_EmptySet
    <2> QED BY <1>2, <2>1, <2>2, <2>3
  <1>4. ASSUME NEW j \in DOMAIN calls[t]
    PROVE calls[t][j] \in Office!Acts /\ effects[calls[t][j]] > 0
    <2>1. calls[t][j] \in Office!Acts /\ calls[t][j].tool = t BY <1>1
    <2>2. Office!Matching(calls[t], calls[t][j]) # {} BY DEF Office!Matching
    <2> QED BY <1>3, <2>1, <2>2
  <1>5. \A a \in Office!Acts : a.tool = t /\ effects[a] > 0 =>
        \E j \in DOMAIN calls[t] : calls[t][j] = a
    BY <1>3 DEF Office!Matching
  <1> QED BY <1>1, <1>2, <1>3, <1>4, <1>5

\* What is known of the acts asked for.
LEMMA WantedFacts ==
  ASSUME OfficeInv
  PROVE  /\ WantedFit /\ Office!WantedActs \subseteq Office!Acts
         /\ \A a \in Office!Acts : a.tool \in Office!Business /\ IsAct(a)
         /\ \A a \in Office!Acts : a.tool = "save_memory" => a.to = "memory"
         /\ \A a \in Office!WantedActs : Office!Requested(a.tool) # 0
         /\ \A a \in Office!WantedActs : a.tool \in Office!FileTools => a.to = "asked"
         /\ \A t : Office!Requested(t) \in Nat
              /\ (Office!Requested(t) # 0 => \E a \in Office!WantedActs : a.tool = t)
         /\ \A t \in Office!FileTools \cup {"save_memory"} : Office!Requested(t) \in {0, 1}
         /\ \A a, b \in Office!WantedActs : a.tool \in Office!FileTools
              /\ b.tool \in Office!FileTools => a = b
         /\ \A a, b \in Office!WantedActs : a.tool = "save_memory" /\ b.tool = "save_memory" =>
              a = b
  <1>1. WantedFit /\ ActsFit /\ Office!WantedActs \subseteq Office!Acts
    BY OfficeFits DEF OfficeInv, OfficeKinds
  <1>2. \A t : /\ IsFiniteSet(Asked(t)) /\ Office!Requested(t) = Cardinality(Asked(t))
               /\ Office!Requested(t) \in Nat
    BY <1>1, AskedFinite
  <1>3. \A t : Office!Requested(t) = 0 <=> Asked(t) = {} BY <1>2, FS_EmptySet
  <1>4. /\ \A a \in Office!WantedActs : Office!Requested(a.tool) # 0
        /\ \A a \in Office!WantedActs : a.tool \in Office!FileTools => a.to = "asked"
    BY <1>1, <1>3 DEF Office!WantedActs, Office!ToSet, Asked, WantedFit, Fits
  <1>5. \A t : Office!Requested(t) # 0 => \E a \in Office!WantedActs : a.tool = t
    BY <1>3 DEF Office!WantedActs, Office!ToSet, Asked
  <1>6. ASSUME NEW t \in Office!FileTools \cup {"save_memory"} PROVE Office!Requested(t) \in {0, 1}
    <2>1. SUFFICES ASSUME Office!Requested(t) # 0 PROVE Office!Requested(t) = 1 OBVIOUS
    <2>2. PICK i : i \in Asked(t) BY <1>3, <2>1
    <2>3. Asked(t) = {i} BY <1>1, <1>6, <2>2 DEF Asked, WantedFit, Fits
    <2> QED BY <1>2, <2>3, FS_Singleton
  <1>7. /\ \A a, b \in Office!WantedActs : a.tool \in Office!FileTools
             /\ b.tool \in Office!FileTools => a = b
        /\ \A a, b \in Office!WantedActs : a.tool = "save_memory" /\ b.tool = "save_memory" => a = b
    BY <1>1 DEF Office!WantedActs, Office!ToSet, WantedFit, Fits
  <1> QED BY <1>1, <1>2, <1>4, <1>5, <1>6, <1>7 DEF ActsFit

\* What passes was done, and nothing else.
LEMMA PassIsDone == ASSUME OfficeInv, Office!Passes PROVE Office!ExactlyDone
  <1>1. PICK calls : OfficeLog(calls) BY DEF OfficeInv
  <1>2. "save_memory" \in Office!Business /\ \A t \in Office!Business :
          t \in Office!ListTools \/ t \in Office!FileTools \/ t = "save_memory"
    BY DEF Office!Business
  <1>3. "save_memory" \notin Office!ListTools \cup Office!FileTools
        /\ Office!ListTools \cap Office!FileTools = {}
    BY DEF Office!ListTools, Office!FileTools
  <1>4. ASSUME NEW t \in Office!Business, Counts(t)
        PROVE  /\ Len(calls[t]) = Office!Requested(t)
               /\ \A a \in Office!WantedActs : a.tool = t => effects[a] = 1
    <2>1. CASE t \in Office!ListTools
      <3>1. lists[t] = calls[t] /\ Len(lists[t]) = Office!Requested(t)
        BY <1>1, <2>1 DEF OfficeLog, Office!Passes, Office!NoUnrequestedState
      <3>2. \A a \in Office!WantedActs : a.tool = t => Cardinality(Office!Matching(lists[t], a)) = 1
        BY <1>3, <2>1, OfficeSize DEF Office!Passes, Office!EffectPasses
      <3> QED BY <1>1, <3>1, <3>2, OfficeCounts, WantedFacts
    <2>2. CASE t \in Office!FileTools
      <3>1. recorded[t] = Len(calls[t]) BY <1>1, <2>2 DEF OfficeLog
      <3>2. recorded[t] = Office!Requested(t)
        BY <1>4 DEF Office!Passes, Office!ExactBusinessEffects, Counts
      <3>3. Office!Requested(t) \in {0, 1} BY <2>2, WantedFacts
      <3>4. ASSUME NEW a \in Office!WantedActs, a.tool = t PROVE effects[a] = 1
        <4>1. "asked" \in DOMAIN files /\ files["asked"] = a
          BY <1>3, <2>2, <3>4 DEF Office!Passes, Office!EffectPasses, Office!ArtifactMatches
        <4>2. effects[a] > 0 BY <4>1 DEF OfficeInv, OfficeFiles
        <4>3. effects[a] \in 0 .. Len(calls[t]) BY <1>1, <3>4, OfficeCounts, WantedFacts
        <4> QED BY <3>1, <3>2, <3>3, <4>2, <4>3
      <3> QED BY <3>1, <3>2, <3>4
    <2>3. CASE t = "save_memory"
      <3>1. Office!Requested(t) = 1 BY <1>4, <2>3, WantedFacts DEF Counts
      <3>2. PICK a \in Office!WantedActs : a.tool = t BY <3>1, WantedFacts
      <3>3. memory = <<a.what>> BY <1>3, <2>3, <3>2 DEF Office!Passes, Office!EffectPasses
      <3>4. DOMAIN calls[t] = 1 .. 1 /\ calls[t][1].what = a.what
        <4>1. DOMAIN memory = 1 .. 1 /\ memory[1] = a.what BY <3>3
        <4>2. /\ DOMAIN memory = DOMAIN calls["save_memory"]
              /\ \A i \in DOMAIN memory : memory[i] = calls["save_memory"][i].what
          BY <1>1 DEF OfficeLog
        <4>3. 1 \in DOMAIN memory BY <4>1
        <4>4. calls["save_memory"][1].what = a.what BY <4>1, <4>2, <4>3
        <4> QED BY <2>3, <4>1, <4>2, <4>4
      <3>5. Len(calls[t]) = 1
        <4>1. Len(calls[t]) \in Nat /\ DOMAIN calls[t] = 1 .. Len(calls[t]) BY <1>1, OfficeCounts
        <4>2. 1 \in 1 .. Len(calls[t]) BY <3>4, <4>1
        <4>3. Len(calls[t]) \in 1 .. Len(calls[t]) BY <4>1, <4>2
        <4>4. Len(calls[t]) \in 1 .. 1 BY <3>4, <4>1, <4>3
        <4> QED BY <4>4
      <3>6. calls[t][1] = a
        <4>1. calls[t][1] \in Office!Acts /\ calls[t][1].tool = t BY <1>1, <3>4, OfficeCounts
        <4>2. a \in Office!Acts BY WantedFacts
        <4>3. IsAct(a) /\ IsAct(calls[t][1]) /\ a.to = "memory" /\ calls[t][1].to = "memory"
          BY <2>3, <3>2, <4>1, <4>2, WantedFacts
        <4> QED BY <3>2, <3>4, <4>1, <4>3 DEF IsAct
      <3>7. effects[a] > 0 /\ effects[a] \in 0 .. Len(calls[t])
        BY <1>1, <3>2, <3>4, <3>6, OfficeCounts, WantedFacts
      <3>8. \A b \in Office!WantedActs : b.tool = t => b = a BY <2>3, <3>2, WantedFacts
      <3> QED BY <3>1, <3>5, <3>7, <3>8
    <2> QED BY <1>2, <2>1, <2>2, <2>3
  <1>5. ASSUME NEW a \in Office!Acts, effects[a] # 0, Counts(a.tool) PROVE a \in Office!WantedActs
    <2>1. a.tool \in Office!Business BY WantedFacts
    <2>2. PICK t \in Office!Business : t = a.tool BY <2>1
    <2>3. \A b \in Office!WantedActs : b.tool = t => Cardinality(Office!Matching(calls[t], b)) = 1
      BY <1>1, <1>4, <1>5, <2>2, OfficeCounts, WantedFacts
    <2>4. \A j \in DOMAIN calls[t] : calls[t][j] \in Office!WantedActs
      <3>1. /\ calls[t] \in Seq(Office!Acts) /\ \A j \in DOMAIN calls[t] : calls[t][j].tool = t
        BY <1>1, OfficeCounts
      <3>2. WantedFit BY WantedFacts
      <3> QED BY <1>4, <1>5, <2>2, <2>3, <3>1, <3>2, OnceEach
    <2>5. effects[a] > 0
      <3>1. effects[a] \in 0 .. Len(calls[t]) /\ Len(calls[t]) \in Nat
        BY <1>1, <2>2, OfficeCounts
      <3> QED BY <1>5, <3>1
    <2>6. PICK j \in DOMAIN calls[t] : calls[t][j] = a
      <3>1. \A b \in Office!Acts : b.tool = t /\ effects[b] > 0 =>
            \E j \in DOMAIN calls[t] : calls[t][j] = b
        BY <1>1, OfficeCounts
      <3> QED BY <2>2, <2>5, <3>1
    <2> QED BY <2>4, <2>6
  <1>6. ASSUME NEW a \in Office!WantedActs
    PROVE a \in Office!Acts /\ effects[a] = 1 /\ Counts(a.tool)
    <2>1. a \in Office!Acts /\ a.tool \in Office!Business /\ Counts(a.tool)
      BY WantedFacts DEF Counts
    <2> QED BY <1>4, <2>1
  <1>7. DOMAIN effects = Office!Acts BY DEF OfficeInv, OfficeKinds
  <1> QED BY <1>5, <1>6, <1>7 DEF Office!ExactlyDone, Counts

\* And its sources were inspected.
LEMMA PassIsSeen == ASSUME OfficeInv, Office!SourceObserved PROVE Office!AllInspected
  <1>1. \A r \in records : Recorded(r) BY DEF OfficeInv, OfficeReads
  <1>2. Office!Wanted.list => <<"inbox", 0>> \in inspected
    BY <1>1 DEF Office!SourceObserved, Recorded
  <1>3. ASSUME NEW id \in Office!Wanted.emails PROVE <<"email", id>> \in inspected
    BY <1>1 DEF Office!SourceObserved, Recorded, Office!Read
  <1>4. Office!Wanted.calendar => <<"calendar", 0>> \in inspected
    BY <1>1 DEF Office!SourceObserved, Recorded, Office!Read
  <1> QED BY <1>2, <1>3, <1>4 DEF Office!AllInspected

\* An attempt that inspected every source under its own name passes that rule.
LEMMA SeenPasses ==
  ASSUME OfficeInv, Office!AllInspected, \A r \in records : r.tool = "read_email" => r.name = "id"
  PROVE  Office!SourceObserved
  <1>1. \A w \in inspected : Inspected(w) BY DEF OfficeInv, OfficeReads
  <1>2. Office!Wanted.list => \E r \in records : r.tool = "list_emails"
    BY <1>1 DEF Office!AllInspected, Inspected
  <1>3. ASSUME NEW id \in Office!Wanted.emails PROVE Office!Read("read_email", "id", id) \in records
    <2>1. PICK n : Office!Read("read_email", n, id) \in records
      BY <1>1 DEF Office!AllInspected, Inspected
    <2>2. n = "id" BY <2>1 DEF Office!Read
    <2> QED BY <2>1, <2>2
  <1>4. Office!Wanted.calendar =>
        \E d \in {-1, 0} : Office!Read("list_events", "date", d) \in records
    BY <1>1 DEF Office!AllInspected, Inspected
  <1> QED BY <1>2, <1>3, <1>4 DEF Office!SourceObserved

\* What was asked for, done once and nothing else, with no blank fact, passes.
LEMMA DonePasses ==
  ASSUME OfficeInv, Office!ExactlyDone, recorded["save_memory"] = Len(memory)
  PROVE  /\ \A a \in Office!WantedActs : Office!EffectPasses(a)
         /\ Office!ExactBusinessEffects /\ Office!ExactArtifacts /\ Office!NoUnrequestedState
  <1>1. PICK calls : OfficeLog(calls) BY DEF OfficeInv
  <1>2. "save_memory" \in Office!Business /\ \A t \in Office!Business :
          t \in Office!ListTools \/ t \in Office!FileTools \/ t = "save_memory"
    BY DEF Office!Business
  <1>3. "save_memory" \notin Office!ListTools \cup Office!FileTools
        /\ Office!ListTools \cap Office!FileTools = {}
    BY DEF Office!ListTools, Office!FileTools
  <1>4. /\ \A a \in Office!Acts : effects[a] # 0 /\ Counts(a.tool) => a \in Office!WantedActs
        /\ \A a \in Office!WantedActs : effects[a] = 1 /\ Counts(a.tool)
    <2>1. DOMAIN effects = Office!Acts BY DEF OfficeInv, OfficeKinds
    <2> QED BY <2>1 DEF Office!ExactlyDone, Counts
  <1>5. ASSUME NEW t \in Office!Business, Counts(t)
        PROVE  /\ Len(calls[t]) = Office!Requested(t)
                    /\ \A j \in DOMAIN calls[t] : calls[t][j] \in Office!WantedActs
               /\ \A a \in Office!WantedActs : a.tool = t =>
                    Cardinality(Office!Matching(calls[t], a)) = 1
    <2>1. \A a \in Office!WantedActs : a.tool = t => Cardinality(Office!Matching(calls[t], a)) = 1
      BY <1>1, <1>4, OfficeCounts, WantedFacts
    <2>2. /\ calls[t] \in Seq(Office!Acts) /\ \A j \in DOMAIN calls[t] : calls[t][j].tool = t
          /\ \A j \in DOMAIN calls[t] : calls[t][j] \in Office!Acts /\ effects[calls[t][j]] > 0
      BY <1>1, OfficeCounts
    <2>3. \A j \in DOMAIN calls[t] : calls[t][j] \in Office!WantedActs BY <1>4, <1>5, <2>2
    <2>4. WantedFit BY WantedFacts
    <2>5. Len(calls[t]) = Office!Requested(t) BY <2>1, <2>2, <2>3, <2>4, OnceEach
    <2> QED BY <2>1, <2>3, <2>5
  <1>6. /\ \A t \in Office!ListTools : lists[t] = calls[t] /\ recorded[t] = Len(calls[t])
        /\ \A t \in Office!FileTools : recorded[t] = Len(calls[t])
        /\ Len(memory) = Len(calls["save_memory"]) /\ Len(memory) \in Nat
        /\ DOMAIN memory = 1 .. Len(memory)
        /\ \A i \in DOMAIN memory : memory[i] = calls["save_memory"][i].what
    <2>1. memory \in Seq({a.what : a \in Office!Acts}) BY DEF OfficeInv, OfficeKinds
    <2>2. Len(memory) \in Nat /\ DOMAIN memory = 1 .. Len(memory) BY <2>1
    <2>3. /\ Len(calls["save_memory"]) \in Nat
          /\ DOMAIN calls["save_memory"] = 1 .. Len(calls["save_memory"])
      BY <1>1, <1>2, OfficeCounts
    <2>4. DOMAIN memory = DOMAIN calls["save_memory"] BY <1>1 DEF OfficeLog
    <2>5. Len(memory) = Len(calls["save_memory"]) BY <2>2, <2>3, <2>4
    <2> QED BY <1>1, <2>2, <2>5 DEF OfficeLog
  <1>7. ASSUME NEW a \in Office!WantedActs PROVE Office!EffectPasses(a)
    <2>1. a \in Office!Acts /\ a.tool \in Office!Business /\ effects[a] = 1 /\ Counts(a.tool)
      BY <1>4, WantedFacts
    <2>2. CASE a.tool \in Office!ListTools
      <3>1. Cardinality(Office!Matching(lists[a.tool], a)) = 1 BY <1>5, <1>6, <2>1, <2>2
      <3> QED BY <1>3, <2>2, <3>1, OfficeSize DEF Office!EffectPasses
    <2>3. CASE a.tool \in Office!FileTools
      <3>1. "asked" \in DOMAIN files BY <2>1, <2>3, WantedFacts DEF OfficeInv, OfficeFiles
      <3>2. /\ files["asked"] \in Office!Acts /\ effects[files["asked"]] > 0
            /\ files["asked"].tool \in Office!FileTools
        BY <3>1 DEF OfficeInv, OfficeFiles
      <3>3. Counts(files["asked"].tool) BY <1>3, <3>2 DEF Counts
      <3>4. files["asked"] \in Office!WantedActs BY <1>4, <3>2, <3>3
      <3>5. files["asked"] = a BY <2>3, <3>2, <3>4, WantedFacts
      <3> QED BY <1>3, <2>3, <3>1, <3>5 DEF Office!EffectPasses, Office!ArtifactMatches
    <2>4. CASE a.tool = "save_memory"
      <3>1. Office!Requested("save_memory") = 1 BY <2>1, <2>4, WantedFacts DEF Counts
      <3>2. Len(calls["save_memory"]) = 1 /\ DOMAIN calls["save_memory"] = 1 .. 1
        <4>1. Len(calls["save_memory"]) = 1 BY <1>2, <1>5, <2>1, <2>4, <3>1
        <4> QED BY <1>1, <1>2, <4>1, OfficeCounts
      <3>3. calls["save_memory"][1] = a
        <4>1. calls["save_memory"][1] \in Office!WantedActs
              /\ calls["save_memory"][1].tool = "save_memory"
          BY <1>1, <1>2, <1>5, <2>1, <2>4, <3>2, OfficeCounts
        <4> QED BY <2>4, <4>1, WantedFacts
      <3>4. Len(memory) = 1 /\ memory[1] = a.what BY <1>6, <3>2, <3>3
      <3>5. memory = <<a.what>>
        <4>1. memory \in Seq({b.what : b \in Office!Acts}) BY DEF OfficeInv, OfficeKinds
        <4> QED BY <3>4, <4>1
      <3> QED BY <1>3, <2>4, <3>5 DEF Office!EffectPasses
    <2> QED BY <1>2, <2>1, <2>2, <2>3, <2>4
  <1>8. Office!ExactBusinessEffects
    BY <1>2, <1>5, <1>6 DEF Office!ExactBusinessEffects, Counts
  <1>9. Office!ExactArtifacts
    <2>1. ASSUME NEW n \in DOMAIN files
          PROVE  n = "asked" /\ \E a \in Office!WantedActs : a.tool \in Office!FileTools
      <3>1. /\ files[n] \in Office!Acts /\ effects[files[n]] > 0
            /\ files[n].tool \in Office!FileTools /\ files[n].to = n
        BY DEF OfficeInv, OfficeFiles
      <3>2. Counts(files[n].tool) BY <1>3, <3>1 DEF Counts
      <3>3. files[n] \in Office!WantedActs BY <1>4, <3>1, <3>2
      <3> QED BY <3>1, <3>3, WantedFacts
    <2>2. ASSUME NEW a \in Office!WantedActs, a.tool \in Office!FileTools
      PROVE "asked" \in DOMAIN files
      BY <1>4, <2>2, WantedFacts DEF OfficeInv, OfficeFiles
    <2> QED BY <2>1, <2>2 DEF Office!ExactArtifacts
  <1>10. Office!NoUnrequestedState
    <2>1. \A t \in Office!ListTools : Len(lists[t]) = Office!Requested(t)
      BY <1>3, <1>5, <1>6 DEF Counts, Office!Business
    <2>2. Office!Requested("save_memory") # 0 => Office!Requested("save_memory") = Len(memory)
      BY <1>2, <1>5, <1>6 DEF Counts
    <2> QED BY <2>1, <2>2 DEF Office!NoUnrequestedState
  <1> QED BY <1>7, <1>8, <1>9, <1>10

\* The invariant gives the types and the promise.
LEMMA OfficeMeans == ASSUME OfficeInv PROVE Office!TypeOK /\ Office!PassIsEarned
  <1>1. Office!TypeOK
    <2>1. PICK calls : OfficeLog(calls) BY DEF OfficeInv
    <2>2. \A t \in Office!ListTools : recorded[t] = Len(lists[t]) BY <2>1 DEF OfficeLog
    <2>3. \A r \in records : r.tool \in {"list_emails", "read_email", "list_events"}
      BY DEF OfficeInv, OfficeReads, Recorded
    <2> QED BY <2>2, <2>3 DEF OfficeInv, OfficeKinds, OfficeFiles, Office!TypeOK
  <1>2. Office!PassIsEarned
    BY PassIsDone, PassIsSeen, SeenPasses, DonePasses DEF Office!PassIsEarned, Office!Passes
  <1> QED BY <1>1, <1>2

\* Of every task of every family: an attempt that passes the strict grader has inspected every
\* source and done exactly what was asked for, once; and one that did, with plain calls, passes.
THEOREM OfficeHolds == Office!Spec => [](Office!TypeOK /\ Office!PassIsEarned)
  BY OfficeInit, OfficeStep, OfficeMeans, PTL DEF Office!Spec

-----------------------------------------------------------------------------
(* The memories of an agent *)

\* Its constants.
LEMMA MemConstants == Memories!MemoryAssumption
  BY ProgramConstants

\* Its Cardinality is the one of the theorems.
LEMMA MemSize == \A S : Memories!Cardinality(S) = Cardinality(S)
  BY Zenon DEF Memories!Cardinality, Cardinality

\* What a line or an entry of a store is; a record was written where its writer may write.
MemSound(r) == /\ r.id \in 1 .. writes /\ r.expires \in Nat
               /\ form = "scoped" => Memories!Permits(r.by, r.scope)
Entry(x) == x \in {Memories!Garbled, Memories!Cut, Memories!Skipped} \/ MemSound(x)

\* The types; lines and records are those of some set X.
MemStore(X) == [policy : {"append", "read_only"}, records : Seq(X), quarantined : Nat]
MemHas(X)   == lines \in Seq(X) /\ opened \in [{1, 2} -> {None} \cup MemStore(X)]
MemScalars  == /\ form \in {"facts", "scoped"} /\ scope \in Scopings /\ ended \in BOOLEAN
               /\ mClock \in 0 .. MaxAge
               /\ writes \in 0 .. MaxWrites /\ told \subseteq 1 .. writes
                    /\ mFaults \in 0 .. MaxTears
MemFile     == \A i \in DOMAIN lines : Entry(lines[i])
MemOpen     == \A u \in {1, 2} : opened[u] # None =>
                 \A i \in DOMAIN opened[u].records : Entry(opened[u].records[i])
MemEntries  == MemFile /\ MemOpen

\* The last line has a record and no newline: the next append costs it.
LastId     == lines[Len(lines)].id
MemLines   == Cardinality(Memories!Bad) + (IF ~ended /\ LastId # 0 THEN 1 ELSE 0) <= mFaults
\* What the user was told and no line has.
Lost       == told \ {lines[i].id : i \in DOMAIN lines}
\* A line that was cut short holds no record the user was told of.
MemTold    == /\ Cardinality(Lost) + (IF ended THEN 0 ELSE 1) <= mFaults
              /\ ~ended => lines # <<>> /\ LastId \notin told
MemKept    == \A u \in {1, 2} : opened[u] # None =>
                /\ opened[u].quarantined <= mFaults
                /\ form = "facts" =>
                     \A i, j \in Memories!Held(u) :
                       i # j => opened[u].records[i].what # opened[u].records[j].what
\* The inductive invariant.
MemInv == (\E X : MemHas(X)) /\ MemScalars /\ MemEntries /\ MemLines /\ MemTold /\ MemKept

\* The unusable lines are finitely many.
LEMMA MemBad == ASSUME NEW X, lines \in Seq(X)
  PROVE IsFiniteSet(Memories!Bad) /\ Cardinality(Memories!Bad) \in Nat
  <1>1. Len(lines) \in Nat /\ DOMAIN lines = 1 .. Len(lines) OBVIOUS
  <1>2. IsFiniteSet(1 .. Len(lines)) BY <1>1, FS_Interval
  <1>3. Memories!Bad \subseteq 1 .. Len(lines) BY <1>1 DEF Memories!Bad
  <1> QED BY <1>2, <1>3, FS_Subset, FS_CardinalityType

\* The same in the next state.
LEMMA MemBadNext ==
  ASSUME NEW X, lines' \in Seq(X)
    PROVE IsFiniteSet(Memories!Bad') /\ Cardinality(Memories!Bad') \in Nat
  <1>1. Len(lines') \in Nat /\ DOMAIN lines' = 1 .. Len(lines') OBVIOUS
  <1>2. IsFiniteSet(1 .. Len(lines')) BY <1>1, FS_Interval
  <1>3. Memories!Bad' \subseteq 1 .. Len(lines') BY <1>1 DEF Memories!Bad
  <1> QED BY <1>2, <1>3, FS_Subset, FS_CardinalityType

\* So are the confirmed records that are lost.
LEMMA MemLost == ASSUME MemScalars PROVE IsFiniteSet(Lost) /\ Cardinality(Lost) \in Nat
  <1>1. IsFiniteSet(1 .. writes) BY FS_Interval DEF MemScalars
  <1>2. Lost \subseteq 1 .. writes BY DEF Lost, MemScalars
  <1> QED BY <1>1, <1>2, FS_Subset, FS_CardinalityType

\* The same in the next state.
LEMMA MemLostNext == ASSUME MemScalars' PROVE Cardinality(Lost') \in Nat
  <1>1. IsFiniteSet(1 .. writes') BY FS_Interval DEF MemScalars
  <1>2. Lost' \subseteq 1 .. writes' BY DEF Lost, MemScalars
  <1> QED BY <1>1, <1>2, FS_Subset, FS_CardinalityType

\* Lines and stores of one set of entries.
LEMMA MemWiden ==
  ASSUME NEW X, NEW Y, NEW t \in Seq(X), NEW f \in [{1, 2} -> {None} \cup MemStore(Y)]
  PROVE  t \in Seq(X \cup Y) /\ f \in [{1, 2} -> {None} \cup MemStore(X \cup Y)]
  <1>1. Seq(Y) \subseteq Seq(X \cup Y) /\ Seq(X) \subseteq Seq(X \cup Y) OBVIOUS
  <1>2. MemStore(Y) \subseteq MemStore(X \cup Y)
    <2>1. SUFFICES ASSUME NEW m \in MemStore(Y) PROVE m \in MemStore(X \cup Y) OBVIOUS
    <2>2. m.records \in Seq(X \cup Y) BY <1>1 DEF MemStore
    <2> QED BY <2>2 DEF MemStore
  <1> QED BY <1>1, <1>2

\* The invariant holds at first.
LEMMA MemInit == ASSUME Memories!Init PROVE MemInv
  <1>1. MemHas({}) BY DEF Memories!Init, MemHas
  <1>2. MemScalars BY MemConstants DEF Memories!Init, MemScalars, Memories!MemoryAssumption
  <1>3. MemEntries BY DEF Memories!Init, MemEntries, MemFile, MemOpen
  <1>4. Memories!Bad = {} /\ Lost = {} /\ ended = TRUE /\ mFaults = 0
    BY DEF Memories!Init, Memories!Bad, Lost
  <1>5. Cardinality({}) = 0 BY FS_EmptySet
  <1>6. MemLines BY <1>4, <1>5 DEF MemLines
  <1>7. MemTold BY <1>4, <1>5 DEF MemTold
  <1>8. MemKept BY DEF Memories!Init, MemKept
  <1> QED BY <1>1, <1>2, <1>3, <1>6, <1>7, <1>8 DEF MemInv

\* A line is added.
LEMMA MemAppend ==
  ASSUME NEW X, lines \in Seq(X), NEW x, lines' = Append(lines, x)
  PROVE  /\ lines' \in Seq(X \cup {x}) /\ lines' # <<>>
         /\ LastId' = x.id
         /\ {lines'[i].id : i \in DOMAIN lines'} = {lines[i].id : i \in DOMAIN lines} \cup {x.id}
         /\ \A i \in DOMAIN lines' : (i \in DOMAIN lines /\ lines'[i] = lines[i]) \/ lines'[i] = x
         /\ x.id # 0 => Cardinality(Memories!Bad') = Cardinality(Memories!Bad)
         /\ Cardinality(Memories!Bad') <= Cardinality(Memories!Bad) + 1
  <1>1. /\ Len(lines) \in Nat /\ DOMAIN lines = 1 .. Len(lines)
        /\ lines' \in Seq(X \cup {x}) /\ Len(lines') = Len(lines) + 1
        /\ DOMAIN lines' = 1 .. Len(lines) + 1 /\ lines'[Len(lines) + 1] = x
        /\ \A i \in 1 .. Len(lines) : lines'[i] = lines[i]
    OBVIOUS
  <1>2. LastId' = x.id /\ lines' # <<>> BY <1>1 DEF LastId
  <1>3. \A i \in DOMAIN lines' : (i \in DOMAIN lines /\ lines'[i] = lines[i]) \/ lines'[i] = x
    BY <1>1
  <1>4. {lines'[i].id : i \in DOMAIN lines'} = {lines[i].id : i \in DOMAIN lines} \cup {x.id}
    BY <1>1
  <1>5. x.id # 0 => Memories!Bad' = Memories!Bad BY <1>1 DEF Memories!Bad, Memories!IsRecord
  <1>6. x.id = 0 => Memories!Bad' = Memories!Bad \cup {Len(lines) + 1}
    BY <1>1 DEF Memories!Bad, Memories!IsRecord
  <1>7. IsFiniteSet(Memories!Bad) /\ Cardinality(Memories!Bad) \in Nat BY MemBad
  <1>8. Len(lines) + 1 \notin Memories!Bad BY <1>1 DEF Memories!Bad
  <1>9. Cardinality(Memories!Bad \cup {Len(lines) + 1}) = Cardinality(Memories!Bad) + 1
    BY <1>7, <1>8, FS_AddElement
  <1>10. x.id # 0 => Cardinality(Memories!Bad') = Cardinality(Memories!Bad) BY <1>5
  <1>a. x.id = 0 => Cardinality(Memories!Bad') = Cardinality(Memories!Bad) + 1 BY <1>6, <1>9
  <1>11. Cardinality(Memories!Bad') <= Cardinality(Memories!Bad) + 1 BY <1>7, <1>10, <1>a
  <1>12. lines' \in Seq(X \cup {x}) BY <1>1
  <1> HIDE <1>1
  <1> QED BY Zenon, <1>12, <1>2, <1>3, <1>4, <1>10, <1>11

\* The last line is spoilt.
LEMMA MemSpoil ==
  ASSUME NEW X, lines \in Seq(X), lines # <<>>, NEW y, y.id = 0,
         lines' = [lines EXCEPT ![Len(lines)] = y]
  PROVE  /\ lines' \in Seq(X \cup {y}) /\ lines' # <<>>
         /\ LastId' = 0
         /\ {lines[i].id : i \in DOMAIN lines} \subseteq
              {lines'[i].id : i \in DOMAIN lines'} \cup {LastId}
         /\ \A i \in DOMAIN lines' : (i \in DOMAIN lines /\ lines'[i] = lines[i]) \/ lines'[i] = y
         /\ LastId = 0 => Cardinality(Memories!Bad') = Cardinality(Memories!Bad)
         /\ Cardinality(Memories!Bad') <= Cardinality(Memories!Bad) + 1
  <1> DEFINE n == Len(lines)
  <1>1. n \in Nat /\ n > 0 /\ DOMAIN lines = 1 .. n /\ n \in 1 .. n OBVIOUS
  <1>a. lines' = [lines EXCEPT ![n] = y] OBVIOUS
  <1> HIDE DEF n
  <1>b. lines' \in [1 .. n -> X \cup {y}] BY <1>1, <1>a
  <1>c. lines' \in Seq(X \cup {y}) /\ Len(lines') = n BY <1>1, <1>b
  <1>2. /\ DOMAIN lines' = 1 .. n /\ lines' \in Seq(X \cup {y}) /\ Len(lines') = n /\ lines'[n] = y
        /\ \A i \in 1 .. n : i # n => lines'[i] = lines[i]
    BY <1>1, <1>a, <1>b, <1>c
  <1>3. LastId' = 0 /\ lines' # <<>> BY <1>1, <1>2 DEF LastId
  <1> USE DEF n
  <1>4. \A i \in DOMAIN lines' : (i \in DOMAIN lines /\ lines'[i] = lines[i]) \/ lines'[i] = y
    BY <1>1, <1>2
  <1>5. {lines[i].id : i \in DOMAIN lines} \subseteq
          {lines'[i].id : i \in DOMAIN lines'} \cup {LastId}
    BY <1>1, <1>2 DEF LastId
  <1>6. Memories!Bad' = Memories!Bad \cup {n} BY <1>1, <1>2 DEF Memories!Bad, Memories!IsRecord
  <1>7. LastId = 0 => n \in Memories!Bad BY <1>1 DEF Memories!Bad, Memories!IsRecord, LastId
  <1>8. IsFiniteSet(Memories!Bad) /\ Cardinality(Memories!Bad) \in Nat BY MemBad
  <1>9. Cardinality(Memories!Bad \cup {n}) = IF n \in Memories!Bad THEN Cardinality(Memories!Bad)
        ELSE Cardinality(Memories!Bad) + 1
    BY <1>8, FS_AddElement
  <1>10. n \in Memories!Bad => Memories!Bad \cup {n} = Memories!Bad OBVIOUS
  <1> HIDE DEF n
  <1> QED BY <1>2, <1>3, <1>4, <1>5, <1>6, <1>7, <1>8, <1>9, <1>10

\* An append of x, whole or not: what the file has then.
LEMMA MemAppended ==
  ASSUME NEW X, lines \in Seq(X), NEW x, lines' = Memories!Appended(x), NEW K,
    Cardinality(Memories!Bad) \in Nat,
         K = IF ~ended /\ lines # <<>> /\ LastId # 0 THEN 1 ELSE 0
  PROVE  /\ \E Y : lines' \in Seq(Y)
         /\ lines' # <<>> /\ LastId' \in {0, x.id}
         /\ \A i \in DOMAIN lines' : \/ i \in DOMAIN lines /\ lines'[i] = lines[i]
                                    \/ lines'[i] \in {x, Memories!Garbled, Memories!Cut}
         /\ {lines[i].id : i \in DOMAIN lines} \subseteq
              {lines'[i].id : i \in DOMAIN lines'}
              \cup (IF ended \/ lines = <<>> THEN {} ELSE {LastId})
         /\ ended \/ lines = <<>> => x.id \in {lines'[i].id : i \in DOMAIN lines'}
         /\ Cardinality(Memories!Bad') + (IF LastId' = 0 THEN 0 ELSE 1)
               <= Cardinality(Memories!Bad) + K + 1
         /\ (ended \/ lines = <<>> => x.id # 0) =>
              Cardinality(Memories!Bad') <= Cardinality(Memories!Bad) + K
  <1>1. CASE ended \/ lines = <<>>
    <2>1. lines' = Append(lines, x) BY <1>1 DEF Memories!Appended
    <2>2. /\ lines' \in Seq(X \cup {x}) /\ lines' # <<>>
          /\ LastId' = x.id
          /\ {lines'[i].id : i \in DOMAIN lines'} = {lines[i].id : i \in DOMAIN lines} \cup {x.id}
          /\ \A i \in DOMAIN lines' : (i \in DOMAIN lines /\ lines'[i] = lines[i]) \/ lines'[i] = x
          /\ x.id # 0 => Cardinality(Memories!Bad') = Cardinality(Memories!Bad)
          /\ Cardinality(Memories!Bad') <= Cardinality(Memories!Bad) + 1
      BY <2>1, MemAppend
    <2>3. K = 0 BY <1>1
    <2>a. Cardinality(Memories!Bad') \in Nat BY <2>2, MemBadNext
    <2>4. Cardinality(Memories!Bad') + (IF LastId' = 0 THEN 0 ELSE 1)
          <= Cardinality(Memories!Bad) + K + 1
      <3>1. CASE x.id = 0 BY <2>2, <2>3, <2>a, <3>1
      <3>2. CASE x.id # 0 BY <2>2, <2>3, <2>a, <3>2
      <3> QED BY <3>1, <3>2
    <2>5. x.id # 0 => Cardinality(Memories!Bad') <= Cardinality(Memories!Bad) + K BY <2>2, <2>3
    <2> QED BY <1>1, <2>2, <2>4, <2>5
  <1>2. CASE ~(ended \/ lines = <<>>)
    <2>1. PICK y \in {Memories!Garbled, Memories!Cut} : lines' = [lines EXCEPT ![Len(lines)] = y]
      BY <1>2 DEF Memories!Appended
    <2>2. y.id = 0 BY DEF Memories!Garbled, Memories!Cut
    <2>3. /\ lines' \in Seq(X \cup {y}) /\ lines' # <<>>
          /\ LastId' = 0
          /\ {lines[i].id : i \in DOMAIN lines} \subseteq
               {lines'[i].id : i \in DOMAIN lines'} \cup {LastId}
          /\ \A i \in DOMAIN lines' : (i \in DOMAIN lines /\ lines'[i] = lines[i]) \/ lines'[i] = y
          /\ LastId = 0 => Cardinality(Memories!Bad') = Cardinality(Memories!Bad)
          /\ Cardinality(Memories!Bad') <= Cardinality(Memories!Bad) + 1
      BY <1>2, <2>1, <2>2, MemSpoil
    <2>4. Cardinality(Memories!Bad') <= Cardinality(Memories!Bad) + K
      <3>1. CASE LastId = 0 BY <1>2, <2>3, <3>1
      <3>2. CASE LastId # 0 BY <1>2, <2>3, <3>2
      <3> QED BY <3>1, <3>2
    <2>5. Cardinality(Memories!Bad') \in Nat BY <2>3, MemBadNext
    <2>6. K \in {0, 1} OBVIOUS
    <2>7. Cardinality(Memories!Bad') + (IF LastId' = 0 THEN 0 ELSE 1)
          <= Cardinality(Memories!Bad) + K + 1
      BY <2>3, <2>4, <2>5, <2>6
    <2> QED BY <1>2, <2>3, <2>4, <2>7
  <1> QED BY <1>1, <1>2

\* The stores of the others, and of one who keeps a record, forgets all, or neither.
LEMMA MemKeeps ==
  ASSUME MemInv, NEW u \in {1, 2}, opened[u] # None, NEW r, Entry(r)',
         UNCHANGED <<form, scope>>, writes' = writes + 1, mFaults' \in {mFaults, mFaults + 1},
         form = "facts" => r.what \notin Memories!Known(u), r.id # 0,
         Memories!Keep(u, r) \/ Memories!Forget(u) \/ UNCHANGED opened
  PROVE  /\ \E X : opened' \in [{1, 2} -> {None} \cup MemStore(X)]
         /\ MemOpen' /\ MemKept'
  <1>1. PICK X : MemHas(X) BY DEF MemInv
  <1>2. writes \in Nat /\ mFaults \in Nat
    BY MemConstants DEF MemInv, MemScalars, Memories!MemoryAssumption
  <1>3. \A y : Entry(y) => Entry(y)' BY <1>2 DEF Entry, MemSound, Memories!Permits
  <1>4. opened[u] \in MemStore(X) BY <1>1 DEF MemHas
  <1>5. PICK q \in Seq(X \cup {r}) : q = Append(opened[u].records, r)
    <2>1. opened[u].records \in Seq(X) BY <1>4 DEF MemStore
    <2>2. opened[u].records \in Seq(X \cup {r}) BY <2>1
    <2>3. Append(opened[u].records, r) \in Seq(X \cup {r}) BY <2>2
    <2> QED BY <2>3
  <1>6. /\ DOMAIN q = DOMAIN opened[u].records \cup {Len(opened[u].records) + 1}
        /\ Len(opened[u].records) + 1 \notin DOMAIN opened[u].records
        /\ q[Len(opened[u].records) + 1] = r
        /\ \A i \in DOMAIN opened[u].records : q[i] = opened[u].records[i]
    BY <1>4, <1>5 DEF MemStore
  <1>7. ASSUME Memories!Keep(u, r)
        PROVE  /\ opened' \in [{1, 2} -> {None} \cup MemStore(X \cup {r})]
               /\ opened'[u].records = q /\ opened'[u].quarantined = opened[u].quarantined
               /\ \A v \in {1, 2} : v # u => opened'[v] = opened[v]
    <2>1. \A e \in MemStore(X) : e \in MemStore(X \cup {r}) BY DEF MemStore
    <2>2. opened' = [opened EXCEPT ![u] = [opened[u] EXCEPT !.records = q]]
      BY <1>5, <1>7 DEF Memories!Keep
    <2>3. /\ [opened[u] EXCEPT !.records = q] \in MemStore(X \cup {r})
          /\ [opened[u] EXCEPT !.records = q].records = q
          /\ [opened[u] EXCEPT !.records = q].quarantined = opened[u].quarantined
      BY <1>4, <1>5 DEF MemStore
    <2> QED BY <1>1, <2>1, <2>2, <2>3 DEF MemHas
  <1>8. ASSUME Memories!Forget(u)
        PROVE  /\ opened' \in [{1, 2} -> {None} \cup MemStore(X)] /\ opened'[u] = None
               /\ \A v \in {1, 2} : v # u => opened'[v] = opened[v]
    BY <1>1, <1>8 DEF Memories!Forget, MemHas
  <1>9. \E Y : opened' \in [{1, 2} -> {None} \cup MemStore(Y)]
    BY <1>1, <1>7, <1>8 DEF MemHas
  <1>10. ASSUME NEW v \in {1, 2}, NEW z, z = opened'[v], z # None
         PROVE  /\ \A i \in DOMAIN z.records : Entry(z.records[i])'
                /\ z.quarantined <= mFaults'
                /\ form = "facts" =>
                     \A i, j \in DOMAIN z.records :
                       Memories!IsRecord(z.records[i]) /\ Memories!IsRecord(z.records[j]) /\ i # j
                       => z.records[i].what # z.records[j].what
    <2>1. CASE z = opened[v]
      <3>1. /\ \A i \in DOMAIN z.records : Entry(z.records[i])
            /\ z.quarantined <= mFaults
            /\ form = "facts" =>
                 \A i, j \in DOMAIN z.records :
                   Memories!IsRecord(z.records[i]) /\ Memories!IsRecord(z.records[j]) /\ i # j
                   => z.records[i].what # z.records[j].what
        BY <1>10, <2>1 DEF MemInv, MemEntries, MemOpen, MemKept, Memories!Held
      <3>2. z.quarantined \in Nat BY <1>1, <1>10, <2>1 DEF MemHas, MemStore
      <3>3. z.quarantined <= mFaults' BY <1>2, <3>1, <3>2
      <3>4. \A i \in DOMAIN z.records : Entry(z.records[i])' BY <3>1, <1>3
      <3> QED BY <2>1, <3>1, <3>3, <3>4
    <2>2. CASE v = u /\ Memories!Keep(u, r)
      <3>1. /\ \A i \in DOMAIN opened[u].records : Entry(opened[u].records[i])
            /\ opened[u].quarantined <= mFaults
            /\ form = "facts" =>
                 \A i, j \in DOMAIN opened[u].records :
                   Memories!IsRecord(opened[u].records[i])
                     /\ Memories!IsRecord(opened[u].records[j]) /\ i # j
                   => opened[u].records[i].what # opened[u].records[j].what
        BY DEF MemInv, MemEntries, MemOpen, MemKept, Memories!Held
      <3>2. z.records = q /\ z.quarantined = opened[u].quarantined BY <1>7, <1>10, <2>2
      <3>3. opened[u].quarantined \in Nat BY <1>4 DEF MemStore
      <3>4. z.quarantined <= mFaults' BY <1>2, <3>1, <3>2, <3>3
      <3>5. \A i \in DOMAIN q : Entry(q[i])'
        <4>1. SUFFICES ASSUME NEW i \in DOMAIN q, NEW e, e = q[i] PROVE Entry(e)' OBVIOUS
        <4>2. e = r \/ Entry(e) BY <4>1, <1>6, <3>1
        <4> QED BY <4>2, <1>3
      <3>6. form = "facts" =>
              \A i \in DOMAIN opened[u].records :
                Memories!IsRecord(opened[u].records[i]) => opened[u].records[i].what # r.what
        BY DEF Memories!Known, Memories!Held
      <3>7. form = "facts" =>
                 \A i, j \in DOMAIN q :
                   Memories!IsRecord(q[i]) /\ Memories!IsRecord(q[j]) /\ i # j =>
                     q[i].what # q[j].what
        <4>1. SUFFICES ASSUME form = "facts", NEW i \in DOMAIN q, NEW j \in DOMAIN q,
                              Memories!IsRecord(q[i]), Memories!IsRecord(q[j]), i # j
                       PROVE  q[i].what # q[j].what
          OBVIOUS
        <4>2. CASE i \in DOMAIN opened[u].records /\ j \in DOMAIN opened[u].records
          BY <4>1, <4>2, <1>6, <3>1
        <4>3. CASE i \in DOMAIN opened[u].records /\ j \notin DOMAIN opened[u].records
          BY <4>1, <4>3, <1>6, <3>6
        <4>4. CASE i \notin DOMAIN opened[u].records /\ j \in DOMAIN opened[u].records
          BY <4>1, <4>4, <1>6, <3>6
        <4> QED BY <4>1, <4>2, <4>3, <4>4, <1>6
      <3> QED BY <3>2, <3>4, <3>5, <3>7
    <2> QED BY <1>7, <1>8, <1>10, <2>1, <2>2
  <1>11. MemKept'
    <2>1. SUFFICES ASSUME NEW v \in {1, 2}, opened'[v] # None
                   PROVE  /\ opened'[v].quarantined <= mFaults'
                          /\ form' = "facts" =>
                               \A i, j \in DOMAIN opened'[v].records :
                                 Memories!IsRecord(opened'[v].records[i])
                                   /\ Memories!IsRecord(opened'[v].records[j]) /\ i # j
                                 => opened'[v].records[i].what # opened'[v].records[j].what
      BY DEF MemKept, Memories!Held, Memories!IsRecord
    <2> QED BY <1>10, <2>1
  <1>12. MemOpen'
    <2>1. SUFFICES ASSUME NEW v \in {1, 2}, NEW z, z = opened'[v], z # None
                   PROVE  \A i \in DOMAIN z.records : Entry(z.records[i])'
      BY DEF MemOpen
    <2> QED BY <1>10, <2>1
  <1> QED BY <1>9, <1>11, <1>12

\* An append keeps it, whether it is written whole or cut short.
LEMMA MemRemember == ASSUME MemInv, NEW u \in {1, 2}, Memories!Remember(u) PROVE MemInv'
  <1>1. PICK f \in MemoryFacts, s \in Memories!Scopes \cup {<<None, None>>}, d \in 1 .. MaxAge + 1 :
          LET r == Memories!Rec(writes + 1, f, s, d, scope[u])
          IN  /\ IF form = "facts"
                 THEN s = <<None, None>> /\ d = MaxAge + 1 /\ f \notin Memories!Known(u)
                 ELSE s \in Memories!Scopes /\ Memories!Permits(scope[u], s) /\ d > mClock
              /\ Memories!Written(u, r) \/ Memories!CutShort(u, r)
    BY DEF Memories!Remember
  <1>2. PICK r : r = Memories!Rec(writes + 1, f, s, d, scope[u]) OBVIOUS
  <1>3. /\ r.id = writes + 1 /\ r.what = f /\ r.by = scope[u] /\ r.scope = s
        /\ Memories!Written(u, r) \/ Memories!CutShort(u, r)
        /\ form = "facts" => r.what \notin Memories!Known(u)
        /\ form = "scoped" => Memories!Permits(r.by, r.scope)
        /\ r.expires \in Nat
    BY <1>1, <1>2, MemConstants DEF Memories!Rec, Memories!MemoryAssumption
  <1>4. /\ opened[u] # None /\ writes' = writes + 1 /\ writes < MaxWrites
        /\ UNCHANGED <<form, scope, mClock>>
    BY DEF Memories!Remember
  <1>5. PICK X : MemHas(X) BY DEF MemInv
  <1>6. writes \in Nat /\ mFaults \in Nat /\ MaxWrites \in Nat /\ told \subseteq 1 .. writes
    BY MemConstants DEF MemInv, MemScalars, Memories!MemoryAssumption
  <1>7. \A y : MemSound(y) => MemSound(y)'
    BY <1>4, <1>6 DEF MemSound, Memories!Permits
  <1>8. MemSound(r)' /\ r.id # 0 BY <1>3, <1>4, <1>6 DEF MemSound, Memories!Permits
  <1>9. MemScalars'
    <2>1. ended' \in BOOLEAN /\ told' \subseteq 1 .. writes' /\ mFaults' \in 0 .. MaxTears
      <3>1. MaxTears \in Nat BY MemConstants DEF Memories!MemoryAssumption
      <3>2. CASE Memories!Written(u, r)
        <4>1. told' = told \cup {writes + 1} /\ ended' = TRUE /\ mFaults' = mFaults
          BY <1>3, <3>2 DEF Memories!Written
        <4> QED BY <4>1, <1>4, <1>6 DEF MemInv, MemScalars
      <3>3. CASE Memories!CutShort(u, r)
        <4>1. told' = told /\ ended' \in {ended, FALSE} /\ mFaults' = mFaults + 1
              /\ mFaults < MaxTears
          BY <3>3 DEF Memories!CutShort
        <4>2. told' \subseteq 1 .. writes' BY <4>1, <1>4, <1>6
        <4>3. mFaults' \in 0 .. MaxTears BY <4>1, <1>6, <3>1
        <4> QED BY <4>2, <4>3, <4>1, <1>4, <1>6, <3>1 DEF MemInv, MemScalars
      <3> QED BY <1>3, <3>2, <3>3
    <2> QED BY <2>1, <1>4, <1>6 DEF MemInv, MemScalars
  <1>b. Cardinality(Memories!Bad) \in Nat BY <1>5, MemBad DEF MemHas
  <1>c. Cardinality(Lost) \in Nat /\ IsFiniteSet(Lost) BY MemLost DEF MemInv
  <1>d. Cardinality(Lost') \in Nat BY <1>9, MemLostNext
  <1>10. ASSUME Memories!Keep(u, r) \/ Memories!Forget(u) \/ UNCHANGED opened,
         mFaults' \in {mFaults, mFaults + 1}
         PROVE  /\ \E Y : opened' \in [{1, 2} -> {None} \cup MemStore(Y)]
                /\ MemOpen' /\ MemKept'
    BY <1>3, <1>4, <1>8, <1>10, MemKeeps DEF Entry
  <1>11. CASE UNCHANGED <<lines, ended, told>> /\ mFaults' = mFaults + 1
         /\ (Memories!Keep(u, r) \/ Memories!Forget(u) \/ UNCHANGED opened)
    <2>1. MemFile' BY <1>7, <1>11 DEF MemInv, MemEntries, MemFile, Entry
    <2>2. Memories!Bad' = Memories!Bad /\ Lost' = Lost /\ LastId' = LastId
      BY <1>11 DEF Memories!Bad, Lost, LastId
    <2>3. MemLines' BY <1>6, <1>b, <1>11, <2>2 DEF MemInv, MemLines
    <2>4. MemTold' BY <1>6, <1>c, <1>11, <2>2 DEF MemInv, MemTold
    <2>5. \E Y : MemHas(Y)' BY <1>5, <1>10, <1>11, MemWiden DEF MemHas
    <2> QED BY <1>9, <1>10, <1>11, <2>1, <2>3, <2>4, <2>5 DEF MemInv, MemEntries
  <1>12. ASSUME NEW x \in {Memories!Garbled, Memories!Cut, r}, lines' = Memories!Appended(x),
         ended' \in BOOLEAN,
                told' \in {told, told \cup {r.id}}, mFaults' \in {mFaults, mFaults + 1},
                Memories!Keep(u, r) \/ Memories!Forget(u) \/ UNCHANGED opened,
                \/ x = r /\ ended' /\ told' = told \cup {r.id} /\ mFaults' = mFaults
                \/ ~ended' /\ told' = told /\ mFaults' = mFaults + 1
         PROVE  MemInv'
    <2> DEFINE e == ended \/ lines = <<>>
    <2>1. PICK K : K = IF ~ended /\ lines # <<>> /\ LastId # 0 THEN 1 ELSE 0 OBVIOUS
    <2>2. lines \in Seq(X) BY <1>5 DEF MemHas
    <2>3. /\ \E Y : lines' \in Seq(Y)
          /\ lines' # <<>> /\ LastId' \in {0, x.id}
          /\ \A i \in DOMAIN lines' : \/ i \in DOMAIN lines /\ lines'[i] = lines[i]
                                     \/ lines'[i] \in {x, Memories!Garbled, Memories!Cut}
          /\ {lines[i].id : i \in DOMAIN lines} \subseteq
               {lines'[i].id : i \in DOMAIN lines'}
               \cup (IF ended \/ lines = <<>> THEN {} ELSE {LastId})
          /\ ended \/ lines = <<>> => x.id \in {lines'[i].id : i \in DOMAIN lines'}
          /\ Cardinality(Memories!Bad') + (IF LastId' = 0 THEN 0 ELSE 1)
                <= Cardinality(Memories!Bad) + K + 1
          /\ (ended \/ lines = <<>> => x.id # 0) =>
               Cardinality(Memories!Bad') <= Cardinality(Memories!Bad) + K
      BY <1>12, <1>b, <2>1, <2>2, MemAppended
    <2>4. /\ Cardinality(Memories!Bad) + K <= mFaults /\ K \in {0, 1}
          /\ Cardinality(Lost) + (IF ended THEN 0 ELSE 1) <= mFaults
          /\ ~ended => lines # <<>> /\ LastId \notin told
      BY <2>1 DEF MemInv, MemLines, MemTold
    <2>5. Cardinality(Memories!Bad') \in Nat BY <2>3, MemBadNext
    <2>6. LastId' \notin told
      <3>1. x.id \in {0, writes + 1} BY <1>3, <1>12 DEF Memories!Garbled, Memories!Cut
      <3> QED BY <2>3, <3>1, <1>6
    <2>7. MemFile'
      <3>1. Entry(x)' BY <1>8, <1>12 DEF Entry
      <3>2. \A y : Entry(y) => Entry(y)' BY <1>7 DEF Entry
      <3>3. SUFFICES ASSUME NEW i \in DOMAIN lines', NEW y, y = lines'[i] PROVE Entry(y)'
        BY DEF MemFile
      <3>4. Entry(y) \/ y \in {x, Memories!Garbled, Memories!Cut}
        BY <2>3, <3>3 DEF MemInv, MemEntries, MemFile
      <3> QED BY <3>1, <3>2, <3>4 DEF Entry
    <2>8. MemLines'
      <3>1. CASE x = r /\ ended' /\ mFaults' = mFaults
        <4>1. Cardinality(Memories!Bad') <= Cardinality(Memories!Bad) + K BY <1>8, <2>3, <3>1
        <4> QED BY <1>6, <1>b, <2>4, <2>5, <3>1, <4>1 DEF MemLines
      <3>2. CASE ~ended' /\ mFaults' = mFaults + 1
        <4>1. Cardinality(Memories!Bad') + (IF LastId' = 0 THEN 0 ELSE 1) <= mFaults + 1
          BY <1>6, <1>b, <2>3, <2>4, <2>5
        <4> QED BY <3>2, <4>1 DEF MemLines
      <3> QED BY <1>12, <3>1, <3>2
    <2>9. MemTold'
      <3>1. CASE x = r /\ ended' /\ mFaults' = mFaults /\ told' = told \cup {r.id}
        <4>1. CASE ended
          <5>1. Lost' \subseteq Lost BY <2>3, <3>1, <4>1 DEF Lost
          <5>2. Cardinality(Lost') <= Cardinality(Lost) BY <5>1, <1>c, FS_Subset
          <5> QED BY <1>6, <1>c, <1>d, <2>3, <2>4, <3>1, <4>1, <5>2 DEF MemTold
        <4>2. CASE ~ended
          <5>1. Lost' \subseteq Lost \cup {r.id} BY <2>3, <2>4, <3>1, <4>2 DEF Lost
          <5>2. /\ IsFiniteSet(Lost \cup {r.id})
                /\ Cardinality(Lost \cup {r.id}) <= Cardinality(Lost) + 1
            <6>1. /\ IsFiniteSet(Lost \cup {r.id})
                  /\ Cardinality(Lost \cup {r.id})
                       = IF r.id \in Lost THEN Cardinality(Lost) ELSE Cardinality(Lost) + 1
              BY <1>c, FS_AddElement
            <6> QED BY <6>1, <1>c
          <5>3. Cardinality(Lost') <= Cardinality(Lost \cup {r.id}) BY <5>1, <5>2, FS_Subset
          <5>4. Cardinality(Lost \cup {r.id}) \in Nat BY <5>2, FS_CardinalityType
          <5> QED BY <1>6, <1>c, <1>d, <2>3, <2>4, <3>1, <4>2, <5>2, <5>3, <5>4 DEF MemTold
        <4> QED BY <4>1, <4>2
      <3>2. CASE ~ended' /\ told' = told /\ mFaults' = mFaults + 1
        <4>1. Lost' \subseteq Lost BY <2>3, <2>4, <3>2 DEF Lost
        <4>2. Cardinality(Lost') <= Cardinality(Lost) BY <4>1, <1>c, FS_Subset
        <4>3. Cardinality(Lost) <= mFaults BY <1>6, <1>c, <2>4
        <4> QED BY <1>6, <1>c, <1>d, <2>3, <2>6, <3>2, <4>2, <4>3 DEF MemTold
      <3> QED BY <1>12, <3>1, <3>2
    <2>10. \E Y : MemHas(Y)'
      <3>1. /\ \E Y : opened' \in [{1, 2} -> {None} \cup MemStore(Y)]
            /\ MemOpen' /\ MemKept'
        BY <1>10, <1>12
      <3>2. PICK Y : lines' \in Seq(Y) BY <2>3
      <3>3. PICK Z : opened' \in [{1, 2} -> {None} \cup MemStore(Z)] BY <3>1
      <3>4. PICK t, g : t = lines' /\ g = opened' OBVIOUS
      <3>5. t \in Seq(Y \cup Z) /\ g \in [{1, 2} -> {None} \cup MemStore(Y \cup Z)]
        BY <3>2, <3>3, <3>4, MemWiden
      <3> QED BY <3>4, <3>5 DEF MemHas
    <2> QED BY <1>9, <1>10, <1>12, <2>7, <2>8, <2>9, <2>10 DEF MemInv, MemEntries
  <1>13. CASE Memories!Written(u, r)
    BY <1>12, <1>13 DEF Memories!Written
  <1>14. CASE Memories!CutShort(u, r)
    BY <1>11, <1>12, <1>14 DEF Memories!CutShort
  <1> QED BY <1>3, <1>13, <1>14

\* A store that is opened over the file keeps it.
LEMMA MemOpenStore == ASSUME MemInv, NEW u \in {1, 2}, Memories!OpenStore(u) PROVE MemInv'
  <1>1. PICK X : MemHas(X) BY DEF MemInv
  <1>2. UNCHANGED <<form, scope, lines, ended, mClock, writes, told, mFaults>>
    BY DEF Memories!OpenStore
  <1>3. PICK p \in {"append", "read_only"} :
          opened' = [opened EXCEPT ![u] = [policy |-> p, records |-> Memories!Parsed,
                                         quarantined |-> Cardinality(Memories!Bad)]]
    BY MemSize DEF Memories!OpenStore
  <1> DEFINE n == [policy |-> p, records |-> Memories!Parsed,
    quarantined |-> Cardinality(Memories!Bad)]
             Y == X \cup {Memories!Skipped}
  <1>4. Memories!Parsed \in Seq(Y)
    <2>1. lines \in Seq(X) BY <1>1 DEF MemHas
    <2>2. \A i \in 1 .. Len(lines) : lines[i] \in X BY <2>1
    <2>3. Len(lines) \in Nat /\ DOMAIN lines = 1 .. Len(lines) BY <2>1
    <2>4. Memories!Parsed \in [1 .. Len(lines) -> Y] BY <2>2, <2>3 DEF Memories!Parsed
    <2> QED BY <2>3, <2>4
  <1>5. Cardinality(Memories!Bad) \in Nat BY <1>1, MemBad DEF MemHas
  <1>6. n \in MemStore(Y) BY <1>4, <1>5 DEF MemStore
  <1>7. lines \in Seq(Y) /\ opened \in [{1, 2} -> {None} \cup MemStore(Y)]
    <2>1. lines \in Seq(X) /\ opened \in [{1, 2} -> {None} \cup MemStore(X)] BY <1>1 DEF MemHas
    <2>2. lines \in Seq(Y) BY <2>1
    <2>3. opened \in [{1, 2} -> {None} \cup MemStore({Memories!Skipped} \cup X)]
      BY <2>1, MemWiden DEF MemStore
    <2>4. {Memories!Skipped} \cup X = Y OBVIOUS
    <2> QED BY <2>2, <2>3, <2>4
  <1>8. \E Z : MemHas(Z)'
    <2>1. MemHas(Y)' BY <1>2, <1>3, <1>6, <1>7 DEF MemHas
    <2> QED BY <2>1
  <1>9. /\ opened'[u] = n /\ \A v \in {1, 2} : v # u => opened'[v] = opened[v]
    BY <1>3, <1>7
  <1>10. /\ n.records = Memories!Parsed /\ n.quarantined = Cardinality(Memories!Bad) OBVIOUS
  <1>11. MemScalars' /\ MemFile' /\ MemLines' /\ MemTold'
    BY <1>2
    DEF MemInv, MemScalars, MemEntries, MemFile, Entry, MemSound, Memories!Permits, MemLines,
        MemTold, Memories!Bad, Lost, LastId, Memories!IsRecord
  <1>12. \A i \in DOMAIN Memories!Parsed : Entry(Memories!Parsed[i])
    BY DEF MemInv, MemEntries, MemFile, Memories!Parsed, Entry
  <1>13. \A y : Entry(y) => Entry(y)' BY <1>2 DEF Entry, MemSound, Memories!Permits
  <1>14. MemOpen'
    <2>1. SUFFICES ASSUME NEW v \in {1, 2}, NEW z, z = opened'[v], z # None,
                          NEW i \in DOMAIN z.records, NEW y, y = z.records[i]
                   PROVE  Entry(y)'
      BY DEF MemOpen
    <2>2. Entry(y)
      BY <2>1, <1>9, <1>10, <1>12 DEF MemInv, MemEntries, MemOpen
    <2> QED BY <2>2, <1>13
  <1>15. Cardinality(Memories!Bad) <= mFaults
    BY <1>5 DEF MemInv, MemLines, MemScalars
  <1>16. form = "facts" => \A i, j \in DOMAIN Memories!Parsed :
           Memories!IsRecord(Memories!Parsed[i]) /\ Memories!IsRecord(Memories!Parsed[j])
             /\ i # j => Memories!Parsed[i].what # Memories!Parsed[j].what
    <2>1. SUFFICES ASSUME form = "facts", NEW i \in DOMAIN Memories!Parsed,
          NEW j \in DOMAIN Memories!Parsed,
                          Memories!IsRecord(Memories!Parsed[i]),
                            Memories!IsRecord(Memories!Parsed[j]), i # j
                   PROVE  Memories!Parsed[i].what # Memories!Parsed[j].what
      OBVIOUS
    <2>2. ~Memories!IsRecord(Memories!Skipped) BY DEF Memories!IsRecord, Memories!Skipped
    <2>3. \A k \in {i, j} : Memories!Parsed[k] = lines[k] /\ Memories!IsRecord(lines[k])
          /\ Memories!Fresh(k) /\ k \in Nat
      <3>1. DOMAIN Memories!Parsed = 1 .. Len(lines) /\ Len(lines) \in Nat
        BY <1>1 DEF Memories!Parsed, MemHas
      <3> QED BY <2>1, <2>2, <3>1 DEF Memories!Parsed
    <2>4. i \in 1 .. j - 1 \/ j \in 1 .. i - 1
      <3>1. DOMAIN Memories!Parsed = 1 .. Len(lines) /\ Len(lines) \in Nat
        BY <1>1 DEF Memories!Parsed, MemHas
      <3> QED BY <2>1, <3>1
    <2> QED BY <2>3, <2>4 DEF Memories!Fresh
  <1>17. MemKept'
    <2>1. SUFFICES ASSUME NEW v \in {1, 2}, NEW z, z = opened'[v], z # None
                   PROVE  /\ z.quarantined <= mFaults'
                          /\ form' = "facts" =>
                               \A i, j \in DOMAIN z.records :
                                 Memories!IsRecord(z.records[i])
                                   /\ Memories!IsRecord(z.records[j]) /\ i # j
                                 => z.records[i].what # z.records[j].what
      BY DEF MemKept, Memories!Held, Memories!IsRecord
    <2>2. CASE v = u BY <2>1, <2>2, <1>2, <1>9, <1>10, <1>15, <1>16
    <2>3. CASE v # u BY <2>1, <2>3, <1>2, <1>9 DEF MemInv, MemKept, Memories!Held
    <2> QED BY <2>2, <2>3
  <1> QED BY <1>8, <1>11, <1>14, <1>17 DEF MemInv, MemEntries

\* Every step keeps it.
LEMMA MemStep == MemInv /\ [Memories!Next]_(Memories!vars) => MemInv'
  <1> SUFFICES ASSUME MemInv, [Memories!Next]_(Memories!vars) PROVE MemInv' OBVIOUS
  <1>1. CASE Memories!Tick
    <2>1. UNCHANGED <<form, scope, opened, lines, ended, writes, told, mFaults>>
      BY <1>1 DEF Memories!Tick
    <2>2. MaxAge \in Nat BY MemConstants DEF Memories!MemoryAssumption
    <2>3. mClock' \in 0 .. MaxAge BY <1>1, <2>2 DEF Memories!Tick, MemInv, MemScalars
    <2>4. MemScalars' BY <2>1, <2>3 DEF MemInv, MemScalars
    <2>5. \E Y : MemHas(Y)' BY <2>1 DEF MemInv, MemHas
    <2>6. MemEntries'
      BY <2>1 DEF MemInv, MemEntries, MemFile, MemOpen, Entry, MemSound, Memories!Permits
    <2>7. MemLines' /\ MemTold' /\ MemKept'
      BY <2>1
      DEF MemInv, MemLines, MemTold, MemKept, Memories!Bad, Lost, LastId, Memories!Held,
          Memories!IsRecord
    <2> QED BY <2>4, <2>5, <2>6, <2>7 DEF MemInv
  <1>2. CASE UNCHANGED Memories!vars
    BY <1>2
    DEF Memories!vars, MemInv, MemHas, MemScalars, MemEntries, MemFile, MemOpen, Entry, MemSound,
        MemLines, MemTold, MemKept, Memories!Bad, Lost, LastId, Memories!Held, Memories!IsRecord,
        Memories!Permits
  <1>3. ASSUME NEW u \in {1, 2}, Memories!CloseStore(u) PROVE MemInv'
    <2>1. PICK X : MemHas(X) BY DEF MemInv
    <2>2. opened' \in [{1, 2} -> {None} \cup MemStore(X)] /\ opened'[u] = None
          /\ \A v \in {1, 2} : v # u => opened'[v] = opened[v]
      BY <1>3, <2>1 DEF Memories!CloseStore, Memories!Forget, MemHas
    <2>3. UNCHANGED <<form, scope, lines, ended, mClock, writes, told, mFaults>>
      BY <1>3 DEF Memories!CloseStore
    <2>4. MemHas(X)' BY <2>1, <2>2, <2>3 DEF MemHas
    <2>5. MemScalars' /\ MemFile' /\ MemLines' /\ MemTold'
      BY <2>3
      DEF MemInv, MemScalars, MemEntries, MemFile, Entry, MemSound, Memories!Permits, MemLines,
          MemTold, Memories!Bad, Lost, LastId, Memories!IsRecord
    <2>6. MemOpen'
      BY <2>2, <2>3 DEF MemInv, MemEntries, MemOpen, Entry, MemSound, Memories!Permits
    <2>7. MemKept'
      BY <2>2, <2>3 DEF MemInv, MemKept, Memories!Held, Memories!IsRecord
    <2> QED BY <2>4, <2>5, <2>6, <2>7 DEF MemInv, MemEntries
  <1> QED BY <1>1, <1>2, <1>3, MemOpenStore, MemRemember DEF Memories!Next

\* What the invariant gives.
LEMMA MemMeans == MemInv => Memories!TypeOK /\ Memories!LossIsBounded /\ Memories!NoBleed
  /\ Memories!NoFactTwice
  <1> SUFFICES ASSUME MemInv
    PROVE Memories!TypeOK /\ Memories!LossIsBounded /\ Memories!NoBleed /\ Memories!NoFactTwice
    OBVIOUS
  <1>1. PICK X : MemHas(X) BY DEF MemInv
  <1>2. Memories!TypeOK
    <2>1. writes \in Nat BY MemConstants DEF MemInv, MemScalars, Memories!MemoryAssumption
    <2>2. \A y : Entry(y) => y.id \in 0 .. writes
      BY <2>1 DEF Entry, MemSound, Memories!Garbled, Memories!Cut, Memories!Skipped
    <2>3. \A i \in DOMAIN lines : lines[i].id \in 0 .. writes
      BY <2>2 DEF MemInv, MemEntries, MemFile
    <2>4. \A u \in {1, 2} : opened[u] # None =>
            \A i \in DOMAIN opened[u].records : opened[u].records[i].id \in 0 .. writes
      BY <2>2 DEF MemInv, MemEntries, MemOpen
    <2>5. \A u \in {1, 2} : opened[u] # None => opened[u].policy \in {"append", "read_only"}
      BY <1>1 DEF MemHas, MemStore
    <2> QED BY <2>3, <2>4, <2>5 DEF Memories!TypeOK, MemInv, MemScalars
  <1>3. Memories!LossIsBounded
    <2>1. Cardinality(Lost) \in Nat BY MemLost DEF MemInv
    <2>2. Cardinality(Lost) <= mFaults BY <2>1 DEF MemInv, MemTold, MemScalars
    <2> QED BY <2>2, MemSize DEF Memories!LossIsBounded, Lost, MemInv, MemKept
  <1>4. Memories!NoFactTwice BY DEF Memories!NoFactTwice, MemInv, MemKept
  <1>5. Memories!NoBleed
    <2>1. SUFFICES ASSUME form = "scoped", NEW u \in {1, 2}, opened[u] # None,
          NEW f \in MemoryFacts,
                          NEW r \in Memories!Search(u, f, 1)
                   PROVE  /\ r.by[1] = scope[u][1] /\ mClock < r.expires
                          /\ r.scope[2] # None => r.by[2] = scope[u][2]
      BY DEF Memories!NoBleed
    <2>2. PICK i \in Memories!Visible(u) : r = opened[u].records[i] BY DEF Memories!Search
    <2>3. i \in Memories!Held(u) /\ Memories!Permits(scope[u], r.scope) /\ ~Memories!Expired(r)
      BY <2>1, <2>2 DEF Memories!Visible
    <2>4. MemSound(r)
      <3>1. i \in DOMAIN opened[u].records /\ r.id # 0
        BY <2>2, <2>3 DEF Memories!Held, Memories!IsRecord
      <3>2. Entry(r) BY <2>1, <2>2, <3>1 DEF MemInv, MemEntries, MemOpen
      <3>3. r \notin {Memories!Garbled, Memories!Cut, Memories!Skipped}
        BY <3>1 DEF Memories!Garbled, Memories!Cut, Memories!Skipped
      <3> QED BY <3>2, <3>3 DEF Entry
    <2>5. Memories!Permits(scope[u], r.scope) /\ Memories!Permits(r.by, r.scope)
      BY <2>1, <2>3, <2>4 DEF MemSound
    <2>6. mClock < r.expires
      <3>1. mClock \in Nat BY MemConstants DEF MemInv, MemScalars, Memories!MemoryAssumption
      <3> QED BY <2>3, <2>4, <3>1 DEF Memories!Expired, MemSound
    <2> QED BY <2>5, <2>6 DEF Memories!Permits
  <1> QED BY <1>2, <1>3, <1>4, <1>5

\* A memory loses no more confirmed records than appends were cut short, gives no subject and
\* no attempt a record that is not its own, and holds no fact twice.
THEOREM MemHolds == Memories!Spec =>
  [](Memories!TypeOK /\ Memories!LossIsBounded /\ Memories!NoBleed /\ Memories!NoFactTwice)
  BY MemInit, MemStep, MemMeans, PTL DEF Memories!Spec

-----------------------------------------------------------------------------
(* The composition *)

\* A behaviour of the composition is one of each program.
LEMMA Parts ==
  StudiesSpec => /\ Successor!Spec /\ Product!Spec /\ Study!Spec
                 /\ Release!Init /\ [][Release!Next]_(Release!vars)
                 /\ Storage!Init /\ [][Storage!Next]_(Storage!vars)
                 /\ Gate!Init /\ [][Gate!Next]_(Gate!vars)
                 /\ Focused!Spec /\ Office!Spec /\ Memories!Spec
  <1>1. StudiesInit => /\ Successor!Init /\ Product!Init /\ Study!Init
                       /\ Release!Init /\ Storage!Init
                       /\ Gate!Init /\ Focused!Init /\ Office!Init /\ Memories!Init
    BY DEF StudiesInit
  <1>a. USE DEF StudiesNext, InCells, InFocused, InSuccessor, InProduct, InStudy, InProbe,
                InRelease, InOffice, InStorage, InMemory, InSchedule, all
  <1>2. [StudiesNext]_all => [Successor!Next]_(Successor!vars) BY DEF successor, Successor!vars
  <1>3. [StudiesNext]_all => [Product!Next]_(Product!vars) BY DEF product, Product!vars
  <1>4. [StudiesNext]_all => [Study!Next]_(Study!vars) BY DEF study, Study!vars
  <1>5. [StudiesNext]_all => [Release!Next]_(Release!vars)
    BY DEF release, Release!vars, Release!git, Release!runs, Release!checks
  <1>6. [StudiesNext]_all => [Storage!Next]_(Storage!vars) BY DEF spike, Storage!vars
  <1>7. [StudiesNext]_all => [Gate!Next]_(Gate!vars)
    BY DEF probe, Gate!vars, Gate!host, Gate!probed, Gate!report
  <1>8. [StudiesNext]_all => [Focused!Next]_(Focused!vars) BY DEF focused, Focused!vars
  <1>9. [StudiesNext]_all => [Office!Next]_(Office!vars) BY DEF office, Office!vars
  <1>10. [StudiesNext]_all => [Memories!Next]_(Memories!vars) BY DEF memories, Memories!vars
  <1> HIDE DEF StudiesNext, all
  <1> QED BY <1>1, <1>2, <1>3, <1>4, <1>5, <1>6, <1>7, <1>8, <1>9, <1>10, PTL
          DEF StudiesSpec, Successor!Spec, Product!Spec, Study!Spec, Focused!Spec, Office!Spec,
              Memories!Spec

\* A sealed phase of the next study rests on a run that ended valid for good, nothing is
\* committed behind the seal of the product validation, and a release that verified is the
\* code that was tested.
THEOREM StudiesSealsStand == StudiesSpec => []SealsStand
  <1>1. Study!SealedStands /\ Product!SealedIsFinal /\ Release!ReleaseIsTested => SealsStand
    BY DEF SealsStand
  <1> QED BY <1>1, Parts, StudyHolds, ProdHolds, RelHolds, PTL

\* With one supervisor of the successor, nothing is computed of its results before both
\* lanes are terminal; and no primary cell of the product validation runs before its gate
\* is sealed, whoever starts it how often.
THEOREM StudiesNothingEarly == ASSUME OneSupervisor PROVE StudiesSpec => []NothingEarly
  <1>1. Successor!Embargoed /\ Product!GateFirst => NothingEarly
    BY DEF NothingEarly
  <1>2. Successor!Spec => []Successor!Embargoed
    BY SuccHolds
  <1> QED BY <1>1, <1>2, Parts, ProdHolds, PTL

\* No cell of the next study, and with one supervisor none of the successor, is run a
\* second time without having earned it.
THEOREM StudiesNoSecondChance == ASSUME OneSupervisor PROVE StudiesSpec => NoSecondChance
  <1>1. Successor!Spec => Successor!NoSecondChance
    BY SuccChance
  <1> QED BY <1>1, Parts, StudyHolds, PTL DEF NoSecondChance

\* What is claimed was earned: the attestation of a release by checks that ran, a pass of the
\* spike by what was found on its medium, and one of the gate by its models, a pass of the
\* office grader by exactly what was asked for, the claims of the follow-up's analysis, with one
\* supervisor, by its evidence; and no memory gives away what is not its reader's.
THEOREM StudiesClaimsEarned == ASSUME OneSupervisor PROVE StudiesSpec => []ClaimEarned
  <1>1. Focused!ClaimEarned /\ Gate!PassEarned /\ Gate!FailureNamed /\ Release!AttestationEarned
          /\ Office!PassIsEarned /\ Storage!PassIsEarned /\ Memories!NoBleed => ClaimEarned
    BY DEF ClaimEarned
  <1>2. Focused!Spec => [](Focused!TypeOK /\ Focused!ConclusionsStand /\ Focused!ClaimEarned)
    BY FocHolds
  <1> QED BY <1>1, <1>2, Parts, ProbeHolds, RelHolds, OfficeHolds, SpikeHolds, MemHolds, PTL

\* What a program has concluded, sealed, terminated or analysed follows from its evidence for
\* ever, with one supervisor: in the follow-up and in the successor; an attempt of the spike has
\* one visible candidate, and a memory loses its torn lines alone. (The outcomes of the office
\* tasks and the schedules, which are computed and not concluded, are for the runs.)
THEOREM StudiesConclusions ==
  ASSUME OneSupervisor PROVE StudiesSpec => [](unit \notin {"office", "schedule"} => ConclusionsHold)
  <1>1. Focused!ConclusionsStand /\ Successor!TerminalsStand /\ Storage!OneVisible
          /\ Memories!LossIsBounded /\ Memories!NoFactTwice
        => (unit \notin {"office", "schedule"} => ConclusionsHold)
    BY DEF ConclusionsHold
  <1>2. Focused!Spec => [](Focused!TypeOK /\ Focused!ConclusionsStand /\ Focused!ClaimEarned)
    BY FocHolds
  <1>3. Successor!Spec => []Successor!TerminalsStand BY SuccTerminals
  <1> QED BY <1>1, <1>2, <1>3, Parts, SpikeHolds, MemHolds, PTL
=============================================================================
