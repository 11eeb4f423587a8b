------------------------- MODULE DecisionArtifacts -------------------------
(***************************************************************************)
(* What is decided of a score-masked D0 run (bench/s7_decision.py and      *)
(* s7_floor_audit.py, in the artifacts of s7_artifacts.py), while the run   *)
(* itself (s7_run.py, a policy of s6_run._run) may be going on, may have    *)
(* died or may be started again: the sample size, by the run times of all   *)
(* final attempts, and then, graded for the first time, the floor and       *)
(* ceiling audit.                                                           *)
(***************************************************************************)
EXTENDS CellScheduler

CONSTANT Analysts  \* commands that may be open at the same time

VARIABLES
  files,   \* files[k]: what exists of the artifact of kind k, its directory included
  content, \* content[k]: the evidence its document is about
  analyst  \* analyst[a]: the command a has open

decisions == <<files, content, analyst>>
scheduler == vars
dvars     == <<vars, decisions>>

Kinds    == {"decision", "audit"}
Members  == {"directory", "artifact", "prepared", "COMMITTED"}
Steps    == {"closed", "bind", "build", "grade", "commit", "mkdir", "artifact", "prepared", "marker",
             "verify", "told"}
Evidence == [AllCells -> Seq(Records)]
Closed   == [at |-> "closed", kind |-> "decision", doc |-> None]

DecisionsTypeOK ==
  /\ files \in [Kinds -> SUBSET Members]
  /\ content \in [Kinds -> Evidence \cup {None}]
  /\ analyst \in [Analysts -> [at : Steps, kind : Kinds, doc : Evidence \cup {None}]]

\* The policy s7_run gives the scheduler.
ScoreMasked == [deferred |-> TRUE, verify |-> TRUE, limit |-> 1]

DecisionsInit ==
  /\ Init /\ policy = ScoreMasked
  /\ files = [k \in Kinds |-> {}] /\ content = [k \in Kinds |-> None]
  /\ analyst = [a \in Analysts |-> Closed]

Goto(a, step) == analyst' = [analyst EXCEPT ![a].at = step]
Exit(a)     == analyst' = [analyst EXCEPT ![a] = Closed]

\* verify_artifact: exactly its members.
Sealed(k) == files[k] = Members

-----------------------------------------------------------------------------
(* _final_records and build_decision                                        *)

\* read_committed needs run.lock, which the run holds while an attempt is
\* made; of a run that died there it adopts the record, if it was prepared.
Projections == IF at = "publish" THEN {store, [store EXCEPT ![cell] = Append(@, record)]}
                                 ELSE {store}

\* All cells, the repeats of each in sequence and within the limit, and none
\* behind an answer of the model.
Finals(st) ==
  \A c \in AllCells : /\ Len(st[c]) \in 1 .. policy.limit + 1
                      /\ \A i \in 1 .. Len(st[c]) - 1 : st[c][i].origin \in {"runner", "environment"}
                      /\ \A i \in DOMAIN st[c] : st[c][i].strict = None

\* Slip: a cell the instrument has left invalid counts as one attempt as well.
DecidableAnyhow(st) == Finals(st)

\* valid_failure_origins: no cell is left to the instrument.
Decidable(st) == Finals(st) /\ \A c \in AllCells : st[c][Len(st[c])].origin \in {"none", "model"}

\* A read of the evidence that leaves the command at the step "then" when the
\* projection is an accepted one, and ends it otherwise.
Read(a, accepted, then) ==
  \E st \in Projections :
    /\ store' = st
    /\ at' = IF at = "publish" THEN "raised" ELSE at
    /\ record' = IF at = "publish" THEN None ELSE record
    /\ analyst' = [analyst EXCEPT ![a] = IF st \in accepted THEN [@ EXCEPT !.at = then, !.doc = st]
                                                         ELSE Closed]
    /\ UNCHANGED <<policy, cell, repeat, cells, healthy, restarts, summary, files, content>>

\* The audit first verifies the decision, then builds it once more.
Open(a) ==
  /\ analyst[a].at \in {"closed", "told"}
  /\ \E k \in Kinds :
       analyst' = [analyst EXCEPT ![a] =
         [at |-> IF k = "audit" THEN "bind" ELSE "build", kind |-> k, doc |-> None]]
  /\ UNCHANGED <<scheduler, files, content>>

Bind(a) ==
  /\ analyst[a].at = "bind"
  /\ IF Sealed("decision") THEN Goto(a, "build") ELSE Exit(a)
  /\ UNCHANGED <<scheduler, files, content>>

Bound(k, st) == k = "audit" => st = content["decision"]

Build(a) ==
  /\ analyst[a].at = "build"
  /\ LET k == analyst[a].kind
     IN  Read(a, {st \in Projections : Decidable(st) /\ Bound(k, st)},
              IF k = "audit" THEN "grade" ELSE "commit")

\* build_audit reads the final records again and grades them.
GradeFinals(a) == analyst[a].at = "grade" /\ Read(a, {st \in Projections : Finals(st)}, "commit")

-----------------------------------------------------------------------------
(* commit_artifact                                                          *)

Commit(a) ==
  /\ analyst[a].at = "commit"
  /\ Goto(a, IF files[analyst[a].kind] = {} THEN "mkdir" ELSE "verify")
  /\ UNCHANGED <<scheduler, files, content>>

\* A file or a directory that must be new; the document goes into artifact.json.
Make(a, member, then) ==
  LET k == analyst[a].kind IN
  /\ IF member \in files[k] THEN Exit(a) /\ UNCHANGED <<files, content>>
     ELSE /\ files' = [files EXCEPT ![k] = @ \cup {member}] /\ Goto(a, then)
          /\ content' = IF member = "artifact" THEN [content EXCEPT ![k] = analyst[a].doc] ELSE content
  /\ UNCHANGED scheduler

MakeDirectory(a) == analyst[a].at = "mkdir"    /\ Make(a, "directory", "artifact")
WriteDocument(a) == analyst[a].at = "artifact" /\ Make(a, "artifact", "prepared")
WriteBinding(a)  == analyst[a].at = "prepared" /\ Make(a, "prepared", "marker")
WriteMarker(a)   == analyst[a].at = "marker"   /\ Make(a, "COMMITTED", "verify")

\* The artifact is what it should be, or the command raises.
Verify(a) ==
  /\ analyst[a].at = "verify"
  /\ IF Sealed(analyst[a].kind) /\ content[analyst[a].kind] = analyst[a].doc
     THEN Goto(a, "told") ELSE Exit(a)
  /\ UNCHANGED <<scheduler, files, content>>

Die(a) == /\ analyst[a].at \notin {"closed", "told"} /\ Exit(a)
          /\ UNCHANGED <<scheduler, files, content>>

DecisionsNext ==
  \/ Next /\ UNCHANGED decisions
  \/ \E a \in Analysts : \/ Open(a) \/ Bind(a) \/ Build(a) \/ GradeFinals(a) \/ Commit(a)
                         \/ MakeDirectory(a) \/ WriteDocument(a) \/ WriteBinding(a)
                         \/ WriteMarker(a) \/ Verify(a) \/ Die(a)

DecisionsSpec == DecisionsInit /\ [][DecisionsNext]_dvars

-----------------------------------------------------------------------------
\* "No observed efficacy outcome may influence the sample-size choice"
\* (docs/PROJECT_SETUP.md, Sample-size rule), and the decision must bind the
\* evidence (bench/s7_floor_audit.py:73): a sealed decision or audit is about
\* the evidence as it will stay, whatever the run does next, with no cell left
\* to the instrument; nothing is graded before the decision is sealed; and
\* whoever was told a document was told the one that is sealed.
DecisionStands ==
  /\ \A k \in Kinds : Sealed(k) => content[k] = store /\ Decidable(store)
  /\ files["audit"] # {} => Sealed("decision")
  /\ \A a \in Analysts :
       /\ analyst[a].at = "grade" => Sealed("decision")
       /\ analyst[a].at = "told" => /\ Sealed(analyst[a].kind)
                                    /\ content[analyst[a].kind] = analyst[a].doc
=============================================================================
