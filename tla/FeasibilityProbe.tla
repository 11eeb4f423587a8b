--------------------------- MODULE FeasibilityProbe ---------------------------
(***************************************************************************)
(* The feasibility gate (bench/f0_probe.py): the gates of the host, then    *)
(* one model after the other through its questions, and a report that is    *)
(* published marker last and believed only after it has been verified.      *)
(* Model 0 is the primary one, the others are descriptive.  The model       *)
(* server answers as it likes, a model may be exchanged for a new one at    *)
(* any time, and a death leaves the files as they are.                      *)
(***************************************************************************)
EXTENDS Naturals, FiniteSets

CONSTANTS
  Models,     \* how many models the protocol names
  MaxTrouble, \* how often something goes wrong
  None

Tags  == 0 .. Models - 1
Gates == {"repository", "environment", "storage", "disk"}
\* What a model is measured by.
Checks == {"digest", "options", "tools", "throughput", "monitor", "listener", "runner", "peak"}

\* What is known of a model.
Row == [digest : Nat \cup {None}, bad : SUBSET Checks, error : BOOLEAN, unload : BOOLEAN]

ProbeAssumption == /\ Models \in Nat \ {0} /\ MaxTrouble \in Nat
                   /\ None \notin Nat \cup BOOLEAN /\ None \notin Row

VARIABLES
  at,        \* the next step of the run
  pull,      \* was it asked to pull the models
  gate,      \* gate[g]: what its record says, None without one
  unpulled,  \* the models whose pull failed
  installed, \* installed[m]: the digest behind the tag of the model
  answered,  \* answered[m]: the digests that have answered its questions
  model,     \* the model that is being probed
  now,       \* what is known of it
  row,       \* row[m]: its summary, None without one
  before,    \* the tags as they were listed after the pulls, None before
  after,     \* the tags as they were listed last, None before
  failures,
  passing,   \* what summary.json says, None without one
  prepared, committed,
  whole,     \* every file of the report is as its manifest has recorded it
  trouble    \* what went wrong so far

vars == <<at, pull, gate, unpulled, installed, answered, model, now, row, before,
          after, failures, passing, prepared, committed, whole, trouble>>

TypeOK ==
  /\ at \in {"start", "repository", "environment", "storage", "server", "pulls", "disk", "identify",
             "options", "tools", "runtime", "loaded", "digest", "unloaded", "after", "summary",
             "prepare", "mark", "verify", "ended"}
  /\ pull \in BOOLEAN /\ gate \in [Gates -> BOOLEAN \cup {None}] /\ unpulled \subseteq Tags
  /\ installed \in [Tags -> 1 .. MaxTrouble + 1]
  /\ \A m \in Tags : answered[m] \subseteq 1 .. installed[m]
  /\ model \in 0 .. Models /\ now \in Row /\ \A m \in Tags : row[m] \in Row \cup {None}
  /\ {before, after} \subseteq [Tags -> 1 .. MaxTrouble + 1] \cup {None}
  /\ failures \subseteq Gates \cup {"pull", "primary", "exception"}
  /\ passing \in BOOLEAN \cup {None} /\ prepared \in BOOLEAN /\ committed \in BOOLEAN
  /\ whole \in BOOLEAN
  /\ trouble \in 0 .. MaxTrouble

Clean(d) == [digest |-> d, bad |-> {}, error |-> FALSE, unload |-> FALSE]
Error    == [Clean(None) EXCEPT !.error = TRUE]

Init ==
  /\ at = "start" /\ pull \in BOOLEAN /\ gate = [g \in Gates |-> None] /\ unpulled = {}
  /\ installed = [m \in Tags |-> 1] /\ answered = [m \in Tags |-> {}]
  /\ model = 0 /\ now = Clean(None) /\ row = [m \in Tags |-> None]
  /\ before = None /\ after = None
  /\ failures = {} /\ passing = None /\ prepared = FALSE /\ committed = FALSE
  /\ whole = TRUE
  /\ trouble = 0

host   == <<pull, gate, unpulled>>
probed == <<answered, model, now, row, before, after>>
report == <<passing, prepared, committed, whole>>

Trouble(n) == trouble + n <= MaxTrouble /\ trouble' = trouble + n

\* An exception ends the probing, not the report.
Raise == at' = "summary" /\ failures' = failures \cup {"exception"} /\ UNCHANGED gate

-----------------------------------------------------------------------------
(* The gates of the host                                                    *)

\* mkdir and the identity of the run.
Start ==
  /\ at = "start" /\ at' = "repository"
  /\ UNCHANGED <<host, installed, probed, failures, report, trouble>>

\* A gate whose failure ends the probing ...
Require(g, next) ==
  /\ at = g
  /\ \/ gate' = [gate EXCEPT ![g] = TRUE] /\ at' = next /\ UNCHANGED <<failures, trouble>>
     \/ Trouble(1) /\ gate' = [gate EXCEPT ![g] = FALSE] /\ at' = "summary"
        /\ failures' = failures \cup {g, "exception"}
     \/ Trouble(1) /\ Raise
  /\ UNCHANGED <<pull, unpulled, installed, probed, report>>

\* ... and one whose failure is only told.
Measure(g, next) ==
  /\ at = g
  /\ \/ gate' = [gate EXCEPT ![g] = TRUE] /\ at' = next /\ UNCHANGED <<failures, trouble>>
     \/ Trouble(1) /\ gate' = [gate EXCEPT ![g] = FALSE] /\ at' = next
        /\ failures' = failures \cup {g}
     \/ Trouble(1) /\ Raise
  /\ UNCHANGED <<pull, unpulled, installed, probed, report>>

\* The server has a version and no model is loaded in it.
Server ==
  /\ at = "server"
  /\ \/ at' = "pulls" /\ UNCHANGED <<gate, failures, trouble>>
     \/ Trouble(1) /\ Raise
  /\ UNCHANGED <<pull, unpulled, installed, probed, report>>

\* Every model is pulled when that was asked for, and the tags are listed.
Pull ==
  /\ at = "pulls"
  /\ \/ /\ at' = "disk" /\ before' = installed
        /\ \E failed \in SUBSET Tags :
             /\ pull \/ failed = {}
             /\ Trouble(Cardinality(failed)) /\ unpulled' = failed
        /\ failures' = IF pull THEN failures ELSE failures \cup {"pull"}
        /\ UNCHANGED gate
     \/ Trouble(1) /\ Raise /\ UNCHANGED <<unpulled, before>>
  /\ UNCHANGED <<pull, installed, answered, model, now, row, after, report>>

-----------------------------------------------------------------------------
(* One model                                                                *)

Erred == now' = Error /\ at' = "unloaded"

Passed(r) == ~r.error /\ r.bad = {} /\ ~r.unload

PrimaryFailed == row[0] # None /\ ~Passed(row[0])

\* A model that was not pulled is not asked, nor is any behind a failed primary;
\* else the listener must be the one of the environment and the metadata right.
Identify ==
  /\ at = "identify"
  /\ \/ (model \in unpulled \/ PrimaryFailed) /\ Erred /\ UNCHANGED trouble
     \/ /\ model \notin unpulled /\ ~PrimaryFailed
        /\ \/ now' = Clean(installed[model]) /\ at' = "options" /\ UNCHANGED trouble
           \/ Trouble(1) /\ Erred
  /\ UNCHANGED <<host, installed, answered, model, row, before, after, failures, report>>

\* A suite of questions: right, wrong, or no answer at all.
Ask(stage, check, next) ==
  /\ at = stage /\ answered' = [answered EXCEPT ![model] = @ \cup {installed[model]}]
  /\ \/ at' = next /\ UNCHANGED <<now, trouble>>
     \/ Trouble(1) /\ at' = next /\ now' = [now EXCEPT !.bad = @ \cup {check}]
     \/ Trouble(1) /\ Erred
  /\ UNCHANGED <<host, installed, model, row, before, after, failures, report>>

\* Every option is named in the error for its invalid value, and the server is
\* well before and after.
Recognise == Ask("options", "options", "tools")
\* Exact calls, the last one with the result of the one before.
Conform   == Ask("tools", "tools", "runtime")
\* Enough valid samples, and fast enough.
Time      == Ask("runtime", "throughput", "loaded")

\* The server lists the loaded model, by its digest, and the monitor that has
\* sampled the process tree all the while is stopped.
Loaded ==
  /\ at = "loaded"
  /\ \/ /\ installed[model] = now.digest /\ at' = "digest"
        /\ \E wrong \in SUBSET {"monitor", "listener", "runner", "peak"} :
             /\ Trouble(Cardinality(wrong)) /\ now' = [now EXCEPT !.bad = @ \cup wrong]
     \/ installed[model] # now.digest /\ Erred /\ UNCHANGED trouble
     \/ Trouble(1) /\ Erred
  /\ UNCHANGED <<host, installed, answered, model, row, before, after, failures, report>>

\* The digest behind the tag must be the one it was.
Stable ==
  /\ at = "digest"
  /\ \/ /\ at' = "unloaded" /\ UNCHANGED trouble
        /\ now' = IF installed[model] = now.digest THEN now
                  ELSE [now EXCEPT !.bad = @ \cup {"digest"}]
     \/ Trouble(1) /\ Erred
  /\ UNCHANGED <<host, installed, answered, model, row, before, after, failures, report>>

\* Nothing may stay loaded, and the summary of the model is written.
Unloaded ==
  /\ at = "unloaded"
  /\ \E left \in BOOLEAN :
       /\ Trouble(IF left THEN 1 ELSE 0)
       /\ row' = [row EXCEPT ![model] = [now EXCEPT !.unload = left]]
  /\ failures' = IF model = 0 /\ ~Passed(row'[0]) THEN failures \cup {"primary"} ELSE failures
  /\ model' = model + 1 /\ at' = IF model' = Models THEN "after" ELSE "identify"
  /\ UNCHANGED <<host, installed, answered, now, before, after, report>>

\* The model behind a tag is exchanged.
Exchange ==
  /\ at \notin {"start", "ended"}
  /\ \E m \in Tags : Trouble(1) /\ installed' = [installed EXCEPT ![m] = @ + 1]
  /\ UNCHANGED <<at, host, probed, failures, report>>

\* The tags are listed once more.
ListAfter ==
  /\ at = "after"
  /\ \/ after' = installed /\ at' = "summary" /\ UNCHANGED <<gate, failures, trouble>>
     \/ Trouble(1) /\ Raise /\ UNCHANGED after
  /\ UNCHANGED <<pull, unpulled, installed, answered, model, now, row, before, report>>

-----------------------------------------------------------------------------
(* The report                                                               *)

HostPassed  == pull /\ \A g \in Gates : gate[g] = TRUE
Eligible(m) == row[m] # None /\ Passed(row[m])
Overall     == HostPassed /\ Eligible(0) /\ failures = {}

\* Who is to blame for what a model has not passed; what is wrong with its memory
\* has one cause, in this order.
Blame == {<<"digest", "instrument">>, <<"options", "protocol_contract">>,
          <<"tools", "protocol_contract">>, <<"throughput", "model_runtime">>,
          <<"runner", "instrument">>, <<"listener", "instrument">>}
ModelDomains(r) ==
  {b[2] : b \in {b \in Blame : b[1] \in r.bad}}
  \cup (IF r.error \/ r.unload THEN {"instrument"} ELSE {})
  \cup (IF r.bad \cap {"runner", "listener"} = {} /\ r.bad \cap {"monitor", "peak"} # {}
        THEN {"model_runtime"} ELSE {})

\* _classify_failures: the domains of everything that failed or was never tried.
InstrumentFailed ==
  \/ gate["repository"] # TRUE \/ ~pull \/ gate["disk"] = FALSE
  \/ gate["disk"] = None /\ gate["environment"] = TRUE
  \/ \E m \in Tags : row[m] = None
  \/ "exception" \in failures /\ gate["environment"] # FALSE
Domains ==
  (UNION {ModelDomains(row[m]) : m \in {m \in Tags : row[m] # None}})
  \cup {g \in {"environment", "storage"} : gate[g] # TRUE}
  \cup (IF InstrumentFailed THEN {"instrument"} ELSE {})

Summarise ==
  /\ at = "summary" /\ passing' = Overall /\ at' = "prepare"
  /\ UNCHANGED <<host, installed, probed, failures, prepared, committed, whole, trouble>>

\* The manifest takes the size and the hash of every file there is.
Prepare ==
  /\ at = "prepare" /\ prepared' = TRUE /\ at' = "mark"
  /\ UNCHANGED <<host, installed, probed, failures, passing, committed, whole, trouble>>

\* The manifest is what is on disk, no file less and none more.
Manifested == prepared /\ whole

\* The marker, after the manifest has been validated; or the deadline is over.
Mark ==
  /\ at = "mark"
  /\ \/ Manifested /\ committed' = TRUE /\ at' = "verify" /\ UNCHANGED trouble
     \/ ~Manifested /\ at' = "ended" /\ UNCHANGED <<committed, trouble>>
     \/ Trouble(1) /\ at' = "ended" /\ UNCHANGED committed
  /\ UNCHANGED <<host, installed, probed, failures, passing, prepared, whole>>

\* The run verifies its own report; a raised error ends it all the same.
Verify ==
  /\ at = "verify" /\ at' = "ended"
  /\ UNCHANGED <<host, installed, probed, failures, report, trouble>>

\* A file of the report is altered behind its manifest; its summary may then say
\* what it likes.
Alter ==
  /\ prepared /\ whole /\ Trouble(1) /\ whole' = FALSE /\ passing' \in BOOLEAN
  /\ UNCHANGED <<at, host, installed, probed, failures, prepared, committed>>

Die ==
  /\ at # "ended" /\ Trouble(1) /\ at' = "ended"
  /\ UNCHANGED <<host, installed, probed, failures, report>>

Probe ==
  \/ Start \/ Require("repository", "environment") \/ Require("environment", "storage")
  \/ Measure("storage", "server") \/ Server \/ Pull \/ Measure("disk", "identify")
  \/ Identify \/ Recognise \/ Conform \/ Time \/ Loaded \/ Stable \/ Unloaded \/ ListAfter
  \/ Summarise \/ Prepare \/ Mark \/ Verify

Next == Probe \/ Exchange \/ Alter \/ Die
Spec == Init /\ [][Next]_vars /\ WF_vars(Probe)

-----------------------------------------------------------------------------
(* verify_report                                                            *)

\* A model that is not eligible must say why.
Substantiated(r) == r.error \/ r.bad # {}

\* Of an eligible one, its raw requests and answers, the samples of the process tree
\* and the verdicts of its cases are gone through again ...
RecognitionShown(m) == "options" \notin row[m].bad
RunnersShown(m)     == row[m].bad \cap {"runner", "listener", "monitor", "peak"} = {}
CasesShown(m)       == row[m].bad \cap {"tools", "throughput"} = {}

\* ... and it was pulled, and stands in both lists as it was probed.
VerifiedModel(m) ==
  /\ row[m] # None
  /\ IF Passed(row[m])
     THEN /\ m \notin unpulled /\ None \notin {before, after}
          /\ {before[m], after[m]} = {row[m].digest}
          /\ RecognitionShown(m) /\ RunnersShown(m) /\ CasesShown(m)
     ELSE m # 0 /\ Substantiated(row[m])

\* The summary must be the one that its parts give.
SummaryShown == Eligible(0) /\ failures = {}
VerifiedPass == HostPassed /\ (\A m \in Tags : VerifiedModel(m)) /\ SummaryShown

\* A run that failed late, with every part well, has its parts verified as one that
\* passed would; and what it failed for must be the causes its records give.
FailedLate  == HostPassed /\ Eligible(0) /\ after # None
CausesShown == Domains # {}
VerifiedFail ==
  /\ failures # {}
  /\ \A m \in Tags : row[m] # None => Passed(row[m]) \/ Substantiated(row[m])
  /\ FailedLate => \A m \in Tags : VerifiedModel(m)
  /\ CausesShown

\* The identity of a report takes the commit it was made at.
Identified == gate["repository"] # None

Verified ==
  /\ committed /\ Manifested /\ Identified
  /\ IF passing THEN VerifiedPass ELSE VerifiedFail

-----------------------------------------------------------------------------
\* "recomputes pass eligibility ... it does not trust the summary status alone"
\* (docs/PROJECT_SETUP.md:338): a report that verifies as passing rests on a
\* primary model, and on any other it calls eligible, that answered all of its
\* questions itself under the digest the report names, and was installed so
\* before the first model was probed and after the last, whatever was exchanged
\* and wherever the run died.
PassEarned ==
  Verified /\ passing =>
    /\ Eligible(0)
    /\ \A m \in Tags : Eligible(m) =>
         answered[m] = {row[m].digest} /\ {before[m], after[m]} = answered[m]

\* "every declared failure must be substantiated by the underlying ... records ...
\* [else] a failed run could misattribute an instrument fault ... or hide a fault
\* entirely" (f0_probe.py:2351-2354): wherever a run ended, a report that fails has a
\* structured cause, and one that passes has none but those of its descriptive models.
FailureNamed ==
  passing # None /\ whole =>
    /\ ~passing => Domains # {}
    /\ passing => Domains = UNION {ModelDomains(row[m]) : m \in Tags \ {0}}

\* "Failure of 2B or 9B removes only that descriptive system replication"
\* (docs/PROJECT_SETUP.md:274): the report of a run that passes, with no model
\* exchanged and no file altered, verifies.
DescriptiveOnly ==
  at = "ended" /\ committed /\ whole /\ passing /\ (\A m \in Tags : installed[m] = 1) => Verified

\* The probe comes to an end, with or without a report.
ProbeOver == at = "ended"
=============================================================================
