------------------------- MODULE ReleaseAttestation -------------------------
(***************************************************************************)
(* The native attestation of a release (bench/s4_attest.py): `run` tests a  *)
(* pushed candidate on the machine it names and writes what it saw into the *)
(* worktree; `verify` believes that file when the release commit and its    *)
(* tag bind it to the tested candidate.  The developer goes on in the same  *)
(* worktree at any time, and the machine may change.  Development goes      *)
(* forward: an edit brings new code, a commit a new identity.               *)
(***************************************************************************)
EXTENDS Naturals, Sequences, FiniteSets

CONSTANTS
  Dirs,      \* report directories an operator may name
  MaxMoves,  \* bound on what the developer does
  MaxStarts, \* bound on the commands that are started
  None, Torn

VARIABLES
  log,      \* commits: [parent, code, file]
  head, remote, \* HEAD, and the commit the remote-tracking ref is at (0: none)
  tree,     \* the worktree: [code, file]
  tag,      \* v0.5.0: [target, annotated, file, candidate, dir], or None
  host,     \* the machine: [n, passes]
  dirs,     \* dirs[d]: None, or [report, ran, hosts]; the last two are histories
  at, round, before, seen, candidate, dir, look, collected,   \* `run`
  vAt, vDir, value, inventory, binding,                       \* `verify`
  calm,     \* the developer has rested since `verify` looked at HEAD
  verified, \* what was verified last: [commit, dir], or None
  moves, starts

git    == <<log, head, remote, tree, tag>>
runs   == <<at, round, before, seen, candidate, dir, look, collected>>
checks == <<vAt, vDir, value, inventory, binding>>
vars   == <<git, host, dirs, runs, checks, calm, verified, moves, starts>>

Codes   == [n : Nat, suite : Nat]
Hosts   == [n : Nat, passes : BOOLEAN]
Files   == [candidate : Nat, dir : Dirs, suite : Nat, host : Hosts]
Reports == [suite : Nat, outcome : {"passed", "failed", "s4_skipped"}]
\* A report directory.
Entries == [report : Reports \cup {None}, ran : SUBSET Codes, hosts : SUBSET Hosts]
Whole(f) == f \notin {None, Torn}

AttestationAssumption ==
  MaxMoves \in Nat /\ MaxStarts \in Nat /\ None # Torn /\ None \notin Entries

TypeOK ==
  /\ \A c \in DOMAIN log :
       /\ log[c].parent < c /\ log[c].code \in Codes
       /\ log[c].file \in Files \cup {None, Torn}
  /\ head \in DOMAIN log /\ remote \in 0 .. Len(log)
  /\ tree.code \in Codes /\ tree.file \in Files \cup {None, Torn}
  /\ tag # None => tag.target \in DOMAIN log /\ tag.annotated \in BOOLEAN
  /\ \A d \in Dirs : dirs[d] # None => dirs[d].report \in Reports \cup {None}
  /\ at \in {"idle", "head", "status", "look", "mkdir", "pytest", "parse", "collect", "facts",
             "write", "flush"}
  /\ round \in 0 .. 4 /\ before \in 0 .. Len(log) /\ seen \in 0 .. Len(log)
  /\ vAt \in {"idle", "load", "collect", "validate", "head", "status", "child", "tag"}
  /\ moves \in 0 .. MaxMoves /\ starts \in 0 .. MaxStarts

Init ==
  /\ log = <<[parent |-> 0, code |-> [n |-> 0, suite |-> 0], file |-> None]>>
  /\ head = 1 /\ remote \in {0, 1} /\ tree = [code |-> log[1].code, file |-> None] /\ tag = None
  /\ host = [n |-> 0, passes |-> TRUE] /\ dirs = [d \in Dirs |-> None]
  /\ at = "idle" /\ round = 0 /\ before = 0 /\ seen = 0 /\ candidate = 0 /\ dir = None
  /\ look = None /\ collected = 0
  /\ vAt = "idle" /\ vDir = None /\ value = None /\ inventory = 0 /\ binding = 0
  /\ calm = FALSE /\ verified = None /\ moves = 0 /\ starts = 0

Clean == tree.code = log[head].code /\ tree.file = log[head].file

\* git for-each-ref --contains: c is what the remote ref is at, or behind it.
Contained(c) ==
  LET behind[r \in 0 .. Len(log)] == IF r = 0 THEN {} ELSE {r} \cup behind[log[r].parent]
  IN c \in behind[remote]

-----------------------------------------------------------------------------
(* The developer, and the machine                                           *)

Move ==
  /\ moves < MaxMoves /\ moves' = moves + 1 /\ calm' = FALSE
  /\ UNCHANGED <<runs, checks, verified, starts>>

\* New code, with or without a new test.  A pytest that runs may see it.
Edit ==
  /\ Move
  /\ \E s \in {tree.code.suite, moves + 1} :
       tree' = [tree EXCEPT !.code = [n |-> moves + 1, suite |-> s]]
  /\ dirs' = IF at = "pytest" THEN [dirs EXCEPT ![dir].ran = @ \cup {tree'.code}] ELSE dirs
  /\ UNCHANGED <<log, head, remote, tag, host>>

\* The attestation is thrown away.
Discard ==
  /\ Move /\ tree.file # None /\ tree' = [tree EXCEPT !.file = None]
  /\ UNCHANGED <<log, head, remote, tag, host, dirs>>

\* All of the worktree or a part of it is committed, as a new commit or in the
\* place of the last one, and perhaps pushed.
Commit ==
  /\ Move
  /\ \E code \in {log[head].code, tree.code}, file \in {log[head].file, tree.file},
        parent \in {head, log[head].parent} :
       /\ code # log[head].code \/ file # log[head].file
       /\ log' = Append(log, [parent |-> parent, code |-> code, file |-> file])
  /\ head' = Len(log') /\ remote' \in {remote, head'}
  /\ UNCHANGED <<tree, tag, host, dirs>>

Push == /\ Move /\ remote # head /\ remote' = head
        /\ UNCHANGED <<log, head, tree, tag, host, dirs>>

\* git tag, with the lines of the attestation in the worktree.
Tag ==
  /\ Move /\ Whole(tree.file)
  /\ \E annotated \in BOOLEAN :
       tag' = [target |-> head, annotated |-> annotated, file |-> log[head].file,
               candidate |-> tree.file.candidate, dir |-> tree.file.dir]
  /\ UNCHANGED <<log, head, remote, tree, host, dirs>>

\* An update, or a service that is switched off.
HostChange ==
  /\ Move /\ \E p \in BOOLEAN : host' = [n |-> host.n + 1, passes |-> p]
  /\ dirs' = IF at = "pytest" THEN [dirs EXCEPT ![dir].hosts = @ \cup {host'}] ELSE dirs
  /\ UNCHANGED git

-----------------------------------------------------------------------------
(* run: _run_command, with the worktree looked at four times                *)

Quiet == UNCHANGED <<git, host, checks, calm, verified, moves>>

\* A _require that fails, an error of a command, or a death.
Over == /\ at' = "idle" /\ round' = 0 /\ before' = 0 /\ seen' = 0 /\ candidate' = 0
        /\ dir' = None /\ look' = None /\ collected' = 0
Refuse == Over /\ UNCHANGED dirs

Start ==
  /\ at = "idle" /\ starts < MaxStarts /\ starts' = starts + 1
  /\ at' = "head" /\ round' = 1 /\ dir' \in Dirs
  /\ UNCHANGED <<before, seen, candidate, look, collected, dirs>> /\ Quiet

\* _collect_git_state: git rev-parse HEAD ...
ReadHead ==
  /\ at = "head" /\ at' = "status" /\ seen' = head
  /\ UNCHANGED <<round, before, candidate, dir, look, collected, dirs, starts>> /\ Quiet

\* ... and then git status and the refs that contain that commit.  What the state
\* is compared with depends on the look it was taken for.
Agrees == CASE round \in {1, 3} -> TRUE
            [] round = 2 -> seen = before
            [] round = 4 -> seen = candidate

ReadStatus ==
  /\ at = "status"
  /\ IF Clean /\ Contained(seen) /\ Agrees
     THEN /\ before' = IF round = 1 THEN seen ELSE before
          /\ candidate' = IF round = 3 THEN seen ELSE candidate
          /\ at' = <<"look", "parse", "collect", "facts">>[round]
          /\ UNCHANGED <<round, seen, dir, look, collected, dirs>>
     ELSE Refuse
  /\ UNCHANGED starts /\ Quiet

\* The metadata before the tests: host, services, interpreter and volume.
Look ==
  /\ at = "look"
  /\ IF host.passes
     THEN at' = "mkdir" /\ look' = host /\ UNCHANGED <<round, before, seen, candidate, dir, collected, dirs>>
     ELSE Refuse
  /\ UNCHANGED starts /\ Quiet

\* _create_native_report_directory, and pytest is started.
MakeDirectory ==
  /\ at = "mkdir"
  /\ IF dirs[dir] = None
     THEN /\ at' = "pytest"
          /\ dirs' = [dirs EXCEPT ![dir] = [report |-> None, ran |-> {tree.code}, hosts |-> {host}]]
          /\ UNCHANGED <<round, before, seen, candidate, dir, look, collected>>
     ELSE Refuse
  /\ UNCHANGED starts /\ Quiet

\* pytest is over; its tests are those it collected when it began.
Pytest ==
  /\ at = "pytest"
  /\ \E c \in dirs[dir].ran, outcome \in {"passed", "failed", "s4_skipped"} :
       /\ \A d \in dirs[dir].ran : c.n <= d.n
       /\ dirs' = [dirs EXCEPT ![dir].report = [suite |-> c.suite, outcome |-> outcome]]
       /\ IF outcome = "failed" THEN Over
          ELSE at' = "head" /\ round' = 2 /\ UNCHANGED <<before, seen, candidate, dir, look, collected>>
  /\ UNCHANGED starts /\ Quiet

\* collect_attestation: parse_junit_report finds a report that is whole ...
Parse ==
  /\ at = "parse" /\ at' = "head" /\ round' = 3
  /\ UNCHANGED <<before, seen, candidate, dir, look, collected, dirs, starts>> /\ Quiet

\* ... _collect_pytest_inventory collects the tests of the worktree again ...
Collect ==
  /\ at = "collect" /\ at' = "head" /\ round' = 4 /\ collected' = tree.code.suite
  /\ UNCHANGED <<before, seen, candidate, dir, look, dirs, starts>> /\ Quiet

\* validate_attestation, of a report and the inventory it is to have.
Validates(d, suite) ==
  /\ dirs[d] # None
  /\ dirs[d].report = [suite |-> suite, outcome |-> "passed"]

\* What pytest ran on is what is attested.
Unchanged == candidate = before /\ host = look

\* ... and the facts are sampled, validated and compared with those before.
Facts ==
  /\ at = "facts"
  /\ IF Validates(dir, collected) /\ host.passes /\ Unchanged
     THEN at' = "write" /\ UNCHANGED <<round, before, seen, candidate, dir, look, collected, dirs>>
     ELSE Refuse
  /\ UNCHANGED starts /\ Quiet

\* write_attestation opens a new file ...
Write ==
  /\ at = "write"
  /\ IF tree.file = None
     THEN /\ at' = "flush" /\ tree' = [tree EXCEPT !.file = Torn]
          /\ UNCHANGED <<round, before, seen, candidate, dir, look, collected, dirs>>
     ELSE Refuse /\ UNCHANGED tree
  /\ UNCHANGED <<log, head, remote, tag, host, checks, calm, verified, moves, starts>>

\* ... and writes it; a file that was discarded or committed meanwhile is the same one.
Flush ==
  /\ at = "flush" /\ Over /\ UNCHANGED dirs
  /\ tree' = IF tree.file = None THEN tree
             ELSE [tree EXCEPT !.file = [candidate |-> candidate, dir |-> dir,
                                         suite |-> collected, host |-> look]]
  /\ UNCHANGED <<log, head, remote, tag, host, checks, calm, verified, moves, starts>>

Run == \/ ReadHead \/ ReadStatus \/ Look \/ MakeDirectory \/ Pytest \/ Parse \/ Collect
       \/ Facts \/ Write \/ Flush

Kill == at \notin {"idle"} /\ Refuse /\ UNCHANGED starts /\ Quiet

-----------------------------------------------------------------------------
(* verify: load_and_verify_attestation                                      *)

Still == UNCHANGED <<git, host, dirs, runs, moves>>

Checked == /\ vAt' = "idle" /\ vDir' = None /\ value' = None /\ inventory' = 0 /\ binding' = 0
           /\ calm' = FALSE
Reject == Checked /\ UNCHANGED verified

\* `verify` is given the JUnit report of some run.
StartVerify ==
  /\ vAt = "idle" /\ starts < MaxStarts /\ starts' = starts + 1
  /\ vAt' = "load" /\ vDir' \in Dirs
  /\ UNCHANGED <<value, inventory, binding, calm, verified>> /\ Still

Load ==
  /\ vAt = "load"
  /\ IF Whole(tree.file)
     THEN vAt' = "collect" /\ value' = tree.file /\ UNCHANGED <<vDir, inventory, binding, calm, verified>>
     ELSE Reject
  /\ UNCHANGED starts /\ Still

CollectAgain ==
  /\ vAt = "collect" /\ vAt' = "validate" /\ inventory' = tree.code.suite
  /\ UNCHANGED <<vDir, value, binding, calm, verified, starts>> /\ Still

\* The attestation has the inventory of the worktree, and the report is the one it names.
Validate ==
  /\ vAt = "validate"
  /\ IF value.suite = inventory /\ value.host.passes /\ vDir = value.dir /\ Validates(vDir, value.suite)
     THEN vAt' = "head" /\ UNCHANGED <<vDir, value, inventory, binding, calm, verified>>
     ELSE Reject
  /\ UNCHANGED starts /\ Still

\* _verify_release_binding: the git state of the release ...
BindHead ==
  /\ vAt = "head" /\ vAt' = "status" /\ binding' = head /\ calm' = TRUE
  /\ UNCHANGED <<vDir, value, inventory, verified, starts>> /\ Still

BindStatus ==
  /\ vAt = "status"
  /\ IF Clean /\ Contained(binding)
     THEN vAt' = "child" /\ UNCHANGED <<vDir, value, inventory, binding, calm, verified>>
     ELSE Reject
  /\ UNCHANGED starts /\ Still

\* ... is a direct child of the candidate that adds the attestation and nothing else.
OnlyAdds(r, c) ==
  /\ log[r].parent = c
  /\ log[r].code = log[c].code /\ log[c].file = None /\ log[r].file # None

Bind ==
  /\ vAt = "child"
  /\ IF OnlyAdds(binding, value.candidate)
     THEN vAt' = "tag" /\ UNCHANGED <<vDir, value, inventory, binding, calm, verified>>
     ELSE Reject
  /\ UNCHANGED starts /\ Still

\* _verify_release_tag, at the HEAD of now.
Bound == /\ tag # None /\ tag.annotated /\ tag.target = head
         /\ tag.file = log[head].file /\ tag.candidate = value.candidate /\ tag.dir = value.dir

VerifyTag ==
  /\ vAt = "tag" /\ Checked
  /\ verified' = IF Bound THEN [commit |-> tag.target, dir |-> vDir, calm |-> calm] ELSE verified
  /\ UNCHANGED starts /\ Still

Verify == Load \/ CollectAgain \/ Validate \/ BindHead \/ BindStatus \/ Bind \/ VerifyTag

-----------------------------------------------------------------------------
Next == \/ Edit \/ Discard \/ Commit \/ Push \/ Tag \/ HostChange
        \/ Start \/ Run \/ Kill \/ StartVerify \/ Verify

Spec == Init /\ [][Next]_vars /\ WF_vars(Run) /\ WF_vars(Verify)

-----------------------------------------------------------------------------
\* What an attestation says was so, wherever the file is: its report is of a
\* pytest that passed, ran nothing but the candidate's code, and ran on the
\* machine the file names from the first look to the last.  The looks at the
\* worktree are several commands each, between which the developer commits
\* (s4_attest.py:660, 1340).
AttestationEarned ==
  \A f \in {tree.file} \cup {log[c].file : c \in DOMAIN log} :
    Whole(f) => LET d == dirs[f.dir] IN
      /\ d.report = [suite |-> f.suite, outcome |-> "passed"]
      /\ d.ran = {log[f.candidate].code} /\ d.hosts = {f.host} /\ f.host.passes

\* A release that verified is the tested code and nothing else: the commit the
\* tag names holds the attestation of the report that was given, and has the code
\* that report ran and passed with, unless somebody went on in the worktree
\* between the two looks of `verify` at HEAD (s4_attest.py:696, 751).
ReleaseIsTested ==
  verified # None /\ verified.calm =>
    LET release == log[verified.commit]  report == dirs[verified.dir] IN
      /\ Whole(release.file) /\ release.file.dir = verified.dir
      /\ release.file.candidate = release.parent
      /\ report.report.outcome = "passed" /\ report.ran = {release.code}

\* Both commands come to an end.
AttestorsRest == at = "idle" /\ vAt = "idle"
=============================================================================
