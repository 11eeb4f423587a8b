# Brick Agent Harness in TLA+

Specifications of the parts of Brick that keep state other people rely on, the
TLC configurations that check them on small instances, and TLAPS proofs about
nearly all of them. Paths are relative to the repository's root (`harness/…`,
`bench/…`, `webui/…`, `domains/…`, `scripts/…`, `docs/…`).

## 1. Inventory

Brick is a Python program of about 55 000 lines: a harness that drives local
language models through typed tools (`harness/`), task domains (`domains/`),
benchmark programs that run the harness under fixed conditions and publish what
came out (`bench/`, started by the PowerShell scripts of `scripts/`), and Agent
Lab, a local web page that runs configured agents (`webui/`, `agents/`).

| component | state | operations | what makes it hard |
|---|---|---|---|
| evidence store, `harness/evidence.py` | run directory: `run.json`, `run.lock`, `attempts/<key>/<uuid>/{attempt.json, …, PREPARED.json, COMMITTED}`, `results.json` | `create_run`, `open_run`, `execute_or_resume`, `read_committed`, adoption, projection | a death between any two file operations, retries of what was done, two processes, damaged files, looks outside the lock |
| opportunity ledger and attempt loop, `harness/experiment.py`, `harness/typed_executor.py`, `harness/faults.py` | budgets and their reservations; flags of a subepisode, fingerprints of the attempt | `begin_request`, `finish_request`, `finish_request_unknown`; `run_attempt`, `run_raw_json_attempt` | answers that never come or are not metered, effects before a failure, flags with different lifetimes |
| interactive loop, `harness/agent.py`, `harness/guards.py`, with the model client and the tool registry | call budget, plan, repeat counters, what the guards have seen and asked | `run_raw`, `run_harness`, `GuardState.before`, `_AttemptLLM.chat` | every scaffold pays out of one budget; questions that are asked once; counters per call and world version |
| MCP bridge, `harness/mcp_bridge.py`, `webui/runner.py` | child processes, inboxes, tools joined over accounts | `start`, `enable`, `call`, the runner's confirmation | answers after the time-out, servers that die, one tool name for several accounts |
| cell scheduler, `bench/s6_run.py` | schedule, committed attempts, summary | `_run` with `_waves` and `_producer` | one retry for one kind of failure, a run started again |
| D0 decision and audit, `bench/s7_run.py`, `s7_decision.py`, `s7_floor_audit.py`, `s7_artifacts.py` | the masked run, two artifacts | `build_decision`, `build_audit`, `commit_artifact` | decided of evidence that another process may still change |
| focused follow-up, `bench/focused_followup.py`, `scripts/run-focused-followup.ps1` | evidence, starts, seals, terminations, analysis, report, the machine-wide lease | `run_block`, `seal_block`, `terminate_block`, `analyze_followup`, `build_report` | cutoffs, kills between payload and marker, commands without the lease |
| recovery successor, `bench/focused_recovery_successor.py` and its script | two lanes, cell starts, lease audits, a chain of final documents | `run_block`, `recover_stale_lease`, `analyze`, … | orphans, half publications that must be completed, a lease taken from the dead |
| product validation, `bench/llama8_product_validation.py` and its script | gate, cells, attestations, seal, analysis, report | `run_study`, `seal_complete_after_resume`, `analyze`, … | two supervisors, a gate read before the lease is taken |
| next study, `bench/next_study_live.py`, `next_study_program.py`, `next_study_runtime.py` | program states as new files, runs, ledgers, analyses | `execute_schedule`, `seal_execution_phase`, `unmask_primary`, `verify_release` | an old state stays usable; seals take no lease |
| feasibility gate, `bench/f0_probe.py` | gates, rows of the models, `summary.json`, report and marker | `run_probe`, `verify_report` | the model server answers as it likes, a tag is pulled anew between two questions, a report that refutes itself |
| release attestation, `bench/s4_attest.py` | worktree, commits, tag, report directories, the attestation | `run`, `verify` | several git commands for one look, a developer who goes on, a torn file |
| human review, `bench/next_study_review.py`, `next_study_review_ops.py` | packets, sealed responses, receipts, ledger | `_export…`, `_seal`, `_intake`, `_build_pilot_result` | publications cut short, reviews asked for late |
| consent, `webui/control.py` | `ConfirmationLedger`, the runner's stdin, a queue of one | `confirm`, `register`, `decide`, `stop` | a late answer meets the next question; end of file is an answer |
| agent runs, `webui/server.py`, `webui/control.py` | `Runs.current`, `Run.status`, a process group | `start`, `stop`, `with_idle`, `_pump`, shutdown | handler threads, a pump per run, signals, daemon threads |
| page, `webui/static/app.js` with the handlers of `webui/server.py` | `S.agent`, `S.thread`, `S.run`, the stream, what is drawn | clicks, `startRun`, `handleEvent`, `finishRun`, `stopRun` | answers come after the operator has gone on, in any order |
| event journal, `webui/control.py` | replay, subscribers and their bounded queues | `add`, `subscribe`, `stream_events` | the overflow path runs outside the lock |
| conversations, `harness/chat.py` | `threads.json`, `threads.json.tmp` | `create`, `append`, `delete` | read-modify-write without a lock, crash in a save |
| follow-up service, `domains/brix_followup_synthetic/services.py` | proposals, approvals, the provider's inbox, the audit | `propose_followup`, `approve`, `dispatch`, `reconcile`, readers | sends of unknown outcome, readers outside the lock |
| memory stores, `harness/memory.py`, `harness/scoped_memory.py` | JSONL files, what each process has loaded of them | `save`, `write`, `visible`, `search` | appends cut short, several processes on one file, records of other scopes in it |
| storage spike, `bench/f0_storage.py` | candidates of every cycle, the records of the spike, its summary | `prepare_candidate`, `publish_prepared`, `recover_candidate`, `run_spike` | exits at every write boundary, refusals that outlast a deadline, a file another process holds |
| schedules, `bench/next_study_schedule.py`, the schedules of the follow-up and the product validation, the recovery's lanes | none: ordered cells | `build_…_schedule`, `_old_topology_state` | balance that must survive a stop at any cell and a recovery |
| office tasks, `domains/office_demo/` with `bench/next_study_semantic_simulation.py` | the world, the records of the calls, the files, the memory of an attempt | generators, `derive_outcome`, the typed tools, `build_grader` | two descriptions of every task that must agree, a grader that sees records instead of what happened |
| grading, instances, other domains, parsing, schemas, statistics | none: functions of their arguments | | pure |

How they interact. A study runs a schedule of **cells**; each cell is one
`execute_or_resume` of the **evidence store**, whose producer is one attempt of
the **attempt loop**; the attempt's outcome (`execution_status`,
`failure_origin`, `retryable`) decides whether the scheduler tries again, so the
two share the vocabulary of `Attempt.tla`. The **studies** conclude of that
evidence in files that are published payload first, marker last, and derived
again whenever they are read; commands and their supervisors die at any point
and meet on one machine-wide lease. In Agent Lab an HTTP handler starts an
**agent run**, whose process executes the **interactive loop** with the tools
of the **MCP bridge**; its pump thread reads the runner's stdout, feeds the
**event journal**, registers questions in the **consent** ledger and appends
the reply to the **conversation**; another handler streams the journal to a tab
and a third writes decisions to the runner's stdin. The **follow-up service**
is what a guarded effect of a domain looks like behind the tools.

What makes each part correct is stated as properties in its module, and the
lines where it could go wrong are listed as hazards in `PROJECT.json`.

## 2. Modules

| module | models | checked by |
|---|---|---|
| `AttemptRegister` | abstract: each key decided once, for good; a report is exact | |
| `EvidenceStore` | the store under `run.lock`, file operation by file operation; implements `AttemptRegister` | `MCEvidenceStore` |
| `RunDirectory` | the run's directory: its document, its layout, sessions, deaths | `MCServices` |
| `OpportunityLedger` | the budget of an attempt | through `AttemptLoop` |
| `Attempt` | abstract: an attempt ends once, with an outcome that says on which side the failure lies | |
| `AttemptLoop` | `run_attempt`, EXTENDS the ledger; implements `Attempt` | `MCAttemptLoop` |
| `AgentLoop` | `run_raw` and `run_harness` with the guards | `MCServices` |
| `McpBridge` | one tool joined over several servers | `MCAgentLab`, its own cfg |
| `CellScheduler` | `_run` of `s6_run.py`; uses the outcomes of `Attempt` | `MCStudies` |
| `DecisionArtifacts` | EXTENDS `CellScheduler`: decision and audit of the masked run | `MCServices` |
| `FocusedFollowup`, `RecoverySuccessor`, `ProductValidation`, `NextStudy` | the study programs under their supervisors | `MCStudies`; the first and the last with a cfg of their own |
| `FeasibilityProbe` | the gate of the host and the models before the studies | `MCStudies`, its own cfg |
| `ReleaseAttestation` | the attestation of a release and its binding | `MCStudies` |
| `StorageProbe` | the storage spike of the gate, boundary by boundary | `MCStudies` |
| `Schedules` | the schedules, their playing, a stopped block and what its recovery plays | `MCStudies` |
| `MemoryStores` | the two memories of JSON lines | `MCStudies` |
| `ReviewLedger` | the human review of the cases | `MCServices` |
| `OfficeTasks` | pure: the generators, the oracle and the perturbations of the office suite | through `OfficeGrading` |
| `OfficeGrading` | EXTENDS `OfficeTasks`: an attempt at a task and its strict grade | `MCStudies` |
| `ConsentChannel` | ledger, pump, pipe, reader thread and `confirm()` | `MCAgentLab` |
| `AgentLabRun` | life and death of the agent subprocesses | `MCServices` (safety), `MCAgentLab` (liveness) |
| `EventJournal` | journal, live streams, tabs | `MCAgentLab` |
| `Page` | the page, its requests and the handlers that answer them | `MCAgentLab`, its own cfg |
| `ChatThreads` | `threads.json` as inodes | `MCAgentLab`, its own cfg |
| `Outbox` | abstract: a message goes out as approved, once | |
| `FollowupService` | the service and its provider; implements `Outbox` | `MCServices` |
| `StudyPrograms` | instances of the five programs that publish (successor, product validation, next study, release, spike), each over its own variables; `MCStudies` EXTENDS it | through `MCStudies` |
| `EvidenceStoreProofs`, `AttemptLoopProofs`, `AgentLabRunProofs`, `DecisionArtifactsProofs` | proofs about the module of that name; the last one also about `CellScheduler` | TLAPS |
| `MCServicesProofs` | proofs about `FollowupService`, `ReviewLedger`, `AgentLoop`, `RunDirectory`, and the composition `MCServices` | TLAPS |
| `MCAgentLabProofs` | proofs about `ConsentChannel`, `EventJournal`, `McpBridge`, `ChatThreads`, `Page`, and the composition `MCAgentLab` | TLAPS |
| `StudyProgramsProofs` | proofs about the five programs of `StudyPrograms` | TLAPS |
| `MCStudiesProofs` | proofs about `FocusedFollowup`, `FeasibilityProbe`, `OfficeGrading`, `MemoryStores`, and the composition `MCStudies` | TLAPS |

`MCServices`, `MCAgentLab` and `MCStudies` instantiate several modules side by
side. The parts share no variable, so a behaviour of the sum is one of a single
part, chosen in the initial state by `unit`; TLC explores every part in full,
and each invariant of the sum is the invariant of its part.

`MCServices` instantiates `AgentLabRun` and `DecisionArtifacts` by their proof
modules, and `MCAgentLab` the first of them, so that the proofs about the
compositions can cite what is proved there.

Operators marked `Slip` are alternative forms of the operator they precede:
plausible mistakes in that piece of code. Nothing uses them; each property is
known to fail when one of them takes its operator's place (`PROJECT.json`,
"mutants").

### EvidenceStore and RunDirectory

A candidate is a physical directory (a UUID) of a key. `owner` is the
directory, `evidence` the files in it (`none`, `partial`, `malformed`,
`complete`), `prepared` its PREPARED.json (`absent`, `torn`, `written`),
`marker` its COMMITTED file, `intact` whether the bytes are those the manifest
hashes. `Valid` is `_validate_prepared_impl`. `results` and `temp` are
results.json and results.json.tmp. A call holds `lock` from `Enter` to `Leave`;
its `pc` names the next file operation: `resolve`, `begin`, `produce`,
`commit`, `manifest` (PREPARED.json open), `publish`/`marker`/`verify`
(`publish_once`), `recover` (the scan of every logical directory, which may
adopt through the same publish steps), `temp`/`flush`/`replace`
(`rebuild_results`), `return`. Adverse events: the process dies, a retryable
error is retried (`RetryPublish`) or outlasts its deadline (`Exhausted`), the
producer leaves bad evidence or commits by itself, a file changes outside the
store (`Tamper`). Payloads, hashes and JSON are abstracted to whether they
validate; keys are model values.

`RunDirectory` is what comes before: several callers create the run, each with
a document of its own, or open it, and look at its members outside `run.lock`;
a session looks again under the lock and rebuilds the projection through the
temporary file. `Torn` is a run.json that was opened exclusively and not
flushed. What happens inside `attempts/` is `EvidenceStore`.

### OpportunityLedger and AttemptLoop

The ledger's variables are the class's fields, with `limit` the value
`begin_request` returned for the request in flight and `spent` a history of
what the provider really generated, metered or not. The loop's variables are
the locals of `run_attempt`: `planned`, `reviewed` (`completion_reviewed`),
`required` (`review_required`), `mutated` (`_public_completion_ready`) live as
long as a subepisode, `duplicates` as long as the attempt; `applied` and `last`
are histories. A mutating call with its arguments is a member of `Mutations`;
whatever only produces feedback is `Feedback`. `Handle` follows the order of
the code's early `continue`s: out of turn, premature, unreviewed, suppressed,
then `registry.invoke`, whose faults may come before or after the effect
(`Abort`).

### AgentLoop and McpBridge

`AgentLoop` spends one of `MaxCalls` for every driver, plan, replan and
verifier call and follows a reply through parsing, the guards, the repeat
budget, the operator's confirmation and the executor. Six calls stand for all:
two reads, a thought, a write on the task's date and one on another, and a
write that leaves the machine. `seen` is the repeat counter of a call with the
world version it was counted at; `guard` what the guards have observed and
asked. A chat call with its retries and the router's fallback is one step that
answers or raises.

`McpBridge` is one capability offered by several accounts: each server is a
process with a pipe in (`wire`) and a reader thread's queue out (`inbox`);
`enable()` joins what they publish under one tool whose `effect` the loop
confirms. A call times out while its server works on, so the late line is in
the inbox when the next call reads.

### CellScheduler and DecisionArtifacts

A cell is a case of the schedule under a condition; `store[cell]` are its
committed attempts by repeat, which is all `execute_or_resume` distinguishes.
`Produce` is an attempt with any outcome of `Attempt` and what the grader makes
of it; `Publish`, `Resume` and `NotCommitted` are the answers of the store;
`Restart` is the operator starting the run again under its run id after it
died, raised or was over: `create_run` accepts a directory with the same
metadata, so the schedule starts at its first cell over what is committed, and
a record that was prepared is adopted.

`DecisionArtifacts` puts the commands of D0 beside that scheduler with the
policy of `s7_run.py`. A command reads the projection (`Read`), which may adopt
a record a dead run has prepared, and publishes its document in four file
operations; another command may be at any of them. The audit binds the decision
before it grades.

### The studies

In `FocusedFollowup`, `RecoverySuccessor`, `ProductValidation` and `NextStudy` a
supervisor is the script of `scripts/` (or the operator's command lines): `sup`
or `cmd` is the command it has open and where that is. `evidence` is what the
store has of each cell, attempts with their retry and its health attestation;
`paper` (in `NextStudy`: `states`, `ledgers`, `analyses`) are the published
files, absent, without or with their marker, and what they say. A kill leaves
all of it and the lease behind. In `NextStudy` a decision that the shakeout passed
(`shaken`) opens the program, by way of the research authorization. Reading a
conclusion derives it again, as the code does, so a document that differs raises.
`RecoverySuccessor` adds the
record of a started cell, attempts that were abandoned or prepared, the
completion of half publications and the recovery of a dead holder's lease in
its four steps.

### FeasibilityProbe

`at` is the next step of `run_probe`: the gates of the host (`gate`), the pulls,
then for each model of the protocol its questions one after the other, its row,
and the report in four file operations with the verification behind it. `Row`
says which of its checks went wrong, whether it raised, whether it stayed
loaded. `Exchange` is a model server that has another digest behind a tag from
now on; `answered` is a history of which digests have answered a model's
questions. `Verified` is `verify_report`, which re-derives the status of
every row; `Domains` is `_classify_failures`, which says whether the machine, the
instrument, the contract or the model failed. `Alter` is a file of the report
that changes behind its manifest. Any measurement may go wrong; `trouble` counts.

### StorageProbe

`candidate[i][n]` is the directory of the first or the replacing candidate of
cycle `i`: how many files it has, its manifest, its marker, and whether the
files are those of the manifest. `at` is the next file operation of whoever is
at work (`by`): the spike itself, a worker that exits at the boundary `stop`, the
exercise of the held file, or the recovery. A refusal is tried again (`Retry`)
until the deadline is over (`blocked`) or is for good (`Refuse`).

### Schedules

A cell is a record of block, case, condition, model, trial and seed; the schedule
is the sequence of them. Ranking cases by digest is any half of a family's cases
(`half`), choosing one by the least digest is any of them. `Stop` terminates a
block of the follow-up behind any cell; `Recover` is the recovery's look at the
old topology and the lanes it freezes.

### MemoryStores

`lines` is the file: records, lines that say nothing, and lines cut inside a
character; `ended` says whether the last one has its newline. `store[u]` is what
a process has loaded and added since. An append may be cut short at any place
(`CutShort`), and the next one, of whatever process, goes behind it.

### ReleaseAttestation

`at` and `vAt` are the next git command or file operation of `run` and of
`verify`; `round` counts `run`'s four looks at the worktree. `log` holds the
commits with the code and the attestation they carry, `tree` the worktree,
`remote` and `tag` the refs. The developer edits, commits, amends, pushes, tags
and deletes between any two of them, and goes forward only: an edit brings new
code and a commit a new identity. `host` is the machine as the attestation
names it, and whether the suite passes on it. `dirs[d].ran` and `.hosts` are
histories of which code ran for a report, and where; `calm` is a history too:
nothing moved since `verify` looked at HEAD.

### ReviewLedger

A slot is a case and a role; a judgment is the canonical outcome of the prompt
or any other. `sealed` and `receipts` are files that may be half published,
`ledger` the materialized verdict, `desk` an intake between two of its
publications. `Status` and `Verdict` translate `_entry_status` and
`refresh_status`, which the code derives anew of all judgments each time. A
person is assumed to seal one response per packet and role; the code refuses a
second one under the same path only.

### OfficeTasks and OfficeGrading

An operator per generator (`PptxBasic`, …) builds a task of ordinal `o`: the rows
it lists, each with what the three policies of the family sort by, the e-mails
and events the agent can see, and the outcome it has in mind. An operator per
derivation (`DerivePptxBasic`, …) reads the outcome off the packet alone. Where
code and oracle differ in method so do the operators: the free slot is found by
counting minutes on one side and by comparing intervals on the other, the
dependency order is written down on one side and derived on the other. Numbers
are those of the source; names, titles and codes are ids.

In `OfficeGrading` a successful call leaves a record, as the model wrote it, and
its effect; `effects` and `inspected` are histories of what really happened. The
grader's six checks are operators over the records and the world; capabilities
are not modelled, because a packet offers every tool. The model follows the task
but for `MaxSlips` slips.

### ConsentChannel, AgentLabRun, EventJournal, ChatThreads

Each shared structure is a variable and every thread that may be overtaken
between two statements has an action per statement. What a lock protects is one
action (`ConfirmationLedger.decide`, `EventJournal.add`'s numbering) or holds a
lock variable (`Runs.lock`, `Run.lock`, `ProcessTree._lock`). The operating
system's part (a process dies, a child is spawned, a browser leaves) is an
action of its own. In `ChatThreads` a file is an inode: two calls that open
`threads.json.tmp` write the same inode, and one of them goes on writing after
the other has renamed it.

### Page

Every handler of the page is an action up to its `await`, and an action again
when the answer is received; `wire` are the requests in flight, which the server
serves and the page receives in any order. `shown`, `list`, `feed` and `panes`
are what is drawn and of what. The server is in it as far as the page can tell:
the conversations of each agent folder, one run at a time, its events. `calm`
is a history: the operator clicked only when nothing was in flight and answers
came in the order they were asked for.

### FollowupService

The writers' critical sections are one action each, with the check of the lead
(`_authorized_lead`, outside the lock) before it; a reader computes the number
of its audit entry in one action and appends it in another. `FakeProvider.send`
suppresses a duplicate key; an unknown outcome leaves a message in `maybe`,
which `Arrive` may deliver at any later time. `Edit` and `Expire` are what the
tests do behind the service.

## 3. What each run shows

| run | instance | properties |
|---|---|---|
| `evidence` | 2 callers, 2 keys, 3 candidates, 1 adverse event of any kind at any step | `MarkersSound`: at most one COMMITTED per key, only beside complete evidence and a whole manifest. `ProjectionExact`: results.json lists committed evidence, all of it when a call answers. `EvidenceKept`: no producer runs for a key with valid evidence; abandoned candidates are never touched. `RegisterSpec`: the store implements `AttemptRegister`. `EventuallySettled`: every key is committed and reported, unless damaged evidence halts the run |
| `attempt` | 2 subepisodes, 2 mutations, 5 conditions, 3 kinds of role budgets, 10 calls, 5 tokens | `CeilingHolds`: no request takes the attempt or a role over its calls or tokens. `Accounted`: the two token bounds hold what was generated between them. `AppliedOnce`: no mutation takes effect twice. `DoneReviewed`: no subepisode ends well without a review after its last change. `AttemptSpec`: the loop implements `Attempt`, with its liveness |
| `services` | six parts: 2 proposals on 2 leads of 2 tenants, 2 proposers, 1 reader; 2 runs, 2 handlers, shutdown; a task of 4 model calls; 2 callers on one run directory; 2 analysts of a masked run of 2 cells; 3 cases to review | `OneLineage`, `StatesTold`, `OutboxSpec`: one message per proposal, as it was approved, and states that tell what the provider did. `OneAtATime`, `CloseIsTrue`: one runner at a time, and its closed event is true. `NoFutileRepeat`, `AskedFirst`: no call is executed over and over while nothing changed, and a guarded write is questioned first. `OneDocument`: whoever has a store has the document of run.json, for good. `DecisionStands`: a sealed decision or audit is about the evidence as it will stay, and nothing is graded before it. `VerdictStands`: a published verdict is what the receipts say for ever |
| `agent_lab` | six parts: 3 confirmations; 3 tabs for 2 places, queue of 2, replay of 3 of 4 events; 2 conversations, 1 writer, 5 operations, a death at any step; 2 runs, 1 handler, shutdown; 2 servers, 2 requests; the page with 2 agents, 2 conversations, 2 runs, 2 clicks | `ConsentOnly`, `YesObeyed`, `DecidedOnce`: nothing passes without the operator's yes to that question, which is lost only to a deadline or the end of the run. `StreamHolds`: a tab gets every kept event once and in order until it is dropped. `NothingUnasked`, `OwnAnswer`: no account is changed unasked, and no answer is taken for another's. `HistoryHolds`: a death never tears threads.json, loses a turn or brings a conversation back, and the page shows the agent's own conversation once it is at rest. `LabEnds`: questions are answered, streams and runs end, calls return |
| `studies` | eleven parts: 2 of 4 cases under 2 conditions, 2 bad attempts, 1 new start; 2 cells a block with 1 supervisor, 2 faults, 2 starts; the successor likewise; a gate of 1 and 2 primary cells, 2 supervisors; next study with 2 command lines, 1 run a phase, 5 starts; the gate with 3 models and 2 troubles; a release with 1 report directory, 3 moves of the developer, 2 commands; all 528 office tasks, those of ordinal 24 played in 2 conditions with 1 slip; 2 cycles of the spike with 2 files; 2 processes with 2 appends, 1 of them torn; the schedules of 3 families of 2 cases | `NoReroll`, `StrictIsEarned`, `SummaryIsFinal`: an answer is never rerolled, graded only whole, and the summary describes the attempt that stands. `ConclusionsHold`: what is sealed, terminated, analysed follows from the evidence for ever, and the hidden outcome of an office task is the one its packet determines, in any order of the records; no attempt of the spike ever has two visible candidates; a memory loses the record that was cut short and at most one confirmed one for it, and keeps no fact twice; and wherever the playing of a schedule stopped, the conditions are even, in the end counterbalanced, each cell played once. `ClaimEarned`: the follow-up claims what was executed in time, a gate that verifies as passed has passed and one that failed names a cause, a spike that passed has one good candidate of every cycle, a memory search finds what its own scope may see, an attestation tells of the code that ran, whole and on its machine, and a strict pass of an office task did exactly what was asked for. `NothingEarly`: no result before both lanes are terminal, no primary cell before the gate's seal. `SealsStand`: seals rest on runs that ended valid, nothing is committed behind one, and a verified release is the tested code. `NoSecondChance`: no cell is run again without having earned it. `StudiesEnd`: every program ends, or stops at a file only a hand can repair |
| `evidence_blocked_rerun`, `chat_concurrent`, `probe_descriptive`, `account_named`, `focused_race`, `stop_button`, `next_study_recovery` | small instances | findings 1 to 7 |

`ServicesTypeOK`, `LabTypeOK` and `StudiesTypeOK` are the type invariants.
Deadlock is not checked where the system stops: a run that is over, a journal
that is closed, a bound reached.

### Bounds, and why they are enough

* `MaxFaults` (evidence): one adverse event already meets every program point
  of both callers, before, during and after the other's call. With the default
  three candidates a fault can cost a candidate and both keys still commit:
  `Candidates >= Keys + MaxFaults`, otherwise UUIDs would run out, which real
  ones do not. Safety holds for every bound by the proofs of section 5.
* `MaxCalls`, `MaxTokens`, `Spent` (attempt): `harness_full` can just finish two
  subepisodes (plan, change, refused done, review, done, twice) in ten calls;
  every budget can run out first, and an answer of 0 or 2 tokens meets the
  remaining token from both sides. Safety holds for every bound by the proofs.
* `MaxCalls` (loop): four calls hold a plan, a read, a questioned write and its
  repetition, or a replan as the last call; the verifier has one round.
* `MaxProposals`, `MaxAudit`: two proposals supersede each other or stand for
  two tenants; a dispatch, its reconciliation and the second dispatch fit.
* `SpikeCycles`, `SpikeMembers`: two cycles are any two of the three kinds in their
  order, so a replaced candidate stands beside another; with two files there are a
  first, a last and every boundary. `MaxTrouble` is that of the gate.
* `MaxWrites`, `MaxTears`, `MaxAge`, `MemoryFacts`: a torn append and the one behind it, of the same process
  or the other. Scopes: two attempts of a subject, or two subjects.
* `PlannedFamilies`, `PlannedCases`, `PlannedFirst`: a family that learns, one in B1a
  and one more in B1b; two cases are the two halves.
* `ProbeModels`, `MaxTrouble`: a primary model and two descriptive ones, of which
  two fail, or one fails twice; a digest that was replaced never comes back.
* `MaxMoves`, `Attestors`, `ReportDirs`: a `run` and a `verify`; a release takes two
  moves (commit, tag), the third disturbs it at any point.
* `PlayedOrdinals`, `MaxSlips`: every task of the suite is an initial state; those
  of ordinal 24 (smallest workload, two distractors, the second policy) are
  played, so each family's effects and sources occur, with one thing that was
  not asked for, done twice, or read under another name.
* `MaxClicks`, `InFlight`: two clicks choose another agent and start a run, or
  stop the first and start the second; a click finds the page at rest
  (`InFlight = 0`; section 4 tells what happens otherwise).
* Runs are started at most once each; two are the past and the present one.
* Run directory: two callers meet each other at every step, may die, and may
  create with equal or with different documents.
* Decision: two cells, so that one is decided while the other is open; two bad
  attempts, one retried and one that stands; one new start; two analysts.
* Review: two cases of the pilot, which two events expand, and one that is
  reviewed twice only then; one publication cut short, of any kind.
* `MaxAsks`: an answer late for one call, early for the next and a third one
  that must not notice. `MaxOps`: create, append, delete, create, append.
* `MaxEvents`, `QueueSize`, `Closing`: the replay forgets its first event, a
  queue overflows before the last event or on it, and there are more tabs than
  `MAX_SUBSCRIBERS`.
* Servers: two accounts already differ in what the tool's name means; two
  requests make a late answer meet the next call.
* `MaxFailures`, `MaxRestarts` (cells): two bad attempts make a retry that
  fails; one restart meets every point of the first life.
* Studies: two cells a block make one whose neighbour is done or open; two
  faults kill a command and the one that finds its remains, or its supervisor;
  the gate has a cell and there are two behind it; a start of the next study
  for each of its phases.

### Fairness, and why the code justifies it

* Evidence: `WF(Step(p))`, a running call is scheduled; `SF(Enter)` per key: a
  study iterates over its keys and is started again, and the lock is free
  infinitely often. Adverse events are bounded, never fair.
* Attempt: `WF(Next)`: the loop runs, and `transport.chat` returns or raises
  its timeout. Cells: `WF(Next)`: the scheduler is one thread; a health check
  answers or raises.
* Consent: the reader, the server and `confirm()` (which has a deadline) run; a
  stopped runner dies of its signals. The operator is not fair.
* Agent runs: handler, main and pump threads run; SIGKILL ends a process. A
  runner that is not stopped need not end.
* Journal: the pump and the handlers run, and a tab leaves when it was told the
  end, as `webui/static/app.js` aborts its stream on `closed`.
* MCP bridge: `WF(Runner)`: a call waits for an answer no longer than its
  time-out. Servers are not fair.
* Studies: `WF(Step(s))` for each supervisor: a command runs on. Kills, starts,
  failures and the operator's repairs are never fair.
* Release: `WF(Run)`, `WF(Verify)`: git and pytest end; the developer is not fair.
* Spike: `WF(Spike)`, one process; `WF(Release)`: the holder lets go after a fixed
  time. Schedules and memories are safety only.
* Gate: `WF(Probe)`: the probe is one process, and each of its calls has a
  timeout. Page: the server answers (`WF(Serve)`), the browser hands over what
  arrived (`WF(Receive)`), and the stream of a run delivers (`WF(Event(r))`).
* `services` checks safety only.

## 4. Findings

1. **`publish_blocked` can be followed by a rerun** (`evidence_blocked_rerun`).
   `commit()` answers `publish_blocked` when its deadline runs out while it
   looks for COMMITTED or PREPARED.json (`harness/evidence.py:1602`, 1631),
   before it has written PREPARED.json. The candidate is then abandoned and the
   next call runs the producer again, where `docs/PROJECT_SETUP.md:639` and
   `docs/FIXES.md:210` say exhaustion never re-executes the model.
2. **Two saves of conversations can leave an empty file** (`chat_concurrent`).
   All saves share the name `threads.json.tmp` (`harness/chat.py:53`); the
   second open truncates the file the first one renames, and a death then
   leaves no history, where `harness/chat.py:56` says a crash leaves the old
   file.
3. **A model that stays loaded makes a passing report unverifiable**
   (`probe_descriptive`). `run_probe` makes such a model ineligible by its
   `unload_error` alone (`bench/f0_probe.py:2931`), but
   `_model_failure_substantiated` does not look at it (`f0_probe.py:1829`), so
   the report is refused behind the marker it has just written, where
   `docs/PROJECT_SETUP.md:335` says that a failed descriptive model remains
   `ineligible` in the passing summary.
4. **The confirmation can name the wrong account** (`account_named`).
   `tool_account` keeps the last server of a tool's name (`webui/runner.py:244`)
   while the executor goes by the call's arguments, where the comment at
   `webui/runner.py:241` says the prompt names the account it is about to touch.
5. **An analysis can be published while cells execute** (`focused_race`).
   `terminate_block` takes no lease (`bench/focused_followup.py:1775`), so a
   second supervisor closes the study beside the first, where
   `focused_followup.py:1150` says the analysis closes further execution.
6. **The Stop button stops nothing** (`stop_button`). The page posts an empty
   body and swallows the answer (`webui/static/app.js:2059`); the handler
   requires `run_id` (`webui/server.py:950`) and answers 400, where
   `webui/README.md:111` says "Stop terminates and waits for the owned tree".
   With the run's id in the request `StopTerminates` holds.
7. **A run with an attested retry cannot be sealed** (`next_study_recovery`).
   `extract_attempt_records` matches an attestation by its cell
   (`bench/next_study_runtime.py:407`) and raises for the successful second
   attempt, which `CHANGELOG.md:726` and `docs/PROJECT_SETUP.md:1093` allow.

Seen while modelling, and checked by no run:

* Interactive loop: `guard_unplanned_write` asks for a replan without looking at
  the budget (`harness/guards.py:283`); with the last call just spent
  `_AttemptLLM.chat` raises out of the run (`harness/agent.py:203`), where
  `harness/agent.py:22` says both loops stop after the configured total.
* Recovery successor: `recover_stale_lease` compares and then unlinks by name
  (`bench/focused_recovery_successor.py:2247`), so it can delete a lease taken in
  between; `tests/test_focused_recovery_successor.py:234` calls it race safe.
* Gate: an error of the memory monitor (`f0_windows.py:634`) is reported as a ceiling
  that was exceeded, a failure of the model (`f0_probe.py:2680`), where
  `f0_probe.py:2586` says causes are never conflated; a repository probe that raises leaves a
  committed report that never verifies, though `repository_not_probed` is there
  to be recorded (`f0_probe.py:2604`).
* Storage spike: when the file system refuses the reading behind a fresh COMMITTED
  until the deadline is over, a recovery answers `publish_blocked` with the marker
  already there, against the name of the test at `tests/test_f0_storage.py:158`; the
  spike's own scan then passes, and `_verify_passing_report` refuses the report,
  because a record is not `committed` (`f0_probe.py:1909`).
* Schedules: the descriptive systems run their conditions always in the same order
  (`next_study_schedule.py:295`), so `Counterbalanced` leaves them out.
* Release: `verify` reads HEAD once for the commit and again for the tag
  (`s4_attest.py:696`, 751); a commit and a new tag between the two looks verify
  the tag of a commit nobody tested.
* Page: with requests in flight, or answers out of order, the page draws the
  list or the thread of another agent, which `app.js:333` says it does not; an
  Enter pressed twice while `/api/thread/new` is on its way makes two
  conversations; `subscriber_overflow` unlocks the page and hides Stop while the
  run goes on; a preview is fetched of the agent that is selected, not of the
  run's.
* Journal: the notice of an overflow carries the number of the event that comes next
  (`webui/control.py:419`), so a client that reconnects with it as `Last-Event-ID` is
  not sent that event, where `webui/server.py:552` says a reconnect resumes. With
  `Resume = TRUE`, a tab that does so, `NoGap` fails; `static/app.js` never does, and
  the runs and the proof have `Resume = FALSE`.
* Evidence: a `run.json` torn by a death in `create_run` is refused for ever
  (`harness/evidence.py:2184`); `OneDocument` shows that nothing is built on it.
* Follow-up service: readers number their audit entries outside the lock
  (`services.py:176`, 233, 238, 250), so two entries can share a number, where
  `tests/test_brix_followup_services.py:355` expects 1, 2, 3.
* Guards: a date guard may question the same write repeatedly and so forbid it,
  where `harness/guards.py:3` says "QUESTION ONCE, NEVER FORBID".
* Product validation: the ceiling of physical attempts is not looked at again
  before an immediate retry (`llama8_product_validation.py:1546`, 1570), and a
  half-published attestation stops the study.
* Next study: a run that is resumed publishes its attestation again and is
  refused, so a run with one retry cannot be resumed
  (`next_study_live.py:1284`); no code removes a dead command's
  `benchmark.lease`; `analyze-primary` and `verify_release` never relate the
  analysis to the ledger sealed in the gate (`next_study_live.py:1504`).
* Review: a half-published receipt or ledger is refused until a hand removes
  it, and behind a rejected ledger a later intake commits receipts before it
  raises "terminal materialized ledger drifted"
  (`next_study_review_ops.py:589`).
* Office: what `_sources_observed` looks for is `args.get("id")` of a record
  (`reviewed_grader_v2.py:309`), but `context.record` keeps the arguments as
  the model wrote them (`experiment.py:1307`), while the registry repairs a copy
  (`email_id` for `id`, `contracts.py:210`) and the world strips blanks. A source
  that was read as `{"email_id": …}` or with a blank counts as unread, where
  `reviewed_grader_v2.py:25` says "every adjudicated source was successfully
  inspected". `OfficeGrading` states it as `SourcesAreSeen`, which fails after
  one such read; `PassIsEarned` therefore speaks of plain calls.
* Office: a blank fact is a successful `save_memory` that saves nothing, and
  counts as a business effect (`reviewed_grader_v2.py:371`).
* Memory: a torn last line merges with the next append, so a fact that was answered
  with "saved to long-term memory" is gone at the next load; and a line cut inside a
  multibyte character makes `for line in f` raise `UnicodeDecodeError` out of the
  constructor (`harness/memory.py:49`) for every later run, where the comment at
  `memory.py:57` says "Skip what cannot be read and keep the rest". The first is the
  loss `LossIsBounded` allows, the second the guard `Readable` of `OpenStore`.
* Conversations: two concurrent appends lose one turn; the sources make no
  promise about it.

## 5. What is proved

The theorems hold for every value of the constants, under the named assumptions
of the modules (`None` is nobody; budgets are positive; the roles of the loop
exist; a torn file is no document; bounds are natural numbers). TLC evaluates
those on every run.

`EvidenceStoreProofs` proves `TypeOK`, `MarkersSound`, `ProjectionExact`,
`EvidenceKept`, `ProjectionMonotone` and `RegisterSpec`. None of the
invariants is inductive by itself: that no second candidate commits depends on
what a caller has seen before it came to the marker. `IInv` adds, to the type
invariant: whoever is inside a call holds the lock (`LockInv`) and has a
target where it needs one (`TargetOK`); files appear in the order evidence, manifest,
marker (`DiskInv`); of the candidates of a key at most one is a contender,
that is marked, valid or being written (`OneContender`); what a call at each
program point knows of its candidate and of the directories behind it
(`CallInv`: the target belongs to the call's key or to a directory still to be
scanned; the rows gathered are exactly the markers of the keys no longer in `todo`); the
projection lists markers only (`ReportInv`). The proof of each conjunct is a
lemma with one step per action. The refinement follows: a step that sets a
marker is `Decide`, because no other contender exists; a step that replaces
results.json is `Report`, because the rows are the markers; all others stutter.

Of `RunDirectory`, `MCServicesProofs` proves `TypeOK` and `OneDocument`. `OneDocument` is not
inductive: that an opened store's document stays needs to know that nobody is
about to write another one. `DirInv` adds that the lock is held by whoever is
inside (`DirExclusive`), that nothing is in the directory before run.lock
(`Founded`), what a creator at each of its steps knows of run.json
(`Creating`), that whatever is made after it stands beside a whole document
(`Documented`), and that the temporary results do not vanish between a
session's two looks (`Undisturbed`). Here a call that raises or dies is one
lemma (`DirLeaves`) and every other action a step of `DirSteps`.

`AttemptLoopProofs` proves `TypeOK`, `CeilingHolds`, `Accounted`,
`AppliedOnce`, `DoneReviewed` and the safety half of `AttemptSpec`. The ledger
comes first: `LimitFits` (the limit of a request is at least one token and no
more than is left to the attempt and the role), then `BeginKeeps` and
`FinishKeeps`. `Bracket` drops the exception `BracketHolds` makes for a request
in flight, because `spent` counts only what is accounted. The loop's part of
`IInv` is that the flags are the history of the subepisode (`FlagsTell`:
`reviewed` iff the last event was a review, `required` iff it was a refused
done, `mutated` iff there was one) and that every applied mutation is in
`duplicates` unless the attempt ended on it (`Remembered`). `HandledCases`
reduces the nested guards of `Handle` to six cases with what is known of the
call.

`MCAgentLabProofs` proves `TypeOK`, `ConsentOnly`, `DecidedOnce` and
`YesObeyed` of `ConsentChannel` in three layers, each on the one before. *Books*: a request is
numbered before it is shown, and an answer anywhere between the ledger and the
runner is one the ledger has decided for that number. *Once*: no answer is
under way twice, in the queue, the pipe, the pump's hand or the reader's.
*Order*: until a deadline has been missed the only answer under way is that of
the call that waits. `ConsentOnly` needs the first, `DecidedOnce` the second
and `YesObeyed` all three.

Of `EventJournal` it proves `StreamHolds`, for any number of tabs and events and any
positive sizes of queue, replay and set of subscribers. The invariant `JInv` says three
things of what is due to a tab, which is what its connection has pushed, what it still
replays and what is queued. A subscriber's is a `Chain`: events without a gap, from the
first one or from one that was still kept, up to the newest, or to the one before it
while `add` has not come to its queue. One that was dropped has no gap, or has the
notice, or `add` is about to queue it. And when `add` is (`Pumping`), the queue has
room: it took an event out of it, the handler only takes more, and a new connection has a
new queue. Handlers move an event from the queue to the connection without changing what
is due, which is the lemma most steps rest on. The theorem has the hypothesis
`Resume = FALSE`, as the page is: section 4 has what goes wrong with a client that
resumes.

Of `McpBridge` it proves `TypeOK`, `NothingUnasked` and `OwnAnswer`. The effect
the loop confirms by is joined over the providers when they are bound, so the
invariant says of a request on its way that its server is bound and that the
tool's effect covers that server's class: had the call been one that changes
something outside, it was confirmed. For the answers: a request's number reaches an inbox
only after that server carried the request out.

Of `ChatThreads` it proves what a death may never do (`SavedWhole`, `TurnsKept`,
`DeletedStays`) for any number of conversations, operations and deaths, with the
hypothesis `OneCaller`. Between a call's load and its replacement nothing but that call's
own temporary file changes, so what it loaded is what it replaces; with two callers that is
false, and finding 2 is what happens.

Of `Page` it proves `TypeOK` and `PageIsRight`. What is drawn depends on what is still
on the wire, so the invariant is about requests: every one of them was made by the page as
it is or was (`PageTyped`); and while the operator is calm, all of them are about the selected
agent (`PageAsks`), one that starts a run is alone on the wire (`PageStarts`), and whatever
the page does not show yet it has asked for, behind any deletion that would change the answer
(`PageThread`, `PageList`, `PageShows`, `PageFeed`). With nothing in flight, what is shown is
therefore what the server has. The conversations and the page together are
`LabHistoryHolds`; `Parts` carries these and the others to `LabSpec`, and `LabTypes` is
its type invariant, under the two hypotheses the parts need.

`AgentLabRunProofs` proves `TypeOK`, `OneAtATime` and `CloseIsTrue`. The first
rests on what `Runs.lock` covers: from the look at `Runs.current` to its
publication a handler holds it (`Held`), so nobody else finds a run over or a
tree idle in between, and what a reset found quiet stays quiet until it lets go
(`Quiet`, `Fresh`, `Known`). The second rests on the order of the pump, which has waited
for the leader before it looks at its exit, seen the group gone before it settles, and
settled before it closes (`Followed`), and on a stop marking the run before it
signals (`Marked`): a runner that was killed is never taken for one that failed (`Told`).

`DecisionArtifactsProofs` first proves `TypeOK`, `NoReroll`, `StrictIsEarned` and
`SummaryIsFinal` of `CellScheduler`. `IInv` says of a cell's attempts that each but the last was
excused (`Attempts`), of the position that the repeats behind it were
(`Position`), of the record in hand that it would be a next attempt
(`Pending`), and that whatever has been begun has everything settled in front of
it (`Scheduled`, `InOrder`). A settled cell gets no further attempt, so what a
summary said (`Summed`) stays so through every restart. That no condition is
told twice for a case needs `OrderProperties`: the order is a permutation,
because the selected conditions have distinct places and the number of places
before one is a rank.

Then it proves `DecisionStands` of `DecisionArtifacts`. Complete evidence is settled
(`CompleteEvidence`): every cell has an attempt that `IInv` does not excuse, so the
scheduler has no record in hand, the projection is the store, and no step of
the scheduler adds to it. So a document that was written of complete evidence, whether a command
holds it (`InHand`) or it is on disk (`OnDisk`), is equal to the evidence for good,
the audit is behind a sealed decision in every command and on disk (`Behind`), and
what a command has told is what is sealed (`Shown`).

`MCServicesProofs` proves of `FollowupService` `TypeOK`, `OneLineage`,
`StatesTold` and the refinement `OutboxSpec`. `ServiceInv` adds to them what is known of a
proposal in each state (`Blank`: a draft has no approval, whatever went further has
one), that a version counts the proposals of its lead up to it (`Line`), that
what is under way was approved (`UnderWay`), and that the log names existing
proposals (`Logged`). An approval is made once and never changed, so a key, once
approved, stays the key of its proposal, whatever is edited: a delivery is
`Deliver` of the outbox or a stutter, an approval is `Approve`. `LogGoesOn` is
the argument about the log: a step may append what it likes, as long as the last
entry that speaks of a proposal tells its new state.

The same module proves `VerdictStands` of `ReviewLedger`. Whoever has sealed was asked,
and what is asked beyond the plan has a reason in what is sealed (`Reasons`: a second
review of a case outside the fixed ones stands behind a primary judgment that is not
canonical, or behind two such signs in different cases; an adjudication behind two
reviews that disagree). Signs only grow, because a sealed judgment is never changed
(`Grows`). Receipts, and what an intake goes by, are what is sealed (`Taken`); a
published ledger is a verdict about receipts (`Published`). A complete ledger has
every judgment that anybody was or will be asked for (`CompleteIsAll`): a case is
settled with one review only when nothing gives a reason for the second. So nothing that
would change it can still be sealed. A rejection is seen in three judgments of one
case, which stay.

And `AskedFirst` and `NoFutileRepeat` of `AgentLoop`. `LoopInv` has the type invariant with
its budget (every entry of the log and every question costs a model call), the books of
the repeat rule (`Books`: what `seen` says of a call is about its last entry in the log,
how many copies of it were made since the world had moved for it, and whether it has moved
again; a new entry therefore counts one more copy or begins at one), and what the guards know (`Guarded`:
what a guard has asked is among the questions, what it has looked for in the log, and
the entry of a doubtful write comes behind its question).

Of the composition: each of its steps is one of a part or leaves the part
alone (`Parts`). So `OneAtATime`, `CloseIsTrue`, `OneDocument`, `DecisionStands`,
`VerdictStands`, `AskedFirst`, `NoFutileRepeat`, the three of the follow-up service and
`ServicesTypeOK` hold of `ServicesSpec`: all that the run `services` checks is proved.

`StudyProgramsProofs` takes the programs that publish, each with an invariant of its own:

* Spike (`SpikeHolds`): every candidate is as far as the boundary its writer has come to
  (`SpikeDisk`, `SpikeAt`), so at most one of a cycle is visible; a pass (`OverInv`) is said
  when the run is over, and then each cycle has exactly one valid candidate.
* Next study (`StudyHolds`): `StudyRetry` says that a cell has two attempts at most, the
  second behind a failure of the environment that was attested whole, and that the command
  that runs holds the lease alone and knows why it repeats; `StudySeal` that what is
  published, and what a command is about to publish, rests on runs whose every cell ended
  valid.
* Product validation (`ProdHolds`): a command that works on a primary cell has the gate
  published over valid cells, and nothing is invalid while it works (`ProdAt`); a seal says
  what the store says, and analysis and report derive from a complete one, on disk and in
  every hand (`ProdPapers`, `ProdWho`).
* Release (`RelHolds`): `RelRun` says at each place what `run` has collected by then, and that
  the suite ran on the first commit alone if head is the first commit again at the end;
  a whole attestation, wherever it stands, is earned, and not of the directory
  in the making (`RelFiles`); `RelVerify` follows `verify` to the tag, as long as nobody
  moves (`calm`).
* Successor (`SuccHolds`, `SuccChance`, `SuccTerminals`): the documents of the chain exist in
  their order and only when both lanes are terminal (`SuccPapers`), a command that runs a lane
  has found it without a terminal and the chain unpublished (`SuccAt`), and whoever prepares an
  attempt is the one that began it. `SuccTerminals` (`TerminalsStand`) adds to that invariant
  what can be read, marked or not (`TermInv`): the cells of a lane are valid up to the one it
  has come to (`InOrder`); one of the two terminal files at most exists, and says what the
  evidence says (`LaneStands`); a command that terminates stands at a cell that gives it the
  reason (`SuccLane`, `TermGrounds`), and no cell is written once either file is there; so
  what a command has in its hand (`SuccHolding`) still follows from the evidence when it is
  written, and a publication found without its marker may be completed.

The successor's theorems have the hypothesis `OneSupervisor`, as the run has: with two,
TLC finds all of them violated by the unlinking of a lease taken in between (section 4).

`MCStudiesProofs` goes on with the parts beside them:

* Focused follow-up (`FocHolds`: `TypeOK`, `ClaimEarned`, `ConclusionsStand`; `FocCloses`). A seal
  is of a whole block that was begun, a termination has its grounds, no block has both, and
  one with a cell comes behind the seals it waits for (`FocBlocks`); the final documents say what the blocks say (`FocFinals`); a command at each
  of its places knows as much as it will publish (`FocWho`). `FocCloses` is the action
  property finding 5 refutes for two supervisors: with one, an analysis closes execution.
* Gate (`ProbeHolds`: `PassEarned`, `FailureNamed`): rows are filled in the order of the
  models (`ProbeRows`), a digest that answered a model's questions is one it had while it
  was asked (`ProbeAnswers`), and the report derives from gates and rows alone (`ProbeReport`).
* Office grader (`OfficeHolds`: `PassIsEarned` in both directions, for all families,
  ordinals and numbers of slips). The grader counts records, the property speaks of effects. `OfficeInv` says
  that there is a log of successful calls per tool behind both (`OfficeLog`), what files hold
  (`OfficeFiles`) and that a source is recorded exactly if it was inspected (`OfficeReads`).
  Then it is counting: if each act asked for occurs once in a log, the log is as long as there are
  acts asked for exactly if it has no other (`OnceEach`, by `FS_Injection`).
* Memories (`MemHolds`: `NoBleed`, `LossIsBounded`, `NoFactTwice`): every line and every loaded
  entry was written by its scope (`MemEntries`); the faults bound the unusable lines, with one
  to come if the last line has a record and no end (`MemLines`), and the records that were
  confirmed and are in no line (`MemTold`); what a process loaded has each fact once (`MemKept`).

The composition `MCStudies` follows: `StudiesSealsStand`, and with `OneSupervisor`
`StudiesNothingEarly`, `StudiesNoSecondChance`, `StudiesClaimsEarned` and, but for the office
tasks and the schedules, `ConclusionsHold` (`StudiesConclusions`).

The proofs have corrected the models in these places. `_entry_status` is now a CASE whose
branches exclude each other (the prover may choose any branch that is true, TLC took the
first), and `Cell` of `RecoverySuccessor` names the two reasons in branches of their own. `AgentLoop` says that the budget is a positive number, as `harness/runtime.py:52`
demands, without which a plan of no call would be in the log. The type invariants of
`DecisionArtifacts` and `AgentLoop` say what is in their sequences. Nobody is not among
the proposals, handlers, lanes and supervisors (`NoneAssumption`, `LabAssumption`,
`StudiesAssumption`, `ProgramsAssumption`). A union that bound more loosely than it was meant to is
parenthesized in `FeasibilityProbe`. `RecoverySuccessor`, `NextStudy`, `ReleaseAttestation`,
`MemoryStores` and `OfficeGrading` say the same as before in the forms the prover reads: functions and
sets in place of folds, `SelectSeq` and bags (`Fresh`, `Skipped`, `Bad`, `Held`, `Known`
of the memories; `Generated` and `Written` of the office tasks).

Only model-checked:

* liveness (`EventuallySettled`, `LabEnds`, `StudiesEnd`, the fairness half of
  `AttemptSpec`) and ENABLED, which the prover does not reach;
* two of the conjuncts of `ConclusionsHold`: `OneOutcome` computes 528 tasks, each a matter of
  evaluation, and the schedules are sequences flattened recursively, whose balance would
  take an induction over data. The others, of the follow-up (`ConclusionsStand`), the
  successor (`TerminalsStand`), the spike (`OneVisible`) and the memories (`LossIsBounded`,
  `NoFactTwice`), are theorems;
* `StudiesTypeOK`, because of the schedules; most types of the other parts are in the
  invariants above.

## 6. Abstractions to know of

* Evidence: calls that find `run.lock` taken raise at once in the code and do
  nothing in `EvidenceStore`; in `RunDirectory` they end the call. `os.replace`
  and the exclusive creation of a file are atomic; fsync is assumed to do its
  work, so a crash loses nothing flushed. What the temporary results hold is
  left out of `RunDirectory`; `EvidenceStore` has it.
* AttemptLoop: prompts, the memory search and the bounded observation are data
  the loop does not decide by. Schema refusals are `Feedback`.
* AgentLoop: a chat call, with its retries and the router's fallback, is one
  step that answers or raises. The six calls stand for the classes of calls the
  guards tell apart.
* AgentLabRun: POSIX process groups; the Windows job object is left out.
* FeasibilityProbe: what a check measures is whether it went wrong; hashes that
  bind raw files to rows are left out.
* ReleaseAttestation: a machine is whether the suite passes on it and whether it
  is the same; JUnit files are their verdict.
* OfficeGrading: whether a text, a deck or a sheet matches is equality with what
  was asked for; capabilities and rejected calls are left out.
* StorageProbe: hashes and Office templates are whether the files are those of the
  manifest; the volume's measurements are left out.
* Schedules: digests and the factorial balance of the panels are left out; a refused
  seed is one flag.
* MemoryStores: a fact is its set of words; the quotation of recalled text as data is
  left out.
* Page: rendering is what is drawn of what; attachments and settings are left out.
* Journal: redaction and the size cap of an event are left out.
* FollowupService: payload hashes are the payloads.
* The studies: statistics, comparison tables and the text of authorizations are
  left out; where a conclusion depends on them it is any value that follows
  from the evidence read. A hash that binds one document to another is equality
  of what they say.
* ReviewLedger: one response per packet and role; a half published file is
  removed by hand whole.

## 7. What is not modelled

Components with status `not_modelled` in `PROJECT.json`, with their reasons:

* pure functions, which keep no state and answer from their arguments: the grading
  frame and instances, the older office graders and the counter, the follow-up domain pack, the
  statistics and reports of the next study;
* one process around files or devices, where the hard part is what the machine
  says: the Windows probe, the legacy runner,
  the training and inference shims, the configured agents;
* the web server's request parsing and the page's rendering.

Of the components that are `partly` modelled the note in `PROJECT.json` says
what is left out; mostly validation of documents that the code wrote itself
(their schemas, hashes and paths), and what one operator does between commands.

## 8. Plan

1. Compositions: `CellScheduler` over `EvidenceStore` in place of its answers;
   `ChatThreads` with `AgentLabRun`, for the turn that gets no reply because the
   server refused the run or ended before the reply was saved.
2. Proofs: the types of the successor's lease and audits and of the next study's rows, for
   `StudiesTypeOK` but for the schedules.
