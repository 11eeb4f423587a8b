---------------------------- MODULE ConsentChannel ----------------------------
(***************************************************************************)
(* One operator decision for one guarded effect.  The runner process asks  *)
(* over stdout (ConfirmationChannel, webui/control.py); the server's pump  *)
(* registers the question in the ConfirmationLedger and shows it; an HTTP  *)
(* handler takes the decision out of the ledger and writes it to the       *)
(* runner's stdin; a reader thread queues it for the waiting confirm().    *)
(* Every confirm() has a deadline, and the operator may stop the run.      *)
(***************************************************************************)
EXTENDS Naturals, Sequences, FiniteSets

CONSTANT MaxAsks   \* bound on the confirm() calls of one run

ASSUME AsksAssumption == MaxAsks \in Nat \ {0}

Ids      == 1 .. MaxAsks          \* confirmation_id with its nonce, both fresh
Messages == [id : Ids, decision : BOOLEAN]
Eof      == [id |-> 0, decision |-> FALSE]   \* what the reader queues at end of file

VARIABLES
  runner,    \* the runner: between effects, inside confirm(), or gone
  asked,     \* confirm() calls so far; the current call is number asked
  verdict,   \* verdict[i]: what confirm() number i returned
  timedOut,  \* the calls whose queue wait ran into the deadline
  stdout,    \* confirmation events the pump has not read
  fresh,     \* the event the pump has registered but not yet published
  shown,     \* confirmations in the journal the browser follows
  pending,   \* ConfirmationLedger._pending
  accepted,  \* accepted[i]: the decision the ledger let through
  replying,  \* decisions an HTTP handler has still to write to stdin
  stdin,     \* the pipe to the runner
  open,      \* the server's end of that pipe is open
  reading,   \* the reader thread has not returned
  held,      \* the line it has taken off the pipe
  queue,     \* ConfirmationChannel._responses, maxsize 1
  stopped,   \* the run was stopped
  closed     \* the pump has seen the process exit

pipe == <<stdin, open, reading, held, queue>>
vars == <<runner, asked, verdict, timedOut, stdout, fresh, shown, pending, accepted,
          replying, pipe, stopped, closed>>

TypeOK ==
  /\ runner \in {"working", "waiting", "gone"}
  /\ asked \in 0 .. MaxAsks
  /\ verdict \in [Ids -> {"none", "allowed", "denied"}]
  /\ timedOut \in SUBSET Ids
  /\ stdout \in Seq(Ids)
  /\ fresh \in SUBSET Ids
  /\ shown \in SUBSET Ids
  /\ pending \in SUBSET Ids
  /\ accepted \in [Ids -> {"none", "yes", "no"}]
  /\ replying \in SUBSET Messages
  /\ stdin \in Seq(Messages)
  /\ open \in BOOLEAN /\ reading \in BOOLEAN
  /\ held \in Seq(Messages \cup {Eof})
  /\ queue \in Seq(Messages \cup {Eof}) /\ Len(queue) <= 1
  /\ stopped \in BOOLEAN /\ closed \in BOOLEAN

Init ==
  /\ runner = "working" /\ asked = 0
  /\ verdict = [i \in Ids |-> "none"] /\ timedOut = {}
  /\ stdout = <<>> /\ fresh = {} /\ shown = {} /\ pending = {}
  /\ accepted = [i \in Ids |-> "none"] /\ replying = {}
  /\ stdin = <<>> /\ open = TRUE /\ reading = TRUE /\ held = <<>> /\ queue = <<>>
  /\ stopped = FALSE /\ closed = FALSE

-----------------------------------------------------------------------------
(* The runner process                                                       *)

\* confirm() draws a fresh id and nonce and emits the confirmation event.
Ask ==
  /\ runner = "working" /\ asked < MaxAsks
  /\ asked' = asked + 1
  /\ stdout' = Append(stdout, asked')
  /\ runner' = "waiting"
  /\ UNCHANGED <<verdict, timedOut, fresh, shown, pending, accepted, replying, pipe,
                 stopped, closed>>

\* Slip: any approval that arrives while confirm() waits is taken for its own.
AnyApproval(m) == m # Eof /\ m.decision

\* The response is a closed object, names this run, this confirmation and its
\* nonce, and its decision is true.
Approves(m) == m # Eof /\ m.id = asked /\ m.decision

\* _responses.get returns a value, whatever it is: the call is answered.
Get ==
  /\ runner = "waiting" /\ queue # <<>>
  /\ verdict' = [verdict EXCEPT ![asked] = IF Approves(Head(queue)) THEN "allowed" ELSE "denied"]
  /\ queue' = <<>>
  /\ runner' = "working"
  /\ UNCHANGED <<asked, timedOut, stdout, fresh, shown, pending, accepted, replying,
                 stdin, open, reading, held, stopped, closed>>

\* queue.Empty at the deadline: the effect is refused; the server is not told.
TimeOut ==
  /\ runner = "waiting" /\ queue = <<>>
  /\ verdict' = [verdict EXCEPT ![asked] = "denied"]
  /\ timedOut' = timedOut \cup {asked}
  /\ runner' = "working"
  /\ UNCHANGED <<asked, stdout, fresh, shown, pending, accepted, replying, pipe,
                 stopped, closed>>

\* The reader thread: readline, then a put that waits for room.
Read ==
  /\ runner # "gone" /\ reading /\ held = <<>>
  /\ \/ stdin # <<>> /\ held' = <<Head(stdin)>> /\ stdin' = Tail(stdin)
     \/ stdin = <<>> /\ ~open /\ held' = <<Eof>> /\ UNCHANGED stdin
  /\ UNCHANGED <<runner, asked, verdict, timedOut, stdout, fresh, shown, pending,
                 accepted, replying, open, reading, queue, stopped, closed>>

\* The end of the file is put like an answer, and the thread returns.
Put ==
  /\ runner # "gone" /\ held # <<>> /\ queue = <<>>
  /\ queue' = held
  /\ held' = <<>>
  /\ reading' = (held # <<Eof>>)
  /\ UNCHANGED <<runner, asked, verdict, timedOut, stdout, fresh, shown, pending,
                 accepted, replying, stdin, open, stopped, closed>>

\* The agent loop ends, or the process fails.
Exit ==
  /\ runner # "gone"
  /\ runner' = "gone"
  /\ UNCHANGED <<asked, verdict, timedOut, stdout, fresh, shown, pending, accepted,
                 replying, pipe, stopped, closed>>

-----------------------------------------------------------------------------
(* The server                                                               *)

\* _pump: register_confirmation, then run.add.
Register ==
  /\ stdout # <<>> /\ fresh = {}
  /\ pending' = pending \cup {Head(stdout)}
  /\ fresh' = {Head(stdout)}
  /\ stdout' = Tail(stdout)
  /\ UNCHANGED <<runner, asked, verdict, timedOut, shown, accepted, replying, pipe,
                 stopped, closed>>

Publish ==
  /\ fresh # {}
  /\ shown' = shown \cup fresh
  /\ fresh' = {}
  /\ UNCHANGED <<runner, asked, verdict, timedOut, stdout, pending, accepted, replying,
                 pipe, stopped, closed>>

\* Slip: the entry stays in the ledger.
DecideKeeping(i, yes) ==
  /\ i \in shown \cap pending
  /\ accepted' = [accepted EXCEPT ![i] = IF yes THEN "yes" ELSE "no"]
  /\ replying' = replying \cup {[id |-> i, decision |-> yes]}
  /\ UNCHANGED <<runner, asked, verdict, timedOut, stdout, fresh, shown, pending, pipe,
                 stopped, closed>>

\* POST /api/confirm: ConfirmationLedger.decide consumes the entry; a stale or
\* unknown id and a wrong nonce change nothing.
Decide(i, yes) ==
  /\ i \in shown \cap pending
  /\ pending' = pending \ {i}
  /\ accepted' = [accepted EXCEPT ![i] = IF yes THEN "yes" ELSE "no"]
  /\ replying' = replying \cup {[id |-> i, decision |-> yes]}
  /\ UNCHANGED <<runner, asked, verdict, timedOut, stdout, fresh, shown, pipe, stopped,
                 closed>>

\* Run.decide goes on: poll, write and flush; a dead run or a closed pipe
\* drops the decision with an error answer.
Reply ==
  \E m \in replying :
    /\ replying' = replying \ {m}
    /\ IF runner # "gone" /\ open THEN stdin' = Append(stdin, m) ELSE UNCHANGED stdin
    /\ UNCHANGED <<runner, asked, verdict, timedOut, stdout, fresh, shown, pending,
                   accepted, open, reading, held, queue, stopped, closed>>

\* Slip: the pipe is closed before the run is known to be stopped.
StopUnseen ==
  /\ runner # "gone" /\ ~stopped
  /\ pending' = {}
  /\ open' = FALSE
  /\ UNCHANGED <<runner, asked, verdict, timedOut, stdout, fresh, shown, accepted,
                 replying, stdin, reading, held, queue, stopped, closed>>

\* Run.stop under run.lock; process_tree.terminate follows (Exit).
Stop ==
  /\ runner # "gone" /\ ~stopped
  /\ stopped' = TRUE
  /\ pending' = {}
  /\ open' = FALSE
  /\ UNCHANGED <<runner, asked, verdict, timedOut, stdout, fresh, shown, accepted,
                 replying, stdin, reading, held, queue, closed>>

\* _pump after the last line: wait, then clear the ledger.
Close ==
  /\ runner = "gone" /\ stdout = <<>> /\ fresh = {} /\ ~closed
  /\ closed' = TRUE
  /\ pending' = {}
  /\ UNCHANGED <<runner, asked, verdict, timedOut, stdout, fresh, shown, accepted,
                 replying, pipe, stopped>>

Server == Register \/ Publish \/ Reply \/ Close

Next == \/ Ask \/ Get \/ TimeOut \/ Read \/ Put \/ Exit
        \/ Server \/ Stop
        \/ \E i \in Ids, yes \in BOOLEAN : Decide(i, yes)

\* Threads run, a deadline passes, and a stopped process is killed: terminate
\* ends with SIGKILL.  Nothing is assumed of the operator or the agent.
Fairness == /\ WF_vars(Get \/ TimeOut) /\ WF_vars(Read \/ Put) /\ WF_vars(Server)
            /\ WF_vars(stopped /\ Exit)

Spec     == Init /\ [][Next]_vars
FairSpec == Spec /\ Fairness

-----------------------------------------------------------------------------
\* An effect is let through only on the operator's own yes to that very
\* confirmation, whatever late, early or repeated answers are in the pipe.
ConsentOnly == \A i \in Ids : verdict[i] = "allowed" => accepted[i] = "yes"

\* A confirmation is decided once: between the ledger and the runner there is
\* never more than one live copy of it, so no decision is replayed.
Copies(i) ==
  Cardinality({m \in replying : m.id = i}) + Cardinality({i} \cap pending)
    + Cardinality({n \in DOMAIN (stdin \o held \o queue) : (stdin \o held \o queue)[n].id = i})

OneShot == \A i \in Ids : Copies(i) <= 1

\* The operator's yes is lost only to a deadline, its own or that of an
\* earlier call whose late answer was taken for the next one, or to the end
\* of the run: with no deadline missed and no stop, each answer is obeyed.
YesObeyed ==
  \A i \in Ids : accepted[i] = "yes" /\ verdict[i] = "denied" =>
    stopped \/ \E j \in 1 .. i : j \in timedOut

\* No confirmation of a finished run can still be decided.
NothingAfterClose == closed => pending = {}

\* A confirmation is decided at most once and never after its run.
DecidedOnce == OneShot /\ NothingAfterClose

\* No confirm() is without its answer, and no run that was stopped is open or
\* has a decision left in a handler.  Again and again this is so: a runner never
\* waits for ever for an operator who does not answer, nor for an answer that
\* was given to a call that is gone.
NobodyWaits ==
  /\ asked > 0 => verdict[asked] # "none" \/ runner = "gone"
  /\ stopped => closed /\ replying = {}
=============================================================================
