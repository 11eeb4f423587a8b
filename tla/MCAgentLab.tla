------------------------------ MODULE MCAgentLab ------------------------------
(* The parts of Agent Lab that serve one run: consent, the journal and its  *)
(* streams, the conversations, the life of the runner, the MCP bridge       *)
(* inside it and the page.  They meet in data the properties do not look    *)
(* at, so a behaviour is one of a single part, and TLC explores each.       *)
EXTENDS ConsentChannel

CONSTANTS
  Streams, MaxEvents, QueueSize, MaxSubscribers, Closing, Resume, None,
  Callers, Threads, MaxOps,
  Runs, Handlers, Main,
  Servers, MaxRequests,
  Agents, Chats, PageRuns, MaxClicks, InFlight

ASSUME LabAssumption ==
  /\ MaxEvents \in Nat \ {0} /\ QueueSize \in Nat \ {0} /\ MaxSubscribers \in Nat \ {0}
  /\ Closing \in Nat /\ Resume \in BOOLEAN /\ MaxOps \in Nat
  /\ None \notin Streams \cup Threads \cup Runs \cup Handlers \cup {Main}
  /\ Main \notin Handlers
  /\ Agents # {} /\ Chats # {}
  /\ Servers \in Nat \ {0} /\ MaxRequests \in Nat
  /\ None \notin Nat \cup Seq(Nat) \cup Chats \cup PageRuns /\ MaxClicks \in Nat /\ InFlight \in Nat

VARIABLES
  unit,
  next, subscribers, jQueue, todo, add, target, jAt, after, backlog, got, seen, lastId,
  content, torn, file, tmp, cAt, call, copy, inode, alone, ops, turns, deleted,
  current, leader, child, status, pump, replied, said, at, of, runsLock, runLock, treeLock, gone,
  mode, kind, mAt, started, providers, effect, account, real, mNext, rid, wire, inbox, dead,
  result, agreed, told, done,
  agent, thread, run, locked, resumed, stream, drawn, list, feed, panes, streams, pos, wired,
  kept, used, phase, owner, calm, clicks, lost, halted

Log     == INSTANCE EventJournal WITH queue <- jQueue, at <- jAt
Chat    == INSTANCE ChatThreads WITH at <- cAt
Life    == INSTANCE AgentLabRunProofs
Mcp     == INSTANCE McpBridge WITH at <- mAt, next <- mNext
Web     == INSTANCE Page WITH Threads <- Chats, Runs <- PageRuns, wire <- wired, shown <- drawn

\* The runs' threads are no runs.
ASSUME RunConstants == Life!RunsAssumption

journal == <<next, subscribers, jQueue, todo, add, target, jAt, after, backlog, got, seen, lastId>>
chat    == <<content, torn, file, tmp, cAt, call, copy, inode, alone, ops, turns, deleted>>
life    == <<current, leader, child, status, pump, replied, said, at, of, runsLock, runLock,
             treeLock, gone>>
mcp     == <<mode, kind, mAt, started, providers, effect, account, real, mNext, rid, wire, inbox,
             dead, result, agreed, told, done>>
web     == <<agent, thread, run, locked, resumed, stream, drawn, list, feed, panes, streams, pos,
             wired, kept, used, phase, owner, calm, clicks, lost, halted>>
all     == <<unit, vars, journal, chat, life, mcp, web>>

InConsent == unit = "consent" /\ UNCHANGED <<unit, journal, chat, life, mcp, web>>
InJournal == unit = "journal" /\ UNCHANGED <<unit, vars, chat, life, mcp, web>>
InChat    == unit = "chat"    /\ UNCHANGED <<unit, vars, journal, life, mcp, web>>
InLife    == unit = "life"    /\ UNCHANGED <<unit, vars, journal, chat, mcp, web>>
InMcp     == unit = "mcp"     /\ UNCHANGED <<unit, vars, journal, chat, life, web>>
InWeb     == unit = "web"     /\ UNCHANGED <<unit, vars, journal, chat, life, mcp>>

\* The part a behaviour is about, and one initial state of each other part.
LabInit ==
  /\ unit \in {"consent", "journal", "chat", "life", "mcp", "web"}
  /\ Init /\ Log!Init /\ Chat!Init /\ Life!Init
  /\ Web!Init /\ (unit # "web" => used = {})
  /\ Mcp!Init /\ (unit # "mcp" => mode = "draft" /\ \A a \in DOMAIN kind : kind[a] = "absent")

LabNext == \/ InConsent /\ Next
           \/ InJournal /\ Log!Next
           \/ InChat /\ Chat!Next
           \/ InLife /\ Life!Next
           \/ InMcp /\ Mcp!Next
           \/ InWeb /\ Web!Next

\* The fairness of every part, as its module states it.
LabFairness ==
  /\ WF_all(\/ InConsent /\ (Get \/ TimeOut)
            \/ InJournal /\ Log!Adding
            \/ InMcp /\ Mcp!Runner)
  /\ WF_all(InConsent /\ (Read \/ Put)) /\ WF_all(InConsent /\ Server)
  /\ WF_all(InConsent /\ stopped /\ Exit)
  /\ \A s \in Streams : /\ WF_all(InJournal /\ Log!Stream(s))
                        /\ WF_all(InJournal /\ Log!Told(s) /\ Log!Disconnect(s))
  /\ \A t \in Handlers \cup {Main} :
       /\ WF_all(InLife /\ Life!StopStep(t))
       /\ WF_all(InLife /\ (Life!Publish(t) \/ Life!ResetDone(t)))
  /\ \A r \in Runs : WF_all(InLife /\ Life!PumpStep(r))
  /\ \A r \in PageRuns : WF_all(InWeb /\ Web!Event(r))
  /\ WF_all(InWeb /\ \E i \in DOMAIN wired : Web!Serve(i) \/ Web!Receive(i))

LabSpec == LabInit /\ [][LabNext]_all /\ LabFairness

-----------------------------------------------------------------------------
\* Every part keeps its types.
LabTypeOK == /\ TypeOK /\ Log!TypeOK /\ Chat!TypeOK /\ Life!TypeOK /\ Mcp!TypeOK
             /\ Web!TypeOK

\* A subscriber is sent every kept event once and in order until it is dropped,
\* and one that is dropped is told and harms nobody.
StreamHolds == Log!NoGap /\ Log!DropIsClean

\* threads.json is whole whatever dies; appended turns stay and deleted
\* conversations stay away; the page at rest shows what is selected.
HistoryHolds ==
  [][/\ Chat!WholeFile' /\ Chat!TurnsKept' /\ Web!PageIsRight'
     /\ \A t \in deleted : Chat!Loaded[t] = None => Chat!Loaded'[t] = None]_all

\* No account is changed without the operator's yes.
NothingUnasked == Mcp!NothingUnasked

\* An answer is the answer of its own request.
OwnAnswer == Mcp!OwnAnswer

\* Nobody waits for ever: questions are answered, streams of a closed run end,
\* a run that is stopped or ends is finished with, a call of a server returns and
\* the page is freed.
LabEnds ==
  \A s \in Streams :
    []<>(/\ NobodyWaits /\ Log!StreamOver(s) /\ Life!RunsOver /\ Mcp!NoCallWaits
         /\ Web!PageOver)
=============================================================================
