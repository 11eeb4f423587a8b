-------------------------------- MODULE Page --------------------------------
(***************************************************************************)
(* The page of webui/static/app.js beside the requests it makes.  Every    *)
(* handler asks the server with fetch and goes on when the answer comes:   *)
(* requests are served, and their answers received, in any order, while    *)
(* the operator clicks on and the stream of a run delivers its events.     *)
(* The server is there as far as the page can tell: the conversations of   *)
(* each agent folder and one run at a time.                                *)
(***************************************************************************)
EXTENDS Naturals, FiniteSets, SequencesExt

CONSTANTS
  Agents, Threads, Runs,
  None,
  MaxClicks, \* bound on what the operator does
  InFlight   \* bound on the requests in flight when the operator clicks

VARIABLES
  \* the page: S.agent, S.thread, S.run, S.locked, S.resumed, S.stream
  agent, thread, run, locked, resumed, stream,
  shown,     \* the conversation drawn: [agent, id, n] or None
  list,      \* the conversation list drawn: [agent, ids] or None
  feed,      \* runs with rows in the timeline
  panes,     \* artifact panes: [run, agent] of the file drawn
  streams,   \* runs whose event stream is open
  pos,       \* pos[r]: events of r the page has handled
  wire,      \* requests in flight: [kind, agent, id, run, served, answer]
  \* the server
  kept,      \* kept[a][t]: turns in conversation t of agent a, None without one
  used,      \* ids of conversations ever made
  phase,     \* phase[r]: "none", "running", "ended", "over"
  owner,     \* owner[r]: the [agent, id] r was posted with
  \* what the properties look at
  calm,      \* clicks waited for the page, answers came in order, no stream was dropped
  clicks,
  lost,      \* runs whose task went into no conversation
  halted     \* runs whose Stop was answered

page   == <<agent, thread, run, locked, resumed, stream, shown, list, feed, panes, streams, pos>>
server == <<kept, used, phase, owner>>
ghosts == <<calm, clicks, lost, halted>>
vars   == <<page, wire, server, ghosts>>

\* What a run sends: its banner, a tool event that names a file, the closed event.
Closed == 3

Conversation == [agent : Agents, id : Threads \cup {None}]
Ask(kind, a, id, r) ==
  [kind |-> kind, agent |-> a, id |-> id, run |-> r, served |-> FALSE, answer |-> None]

TypeOK ==
  /\ agent \in Agents /\ thread \in Threads \cup {None}
  /\ run \in Runs \cup {None} /\ stream \in Runs \cup {None}
  /\ locked \in BOOLEAN /\ resumed \in BOOLEAN
  /\ shown = None \/ shown \in [agent : Agents, id : Threads, n : Nat]
  /\ list = None \/ list \in [agent : Agents, ids : SUBSET Threads]
  /\ feed \subseteq Runs /\ panes \subseteq [run : Runs, agent : Agents]
  /\ streams \subseteq Runs /\ pos \in [Runs -> 0 .. Closed]
  /\ \A q \in ToSet(wire) :
       q.kind \in {"threads", "open", "refresh", "new", "run", "stop", "delete", "preview"}
  /\ kept \in [Agents -> [Threads -> Nat \cup {None}]] /\ used \subseteq Threads
  /\ phase \in [Runs -> {"none", "running", "ended", "over"}]
  /\ owner \in [Runs -> Conversation \cup {None}]
  /\ calm \in BOOLEAN /\ clicks \in 0 .. MaxClicks
  /\ lost \subseteq Runs /\ halted \subseteq Runs
  /\ locked = (run # None)

\* loadAgents picks an agent; its conversations are asked for.  One conversation
\* may be there from before.
Init ==
  /\ agent = CHOOSE a \in Agents : TRUE
  /\ thread = None /\ run = None /\ locked = FALSE /\ resumed = FALSE /\ stream = None
  /\ shown = None /\ list = None /\ feed = {} /\ panes = {} /\ streams = {}
  /\ pos = [r \in Runs |-> 0]
  /\ wire = <<Ask("threads", agent, None, None)>>
  /\ used \in {{}, {CHOOSE t \in Threads : TRUE}}
  /\ \E a \in Agents :
       kept = [b \in Agents |-> [t \in Threads |-> IF b = a /\ t \in used THEN 1 ELSE None]]
  /\ phase = [r \in Runs |-> "none"] /\ owner = [r \in Runs |-> None]
  /\ calm = TRUE /\ clicks = 0 /\ lost = {} /\ halted = {}

Ids(a) == {t \in Threads : kept[a][t] # None}

Quiet == wire = <<>>

\* A click, which may find requests in flight.
Click ==
  /\ clicks < MaxClicks /\ Len(wire) <= InFlight
  /\ clicks' = clicks + 1
  /\ calm' = (calm /\ Quiet)
  /\ UNCHANGED <<server, lost, halted>>

-----------------------------------------------------------------------------
(* What several handlers do                                                 *)

\* newChat: the conversation is left; its list is asked for.
NewChatThen(a, rest) ==
  /\ thread' = None /\ shown' = None /\ feed' = {}
  /\ wire' = Append(rest, Ask("threads", a, None, None))

\* openThread, up to its await.
OpenThen(id, rest) ==
  /\ thread' = id
  /\ wire' = Append(rest, Ask("open", agent, id, None))

\* resetRun, and the POST that follows it in startRun.
PostRun(t, rest) ==
  /\ feed' = {} /\ panes' = {}
  /\ wire' = Append(rest, Ask("run", agent, t, None))

\* finishRun: S.stream is aborted, the page is unlocked, the conversation read again.
FinishRun ==
  /\ streams' = streams \ {stream} /\ stream' = None
  /\ run' = None /\ locked' = FALSE
  /\ wire' = IF thread = None THEN wire ELSE Append(wire, Ask("refresh", agent, thread, None))

-----------------------------------------------------------------------------
(* The operator                                                             *)

SelectAgent(a) ==
  /\ Click /\ a # agent
  /\ agent' = a
  /\ IF thread # None THEN NewChatThen(a, wire)
     ELSE /\ wire' = Append(wire, Ask("threads", a, None, None))
          /\ UNCHANGED <<thread, shown, feed>>
  /\ UNCHANGED <<run, locked, resumed, stream, list, panes, streams, pos>>

NewChat ==
  /\ Click /\ NewChatThen(agent, wire)
  /\ UNCHANGED <<agent, run, locked, resumed, stream, list, panes, streams, pos>>

\* A row of the list is clicked: the id is the row's, the agent is S.agent.
OpenThread(id) ==
  /\ Click /\ list # None /\ id \in list.ids
  /\ OpenThen(id, wire)
  /\ UNCHANGED <<agent, run, locked, resumed, stream, shown, list, feed, panes, streams, pos>>

DeleteThread(id) ==
  /\ Click /\ list # None /\ id \in list.ids
  /\ wire' = Append(wire, Ask("delete", agent, id, None))
  /\ UNCHANGED page

\* startRun up to its first await: a conversation is made when none is open.
StartRun ==
  /\ Click /\ ~locked
  /\ IF thread = None
     THEN /\ wire' = Append(wire, Ask("new", agent, None, None))
          /\ UNCHANGED <<feed, panes>>
     ELSE PostRun(thread, wire)
  /\ UNCHANGED <<agent, thread, run, locked, resumed, stream, shown, list, streams, pos>>

\* The Stop button, shown while a run is: its POST has an empty body.
Stop ==
  /\ Click /\ run # None
  /\ wire' = Append(wire, [Ask("stop", agent, None, None) EXCEPT !.id = run])
  /\ UNCHANGED page

-----------------------------------------------------------------------------
(* The server                                                               *)

Answer(i, v) == wire' = [wire EXCEPT ![i].served = TRUE, ![i].answer = v]

\* GET /api/threads and /api/thread; messages of an unknown id are none.
ServeRead(i) ==
  LET q == wire[i] IN
  /\ ~q.served
  /\ \/ q.kind = "threads" /\ Answer(i, Ids(q.agent))
     \/ /\ q.kind \in {"open", "refresh"}
        /\ Answer(i, IF q.id \in Ids(q.agent) THEN kept[q.agent][q.id] ELSE 0)
  /\ UNCHANGED <<page, server, ghosts>>

\* GET /api/preview: the agent's folder has a file of that name or not.
ServePreview(i) ==
  LET q == wire[i] IN
  /\ ~q.served /\ q.kind = "preview"
  /\ \E there \in BOOLEAN : /\ q.agent = owner[q.run].agent => there
                            /\ Answer(i, there)
  /\ UNCHANGED <<page, server, ghosts>>

\* POST /api/thread/new and /api/thread/delete.
ServeNew(i) ==
  LET q == wire[i] IN
  /\ ~q.served /\ q.kind = "new"
  /\ \E t \in Threads \ used : /\ kept' = [kept EXCEPT ![q.agent][t] = 0]
                               /\ used' = used \cup {t}
                               /\ Answer(i, t)
  /\ UNCHANGED <<page, phase, owner, ghosts>>

ServeDelete(i) ==
  LET q == wire[i] IN
  /\ ~q.served /\ q.kind = "delete"
  /\ kept' = [kept EXCEPT ![q.agent][q.id] = None]
  /\ Answer(i, TRUE)
  /\ UNCHANGED <<page, used, phase, owner, ghosts>>

Alive == \E r \in Runs : phase[r] = "running"

\* POST /api/run: the task is appended to its conversation, then the run started
\* or, while a runner is alive, refused.
ServeRun(i) ==
  LET q   == wire[i]
      has == q.id \in Ids(q.agent) IN
  /\ ~q.served /\ q.kind = "run"
  /\ kept' = IF has THEN [kept EXCEPT ![q.agent][q.id] = @ + 1] ELSE kept
  /\ \/ /\ Alive /\ Answer(i, None)
        /\ UNCHANGED <<phase, owner, lost>>
     \/ \E r \in Runs :
          /\ ~Alive /\ phase[r] = "none"
          /\ phase' = [phase EXCEPT ![r] = "running"]
          /\ owner' = [owner EXCEPT ![r] = [agent |-> q.agent, id |-> q.id]]
          /\ lost' = IF q.id # None /\ ~has THEN lost \cup {r} ELSE lost
          /\ Answer(i, r)
  /\ UNCHANGED <<page, used, calm, clicks, halted>>

\* POST /api/stop wants the run_id; the page's request has none, so it is refused.
ServeStop(i) ==
  LET q == wire[i] IN
  /\ ~q.served /\ q.kind = "stop"
  /\ phase' = IF q.run # None /\ phase[q.run] = "running"
              THEN [phase EXCEPT ![q.run] = "ended"] ELSE phase
  /\ halted' = halted \cup {q.id}
  /\ Answer(i, TRUE)
  /\ UNCHANGED <<page, kept, used, owner, calm, clicks, lost>>

\* The runner ends.
RunEnds(r) ==
  /\ phase[r] = "running"
  /\ phase' = [phase EXCEPT ![r] = "ended"]
  /\ UNCHANGED <<page, wire, kept, used, owner, ghosts>>

\* _pump: the reply is appended, then the closed event added.
Reply(r) ==
  LET c == owner[r] IN
  /\ phase[r] = "ended"
  /\ phase' = [phase EXCEPT ![r] = "over"]
  /\ kept' = IF c.id \in Ids(c.agent) THEN [kept EXCEPT ![c.agent][c.id] = @ + 1] ELSE kept
  /\ UNCHANGED <<page, wire, used, owner, ghosts>>

-----------------------------------------------------------------------------
(* The page goes on                                                         *)

Got(i, kind) == wire[i].kind = kind /\ wire[i].served

\* An answer is received, in its turn or before that of an earlier request.
Received(i) ==
  /\ calm' = (calm /\ i = 1)
  /\ UNCHANGED <<server, clicks, lost, halted>>
Rest(i)      == RemoveAt(wire, i)

\* loadThreads: the newest conversation is opened the first time, or the list drawn.
GotThreads(i) ==
  LET q == wire[i] IN
  /\ Got(i, "threads")
  /\ \/ /\ thread = None /\ run = None /\ ~resumed /\ q.answer # {}
        /\ resumed' = TRUE
        /\ \E id \in q.answer : OpenThen(id, Rest(i))
        /\ UNCHANGED list
     \/ /\ ~(thread = None /\ run = None /\ ~resumed /\ q.answer # {})
        /\ list' = [agent |-> q.agent, ids |-> q.answer]
        /\ wire' = Rest(i)
        /\ UNCHANGED <<thread, resumed>>
  /\ Received(i)
  /\ UNCHANGED <<agent, run, locked, stream, shown, feed, panes, streams, pos>>

\* openThread and refreshThread after their await; only the first clears the timeline.
GotThread(i) ==
  LET q == wire[i] IN
  /\ Got(i, "open") \/ Got(i, "refresh")
  /\ shown' = [agent |-> q.agent, id |-> q.id, n |-> q.answer]
  /\ feed' = IF q.kind = "open" THEN {} ELSE feed
  /\ wire' = Append(Rest(i), Ask("threads", agent, None, None))
  /\ Received(i)
  /\ UNCHANGED <<agent, thread, run, locked, resumed, stream, list, panes, streams, pos>>

\* startRun goes on with the conversation made, for the agent of that moment.
GotNew(i) ==
  /\ Got(i, "new")
  /\ thread' = wire[i].answer
  /\ PostRun(wire[i].answer, Rest(i))
  /\ Received(i)
  /\ UNCHANGED <<agent, run, locked, resumed, stream, shown, list, streams, pos>>

\* The run is there: the page is locked and its stream opened.
GotRun(i) ==
  LET r == wire[i].answer IN
  /\ Got(i, "run")
  /\ IF r = None THEN UNCHANGED <<run, locked, stream, streams>>
     ELSE /\ run' = r /\ locked' = TRUE
          /\ stream' = r /\ streams' = streams \cup {r}
  /\ wire' = Rest(i)
  /\ Received(i)
  /\ UNCHANGED <<agent, thread, resumed, shown, list, feed, panes, pos>>

\* The deleted conversation is left if it is the one open; the list is asked for.
GotDelete(i) ==
  /\ Got(i, "delete")
  /\ IF thread = wire[i].id
     THEN NewChatThen(agent, Append(Rest(i), Ask("threads", agent, None, None)))
     ELSE /\ wire' = Append(Rest(i), Ask("threads", agent, None, None))
          /\ UNCHANGED <<thread, shown, feed>>
  /\ Received(i)
  /\ UNCHANGED <<agent, run, locked, resumed, stream, list, panes, streams, pos>>

\* showArtifact after its await: a second answer for the file is dropped.
GotPreview(i) ==
  LET q == wire[i] IN
  /\ Got(i, "preview")
  /\ panes' = IF q.answer /\ \A p \in panes : p.run # q.run
              THEN panes \cup {[run |-> q.run, agent |-> q.agent]} ELSE panes
  /\ wire' = Rest(i)
  /\ Received(i)
  /\ UNCHANGED <<agent, thread, run, locked, resumed, stream, shown, list, feed, streams, pos>>

\* The answer of a Stop is not looked at.
GotStop(i) ==
  /\ Got(i, "stop")
  /\ wire' = Rest(i)
  /\ Received(i)
  /\ UNCHANGED page

\* The stream of r hands over the next event.
Event(r) ==
  /\ r \in streams /\ pos[r] < Closed
  /\ pos[r] = Closed - 1 => phase[r] = "over"
  /\ pos' = [pos EXCEPT ![r] = @ + 1]
  /\ CASE pos[r] = 0 ->           \* onBanner: resetRun, then the banner
            /\ feed' = {r} /\ panes' = {}
            /\ UNCHANGED <<run, locked, stream, streams, wire>>
       [] pos[r] = 1 ->           \* onTool: showArtifact asks for S.agent's file
            /\ feed' = feed \cup {r}
            /\ wire' = IF \E p \in panes : p.run = r THEN wire
                       ELSE Append(wire, Ask("preview", agent, None, r))
            /\ UNCHANGED <<run, locked, stream, streams, panes>>
       [] OTHER -> FinishRun /\ UNCHANGED <<feed, panes>>
  /\ UNCHANGED <<agent, thread, resumed, shown, list, server, ghosts>>

\* A stream that lags is dropped and told it is closed.
Drop(r) ==
  /\ r \in streams /\ pos[r] < Closed
  /\ pos' = [pos EXCEPT ![r] = Closed]
  /\ calm' = FALSE
  /\ FinishRun
  /\ UNCHANGED <<agent, thread, resumed, shown, list, feed, panes, server, clicks, lost, halted>>

-----------------------------------------------------------------------------
Serve(i) == ServeRead(i) \/ ServePreview(i) \/ ServeNew(i) \/ ServeDelete(i) \/ ServeRun(i)
              \/ ServeStop(i)
Receive(i) == GotThreads(i) \/ GotThread(i) \/ GotNew(i) \/ GotRun(i) \/ GotDelete(i)
                \/ GotPreview(i) \/ GotStop(i)
Operator == \/ \E a \in Agents : SelectAgent(a)
            \/ \E id \in Threads : OpenThread(id) \/ DeleteThread(id)
            \/ NewChat \/ StartRun \/ Stop

Next == \/ Operator
        \/ \E i \in DOMAIN wire : Serve(i) \/ Receive(i)
        \/ \E r \in Runs : RunEnds(r) \/ Reply(r) \/ Event(r) \/ Drop(r)

Spec == Init /\ [][Next]_vars

-----------------------------------------------------------------------------
\* When the operator waits for the page, answers come in order and the stream
\* keeps up, the page at rest shows the conversation and the list of the agent
\* selected, complete once no run is on; the timeline and the panes of one run;
\* and Stop whenever a run is alive.  No task has gone into no conversation.
PageIsRight ==
  calm =>
    /\ lost = {}
    /\ Quiet =>
         /\ list # None => list.agent = agent
         /\ run = None /\ thread # None =>
              shown = [agent |-> agent, id |-> thread, n |-> kept[agent][thread]]
         /\ \A r, s \in feed \cup {p.run : p \in panes} : r = s
         /\ \A r \in Runs : phase[r] = "running" => run = r

\* The page does not stay locked for a run that is over.
PageOver == run # None => phase[run] # "over"

\* Once a Stop of a run is answered, its runner is dead: "Stop terminates and
\* waits for the owned tree".
StopTerminates == \A r \in halted : phase[r] # "running"
=============================================================================
