----------------------------- MODULE EventJournal -----------------------------
(***************************************************************************)
(* EventJournal of webui/control.py with its two users: the pump thread    *)
(* of a run, which adds events, and the handler threads of GET /api/events *)
(* (stream_events in webui/server.py), one for each open stream.           *)
(***************************************************************************)
EXTENDS Integers, Sequences, FiniteSets

CONSTANTS
  Streams,         \* browser tabs, each with one connection at a time
  MaxEvents,       \* MAX_EVENTS: replay kept
  QueueSize,       \* SUBSCRIBER_QUEUE
  MaxSubscribers,  \* MAX_SUBSCRIBERS
  Closing,         \* bound: the run has events 0 .. Closing, and Closing is "closed"
  Resume,          \* a tab that reconnects sends Last-Event-ID (static/app.js does not)
  None

VARIABLES
  next,         \* _next
  subscribers,  \* _subscribers
  queue,        \* queue[s]: the subscriber's queue, of [id, t]
  todo,         \* subscribers add() has still to serve
  add,          \* where add() is
  target,       \* the subscriber whose queue was full
  at,           \* at[s]: where the handler of s is
  after,        \* after[s]: the Last-Event-ID of this connection
  backlog,      \* backlog[s]: replay still to push
  got,          \* got[s]: what this connection has pushed
  seen,         \* seen[s]: event ids the tab has seen on any connection
  lastId        \* lastId[s]: the last id the tab was sent

journal == <<next, subscribers>>
adding  == <<todo, add, target>>
stream  == <<at, after, backlog, got, seen, lastId>>
vars    == <<journal, queue, adding, stream>>

Event(n) == [id |-> n, t |-> IF n = Closing THEN "closed" ELSE "event"]
Items    == {Event(n) : n \in 0 .. Closing} \cup [id : 0 .. Closing + 1, t : {"overflow"}]
Oldest   == IF next > MaxEvents THEN next - MaxEvents ELSE 0

TypeOK ==
  /\ next \in 0 .. Closing + 1
  /\ subscribers \subseteq Streams /\ Cardinality(subscribers) <= MaxSubscribers
  /\ queue \in [Streams -> Seq(Items)]
  /\ todo \subseteq Streams
  /\ add \in {"idle", "offer", "drop", "room", "notice", "raised"}
  /\ target \in Streams \cup {None}
  /\ at \in [Streams -> {"off", "live"}]
  /\ after \in [Streams -> -1 .. Closing + 1]
  /\ backlog \in [Streams -> Seq(Items)]
  /\ got \in [Streams -> Seq(Items)]
  /\ seen \in [Streams -> SUBSET (0 .. Closing)]
  /\ lastId \in [Streams -> -1 .. Closing + 1]

Init ==
  /\ next = 0 /\ subscribers = {} /\ queue = [s \in Streams |-> <<>>]
  /\ todo = {} /\ add = "idle" /\ target = None
  /\ at = [s \in Streams |-> "off"] /\ after = [s \in Streams |-> -1]
  /\ backlog = [s \in Streams |-> <<>>] /\ got = [s \in Streams |-> <<>>]
  /\ seen = [s \in Streams |-> {}] /\ lastId = [s \in Streams |-> -1]

-----------------------------------------------------------------------------
(* EventJournal.add, in the pump thread                                     *)

\* Under the lock: number, keep, and copy the list of subscribers.
Number ==
  /\ add = "idle" /\ next <= Closing
  /\ next' = next + 1
  /\ todo' = subscribers
  /\ add' = "offer"
  /\ UNCHANGED <<subscribers, queue, target, stream>>

\* put_nowait to one of them.
Offer(s) ==
  /\ add = "offer" /\ s \in todo
  /\ IF Len(queue[s]) < QueueSize
       THEN /\ queue' = [queue EXCEPT ![s] = Append(@, Event(next - 1))]
            /\ todo' = todo \ {s}
            /\ UNCHANGED <<add, target>>
       ELSE /\ target' = s /\ add' = "drop"
            /\ UNCHANGED <<queue, todo>>
  /\ UNCHANGED <<journal, stream>>

\* queue.Full: under the lock, the subscriber is removed.
Drop ==
  /\ add = "drop"
  /\ subscribers' = subscribers \ {target}
  /\ add' = "room"
  /\ UNCHANGED <<next, queue, todo, target, stream>>

\* get_nowait; queue.Empty, when the handler has taken all, ends it.
Room ==
  /\ add = "room"
  /\ IF queue[target] = <<>>
       THEN add' = "offer" /\ todo' = todo \ {target} /\ UNCHANGED queue
       ELSE add' = "notice" /\ queue' = [queue EXCEPT ![target] = Tail(@)] /\ UNCHANGED todo
  /\ UNCHANGED <<journal, target, stream>>

\* put_nowait of the notice; a Full here would end the pump thread.
Notice ==
  /\ add = "notice"
  /\ IF Len(queue[target]) < QueueSize
       THEN /\ queue' = [queue EXCEPT ![target] = Append(@, [id |-> next, t |-> "overflow"])]
            /\ todo' = todo \ {target} /\ add' = "offer"
       ELSE add' = "raised" /\ UNCHANGED <<queue, todo>>
  /\ UNCHANGED <<journal, target, stream>>

Added ==
  /\ add = "offer" /\ todo = {}
  /\ add' = "idle"
  /\ target' = None
  /\ UNCHANGED <<journal, queue, todo, stream>>

-----------------------------------------------------------------------------
(* stream_events, in a handler thread                                       *)

\* Slip: the replay starts at the event after the next one.
SubscribeShort(s) ==
  /\ at[s] = "off" /\ s \notin todo /\ target # s /\ Cardinality(subscribers) < MaxSubscribers
  /\ LET from  == IF Resume THEN lastId[s] ELSE -1
         first == IF from + 2 > Oldest THEN from + 2 ELSE Oldest IN
       /\ after' = [after EXCEPT ![s] = from]
       /\ backlog' = [backlog EXCEPT ![s] = [i \in 1 .. next - first |-> Event(first + i - 1)]]
       /\ got' = [got EXCEPT ![s] = <<>>]
  /\ subscribers' = subscribers \cup {s}
  /\ queue' = [queue EXCEPT ![s] = <<>>]
  /\ at' = [at EXCEPT ![s] = "live"]
  /\ UNCHANGED <<next, adding, seen, lastId>>

\* Slip: a stream too many.
SubscribeMore(s) ==
  /\ at[s] = "off" /\ s \notin todo /\ target # s /\ Cardinality(subscribers) <= MaxSubscribers
  /\ after' = [after EXCEPT ![s] = -1]
  /\ backlog' = [backlog EXCEPT ![s] = <<>>]
  /\ got' = [got EXCEPT ![s] = <<>>]
  /\ subscribers' = subscribers \cup {s}
  /\ queue' = [queue EXCEPT ![s] = <<>>]
  /\ at' = [at EXCEPT ![s] = "live"]
  /\ UNCHANGED <<next, adding, seen, lastId>>

\* subscribe(after), under the lock: no more than MAX_SUBSCRIBERS, the kept
\* events later than after, a new queue.  A tab whose old queue add() still
\* holds is taken to come back a little later: queue[s] is the new queue only.
Subscribe(s) ==
  /\ at[s] = "off" /\ s \notin todo /\ target # s /\ Cardinality(subscribers) < MaxSubscribers
  /\ LET from  == IF Resume THEN lastId[s] ELSE -1
         first == IF from + 1 > Oldest THEN from + 1 ELSE Oldest IN
       /\ after' = [after EXCEPT ![s] = from]
       /\ backlog' = [backlog EXCEPT ![s] = [i \in 1 .. next - first |-> Event(first + i - 1)]]
       /\ got' = [got EXCEPT ![s] = <<>>]
  /\ subscribers' = subscribers \cup {s}
  /\ queue' = [queue EXCEPT ![s] = <<>>]
  /\ at' = [at EXCEPT ![s] = "live"]
  /\ UNCHANGED <<next, adding, seen, lastId>>

\* push: the tab sees the event; one that resumes remembers it.
Pushed(s, item) ==
  /\ got' = [got EXCEPT ![s] = Append(@, item)]
  /\ IF Resume
       THEN /\ seen' = [seen EXCEPT ![s] = IF item.t = "overflow" THEN @ ELSE @ \cup {item.id}]
            /\ lastId' = [lastId EXCEPT ![s] = item.id]
       ELSE UNCHANGED <<seen, lastId>>

\* The connection is over.
Left(s) ==
  /\ at' = [at EXCEPT ![s] = "off"]
  /\ subscribers' = subscribers \ {s}
  /\ backlog' = [backlog EXCEPT ![s] = <<>>]

\* The replay is pushed whole, a "closed" in it included.
Replay(s) ==
  /\ at[s] = "live" /\ backlog[s] # <<>>
  /\ Pushed(s, Head(backlog[s]))
  /\ backlog' = [backlog EXCEPT ![s] = Tail(@)]
  /\ UNCHANGED <<journal, queue, adding, at, after>>

\* sub.get, push, and leave after "closed", unsubscribing.
Deliver(s) ==
  /\ at[s] = "live" /\ backlog[s] = <<>> /\ queue[s] # <<>>
  /\ Pushed(s, Head(queue[s]))
  /\ queue' = [queue EXCEPT ![s] = Tail(@)]
  /\ IF Head(queue[s]).t = "event" THEN UNCHANGED <<at, subscribers, backlog>> ELSE Left(s)
  /\ UNCHANGED <<next, adding, after>>

\* The tab goes away: a push or a keepalive fails, and finally unsubscribes.
Disconnect(s) ==
  /\ at[s] = "live"
  /\ Left(s)
  /\ got' = [got EXCEPT ![s] = <<>>]
  /\ UNCHANGED <<next, queue, adding, after, seen, lastId>>

Adding    == Number \/ Drop \/ Room \/ Notice \/ Added \/ \E s \in Streams : Offer(s)
Stream(s) == Replay(s) \/ Deliver(s)

Next == Adding \/ \E s \in Streams : Subscribe(s) \/ Stream(s) \/ Disconnect(s)

Spec == Init /\ [][Next]_vars

\* Both kinds of threads run, and a tab that was told the end leaves: the
\* handle() of static/app.js aborts its stream on "closed".
Told(s)  == \E i \in DOMAIN got[s] : got[s][i].t # "event"
FairSpec == /\ Spec /\ WF_vars(Adding)
            /\ \A s \in Streams : WF_vars(Stream(s)) /\ WF_vars(Told(s) /\ Disconnect(s))

-----------------------------------------------------------------------------
\* A subscriber is sent, in order and once each, every kept event after the
\* one it named: what was pushed, what is still replayed and what is queued
\* make one run of numbers up to the newest event, or to the one before while
\* add() has not come to this queue.
Due(s) == got[s] \o backlog[s] \o queue[s]

NoGap ==
  \A s \in subscribers \ {target} :
    LET d == Due(s) IN
    /\ \A i \in DOMAIN d : d[i] = Event(d[1].id + i - 1)
    /\ d # <<>> => /\ d[1].id >= after[s] + 1 /\ (d[1].id > after[s] + 1 => d[1].id + MaxEvents <= next)
                   /\ d[Len(d)].id = IF s \in todo THEN next - 2 ELSE next - 1

\* A stream that was dropped for being slow is not cut silently: if it misses
\* an event while its handler still reads, the notice is on its way.
DroppedIsTold ==
  \A s \in Streams :
    at[s] = "live" /\ s \notin subscribers /\ s # target =>
      \/ \E i \in DOMAIN Due(s) : Due(s)[i].t = "overflow"
      \/ \A i \in DOMAIN Due(s) : Due(s)[i] = Event(Due(s)[1].id + i - 1)

\* The pump thread is never ended by a full queue, whatever the readers do.
NeverRaises == add # "raised"

\* Dropping a slow reader harms neither it nor the pump.
DropIsClean == DroppedIsTold /\ NeverRaises

\* The stream is not one of a closed run, or it has ended, or it was dropped.
\* Again and again this is so: every stream that was not dropped ends.
StreamOver(s) == next > Closing /\ s \in subscribers => at[s] = "off"

=============================================================================
