--------------------------- MODULE MCAgentLabProofs ---------------------------
(***************************************************************************)
(* Proofs about MCAgentLab: about its confirmations, its journal and the   *)
(* streams of it, the MCP bridge, the conversations and the page, and that *)
(* what is proved of these and of the runs holds of the composition, since *)
(* each of its steps is one of a part or leaves the part alone.            *)
(* Confirmations, for any number of them, come in three layers: the books  *)
(* (a confirmation is numbered before it is shown, and every answer under  *)
(* way is the one the ledger accepted), the copies (no answer is under way *)
(* twice) and the order (until a deadline is missed the only answers under *)
(* way are those of the call that waits).  The journal, for any number of  *)
(* tabs and events: what a tab was sent, is being replayed and has queued  *)
(* is one chain of events, and a queue that is full has room for the       *)
(* notice once its oldest event is taken.  The other parts have their      *)
(* arguments in front of them.                                             *)
(***************************************************************************)
EXTENDS MCAgentLab, FiniteSetTheorems, SequenceTheorems, TLAPS

Elems(s) == {s[k] : k \in DOMAIN s}

\* What is added to, taken from and put back into a sequence.
LEMMA ElemsAppend ==
  ASSUME NEW S, NEW s \in Seq(S), NEW x
  PROVE  Elems(Append(s, x)) = Elems(s) \cup {x}
  <1>1. /\ DOMAIN Append(s, x) = 1 .. Len(s) + 1 /\ Len(s) \in Nat /\ DOMAIN s = 1 .. Len(s)
        /\ \A k \in 1 .. Len(s) : Append(s, x)[k] = s[k]
        /\ Append(s, x)[Len(s) + 1] = x
    OBVIOUS
  <1> QED
    BY <1>1 DEF Elems

LEMMA ElemsTail ==
  ASSUME NEW S, NEW s \in Seq(S), s # <<>>
  PROVE  /\ Head(s) \in S /\ Tail(s) \in Seq(S) /\ Head(s) = s[1] /\ 1 \in DOMAIN s
         /\ Elems(s) = {Head(s)} \cup Elems(Tail(s))
         /\ Len(Tail(s)) = Len(s) - 1
         /\ \A k \in 1 .. Len(s) - 1 : Tail(s)[k] = s[k + 1]
  <1>1. /\ Head(s) \in S /\ Tail(s) \in Seq(S) /\ Head(s) = s[1] /\ Len(s) \in Nat /\ Len(s) > 0
        /\ Len(Tail(s)) = Len(s) - 1 /\ DOMAIN s = 1 .. Len(s)
        /\ DOMAIN Tail(s) = 1 .. Len(s) - 1
        /\ \A k \in 1 .. Len(s) - 1 : Tail(s)[k] = s[k + 1]
    OBVIOUS
  <1>2. ASSUME NEW k \in DOMAIN s PROVE s[k] \in {Head(s)} \cup Elems(Tail(s))
    <2>1. CASE k = 1
      BY <1>1, <2>1
    <2>2. CASE k # 1
      <3>1. k - 1 \in 1 .. Len(s) - 1 /\ Tail(s)[k - 1] = s[(k - 1) + 1]
        BY <1>1, <1>2, <2>2
      <3> QED
        BY <1>1, <3>1 DEF Elems
    <2> QED
      BY <2>1, <2>2
  <1>3. ASSUME NEW k \in DOMAIN Tail(s) PROVE Tail(s)[k] \in Elems(s)
    BY <1>1, <1>3 DEF Elems
  <1> QED
    BY <1>1, <1>2, <1>3 DEF Elems

LEMMA ElemsShort ==
  /\ Elems(<<>>) = {}
  /\ \A x : Elems(<<x>>) = {x} /\ Head(<<x>>) = x /\ Len(<<x>>) = 1 /\ <<x>> # <<>>
  <1>1. Elems(<<>>) = {}
    BY DEF Elems
  <1>2. ASSUME NEW x PROVE Elems(<<x>>) = {x} /\ Head(<<x>>) = x /\ Len(<<x>>) = 1 /\ <<x>> # <<>>
    <2>1. DOMAIN <<x>> = {1} /\ <<x>>[1] = x
      OBVIOUS
    <2> QED
      BY <2>1 DEF Elems
  <1> QED
    BY <1>1, <1>2

-----------------------------------------------------------------------------
(* Types                                                                    *)

\* The types, and what the calls have come to: only the last one may wait.
Typed ==
  /\ TypeOK
  /\ Len(held) <= 1
  /\ timedOut \subseteq 1 .. asked
  /\ \A i \in Ids : i > asked => verdict[i] = "none"
  /\ runner = "waiting" => asked \in Ids /\ verdict[asked] = "none"

LEMMA TypedInit == Init => Typed
  <1> SUFFICES ASSUME Init PROVE Typed
    OBVIOUS
  <1>1. TypeOK
    <2>1. open \in BOOLEAN /\ reading \in BOOLEAN /\ stopped \in BOOLEAN /\ closed \in BOOLEAN
      BY Zenon DEF Init
    <2>2. /\ stdout \in Seq(Ids) /\ stdin \in Seq(Messages) /\ held \in Seq(Messages \cup {Eof})
          /\ queue \in Seq(Messages \cup {Eof}) /\ Len(queue) <= 1
      BY DEF Init
    <2>3. verdict \in [Ids -> {"none", "allowed", "denied"}] /\ accepted \in [Ids -> {"none", "yes", "no"}]
      BY DEF Init
    <2> QED
      BY <2>1, <2>2, <2>3, AsksAssumption DEF Init, TypeOK
  <1> QED
    BY <1>1 DEF Init, Typed

LEMMA TypedStep == Typed /\ [Next]_vars => Typed'
  <1> SUFFICES ASSUME Typed, [Next]_vars PROVE Typed'
    OBVIOUS
  <1>1. CASE Ask
    <2>1. asked' \in Ids /\ stdout' \in Seq(Ids)
      BY <1>1, AsksAssumption DEF Ask, Typed, TypeOK, Ids, pipe
    <2> QED
      BY <1>1, <2>1, AsksAssumption DEF Ask, Typed, TypeOK, Ids, pipe
  <1>2. CASE Get
    <2>1. Len(queue') <= 1 /\ queue' \in Seq(Messages \cup {Eof})
      BY <1>2, AsksAssumption DEF Get, Typed, TypeOK, Ids, pipe
    <2> QED
      BY <1>2, <2>1, AsksAssumption DEF Get, Typed, TypeOK, Ids, pipe
  <1>3. CASE TimeOut
    BY <1>3, AsksAssumption DEF TimeOut, Typed, TypeOK, Ids, pipe
  <1>4. CASE Read
    <2>1. CASE stdin # <<>> /\ held' = <<Head(stdin)>> /\ stdin' = Tail(stdin)
      <3>1. Head(stdin) \in Messages /\ stdin' \in Seq(Messages)
        BY <2>1, ElemsTail DEF Typed, TypeOK
      <3>2. held' \in Seq(Messages \cup {Eof}) /\ Len(held') <= 1
        BY <2>1, <3>1
      <3> QED
        BY <1>4, <3>1, <3>2 DEF Read, Typed, TypeOK
    <2>2. CASE held' = <<Eof>> /\ UNCHANGED stdin
      <3>1. held' \in Seq(Messages \cup {Eof}) /\ Len(held') <= 1
        BY <2>2
      <3> QED
        BY <1>4, <2>2, <3>1 DEF Read, Typed, TypeOK
    <2> QED
      BY <1>4, <2>1, <2>2 DEF Read
  <1>5. CASE Put
    BY <1>5, AsksAssumption DEF Put, Typed, TypeOK, Ids, pipe
  <1>6. CASE Exit
    BY <1>6, AsksAssumption DEF Exit, Typed, TypeOK, Ids, pipe
  <1>7. CASE Register
    <2>1. Head(stdout) \in Ids /\ stdout' \in Seq(Ids)
      BY <1>7, ElemsTail DEF Register, Typed, TypeOK
    <2> QED
      BY <1>7, <2>1, AsksAssumption DEF Register, Typed, TypeOK, Ids, pipe
  <1>8. CASE Publish
    BY <1>8, AsksAssumption DEF Publish, Typed, TypeOK, Ids, pipe
  <1>9. CASE Reply
    <2>1. PICK m \in replying : /\ replying' = replying \ {m}
                                /\ stdin' = Append(stdin, m) \/ stdin' = stdin
      BY <1>9 DEF Reply
    <2>2. UNCHANGED <<runner, asked, verdict, timedOut, stdout, fresh, shown, pending,
                      accepted, open, reading, held, queue, stopped, closed>>
      BY <1>9 DEF Reply
    <2>3. replying \subseteq Messages /\ stdin \in Seq(Messages)
      BY DEF Typed, TypeOK
    <2>4. replying' \subseteq Messages /\ stdin' \in Seq(Messages)
      BY <2>1, <2>3
    <2> QED
      BY <2>2, <2>4 DEF Typed, TypeOK
  <1>10. CASE Close
    BY <1>10, AsksAssumption DEF Close, Typed, TypeOK, Ids, pipe
  <1>11. CASE Stop
    BY <1>11, AsksAssumption DEF Stop, Typed, TypeOK, Ids, pipe
  <1>12. ASSUME NEW i \in Ids, NEW yes \in BOOLEAN, Decide(i, yes) PROVE Typed'
    BY <1>12 DEF Decide, Messages, Typed, TypeOK, pipe
  <1>13. CASE UNCHANGED vars
    BY <1>13 DEF vars, pipe, Typed, TypeOK
  <1> QED
    BY <1>1, <1>2, <1>3, <1>4, <1>5, <1>6, <1>7, <1>8, <1>9, <1>10, <1>11, <1>12, <1>13
    DEF Next, Server

\* The variables of the channel keep their types, and the response queue its
\* bound of one.
THEOREM ConsentTypeOK == Spec => []TypeOK
  <1>1. Typed => TypeOK
    BY DEF Typed
  <1> QED
    BY <1>1, TypedInit, TypedStep, PTL DEF Spec

-----------------------------------------------------------------------------
(* The books                                                                *)

\* Every answer on its way, and the number of the confirmations registered.
Carried == replying \cup Elems(stdin) \cup Elems(held) \cup Elems(queue)
Sent    == asked - Len(stdout)

Books ==
  /\ Sent >= 0 /\ \A k \in 1 .. Len(stdout) : stdout[k] = Sent + k
  /\ \A i \in pending : i <= Sent /\ accepted[i] = "none"
  /\ \A i \in Ids : accepted[i] # "none" => i <= Sent
  /\ \A m \in Carried : m # Eof => accepted[m.id] = IF m.decision THEN "yes" ELSE "no"
  /\ \A i \in Ids : verdict[i] = "allowed" => accepted[i] = "yes"

\* What is on its way is a message or the end of the file.
LEMMA CarriedType == ASSUME Typed PROVE Carried \subseteq Messages \cup {Eof}
  BY DEF Typed, TypeOK, Carried, Elems

\* The reader, the runner and the handlers only move answers on; the one new
\* thing the reader makes is the end of the file.
LEMMA CarriedMoves ==
  ASSUME Typed, \/ Ask \/ Get \/ TimeOut \/ Read \/ Put \/ Exit \/ Server \/ Stop
                \/ UNCHANGED vars
  PROVE  Carried' \subseteq Carried \cup {Eof}
  <1>1. CASE Get
    <2>1. Elems(queue') = {}
      BY <1>1, ElemsShort DEF Get
    <2> QED
      BY <1>1, <2>1 DEF Get, Carried
  <1>2. CASE Read
    <2>1. CASE stdin # <<>> /\ held' = <<Head(stdin)>> /\ stdin' = Tail(stdin)
      <3>1. Elems(stdin) = {Head(stdin)} \cup Elems(Tail(stdin))
        BY <2>1, ElemsTail DEF Typed, TypeOK
      <3>2. Elems(held') = {Head(stdin)} /\ Elems(stdin') = Elems(Tail(stdin))
        BY <2>1, ElemsShort
      <3> QED
        BY <1>2, <3>1, <3>2 DEF Read, Carried
    <2>2. CASE held' = <<Eof>> /\ UNCHANGED stdin
      <3>1. Elems(held') = {Eof}
        BY <2>2, ElemsShort
      <3> QED
        BY <1>2, <2>2, <3>1 DEF Read, Carried
    <2> QED
      BY <1>2, <2>1, <2>2 DEF Read
  <1>3. CASE Put
    <2>1. Elems(held') = {}
      BY <1>3, ElemsShort DEF Put
    <2> QED
      BY <1>3, <2>1 DEF Put, Carried
  <1>4. CASE Reply
    <2>1. PICK m \in replying : /\ replying' = replying \ {m}
                                /\ stdin' = Append(stdin, m) \/ stdin' = stdin
      BY <1>4 DEF Reply
    <2>2. Elems(stdin') \subseteq Elems(stdin) \cup {m}
      BY <2>1, ElemsAppend DEF Typed, TypeOK
    <2> QED
      BY <1>4, <2>1, <2>2 DEF Reply, Carried
  <1>5. CASE Ask \/ TimeOut \/ Exit \/ Register \/ Publish \/ Close \/ Stop \/ UNCHANGED vars
    BY <1>5 DEF Ask, TimeOut, Exit, Register, Publish, Close, Stop, vars, pipe, Carried
  <1> QED
    BY <1>1, <1>2, <1>3, <1>4, <1>5 DEF Server

LEMMA CarriedDecide ==
  ASSUME NEW i \in Ids, NEW yes \in BOOLEAN, Decide(i, yes)
  PROVE  Carried' = Carried \cup {[id |-> i, decision |-> yes]}
  BY DEF Decide, Carried, pipe

LEMMA BooksInit == Init => Books
  <1> SUFFICES ASSUME Init PROVE Books
    OBVIOUS
  <1>1. asked = 0 /\ Len(stdout) = 0 /\ pending = {}
    BY DEF Init
  <1>2. Carried = {}
    BY ElemsShort DEF Init, Carried
  <1>3. \A i \in Ids : accepted[i] = "none" /\ verdict[i] = "none"
    BY DEF Init
  <1> QED
    BY <1>1, <1>2, <1>3 DEF Books, Sent

LEMMA BooksStep == Typed /\ Typed' /\ Books /\ [Next]_vars => Books'
  <1> SUFFICES ASSUME Typed, Typed', Books, [Next]_vars PROVE Books'
    OBVIOUS
  <1>1. ASSUME NEW i \in Ids, NEW yes \in BOOLEAN, Decide(i, yes) PROVE Books'
    <2>1. /\ i \in pending /\ pending' = pending \ {i}
          /\ accepted' = [accepted EXCEPT ![i] = IF yes THEN "yes" ELSE "no"]
          /\ accepted \in [Ids -> {"none", "yes", "no"}]
          /\ UNCHANGED <<asked, stdout, verdict>>
      BY <1>1 DEF Decide, Typed, TypeOK
    <2>2. /\ accepted[i] = "none" /\ i <= Sent /\ Sent' = Sent
          /\ pending \subseteq Ids
      BY <2>1 DEF Books, Sent, Typed, TypeOK
    <2>3. \A m \in Carried' : m # Eof => accepted'[m.id] = IF m.decision THEN "yes" ELSE "no"
      <3> SUFFICES ASSUME NEW m \in Carried', m # Eof
                   PROVE  accepted'[m.id] = IF m.decision THEN "yes" ELSE "no"
        OBVIOUS
      <3>1. CASE m \in Carried
        <4>1. m.id \in Ids /\ accepted[m.id] = IF m.decision THEN "yes" ELSE "no"
          BY <3>1, CarriedType DEF Books, Messages
        <4>2. m.id # i
          BY <2>2, <4>1
        <4> QED
          BY <2>1, <4>1, <4>2
      <3>2. CASE m = [id |-> i, decision |-> yes]
        BY <2>1, <3>2
      <3> QED
        BY <1>1, <3>1, <3>2, CarriedDecide
    <2>4. \A j \in Ids : accepted[j] = "yes" => accepted'[j] = "yes"
      BY <2>1, <2>2
    <2> QED
      BY <2>1, <2>2, <2>3, <2>4 DEF Books, Sent
  <1>2. ASSUME UNCHANGED accepted, Carried' \subseteq Carried \cup {Eof}
        PROVE  \A m \in Carried' : m # Eof => accepted'[m.id] = IF m.decision THEN "yes" ELSE "no"
    BY <1>2 DEF Books
  <1>3. CASE Ask
    <2>0. stdout \in Seq(Ids) /\ asked \in Nat /\ asked' = asked + 1 /\ stdout' = Append(stdout, asked')
      BY <1>3 DEF Ask, Typed, TypeOK
    <2>1. /\ Len(stdout) \in Nat /\ Len(stdout') = Len(stdout) + 1 /\ Sent' = Sent
          /\ \A k \in 1 .. Len(stdout) : stdout'[k] = stdout[k]
          /\ stdout'[Len(stdout) + 1] = asked + 1
      BY <2>0 DEF Sent
    <2>2. \A k \in 1 .. Len(stdout') : stdout'[k] = Sent + k
      BY <2>0, <2>1 DEF Books, Sent
    <2> QED
      BY <1>2, <1>3, <2>1, <2>2, CarriedMoves DEF Ask, Books
  <1>4. CASE Get
    <2>1. queue # <<>> /\ Head(queue) \in Carried /\ Head(queue) \in Messages \cup {Eof}
      BY <1>4, ElemsTail DEF Get, Carried, Typed, TypeOK
    <2>2. /\ asked \in Ids /\ UNCHANGED <<accepted, asked, stdout, pending>>
          /\ verdict' = [verdict EXCEPT ![asked] = IF Approves(Head(queue)) THEN "allowed" ELSE "denied"]
          /\ verdict \in [Ids -> {"none", "allowed", "denied"}]
      BY <1>4 DEF Get, Typed, TypeOK
    <2>3. Approves(Head(queue)) => accepted[asked] = "yes"
      BY <2>1 DEF Approves, Books
    <2>4. \A j \in Ids : verdict'[j] = "allowed" => accepted'[j] = "yes"
      BY <2>2, <2>3 DEF Books
    <2> QED
      BY <1>2, <1>4, <2>2, <2>4, CarriedMoves DEF Books, Sent
  <1>5. CASE TimeOut
    BY <1>2, <1>5, CarriedMoves DEF TimeOut, Books, Sent, Typed, TypeOK
  <1>6. CASE Register
    <2>1. /\ Head(stdout) = stdout[1] /\ Len(stdout') = Len(stdout) - 1 /\ Len(stdout) \in Nat
          /\ Len(stdout) > 0 /\ \A k \in 1 .. Len(stdout) - 1 : stdout'[k] = stdout[k + 1]
          /\ asked' = asked /\ asked \in Nat /\ Head(stdout) \in Ids
      BY <1>6, ElemsTail DEF Register, Typed, TypeOK
    <2>2. Sent' = Sent + 1 /\ Sent \in Nat /\ stdout[1] = Sent + 1
      BY <2>1 DEF Books, Sent
    <2>3. \A k \in 1 .. Len(stdout') : stdout'[k] = Sent' + k
      BY <2>1, <2>2 DEF Books
    <2>4. pending' = pending \cup {Sent + 1} /\ Sent + 1 \in Ids /\ UNCHANGED <<accepted, verdict>>
      BY <1>6, <2>1, <2>2 DEF Register
    <2>5. accepted[Sent + 1] = "none"
      BY <2>2, <2>4 DEF Books
    <2>6. \A i \in pending' : i <= Sent' /\ accepted'[i] = "none"
      BY <2>2, <2>4, <2>5 DEF Books, Typed, TypeOK, Ids
    <2>7. \A i \in Ids : accepted'[i] # "none" => i <= Sent'
      BY <2>2, <2>4 DEF Books, Ids
    <2> QED
      BY <1>2, <1>6, <2>2, <2>3, <2>4, <2>6, <2>7, CarriedMoves DEF Books, Server
  <1>7. CASE Read \/ Put \/ Exit \/ Publish \/ Reply \/ Close \/ Stop \/ UNCHANGED vars
    <2>1. UNCHANGED <<asked, stdout, accepted, verdict>> /\ pending' \subseteq pending
      BY <1>7 DEF Read, Put, Exit, Publish, Reply, Close, Stop, vars
    <2> QED
      BY <1>2, <1>7, <2>1, CarriedMoves DEF Books, Sent, Server
  <1> QED
    BY <1>1, <1>3, <1>4, <1>5, <1>6, <1>7 DEF Next, Server

\* An effect is let through only on the operator's own yes to it, whatever is
\* late, repeated or still on its way, in a run of any length.
THEOREM ConsentIsOwn == Spec => []ConsentOnly
  <1>1. Books => ConsentOnly
    BY DEF Books, ConsentOnly
  <1> QED
    BY <1>1, TypedInit, TypedStep, BooksInit, BooksStep, PTL DEF Spec

-----------------------------------------------------------------------------
(* The copies                                                               *)

Apart(S, T) == \A m \in S, n \in T : m.id = n.id => m.id = 0

\* An answer is in one place of its way, and once; a closed run has nothing
\* left to decide and nothing to read.
Once ==
  /\ \A m, n \in replying : m.id = n.id => m = n
  /\ \A j, k \in 1 .. Len(stdin) : stdin[j].id = stdin[k].id => j = k
  /\ Apart(replying, Elems(stdin) \cup Elems(held) \cup Elems(queue))
  /\ Apart(Elems(stdin), Elems(held) \cup Elems(queue))
  /\ Apart(Elems(held), Elems(queue))
  /\ closed => runner = "gone" /\ stdout = <<>> /\ fresh = {} /\ pending = {}

\* The end of the file has no number, and no message is without one.
LEMMA Numbered ==
  ASSUME Typed
  PROVE  Eof.id = 0 /\ \A m \in replying \cup Elems(stdin) : m.id # 0
  <1>1. \A m \in Messages : m.id # 0
    BY DEF Messages, Ids
  <1>2. replying \subseteq Messages /\ Elems(stdin) \subseteq Messages
    BY DEF Typed, TypeOK, Elems
  <1> QED
    BY <1>1, <1>2 DEF Eof

LEMMA OnceInit == Init => Once
  <1> SUFFICES ASSUME Init PROVE Once
    OBVIOUS
  <1>1. replying = {} /\ Len(stdin) = 0 /\ closed = FALSE
    BY DEF Init
  <1>2. Elems(stdin) = {} /\ Elems(held) = {}
    BY ElemsShort DEF Init
  <1> QED
    BY <1>1, <1>2 DEF Once, Apart

LEMMA OnceStep == Typed /\ Typed' /\ Books /\ Once /\ [Next]_vars => Once'
  <1> SUFFICES ASSUME Typed, Typed', Books, Once, [Next]_vars PROVE Once'
    OBVIOUS
  <1>1. ASSUME NEW i \in Ids, NEW yes \in BOOLEAN, Decide(i, yes) PROVE Once'
    <2>1. /\ replying' = replying \cup {[id |-> i, decision |-> yes]}
          /\ pending' = pending \ {i} /\ i \in pending
          /\ UNCHANGED <<stdin, held, queue, closed, runner, stdout, fresh>>
      BY <1>1 DEF Decide, pipe
    <2>2. \A m \in Carried : m.id # i
      <3>1. \A m \in Carried : m # Eof => accepted[m.id] # "none"
        BY DEF Books
      <3> QED
        BY <2>1, <3>1 DEF Books, Eof, Ids
    <2>3. \A m, n \in replying' : m.id = n.id => m = n
      BY <2>1, <2>2 DEF Once, Carried
    <2>4. Apart(replying', Elems(stdin) \cup Elems(held) \cup Elems(queue))
      BY <2>1, <2>2 DEF Once, Apart, Carried
    <2> QED
      BY <2>1, <2>3, <2>4, Zenon DEF Once
  <1>2. CASE Get
    <2>1. Elems(queue') = {} /\ UNCHANGED <<replying, stdin, held, closed, stdout, fresh, pending>>
      BY <1>2, ElemsShort DEF Get
    <2>2. ~closed /\ ~closed'
      BY <1>2, <2>1 DEF Get, Once
    <2> QED
      BY <2>1, <2>2 DEF Once, Apart
  <1>3. CASE Read
    <2>1. UNCHANGED <<replying, queue, closed, runner, stdout, fresh, pending>> /\ Elems(held) = {}
      BY <1>3, ElemsShort DEF Read
    <2>2. CASE stdin # <<>> /\ held' = <<Head(stdin)>> /\ stdin' = Tail(stdin)
      <3>1. /\ Head(stdin) = stdin[1] /\ Elems(stdin) = {stdin[1]} \cup Elems(stdin')
            /\ Len(stdin') = Len(stdin) - 1 /\ Len(stdin) \in Nat /\ 1 \in DOMAIN stdin
            /\ \A k \in 1 .. Len(stdin) - 1 : stdin'[k] = stdin[k + 1]
            /\ DOMAIN stdin' = 1 .. Len(stdin) - 1 /\ DOMAIN stdin = 1 .. Len(stdin)
        BY <2>2, ElemsTail DEF Typed, TypeOK
      <3>2. Elems(held') = {stdin[1]}
        BY <2>2, <3>1, ElemsShort
      <3>3. \A j, k \in 1 .. Len(stdin') : stdin'[j].id = stdin'[k].id => j = k
        <4> SUFFICES ASSUME NEW j \in 1 .. Len(stdin'), NEW k \in 1 .. Len(stdin'),
                            stdin'[j].id = stdin'[k].id
                     PROVE  j = k
          OBVIOUS
        <4>1. stdin[j + 1].id = stdin[k + 1].id /\ j + 1 \in 1 .. Len(stdin) /\ k + 1 \in 1 .. Len(stdin)
          BY <3>1
        <4>2. j + 1 = k + 1
          BY <4>1 DEF Once
        <4> QED
          BY <3>1, <4>2
      <3>4. \A n \in Elems(stdin') : n.id # stdin[1].id
        <4> SUFFICES ASSUME NEW k \in 1 .. Len(stdin) - 1, stdin'[k].id = stdin[1].id
                     PROVE  FALSE
          BY <3>1 DEF Elems
        <4>1. stdin[k + 1].id = stdin[1].id /\ k + 1 \in 1 .. Len(stdin) /\ 1 \in 1 .. Len(stdin)
          BY <3>1
        <4>2. k + 1 = 1
          BY <4>1 DEF Once
        <4> QED
          BY <3>1, <4>2
      <3> QED
        BY <2>1, <3>1, <3>2, <3>3, <3>4 DEF Once, Apart
    <2>3. CASE stdin = <<>> /\ held' = <<Eof>> /\ UNCHANGED stdin
      <3>1. Elems(held') = {Eof}
        BY <2>3, ElemsShort
      <3> QED
        BY <2>1, <2>3, <3>1, Numbered DEF Once, Apart
    <2> QED
      BY <1>3, <2>2, <2>3 DEF Read
  <1>4. CASE Put
    <2>1. /\ UNCHANGED <<replying, stdin, closed, runner, stdout, fresh, pending>>
          /\ Elems(queue) = {} /\ Elems(held') = {} /\ Elems(queue') = Elems(held)
      BY <1>4, ElemsShort DEF Put
    <2> QED
      BY <2>1 DEF Once, Apart
  <1>5. CASE Reply
    <2>1. PICK m \in replying : /\ replying' = replying \ {m}
                                /\ stdin' = Append(stdin, m) \/ stdin' = stdin
      BY <1>5 DEF Reply
    <2>2. UNCHANGED <<held, queue, closed, runner, stdout, fresh, pending>>
      BY <1>5 DEF Reply
    <2>3. CASE stdin' = stdin
      BY <2>1, <2>2, <2>3 DEF Once, Apart
    <2>4. CASE stdin' = Append(stdin, m)
      <3>0. stdin \in Seq(Messages) /\ m.id # 0
        BY <2>1, Numbered DEF Typed, TypeOK
      <3>1. /\ Elems(stdin') = Elems(stdin) \cup {m} /\ Len(stdin') = Len(stdin) + 1
            /\ stdin'[Len(stdin) + 1] = m /\ Len(stdin) \in Nat
            /\ \A k \in 1 .. Len(stdin) : stdin'[k] = stdin[k] /\ stdin[k] \in Elems(stdin)
        BY <2>4, <3>0, ElemsAppend DEF Elems
      <3>2. \A k \in 1 .. Len(stdin) : stdin[k].id # m.id
        BY <2>1, <3>0, <3>1 DEF Once, Apart
      <3>3. \A j, k \in 1 .. Len(stdin') : stdin'[j].id = stdin'[k].id => j = k
        <4> SUFFICES ASSUME NEW j \in 1 .. Len(stdin) + 1, NEW k \in 1 .. Len(stdin) + 1,
                            stdin'[j].id = stdin'[k].id
                     PROVE  j = k
          BY <3>1
        <4>1. CASE j = Len(stdin) + 1 \/ k = Len(stdin) + 1
          BY <3>1, <3>2, <4>1
        <4>2. CASE j \in 1 .. Len(stdin) /\ k \in 1 .. Len(stdin)
          BY <3>1, <4>2 DEF Once
        <4> QED
          BY <3>1, <4>1, <4>2
      <3>4. \A n \in replying' : n.id # m.id
        BY <2>1 DEF Once
      <3>5. Apart(replying', Elems(stdin') \cup Elems(held) \cup Elems(queue))
        BY <2>1, <3>1, <3>4 DEF Once, Apart
      <3>6. Apart(Elems(stdin'), Elems(held) \cup Elems(queue))
        BY <3>1 DEF Once, Apart
      <3> QED
        BY <2>1, <2>2, <3>3, <3>5, <3>6 DEF Once
    <2> QED
      BY <2>1, <2>3, <2>4
  <1>6. CASE Close
    BY <1>6 DEF Close, Once, pipe
  <1>7. CASE Stop
    BY <1>7 DEF Stop, Once
  <1>8. CASE Exit
    BY <1>8 DEF Exit, Once, pipe
  <1>9. CASE Ask \/ TimeOut \/ Register \/ Publish
    <2>1. UNCHANGED <<replying, stdin, held, queue, closed>>
      BY <1>9 DEF Ask, TimeOut, Register, Publish, pipe
    <2>2. ~closed
      BY <1>9 DEF Ask, TimeOut, Register, Publish, Once
    <2> QED
      BY <2>1, <2>2 DEF Once
  <1>10. CASE UNCHANGED vars
    BY <1>10 DEF vars, pipe, Once
  <1> QED
    BY <1>1, <1>2, <1>3, <1>4, <1>5, <1>6, <1>7, <1>8, <1>9, <1>10 DEF Next, Server

\* A set whose elements are all equal has at most one.
LEMMA AtMostOne ==
  ASSUME NEW S, \A x, y \in S : x = y
  PROVE  \/ Cardinality(S) = 0 /\ S = {}
         \/ Cardinality(S) = 1 /\ S # {}
  <1>1. CASE S = {}
    <2>1. Cardinality({}) = 0
      BY FS_EmptySet
    <2> QED
      BY <1>1, <2>1, Zenon
  <1>2. CASE S # {}
    <2>1. PICK x \in S : TRUE
      BY <1>2
    <2>2. S = {x}
      BY <2>1
    <2>3. Cardinality({x}) = 1
      BY FS_Singleton
    <2> QED
      BY <1>2, <2>2, <2>3, Zenon
  <1> QED
    BY <1>1, <1>2

\* Where an element of a sequence and two short ones after it comes from.
LEMMA ThreeInLine ==
  ASSUME NEW M, NEW s \in Seq(M), NEW t \in Seq(M), NEW u \in Seq(M),
         Len(t) <= 1, Len(u) <= 1
  PROVE  \A n \in DOMAIN (s \o t \o u) :
           \/ n \in 1 .. Len(s) /\ (s \o t \o u)[n] = s[n]
           \/ n = Len(s) + 1 /\ Len(t) = 1 /\ (s \o t \o u)[n] = t[1]
           \/ n = Len(s) + Len(t) + 1 /\ Len(u) = 1 /\ (s \o t \o u)[n] = u[1]
  <1>1. Len(s) \in Nat /\ Len(t) \in 0 .. 1 /\ Len(u) \in 0 .. 1
    <2>1. /\ Len(s) \in Nat
          /\ Len(t) \in Nat
          /\ Len(u) \in Nat
      BY LenProperties, Zenon
    <2>2. \A x \in Nat : x <= 1 => x \in 0 .. 1
      OBVIOUS
    <2> QED
      BY <2>1, <2>2, Zenon
  <1>2. /\ s \o t \in Seq(M) /\ Len(s \o t) = Len(s) + Len(t)
        /\ \A i \in 1 .. Len(s) + Len(t) : (s \o t)[i] = IF i <= Len(s) THEN s[i] ELSE t[i - Len(s)]
    BY ConcatProperties
  <1> DEFINE half == s \o t
  <1>3. half \in Seq(M)
    BY <1>2
  <1> HIDE DEF half
  <1>4. /\ half \o u \in Seq(M) /\ Len(half \o u) = Len(half) + Len(u)
        /\ \A i \in 1 .. Len(half) + Len(u) :
             (half \o u)[i] = IF i <= Len(half) THEN half[i] ELSE u[i - Len(half)]
    BY <1>3, ConcatProperties
  <1>5. DOMAIN (half \o u) = 1 .. Len(half \o u)
    BY <1>4, LenProperties
  <1> SUFFICES ASSUME NEW n \in DOMAIN (s \o t \o u)
               PROVE  \/ n \in 1 .. Len(s) /\ (s \o t \o u)[n] = s[n]
                      \/ n = Len(s) + 1 /\ Len(t) = 1 /\ (s \o t \o u)[n] = t[1]
                      \/ n = Len(s) + Len(t) + 1 /\ Len(u) = 1 /\ (s \o t \o u)[n] = u[1]
    OBVIOUS
  <1>6. n \in 1 .. Len(s) + Len(t) + Len(u)
    BY <1>2, <1>4, <1>5 DEF half
  <1>7. (s \o t \o u)[n] = IF n <= Len(s) + Len(t) THEN (s \o t)[n] ELSE u[n - (Len(s) + Len(t))]
    BY <1>2, <1>4, <1>6 DEF half
  <1>8. CASE n <= Len(s)
    BY <1>1, <1>2, <1>6, <1>7, <1>8
  <1>9. CASE n > Len(s) /\ n <= Len(s) + Len(t)
    <2>1. n = Len(s) + 1 /\ Len(t) = 1 /\ n - Len(s) = 1 /\ ~(n <= Len(s)) /\ n \in 1 .. Len(s) + Len(t)
      BY <1>1, <1>6, <1>9
    <2>2. (s \o t)[n] = t[n - Len(s)]
      BY <1>2, <2>1
    <2> QED
      BY <1>7, <1>9, <2>1, <2>2
  <1>10. CASE n > Len(s) + Len(t)
    <2>1. /\ n = Len(s) + Len(t) + 1 /\ Len(u) = 1 /\ n - (Len(s) + Len(t)) = 1
          /\ ~(n <= Len(s) + Len(t))
      BY <1>1, <1>6, <1>10
    <2> QED
      BY <1>7, <2>1
  <1> QED
    BY <1>1, <1>6, <1>8, <1>9, <1>10

\* The pipe and the two buffers behind it, as one line: no number is in it twice.
LEMMA LineOnce ==
  ASSUME Typed, Once
  PROVE  LET line == stdin \o held \o queue
         IN /\ \A n \in DOMAIN line : line[n] \in Elems(stdin) \cup Elems(held) \cup Elems(queue)
            /\ \A j, k \in DOMAIN line : line[j].id = line[k].id => line[j].id = 0 \/ j = k
  <1> DEFINE line == stdin \o held \o queue
             M == Messages \cup {Eof}
  <1>1. stdin \in Seq(M) /\ held \in Seq(M) /\ queue \in Seq(M) /\ Len(held) <= 1 /\ Len(queue) <= 1
    <2>1. stdin \in Seq(Messages) /\ Messages \subseteq M
      BY DEF Typed, TypeOK
    <2>2. stdin \in Seq(M)
      BY <2>1, SeqMonotonic
    <2> QED
      BY <2>2 DEF Typed, TypeOK
  <1>2. ASSUME NEW n \in DOMAIN line
        PROVE  \/ n \in 1 .. Len(stdin) /\ line[n] = stdin[n]
               \/ n = Len(stdin) + 1 /\ Len(held) = 1 /\ line[n] = held[1]
               \/ n = Len(stdin) + Len(held) + 1 /\ Len(queue) = 1 /\ line[n] = queue[1]
    <2> HIDE DEF M
    <2> QED
      BY <1>1, ThreeInLine
  <1>3. /\ DOMAIN stdin = 1 .. Len(stdin) /\ DOMAIN held = 1 .. Len(held)
        /\ DOMAIN queue = 1 .. Len(queue)
    <2> HIDE DEF M
    <2> QED
      BY <1>1, LenProperties
  <1> HIDE DEF line, M
  <1>4. ASSUME NEW n \in DOMAIN line
        PROVE  \/ n \in 1 .. Len(stdin) /\ line[n] = stdin[n] /\ line[n] \in Elems(stdin)
               \/ n = Len(stdin) + 1 /\ line[n] \in Elems(held)
               \/ n = Len(stdin) + Len(held) + 1 /\ line[n] \in Elems(queue)
    BY <1>2, <1>3 DEF Elems
  <1>5. \A n \in DOMAIN line : line[n] \in Elems(stdin) \cup Elems(held) \cup Elems(queue)
    BY <1>4
  <1>6. ASSUME NEW j \in DOMAIN line, NEW k \in DOMAIN line, line[j].id = line[k].id, line[j].id # 0
        PROVE  j = k
    <2>1. CASE /\ j \in 1 .. Len(stdin) /\ line[j] = stdin[j] /\ line[j] \in Elems(stdin)
      <3>1. line[k] \notin Elems(held) \cup Elems(queue)
        BY <1>6, <2>1 DEF Once, Apart
      <3> QED
        BY <1>4, <1>6, <2>1, <3>1 DEF Once
    <2>2. CASE j = Len(stdin) + 1 /\ line[j] \in Elems(held)
      <3>1. line[k] \notin Elems(stdin) \cup Elems(queue)
        BY <1>6, <2>2 DEF Once, Apart
      <3> QED
        BY <1>4, <2>2, <3>1
    <2>3. CASE j = Len(stdin) + Len(held) + 1 /\ line[j] \in Elems(queue)
      <3>1. line[k] \notin Elems(stdin) \cup Elems(held)
        BY <1>6, <2>3 DEF Once, Apart
      <3> QED
        BY <1>4, <2>3, <3>1
    <2> QED
      BY <1>4, <2>1, <2>2, <2>3
  <1> QED
    BY <1>5, <1>6 DEF line

LEMMA OnceOneShot == ASSUME Typed, Books, Once PROVE OneShot
  <1> SUFFICES ASSUME NEW i \in Ids PROVE Copies(i) <= 1
    BY DEF OneShot
  <1> DEFINE line == stdin \o held \o queue
             R == {m \in replying : m.id = i}
             P == {i} \cap pending
             L == {n \in DOMAIN line : line[n].id = i}
  <1>1. i # 0
    BY DEF Ids
  <1>2. \/ Cardinality(R) = 0 /\ R = {}
        \/ Cardinality(R) = 1 /\ R # {}
    <2>1. \A x, y \in R : x = y
      BY DEF Once
    <2> QED
      BY <2>1, AtMostOne
  <1>3. \/ Cardinality(P) = 0 /\ P = {}
        \/ Cardinality(P) = 1 /\ P # {}
    <2>1. \A x, y \in P : x = y
      OBVIOUS
    <2> QED
      BY <2>1, AtMostOne
  <1>4. \/ Cardinality(L) = 0 /\ L = {}
        \/ Cardinality(L) = 1 /\ L # {}
    <2>1. \A x, y \in L : x = y
      BY <1>1, LineOnce
    <2> QED
      BY <2>1, AtMostOne
  <1>5. \A n \in DOMAIN line : line[n] \in Elems(stdin) \cup Elems(held) \cup Elems(queue)
    BY LineOnce
  <1>6. R = {} \/ L = {}
    BY <1>1, <1>5 DEF Once, Apart
  <1>7. P # {} => R = {} /\ L = {}
    <2>1. \A m \in Carried : m.id = i => accepted[i] # "none"
      BY <1>1 DEF Books, Eof
    <2>2. i \in pending => accepted[i] = "none"
      BY DEF Books
    <2> QED
      BY <1>5, <2>1, <2>2 DEF Carried
  <1>8. Copies(i) = Cardinality(R) + Cardinality(P) + Cardinality(L)
    BY DEF Copies
  <1> HIDE DEF R, P, L, line
  <1> QED
    BY <1>2, <1>3, <1>4, <1>6, <1>7, <1>8

\* A confirmation is decided once, in whatever order the handlers, the pump,
\* the reader and the stop take their steps, and never after its run.
THEOREM ConsentOnce == Spec => []DecidedOnce
  <1>1. Typed /\ Books /\ Once => DecidedOnce
    BY OnceOneShot DEF Once, DecidedOnce, NothingAfterClose
  <1> QED
    BY <1>1, TypedInit, TypedStep, BooksInit, BooksStep, OnceInit, OnceStep, PTL DEF Spec

-----------------------------------------------------------------------------
(* The order                                                                *)

\* No deadline was missed by a call up to number n, and the run was not stopped.
InTime(n) == ~stopped /\ \A j \in 1 .. n : j \notin timedOut

\* While no deadline is missed everything on its way belongs to the last call,
\* and nothing is left when the runner works on; and what such a call answered
\* is what the operator said.
Order ==
  /\ open \/ stopped
  /\ Eof \in Carried => stopped
  /\ InTime(asked) =>
       /\ Len(stdout) <= 1
       /\ \A m \in Carried : m.id = asked
       /\ \A i \in pending : i = asked
       /\ runner = "working" => Carried = {} /\ pending = {} /\ Len(stdout) = 0
  /\ \A i \in Ids : verdict[i] = "denied" /\ InTime(i) => accepted[i] = "no"

LEMMA OrderInit == Init => Order
  <1> SUFFICES ASSUME Init PROVE Order
    OBVIOUS
  <1>1. Carried = {}
    BY ElemsShort DEF Init, Carried
  <1>2. pending = {} /\ Len(stdout) = 0 /\ open = TRUE
    BY DEF Init
  <1>3. \A i \in Ids : verdict[i] = "none"
    BY DEF Init
  <1> QED
    BY <1>1, <1>2, <1>3 DEF Order

\* The reader makes an end of file only of a pipe that was closed.
LEMMA NoEarlyEof ==
  ASSUME Typed, Order, \/ Ask \/ Get \/ TimeOut \/ Read \/ Put \/ Exit \/ Server \/ Stop
                       \/ UNCHANGED vars
  PROVE  /\ open' \/ stopped'
         /\ Eof \in Carried' => stopped'
         /\ ~stopped' => Carried' \subseteq Carried
  <1>1. Carried' \subseteq Carried \cup {Eof}
    BY CarriedMoves
  <1>2. CASE Read
    <2>1. UNCHANGED <<open, stopped>>
      BY <1>2 DEF Read
    <2>2. CASE stopped
      BY <2>1, <2>2
    <2>3. CASE ~stopped
      <3>1. stdin # <<>> /\ held' = <<Head(stdin)>> /\ stdin' = Tail(stdin)
        BY <1>2, <2>3 DEF Read, Order
      <3>2. Elems(stdin) = {Head(stdin)} \cup Elems(Tail(stdin))
        BY <3>1, ElemsTail DEF Typed, TypeOK
      <3>3. Elems(held') = {Head(stdin)} /\ Elems(stdin') = Elems(Tail(stdin))
        BY <3>1, ElemsShort
      <3>4. Carried' \subseteq Carried
        BY <1>2, <3>2, <3>3 DEF Read, Carried
      <3> QED
        BY <2>1, <2>3, <3>4 DEF Order
    <2> QED
      BY <2>2, <2>3
  <1>3. CASE Stop
    BY <1>3 DEF Stop
  <1>4. CASE Get
    <2>1. Elems(queue') = {}
      BY <1>4, ElemsShort DEF Get
    <2>2. Carried' \subseteq Carried /\ UNCHANGED <<open, stopped>>
      BY <1>4, <2>1 DEF Get, Carried
    <2> QED
      BY <2>2 DEF Order
  <1>5. CASE Put
    <2>1. Elems(held') = {}
      BY <1>5, ElemsShort DEF Put
    <2>2. Carried' \subseteq Carried /\ UNCHANGED <<open, stopped>>
      BY <1>5, <2>1 DEF Put, Carried
    <2> QED
      BY <2>2 DEF Order
  <1>6. CASE Reply
    <2>1. PICK m \in replying : /\ replying' = replying \ {m}
                                /\ stdin' = Append(stdin, m) \/ stdin' = stdin
      BY <1>6 DEF Reply
    <2>2. Elems(stdin') \subseteq Elems(stdin) \cup {m}
      BY <2>1, ElemsAppend DEF Typed, TypeOK
    <2>3. Carried' \subseteq Carried /\ UNCHANGED <<open, stopped>>
      BY <1>6, <2>1, <2>2 DEF Reply, Carried
    <2> QED
      BY <2>3 DEF Order
  <1>7. CASE Ask \/ TimeOut \/ Exit \/ Register \/ Publish \/ Close \/ UNCHANGED vars
    BY <1>7 DEF Ask, TimeOut, Exit, Register, Publish, Close, vars, pipe, Carried, Order
  <1> QED
    BY <1>2, <1>3, <1>4, <1>5, <1>6, <1>7 DEF Server

LEMMA OrderStep == Typed /\ Typed' /\ Books /\ Once /\ Order /\ [Next]_vars => Order'
  <1> SUFFICES ASSUME Typed, Typed', Books, Once, Order, [Next]_vars PROVE Order'
    OBVIOUS
  <1>1. CASE Ask
    <2>1. /\ runner = "working" /\ asked' = asked + 1 /\ stdout' = Append(stdout, asked')
          /\ UNCHANGED <<accepted, verdict, pending, timedOut, stopped>> /\ runner' = "waiting"
          /\ stdout \in Seq(Ids) /\ asked \in Nat /\ Carried' = Carried
      BY <1>1 DEF Ask, pipe, Carried, Typed, TypeOK
    <2>2. Len(stdout') = Len(stdout) + 1 /\ Len(stdout) \in Nat
      BY <2>1
    <2>3. InTime(asked)' => InTime(asked)
      BY <2>1 DEF InTime
    <2>4. \A i \in Ids : InTime(i)' <=> InTime(i)
      BY <2>1 DEF InTime
    <2> QED
      BY <1>1, <2>1, <2>2, <2>3, <2>4, NoEarlyEof DEF Order
  <1>2. CASE Get
    <2>1. /\ runner = "waiting" /\ asked \in Ids /\ Head(queue) \in Elems(queue)
          /\ Head(queue) \in Messages \cup {Eof}
          /\ Len(stdout) \in Nat /\ asked \in Nat
          /\ verdict \in [Ids -> {"none", "allowed", "denied"}]
      BY <1>2, ElemsTail DEF Get, Typed, TypeOK, Ids
    <2>2. /\ verdict' = [verdict EXCEPT ![asked] = IF Approves(Head(queue)) THEN "allowed" ELSE "denied"]
          /\ UNCHANGED <<asked, accepted, pending, stdout, timedOut, stopped, replying, stdin, held>>
          /\ Elems(queue') = {}
      BY <1>2, ElemsShort DEF Get
    <2>3. \A i \in Ids \cup {asked} : InTime(i)' <=> InTime(i)
      BY <2>2 DEF InTime
    <2>4. ASSUME InTime(asked)
          PROVE  /\ Head(queue).id = asked /\ Head(queue) # Eof
                 /\ accepted[asked] = IF Head(queue).decision THEN "yes" ELSE "no"
      <3>1. Head(queue) \in Carried
        BY <2>1 DEF Carried
      <3>2. Head(queue).id = asked
        BY <2>4, <3>1 DEF Order
      <3>3. Head(queue) # Eof
        BY <2>1, <3>2 DEF Eof, Ids
      <3> QED
        BY <3>1, <3>2, <3>3 DEF Books
    <2>5. ASSUME InTime(asked) PROVE Carried' = {} /\ pending' = {} /\ Len(stdout') = 0
      <3>1. asked # 0 /\ \A m \in Carried : m.id = asked
        BY <2>1, <2>5 DEF Order, Ids
      <3>2. replying = {} /\ Elems(stdin) = {} /\ Elems(held) = {}
        BY <2>1, <3>1 DEF Once, Apart, Carried
      <3>3. Carried' = {}
        BY <2>2, <3>2 DEF Carried
      <3>4. accepted[asked] # "none"
        BY <2>4, <2>5
      <3>5. pending = {}
        BY <2>5, <3>4 DEF Order, Books
      <3>6. asked <= Sent
        BY <2>1, <3>4 DEF Books
      <3> QED
        BY <2>1, <2>2, <3>3, <3>5, <3>6 DEF Sent
    <2>6. ASSUME NEW i \in Ids, verdict'[i] = "denied", InTime(i)' PROVE accepted'[i] = "no"
      <3>1. CASE i = asked
        <4>1. InTime(asked)
          BY <2>3, <2>6, <3>1
        <4>2. ~Head(queue).decision
          BY <2>1, <2>2, <2>4, <2>6, <3>1, <4>1 DEF Approves
        <4> QED
          BY <2>2, <2>4, <3>1, <4>1, <4>2
      <3>2. CASE i # asked
        <4>1. verdict'[i] = verdict[i]
          BY <2>1, <2>2, <3>2
        <4> QED
          BY <2>2, <2>3, <2>6, <4>1 DEF Order
      <3> QED
        BY <3>1, <3>2
    <2>7. InTime(asked)' => Len(stdout') <= 1 /\ Carried' = {} /\ pending' = {} /\ Len(stdout') = 0
      <3>1. InTime(asked)' <=> InTime(asked)
        BY <2>2 DEF InTime
      <3> QED
        BY <2>5, <3>1
    <2> QED
      BY <1>2, <2>6, <2>7, NoEarlyEof DEF Order
  <1>3. CASE TimeOut
    <2>1. /\ asked \in Ids /\ timedOut' = timedOut \cup {asked}
          /\ verdict' = [verdict EXCEPT ![asked] = "denied"]
          /\ verdict \in [Ids -> {"none", "allowed", "denied"}]
          /\ UNCHANGED <<asked, accepted, stopped>>
      BY <1>3 DEF TimeOut, Typed, TypeOK
    <2>2. asked \in 1 .. asked
      BY <2>1, AsksAssumption DEF Ids
    <2>3. ~InTime(asked)'
      BY <2>1, <2>2 DEF InTime
    <2>4. ASSUME NEW i \in Ids, verdict'[i] = "denied", InTime(i)' PROVE accepted'[i] = "no"
      <3>1. i # asked
        BY <2>1, <2>3, <2>4
      <3>2. InTime(i)
        BY <2>1, <2>4 DEF InTime
      <3> QED
        BY <2>1, <2>4, <3>1, <3>2 DEF Order
    <2> QED
      BY <1>3, <2>3, <2>4, NoEarlyEof DEF Order
  <1>4. CASE Register
    <2>1. /\ Len(stdout') = Len(stdout) - 1 /\ Len(stdout) \in Nat /\ Len(stdout) > 0
          /\ Head(stdout) = stdout[1] /\ asked \in Nat
          /\ pending' = pending \cup {Head(stdout)}
          /\ UNCHANGED <<runner, asked, accepted, verdict, timedOut, stopped>>
      BY <1>4, ElemsTail DEF Register, Typed, TypeOK
    <2>2. \A i \in Ids \cup {asked} : InTime(i)' <=> InTime(i)
      BY <2>1 DEF InTime
    <2>3. stdout[1] = Sent + 1
      BY <2>1 DEF Books
    <2>4. ASSUME InTime(asked) PROVE Len(stdout) = 1 /\ Head(stdout) = asked /\ runner # "working"
      <3>1. Len(stdout) = 1 /\ runner # "working"
        BY <2>1, <2>4 DEF Order
      <3> QED
        BY <2>1, <2>3, <3>1 DEF Sent
    <2>5. Carried' \subseteq Carried
      BY <1>4 DEF Register, Carried, pipe
    <2>6. InTime(asked)' => InTime(asked)
      BY <2>1 DEF InTime
    <2> QED
      BY <1>4, <2>1, <2>2, <2>4, <2>5, <2>6, NoEarlyEof DEF Order, Server
  <1>5. CASE Stop
    <2>1. stopped' = TRUE /\ UNCHANGED <<accepted, verdict>>
      BY <1>5 DEF Stop
    <2>2. \A n : ~InTime(n)'
      BY <2>1 DEF InTime
    <2> QED
      BY <1>5, <2>1, <2>2, NoEarlyEof DEF Order
  <1>6. CASE Read \/ Put \/ Exit \/ Publish \/ Reply \/ Close \/ UNCHANGED vars
    <2>1. /\ UNCHANGED <<asked, accepted, verdict, timedOut, stopped, stdout>>
          /\ runner' = "working" => runner = "working"
          /\ pending' \subseteq pending
      BY <1>6 DEF Read, Put, Exit, Publish, Reply, Close, vars
    <2>2. \A n : InTime(n)' <=> InTime(n)
      BY <2>1 DEF InTime
    <2>3. InTime(asked)' => InTime(asked) /\ Carried' \subseteq Carried
      BY <1>6, <2>1, NoEarlyEof DEF InTime, Server
    <2> QED
      BY <1>6, <2>1, <2>2, <2>3, NoEarlyEof DEF Order, Server
  <1>7. ASSUME NEW i \in Ids, NEW yes \in BOOLEAN, Decide(i, yes) PROVE Order'
    <2>1. /\ i \in pending /\ pending' = pending \ {i}
          /\ accepted' = [accepted EXCEPT ![i] = IF yes THEN "yes" ELSE "no"]
          /\ accepted \in [Ids -> {"none", "yes", "no"}]
          /\ UNCHANGED <<runner, asked, stdout, verdict, timedOut, stopped, open>>
      BY <1>7 DEF Decide, Typed, TypeOK, pipe
    <2>2. Carried' = Carried \cup {[id |-> i, decision |-> yes]}
      BY <1>7, CarriedDecide
    <2>3. [id |-> i, decision |-> yes] # Eof
      BY DEF Eof, Ids
    <2>4. \A n : InTime(n)' <=> InTime(n)
      BY <2>1 DEF InTime
    <2>5. InTime(asked)' => InTime(asked)
      BY <2>1 DEF InTime
    <2>6. InTime(asked) => i = asked /\ runner # "working"
      BY <2>1 DEF Order
    <2>7. ASSUME NEW j \in Ids, verdict'[j] = "denied", InTime(j)' PROVE accepted'[j] = "no"
      <3>1. accepted[j] = "no"
        BY <2>1, <2>4, <2>7 DEF Order
      <3>2. accepted[i] = "none"
        BY <2>1 DEF Books
      <3> QED
        BY <2>1, <3>1, <3>2
    <2> QED
      BY <2>1, <2>2, <2>3, <2>5, <2>6, <2>7 DEF Order
  <1> QED
    BY <1>1, <1>2, <1>3, <1>4, <1>5, <1>6, <1>7 DEF Next, Server

\* The operator's yes is lost only to a deadline, of this call or of one before
\* it, or to the end of the run.
THEOREM ConsentObeyed == Spec => []YesObeyed
  <1>1. Typed /\ Order => YesObeyed
    <2> SUFFICES ASSUME Typed, Order, NEW i \in Ids, accepted[i] = "yes", verdict[i] = "denied",
                        ~stopped, ~\E j \in 1 .. i : j \in timedOut
                 PROVE  FALSE
      BY DEF YesObeyed
    <2>1. InTime(i)
      BY DEF InTime
    <2> QED
      BY <2>1 DEF Order
  <1> QED
    BY <1>1, TypedInit, TypedStep, BooksInit, BooksStep, OnceInit, OnceStep, OrderInit, OrderStep,
       PTL DEF Spec

-----------------------------------------------------------------------------
(* The journal and its streams                                              *)

\* What the journal needs to know of its bounds.
LEMMA JournalConstants ==
  /\ MaxEvents \in Nat \ {0} /\ QueueSize \in Nat \ {0} /\ MaxSubscribers \in Nat \ {0}
  /\ Closing \in Nat /\ None \notin Streams
  BY LabAssumption

\* The journal's own name for the size of a set.
LEMMA SameSize == \A S : Log!Cardinality(S) = Cardinality(S)
  BY Zenon DEF Log!Cardinality, Cardinality

\* Events without a gap, and with the notice that there is one.
Consecutive(d) == \A i \in DOMAIN d : d[i] = Log!Event(d[1].id + i - 1)
Warned(d)      == \E i \in DOMAIN d : d[i].t = "overflow"

\* What a subscriber is due begins where the replay begins, or at the first event, and
\* goes on without a gap to the newest event that has been offered to it.
Chain(s) ==
  LET d == Log!Due(s) IN
  /\ Consecutive(d)
  /\ d = <<>> => next = IF s \in todo THEN 1 ELSE 0
  /\ d # <<>> => /\ d[1].id > 0 => d[1].id + MaxEvents <= next
                 /\ d[Len(d)].id = IF s \in todo THEN next - 2 ELSE next - 1

\* A subscriber has its chain; one that was dropped misses nothing so far, or has its
\* notice, or gets it next.
Served(s) ==
  /\ s \in subscribers => jAt[s] = "live" /\ Chain(s)
  /\ s \notin subscribers /\ jAt[s] = "live" =>
       /\ Warned(Log!Due(s)) \/ Consecutive(Log!Due(s)) \/ (s = target /\ add = "notice")
       /\ s \in todo => s = target /\ add \in {"room", "notice"}

\* Where add() is, and that there is room for the notice when it comes.
Pumping ==
  /\ add = "idle" => todo = {}
  /\ add # "idle" => next > 0
  /\ add \in {"drop", "room", "notice"} => target \in todo
  /\ add \in {"room", "notice"} => target \notin subscribers
  /\ add = "notice" => Len(jQueue[target]) < QueueSize
  /\ add # "raised" /\ IsFiniteSet(subscribers)
  /\ \A s \in Streams : Len(jQueue[s]) <= QueueSize /\ after[s] = -1

JInv == Log!TypeOK /\ Pumping /\ \A s \in Streams : Served(s)

-----------------------------------------------------------------------------
\* Events are what is pushed and queued.
LEMMA EventsAreItems ==
  \A n \in 0 .. Closing : Log!Event(n) \in Log!Items /\ Log!Event(n).id = n
  BY DEF Log!Event, Log!Items

LEMMA ItemsHave == ASSUME NEW e \in Log!Items PROVE e.id \in Nat /\ e.id <= Closing + 1
  BY JournalConstants DEF Log!Event, Log!Items

\* What goes from the front of one queue to the end of another stays in its place.
LEMMA Moved ==
  ASSUME NEW S, NEW g \in Seq(S), NEW b \in Seq(S), b # <<>>
  PROVE  Append(g, Head(b)) \o Tail(b) = g \o b
  BY SMT

LEMMA AppendedLast ==
  ASSUME NEW S, NEW g \in Seq(S), NEW b \in Seq(S), NEW e \in S
  PROVE  g \o Append(b, e) = Append(g \o b, e)
  BY SMT

\* Due is a sequence of them, and a step of a reader only moves what is due.
LEMMA DueType == ASSUME Log!TypeOK, NEW s \in Streams PROVE Log!Due(s) \in Seq(Log!Items)
  <1>1. got[s] \in Seq(Log!Items) /\ backlog[s] \in Seq(Log!Items) /\ jQueue[s] \in Seq(Log!Items)
    BY DEF Log!TypeOK
  <1> QED BY <1>1, ConcatProperties DEF Log!Due

LEMMA DueReplayed ==
  ASSUME Log!TypeOK, NEW s \in Streams, Log!Replay(s)
  PROVE  Log!Due(s)' = Log!Due(s)
  <1>1. /\ got[s] \in Seq(Log!Items) /\ backlog[s] \in Seq(Log!Items)
        /\ jQueue[s] \in Seq(Log!Items) /\ backlog[s] # <<>>
        /\ got'[s] = Append(got[s], Head(backlog[s])) /\ backlog'[s] = Tail(backlog[s])
        /\ jQueue'[s] = jQueue[s]
    BY DEF Log!TypeOK, Log!Replay, Log!Pushed
  <1>2. got'[s] \o backlog'[s] = got[s] \o backlog[s] BY <1>1, Moved
  <1> QED BY <1>1, <1>2 DEF Log!Due

LEMMA DueDelivered ==
  ASSUME Log!TypeOK, NEW s \in Streams, Log!Deliver(s)
  PROVE  Log!Due(s)' = Log!Due(s)
  <1>1. /\ got[s] \in Seq(Log!Items) /\ backlog[s] = <<>> /\ jQueue[s] \in Seq(Log!Items)
        /\ jQueue[s] # <<>>
        /\ got'[s] = Append(got[s], Head(jQueue[s])) /\ jQueue'[s] = Tail(jQueue[s])
        /\ backlog'[s] = <<>>
    BY DEF Log!TypeOK, Log!Deliver, Log!Pushed, Log!Left
  <1>2. got'[s] \o jQueue'[s] = got[s] \o jQueue[s] BY <1>1, Moved
  <1>3. got'[s] \in Seq(Log!Items) BY <1>1, HeadTailProperties, AppendProperties
  <1> QED BY <1>1, <1>2, <1>3, ConcatEmptySeq DEF Log!Due

LEMMA DueAppended ==
  ASSUME Log!TypeOK, NEW s \in Streams, NEW e \in Log!Items,
         got'[s] = got[s], backlog'[s] = backlog[s],
         jQueue'[s] = Append(jQueue[s], e)
  PROVE  Log!Due(s)' = Append(Log!Due(s), e)
  <1>1. got[s] \o backlog[s] \in Seq(Log!Items) /\ jQueue[s] \in Seq(Log!Items)
    BY ConcatProperties DEF Log!TypeOK
  <1>2. \A g, b \in Seq(Log!Items) : g \o Append(b, e) = Append(g \o b, e)
    BY AppendedLast
  <1>3. ASSUME NEW g \in Seq(Log!Items), NEW b \in Seq(Log!Items),
               g = got[s] \o backlog[s], b = jQueue[s]
        PROVE  Log!Due(s)' = Append(Log!Due(s), e)
    <2>1. Log!Due(s)' = g \o Append(b, e) BY <1>3 DEF Log!Due
    <2>2. Log!Due(s) = g \o b BY <1>3 DEF Log!Due
    <2> QED BY <1>2, <2>1, <2>2
  <1> QED BY <1>1, <1>3

LEMMA DueKept ==
  ASSUME NEW s, got'[s] = got[s], backlog'[s] = backlog[s], jQueue'[s] = jQueue[s]
  PROVE  Log!Due(s)' = Log!Due(s)
  BY DEF Log!Due

\* A stream that a step leaves alone.
LEMMA LeftAlone ==
  ASSUME NEW s \in Streams, Served(s), Log!Due(s)' = Log!Due(s), jAt'[s] = jAt[s], next' = next,
         s \in subscribers' <=> s \in subscribers, s \in todo' <=> s \in todo,
         s = target /\ add = "notice" => target' = target /\ add' = add,
         s = target /\ add = "room" => target' = target /\ add' \in {"room", "notice"}
  PROVE  Served(s)'
  BY DEF Served, Chain, Consecutive, Warned

\* One more event at the end of a chain.
LEMMA Extended ==
  ASSUME Log!TypeOK, NEW s \in Streams, Chain(s), s \in todo, s \notin todo',
         next > 0, next' = next,
         Log!Due(s)' = Append(Log!Due(s), Log!Event(next - 1))
  PROVE  Chain(s)'
  <1> DEFINE d == Log!Due(s)
             e == Log!Event(next - 1)
             f == Append(d, e)
  <1>0. next - 1 \in 0 .. Closing /\ next \in Nat BY JournalConstants DEF Log!TypeOK
  <1>1. /\ d \in Seq(Log!Items) /\ e \in Log!Items /\ e.id = next - 1 /\ Len(d) \in Nat
        /\ DOMAIN d = 1 .. Len(d)
    BY <1>0, DueType, EventsAreItems, LenProperties
  <1>2. /\ f # <<>> /\ Len(f) = Len(d) + 1 /\ \A i \in 1 .. Len(d) : f[i] = d[i]
        /\ f[Len(d) + 1] = e /\ DOMAIN f = 1 .. Len(d) + 1
    BY <1>1, AppendProperties, LenProperties
  <1>3. CASE d = <<>>
    <2>1. Len(d) = 0 /\ next = 1 BY <1>3 DEF Chain
    <2>2. f[1] = e /\ DOMAIN f = {1} /\ Len(f) = 1 BY <1>2, <2>1
    <2>3. Consecutive(f) BY <1>1, <2>1, <2>2 DEF Consecutive
    <2> HIDE DEF d, f, e
    <2>4. Log!Due(s)' = f BY DEF d, f, e
    <2>5. f[1].id = next - 1 /\ f[Len(f)].id = next - 1 /\ ~(next - 1 > 0) /\ f # <<>>
      BY <1>0, <1>1, <1>2, <2>1, <2>2
    <2> QED BY <2>3, <2>4, <2>5 DEF Chain, Consecutive
  <1>4. CASE d # <<>>
    <2>1. Len(d) > 0 /\ f[1] = d[1] BY <1>1, <1>2, <1>4, EmptySeq
    <2>2. d[Len(d)] = Log!Event(d[1].id + Len(d) - 1) /\ d[Len(d)].id = next - 2
      BY <1>1, <1>4, <2>1 DEF Chain, Consecutive
    <2>3. d[1].id \in Nat /\ d[1] \in Log!Items BY <1>1, <2>1, ElementOfSeq, ItemsHave
    <2>4. d[1].id + Len(d) - 1 = next - 2 BY <2>2 DEF Log!Event
    <2>5. d[1].id + (Len(d) + 1) - 1 = next - 1
      <3> DEFINE x == d[1].id
                 y == Len(d)
      <3>1. x \in Nat /\ y \in Nat /\ x + y - 1 = next - 2 /\ next \in Nat
        BY <1>0, <1>1, <2>3, <2>4
      <3> HIDE DEF x, y
      <3>2. x + (y + 1) - 1 = next - 1 BY <3>1
      <3> QED BY <3>2 DEF x, y
    <2>6. Consecutive(f)
      <3> SUFFICES ASSUME NEW i \in 1 .. Len(d) + 1 PROVE f[i] = Log!Event(f[1].id + i - 1)
        BY <1>2 DEF Consecutive
      <3>1. CASE i <= Len(d)
        BY <1>1, <1>2, <2>1, <3>1 DEF Chain, Consecutive
      <3>2. CASE i = Len(d) + 1
        BY <1>2, <2>1, <2>5, <3>2
      <3> QED BY <1>1, <3>1, <3>2
    <2>7. d[1].id > 0 => d[1].id + MaxEvents <= next BY <1>4 DEF Chain
    <2> HIDE DEF d, f, e
    <2>8. Log!Due(s)' = f BY DEF d, f, e
    <2> QED BY <1>1, <1>2, <2>1, <2>6, <2>7, <2>8 DEF Chain, Consecutive
  <1> QED BY <1>3, <1>4

-----------------------------------------------------------------------------
\* The invariant is inductive: one lemma for each step of add() and of a stream.
LEMMA NumberKeeps == ASSUME JInv, Log!Number PROVE JInv'
  <1> USE DEF JInv
  <1>1. /\ add = "idle" /\ next <= Closing
        /\ next' = next + 1 /\ todo' = subscribers /\ add' = "offer"
        /\ UNCHANGED <<subscribers, jQueue, target, jAt, after, backlog, got, seen, lastId>>
        /\ todo = {} /\ next \in Nat
    BY DEF Log!Number, Pumping, Log!stream, Log!TypeOK
  <1>2. Log!TypeOK' BY <1>1, JournalConstants DEF Log!TypeOK
  <1>3. Pumping' BY <1>1 DEF Pumping
  <1>4. ASSUME NEW s \in Streams PROVE Served(s)'
    <2>1. Log!Due(s)' = Log!Due(s) BY <1>1, DueKept
    <2>2. Served(s) /\ Log!Due(s) \in Seq(Log!Items) BY DueType
    <2>3. CASE s \in subscribers
      <3>1. jAt[s] = "live" /\ Chain(s) BY <2>2, <2>3 DEF Served
      <3>2. Chain(s)'
        <4>1. CASE Log!Due(s) = <<>>
          BY <1>1, <2>1, <2>3, <3>1, <4>1 DEF Chain, Consecutive
        <4>2. CASE Log!Due(s) # <<>>
          <5>1. Log!Due(s)[1].id \in Nat /\ Log!Due(s)[Len(Log!Due(s))].id = next - 1
            <6>1. 1 \in 1 .. Len(Log!Due(s)) BY <2>2, <4>2, EmptySeq
            <6> QED BY <1>1, <2>2, <3>1, <4>2, <6>1, ElementOfSeq, ItemsHave DEF Chain
          <5>2. Log!Due(s)[1].id > 0 => Log!Due(s)[1].id + MaxEvents <= next + 1
            BY <1>1, <3>1, <4>2, <5>1, JournalConstants DEF Chain
          <5>3. Consecutive(Log!Due(s)) BY <3>1 DEF Chain
          <5> QED BY <1>1, <2>1, <2>3, <4>2, <5>1, <5>2, <5>3 DEF Chain, Consecutive
        <4> QED BY <4>1, <4>2
      <3> QED BY <1>1, <2>3, <3>1, <3>2 DEF Served
    <2>4. CASE s \notin subscribers
      BY <1>1, <2>1, <2>2, <2>4 DEF Served, Warned, Consecutive
    <2> QED BY <2>3, <2>4
  <1> QED BY <1>2, <1>3, <1>4

LEMMA OfferKeeps == ASSUME JInv, NEW u \in Streams, Log!Offer(u) PROVE JInv'
  <1> USE DEF JInv
  <1>1. /\ add = "offer" /\ u \in todo /\ next > 0 /\ next \in Nat /\ next - 1 \in 0 .. Closing
        /\ UNCHANGED <<next, subscribers, jAt, after, backlog, got, seen, lastId>>
    BY JournalConstants DEF Log!Offer, Pumping, Log!stream, Log!journal, Log!TypeOK
  <1>2. CASE Len(jQueue[u]) < QueueSize
    <2>1. /\ jQueue' = [jQueue EXCEPT ![u] = Append(@, Log!Event(next - 1))] /\ todo' = todo \ {u}
          /\ UNCHANGED <<add, target>>
      BY <1>2 DEF Log!Offer
    <2>2. /\ Log!Event(next - 1) \in Log!Items /\ jQueue \in [Streams -> Seq(Log!Items)]
          /\ Append(jQueue[u], Log!Event(next - 1)) \in Seq(Log!Items)
          /\ Len(Append(jQueue[u], Log!Event(next - 1))) = Len(jQueue[u]) + 1
          /\ Len(jQueue[u]) \in Nat
      BY <1>1, EventsAreItems, AppendProperties DEF Log!TypeOK
    <2>3. Log!TypeOK' BY <1>1, <2>1, <2>2 DEF Log!TypeOK
    <2>4. Pumping' BY <1>1, <1>2, <2>1, <2>2, JournalConstants DEF Pumping, Log!TypeOK
    <2>5. ASSUME NEW s \in Streams PROVE Served(s)'
      <3>1. CASE s # u
        <4>1. jQueue'[s] = jQueue[s] BY <2>1, <2>2, <3>1
        <4>2. Log!Due(s)' = Log!Due(s) BY <1>1, <4>1, DueKept
        <4> QED BY <1>1, <2>1, <3>1, <4>2, LeftAlone
      <3>2. CASE s = u
        <4>1. jQueue'[s] = Append(jQueue[s], Log!Event(next - 1)) BY <2>1, <2>2, <3>2
        <4>2. Log!Due(s)' = Append(Log!Due(s), Log!Event(next - 1))
          BY <1>1, <2>2, <4>1, DueAppended
        <4>3. CASE s \in subscribers
          <5>1. jAt[s] = "live" /\ Chain(s) BY <4>3 DEF Served
          <5>2. s \notin todo' BY <2>1, <3>2
          <5>3. Chain(s)' BY <1>1, <3>2, <4>2, <5>1, <5>2, Extended
          <5> QED BY <1>1, <4>3, <5>1, <5>3 DEF Served
        <4>4. CASE s \notin subscribers
          <5>1. jAt[s] # "live" BY <1>1, <3>2, <4>4 DEF Served
          <5> QED BY <1>1, <4>4, <5>1 DEF Served
        <4> QED BY <4>3, <4>4
      <3> QED BY <3>1, <3>2
    <2> QED BY <2>3, <2>4, <2>5
  <1>3. CASE ~(Len(jQueue[u]) < QueueSize)
    <2>1. target' = u /\ add' = "drop" /\ UNCHANGED <<jQueue, todo>> BY <1>3 DEF Log!Offer
    <2>2. Log!TypeOK' BY <1>1, <2>1 DEF Log!TypeOK
    <2>3. Pumping' BY <1>1, <2>1 DEF Pumping
    <2>4. ASSUME NEW s \in Streams PROVE Served(s)'
      <3>1. Log!Due(s)' = Log!Due(s) BY <1>1, <2>1, DueKept
      <3> QED BY <1>1, <2>1, <3>1, LeftAlone
    <2> QED BY <2>2, <2>3, <2>4
  <1> QED BY <1>2, <1>3

LEMMA DropKeeps == ASSUME JInv, Log!Drop PROVE JInv'
  <1> USE DEF JInv
  <1>1. /\ add = "drop" /\ subscribers' = subscribers \ {target} /\ add' = "room" /\ target \in todo
        /\ UNCHANGED <<next, jQueue, todo, target, jAt, after, backlog, got, seen, lastId>>
    BY DEF Log!Drop, Pumping, Log!stream
  <1>2. /\ IsFiniteSet(subscribers) /\ subscribers \ {target} \subseteq subscribers
        /\ IsFiniteSet(subscribers \ {target})
        /\ Cardinality(subscribers \ {target}) <= Cardinality(subscribers)
        /\ Cardinality(subscribers \ {target}) \in Nat /\ Cardinality(subscribers) \in Nat
    BY FS_Subset, FS_CardinalityType DEF Pumping
  <1>3. Log!TypeOK' BY <1>1, <1>2, SameSize, JournalConstants DEF Log!TypeOK
  <1>4. Pumping' BY <1>1, <1>2 DEF Pumping
  <1>5. ASSUME NEW s \in Streams PROVE Served(s)'
    <2>1. Log!Due(s)' = Log!Due(s) BY <1>1, DueKept
    <2>2. CASE s # target
      BY <1>1, <2>1, <2>2, LeftAlone
    <2>3. CASE s = target
      <3>1. Consecutive(Log!Due(s)) \/ jAt[s] # "live" \/ Warned(Log!Due(s))
        BY <1>1 DEF Served, Chain
      <3> QED BY <1>1, <2>1, <2>3, <3>1 DEF Served, Consecutive, Warned
    <2> QED BY <2>2, <2>3
  <1> QED BY <1>3, <1>4, <1>5

LEMMA RoomKeeps == ASSUME JInv, Log!Room PROVE JInv'
  <1> USE DEF JInv
  <1>1. /\ add = "room" /\ target \in todo /\ target \in Streams /\ target \notin subscribers
        /\ UNCHANGED <<next, subscribers, target, jAt, after, backlog, got, seen, lastId>>
    BY DEF Log!Room, Pumping, Log!stream, Log!journal, Log!TypeOK
  <1>2. CASE jQueue[target] = <<>>
    <2>1. add' = "offer" /\ todo' = todo \ {target} /\ UNCHANGED jQueue BY <1>2 DEF Log!Room
    <2>2. Log!TypeOK' BY <1>1, <2>1 DEF Log!TypeOK
    <2>3. Pumping' BY <1>1, <2>1 DEF Pumping
    <2>4. ASSUME NEW s \in Streams PROVE Served(s)'
      <3>1. Log!Due(s)' = Log!Due(s) BY <1>1, <2>1, DueKept
      <3>2. CASE s # target
        BY <1>1, <2>1, <3>1, <3>2, LeftAlone
      <3>3. CASE s = target
        BY <1>1, <2>1, <3>1, <3>3 DEF Served, Consecutive, Warned
      <3> QED BY <3>2, <3>3
    <2> QED BY <2>2, <2>3, <2>4
  <1>3. CASE jQueue[target] # <<>>
    <2>1. add' = "notice" /\ jQueue' = [jQueue EXCEPT ![target] = Tail(@)] /\ UNCHANGED todo
      BY <1>3 DEF Log!Room
    <2>2. /\ jQueue \in [Streams -> Seq(Log!Items)] /\ Tail(jQueue[target]) \in Seq(Log!Items)
          /\ Len(Tail(jQueue[target])) = Len(jQueue[target]) - 1 /\ Len(jQueue[target]) \in Nat
          /\ Len(jQueue[target]) <= QueueSize
      BY <1>1, <1>3, HeadTailProperties, LenProperties DEF Log!TypeOK, Pumping
    <2>3. Log!TypeOK' BY <1>1, <2>1, <2>2 DEF Log!TypeOK
    <2>4. Pumping' BY <1>1, <2>1, <2>2, JournalConstants DEF Pumping
    <2>5. ASSUME NEW s \in Streams PROVE Served(s)'
      <3>1. CASE s # target
        <4>1. jQueue'[s] = jQueue[s] BY <2>1, <2>2, <3>1
        <4>2. Log!Due(s)' = Log!Due(s) BY <1>1, <4>1, DueKept
        <4> QED BY <1>1, <2>1, <3>1, <4>2, LeftAlone
      <3>2. CASE s = target
        BY <1>1, <2>1, <3>2 DEF Served
      <3> QED BY <3>1, <3>2
    <2> QED BY <2>3, <2>4, <2>5
  <1> QED BY <1>2, <1>3

LEMMA NoticeKeeps == ASSUME JInv, Log!Notice PROVE JInv'
  <1> USE DEF JInv
  <1> DEFINE e == [id |-> next, t |-> "overflow"]
  <1>1. /\ add = "notice" /\ target \in todo /\ target \in Streams /\ target \notin subscribers
        /\ Len(jQueue[target]) < QueueSize
        /\ UNCHANGED <<next, subscribers, target, jAt, after, backlog, got, seen, lastId>>
    BY DEF Log!Notice, Pumping, Log!stream, Log!journal, Log!TypeOK
  <1>2. /\ jQueue' = [jQueue EXCEPT ![target] = Append(@, e)]
        /\ todo' = todo \ {target} /\ add' = "offer"
    BY <1>1 DEF Log!Notice
  <1>3. e \in Log!Items BY DEF Log!TypeOK, Log!Items
  <1>4. /\ jQueue \in [Streams -> Seq(Log!Items)] /\ Append(jQueue[target], e) \in Seq(Log!Items)
        /\ Len(Append(jQueue[target], e)) = Len(jQueue[target]) + 1 /\ Len(jQueue[target]) \in Nat
    BY <1>1, <1>3, AppendProperties, LenProperties DEF Log!TypeOK
  <1>5. Log!TypeOK' BY <1>1, <1>2, <1>4 DEF Log!TypeOK
  <1>6. Pumping' BY <1>1, <1>2, <1>4, JournalConstants DEF Pumping
  <1>7. ASSUME NEW s \in Streams PROVE Served(s)'
    <2>1. CASE s # target
      <3>1. jQueue'[s] = jQueue[s] BY <1>2, <1>4, <2>1
      <3>2. Log!Due(s)' = Log!Due(s) BY <1>1, <3>1, DueKept
      <3> QED BY <1>1, <1>2, <2>1, <3>2, LeftAlone
    <2>2. CASE s = target
      <3>1. jQueue'[s] = Append(jQueue[s], e) BY <1>2, <1>4, <2>2
      <3>2. Log!Due(s)' = Append(Log!Due(s), e) BY <1>1, <1>3, <3>1, DueAppended
      <3>3. Log!Due(s) \in Seq(Log!Items) BY DueType
      <3>4. /\ Len(Log!Due(s)) + 1 \in DOMAIN Log!Due(s)'
            /\ Log!Due(s)'[Len(Log!Due(s)) + 1].t = "overflow"
        BY <1>3, <3>2, <3>3, AppendProperties, LenProperties
      <3>5. Warned(Log!Due(s))' BY <3>4 DEF Warned
      <3> QED BY <1>1, <1>2, <2>2, <3>5 DEF Served
    <2> QED BY <2>1, <2>2
  <1> QED BY <1>5, <1>6, <1>7

LEMMA AddedKeeps == ASSUME JInv, Log!Added PROVE JInv'
  <1> USE DEF JInv
  <1>1. /\ add = "offer" /\ todo = {} /\ add' = "idle" /\ target' = None
        /\ UNCHANGED <<next, subscribers, jQueue, todo, jAt, after, backlog, got, seen, lastId>>
    BY DEF Log!Added, Log!stream, Log!journal
  <1>2. Log!TypeOK' BY <1>1 DEF Log!TypeOK
  <1>3. Pumping' BY <1>1 DEF Pumping
  <1>4. ASSUME NEW s \in Streams PROVE Served(s)'
    <2>1. Log!Due(s)' = Log!Due(s) BY <1>1, DueKept
    <2> QED BY <1>1, <2>1, LeftAlone
  <1> QED BY <1>2, <1>3, <1>4

\* The replay of a new connection.
LEMMA Replayed ==
  ASSUME NEW n \in 0 .. Closing + 1, NEW f \in 0 .. n
  PROVE  LET b == [i \in 1 .. n - f |-> Log!Event(f + i - 1)] IN
         /\ b \in Seq(Log!Items) /\ Len(b) = n - f /\ DOMAIN b = 1 .. n - f
         /\ (b = <<>> <=> n = f)
         /\ n # f => b[1].id = f /\ b[Len(b)].id = n - 1
         /\ Consecutive(b)
  <1> DEFINE b == [i \in 1 .. n - f |-> Log!Event(f + i - 1)]
  <1>1. n \in Nat /\ f \in Nat /\ n - f \in Nat /\ n <= Closing + 1 BY JournalConstants
  <1>2. \A i \in 1 .. n - f :
          Log!Event(f + i - 1) \in Log!Items /\ Log!Event(f + i - 1).id = f + i - 1
    <2> SUFFICES ASSUME NEW i \in 1 .. n - f PROVE f + i - 1 \in 0 .. Closing
      BY EventsAreItems
    <2> QED BY <1>1, JournalConstants
  <1>3. b \in Seq(Log!Items) /\ Len(b) = n - f /\ DOMAIN b = 1 .. n - f
    BY <1>1, <1>2
  <1>4. b = <<>> <=> n = f BY <1>1, <1>3, EmptySeq
  <1>5. n # f => b[1].id = f /\ b[Len(b)].id = n - 1 /\ 1 \in DOMAIN b
    <2> SUFFICES ASSUME n # f PROVE b[1].id = f /\ b[n - f].id = n - 1 /\ 1 \in DOMAIN b
      BY <1>3
    <2>1. 1 \in 1 .. n - f /\ n - f \in 1 .. n - f BY <1>1
    <2>2. b[1] = Log!Event(f + 1 - 1) /\ b[n - f] = Log!Event(f + (n - f) - 1) BY <2>1
    <2>3. f + 1 - 1 = f /\ f + (n - f) - 1 = n - 1 BY <1>1
    <2> QED BY <1>2, <1>3, <2>1, <2>2, <2>3
  <1>6. Consecutive(b)
    <2> SUFFICES ASSUME NEW i \in 1 .. n - f PROVE b[i] = Log!Event(b[1].id + i - 1)
      BY <1>3 DEF Consecutive
    <2>1. n # f BY <1>1
    <2> QED BY <1>5, <2>1
  <1> QED BY <1>3, <1>4, <1>5, <1>6

LEMMA SubscribeKeeps ==
  ASSUME Resume = FALSE, JInv, NEW u \in Streams, Log!Subscribe(u)
  PROVE  JInv'
  <1> USE DEF JInv
  <1> DEFINE b == [i \in 1 .. next - Log!Oldest |-> Log!Event(Log!Oldest + i - 1)]
  <1>0. Log!Oldest \in 0 .. next /\ next \in 0 .. Closing + 1 /\ (Log!Oldest = next <=> next = 0)
        /\ (Log!Oldest > 0 => Log!Oldest + MaxEvents <= next) /\ next \in Nat /\ Log!Oldest \in Nat
    BY JournalConstants DEF Log!Oldest, Log!TypeOK
  <1>1. /\ jAt[u] = "off" /\ u \notin todo /\ target # u
        /\ Cardinality(subscribers) < MaxSubscribers
        /\ after' = [after EXCEPT ![u] = -1] /\ backlog' = [backlog EXCEPT ![u] = b]
        /\ got' = [got EXCEPT ![u] = <<>>] /\ subscribers' = subscribers \cup {u}
        /\ jQueue' = [jQueue EXCEPT ![u] = <<>>] /\ jAt' = [jAt EXCEPT ![u] = "live"]
        /\ UNCHANGED <<next, todo, add, target, seen, lastId>>
    <2>1. (IF (-1) + 1 > Log!Oldest THEN (-1) + 1 ELSE Log!Oldest) = Log!Oldest BY <1>0
    <2> QED BY <2>1, SameSize DEF Log!Subscribe, Log!adding
  <1>2. /\ b \in Seq(Log!Items) /\ (b = <<>> <=> next = Log!Oldest)
        /\ next # Log!Oldest => b[1].id = Log!Oldest /\ b[Len(b)].id = next - 1
        /\ Consecutive(b)
    <2> HIDE DEF b
    <2>1. \A n \in 0 .. Closing + 1 : \A f \in 0 .. n :
            LET c == [i \in 1 .. n - f |-> Log!Event(f + i - 1)] IN
            /\ c \in Seq(Log!Items) /\ (c = <<>> <=> n = f)
            /\ n # f => c[1].id = f /\ c[Len(c)].id = n - 1
            /\ Consecutive(c)
      BY Replayed, Zenon
    <2> QED BY <1>0, <2>1, Zenon DEF b
  <1> HIDE DEF b
  <1>3. /\ IsFiniteSet(subscribers \cup {u})
        /\ Cardinality(subscribers \cup {u}) <= Cardinality(subscribers) + 1
        /\ Cardinality(subscribers \cup {u}) \in Nat /\ Cardinality(subscribers) \in Nat
    <2>1. IsFiniteSet(subscribers) BY DEF Pumping
    <2>2. Cardinality(subscribers) \in Nat BY <2>1, FS_CardinalityType
    <2>3. /\ IsFiniteSet(subscribers \cup {u})
          /\ Cardinality(subscribers \cup {u}) =
               IF u \in subscribers THEN Cardinality(subscribers) ELSE Cardinality(subscribers) + 1
      BY <2>1, FS_AddElement, Zenon
    <2> QED BY <2>2, <2>3
  <1>4. Cardinality(subscribers \cup {u}) <= MaxSubscribers
    BY <1>1, <1>3, JournalConstants
  <1>5. Log!TypeOK' BY <1>1, <1>2, <1>4, SameSize, JournalConstants DEF Log!TypeOK
  <1>6. Pumping'
    <2>1. \A s \in Streams : Len(jQueue'[s]) <= QueueSize /\ after'[s] = -1
      BY <1>1, JournalConstants DEF Pumping, Log!TypeOK
    <2>2. add = "notice" => jQueue'[target] = jQueue[target] BY <1>1 DEF Log!TypeOK
    <2> QED BY <1>1, <1>3, <2>1, <2>2 DEF Pumping
  <1>7. ASSUME NEW s \in Streams PROVE Served(s)'
    <2>1. CASE s # u
      <3>1. /\ jQueue'[s] = jQueue[s] /\ got'[s] = got[s]
            /\ backlog'[s] = backlog[s] /\ jAt'[s] = jAt[s]
        BY <1>1, <2>1 DEF Log!TypeOK
      <3>2. Log!Due(s)' = Log!Due(s) BY <3>1, DueKept
      <3> QED BY <1>1, <2>1, <3>1, <3>2, LeftAlone
    <2>2. CASE s = u
      <3>1. jQueue'[s] = <<>> /\ got'[s] = <<>> /\ backlog'[s] = b /\ jAt'[s] = "live"
        BY <1>1, <2>2 DEF Log!TypeOK
      <3>2. Log!Due(s)' = b BY <1>2, <3>1, ConcatEmptySeq DEF Log!Due
      <3>3. Chain(s)' BY <1>0, <1>1, <1>2, <2>2, <3>2 DEF Chain, Consecutive
      <3> QED BY <1>1, <2>2, <3>1, <3>3 DEF Served
    <2> QED BY <2>1, <2>2
  <1> QED BY <1>5, <1>6, <1>7

LEMMA ReplayKeeps ==
  ASSUME Resume = FALSE, JInv, NEW u \in Streams, Log!Replay(u)
  PROVE  JInv'
  <1> USE DEF JInv
  <1>1. /\ backlog[u] # <<>> /\ got' = [got EXCEPT ![u] = Append(@, Head(backlog[u]))]
        /\ backlog' = [backlog EXCEPT ![u] = Tail(@)]
        /\ UNCHANGED <<next, subscribers, jQueue, todo, add, target, jAt, after, seen, lastId>>
    BY JournalConstants DEF Log!Replay, Log!Pushed, Log!journal, Log!adding
  <1>2. /\ Head(backlog[u]) \in Log!Items /\ Tail(backlog[u]) \in Seq(Log!Items)
        /\ Append(got[u], Head(backlog[u])) \in Seq(Log!Items)
    BY <1>1, HeadTailProperties, AppendProperties DEF Log!TypeOK
  <1>3. Log!TypeOK' BY <1>1, <1>2 DEF Log!TypeOK
  <1>4. Pumping' BY <1>1 DEF Pumping
  <1>5. ASSUME NEW s \in Streams PROVE Served(s)'
    <2>1. Log!Due(s)' = Log!Due(s)
      <3>1. CASE s = u BY <3>1, DueReplayed
      <3>2. CASE s # u
        <4>1. got'[s] = got[s] /\ backlog'[s] = backlog[s] /\ jQueue'[s] = jQueue[s]
          BY <1>1, <3>2 DEF Log!TypeOK
        <4> QED BY <4>1, DueKept
      <3> QED BY <3>1, <3>2
    <2> QED BY <1>1, <2>1, LeftAlone
  <1> QED BY <1>3, <1>4, <1>5

\* A stream whose connection is over asks for nothing more.
LEMMA OffIsServed ==
  ASSUME NEW s, jAt'[s] = "off", s \notin subscribers'
  PROVE  Served(s)'
  BY DEF Served

LEMMA Fewer ==
  ASSUME Log!TypeOK, Pumping, NEW u, subscribers' = subscribers \ {u}
  PROVE  /\ subscribers' \subseteq Streams /\ IsFiniteSet(subscribers')
         /\ Cardinality(subscribers') <= MaxSubscribers
  <1>1. /\ IsFiniteSet(subscribers \ {u})
        /\ Cardinality(subscribers \ {u}) <= Cardinality(subscribers)
        /\ Cardinality(subscribers \ {u}) \in Nat /\ Cardinality(subscribers) \in Nat
    BY FS_Subset, FS_CardinalityType DEF Pumping
  <1> QED BY <1>1, SameSize, JournalConstants DEF Log!TypeOK

LEMMA DeliverKeeps ==
  ASSUME Resume = FALSE, JInv, NEW u \in Streams, Log!Deliver(u)
  PROVE  JInv'
  <1> USE DEF JInv
  <1>1. /\ backlog[u] = <<>> /\ jQueue[u] # <<>>
        /\ got' = [got EXCEPT ![u] = Append(@, Head(jQueue[u]))]
        /\ jQueue' = [jQueue EXCEPT ![u] = Tail(@)]
        /\ UNCHANGED <<next, todo, add, target, after, seen, lastId>>
    BY JournalConstants DEF Log!Deliver, Log!Pushed, Log!adding
  <1>2. /\ Head(jQueue[u]) \in Log!Items /\ Tail(jQueue[u]) \in Seq(Log!Items)
        /\ Append(got[u], Head(jQueue[u])) \in Seq(Log!Items)
        /\ Len(Tail(jQueue[u])) = Len(jQueue[u]) - 1
        /\ jQueue \in [Streams -> Seq(Log!Items)] /\ \A s \in Streams : Len(jQueue[s]) \in Nat
    BY <1>1, HeadTailProperties, AppendProperties, LenProperties DEF Log!TypeOK
  <1>3. \/ UNCHANGED <<jAt, subscribers, backlog>>
        \/ /\ jAt' = [jAt EXCEPT ![u] = "off"] /\ subscribers' = subscribers \ {u}
           /\ backlog' = [backlog EXCEPT ![u] = <<>>]
    BY DEF Log!Deliver, Log!Left
  <1>4. /\ subscribers' \subseteq Streams /\ IsFiniteSet(subscribers')
        /\ Cardinality(subscribers') <= MaxSubscribers /\ subscribers' \subseteq subscribers
    <2>1. CASE UNCHANGED <<jAt, subscribers, backlog>>
      BY <2>1, SameSize DEF Log!TypeOK, Pumping
    <2>2. CASE subscribers' = subscribers \ {u}
      BY <2>2, Fewer
    <2> QED BY <1>3, <2>1, <2>2
  <1>5. Log!TypeOK' BY <1>1, <1>2, <1>3, <1>4, SameSize DEF Log!TypeOK
  <1>6. Pumping'
    <2>1. \A s \in Streams : Len(jQueue'[s]) <= Len(jQueue[s]) BY <1>1, <1>2
    <2>2. \A s \in Streams : Len(jQueue'[s]) <= QueueSize /\ after'[s] = -1
          /\ (Len(jQueue[s]) < QueueSize => Len(jQueue'[s]) < QueueSize)
      <3> SUFFICES ASSUME NEW s \in Streams
                   PROVE  Len(jQueue'[s]) <= QueueSize /\ after'[s] = -1
                          /\ (Len(jQueue[s]) < QueueSize => Len(jQueue'[s]) < QueueSize)
        OBVIOUS
      <3>1. Len(jQueue'[s]) \in Nat BY <1>5, LenProperties DEF Log!TypeOK
      <3> QED BY <1>1, <1>2, <2>1, <3>1, JournalConstants DEF Pumping
    <2>3. add = "notice" => target \in Streams BY DEF Pumping, Log!TypeOK
    <2> QED BY <1>1, <1>4, <2>2, <2>3 DEF Pumping
  <1>7. ASSUME NEW s \in Streams PROVE Served(s)'
    <2>1. CASE s = u
      <3>1. Log!Due(s)' = Log!Due(s) BY <2>1, DueDelivered
      <3>2. CASE UNCHANGED <<jAt, subscribers, backlog>>
        BY <1>1, <3>1, <3>2, LeftAlone
      <3>3. CASE jAt' = [jAt EXCEPT ![u] = "off"] /\ subscribers' = subscribers \ {u}
        BY <2>1, <3>3, OffIsServed DEF Log!TypeOK
      <3> QED BY <1>3, <3>2, <3>3
    <2>2. CASE s # u
      <3>1. /\ got'[s] = got[s] /\ backlog'[s] = backlog[s]
            /\ jQueue'[s] = jQueue[s] /\ jAt'[s] = jAt[s]
            /\ s \in subscribers' <=> s \in subscribers
        BY <1>1, <1>3, <2>2 DEF Log!TypeOK
      <3>2. Log!Due(s)' = Log!Due(s) BY <3>1, DueKept
      <3> QED BY <1>1, <3>1, <3>2, LeftAlone
    <2> QED BY <2>1, <2>2
  <1> QED BY <1>5, <1>6, <1>7

LEMMA DisconnectKeeps == ASSUME JInv, NEW u \in Streams, Log!Disconnect(u) PROVE JInv'
  <1> USE DEF JInv
  <1>1. /\ jAt' = [jAt EXCEPT ![u] = "off"] /\ subscribers' = subscribers \ {u}
        /\ backlog' = [backlog EXCEPT ![u] = <<>>] /\ got' = [got EXCEPT ![u] = <<>>]
        /\ UNCHANGED <<next, jQueue, todo, add, target, after, seen, lastId>>
    BY DEF Log!Disconnect, Log!Left, Log!adding
  <1>2. /\ subscribers' \subseteq Streams /\ IsFiniteSet(subscribers')
        /\ Cardinality(subscribers') <= MaxSubscribers /\ subscribers' \subseteq subscribers
    BY <1>1, Fewer
  <1>3. Log!TypeOK' BY <1>1, <1>2, SameSize DEF Log!TypeOK
  <1>4. Pumping' BY <1>1, <1>2 DEF Pumping
  <1>5. ASSUME NEW s \in Streams PROVE Served(s)'
    <2>1. CASE s = u BY <1>1, <2>1, OffIsServed DEF Log!TypeOK
    <2>2. CASE s # u
      <3>1. /\ got'[s] = got[s] /\ backlog'[s] = backlog[s]
            /\ jQueue'[s] = jQueue[s] /\ jAt'[s] = jAt[s]
            /\ s \in subscribers' <=> s \in subscribers
        BY <1>1, <2>2 DEF Log!TypeOK
      <3>2. Log!Due(s)' = Log!Due(s) BY <3>1, DueKept
      <3> QED BY <1>1, <3>1, <3>2, LeftAlone
    <2> QED BY <2>1, <2>2
  <1> QED BY <1>3, <1>4, <1>5

LEMMA JournalStarts == Log!Init => JInv
  <1> SUFFICES ASSUME Log!Init PROVE JInv
    OBVIOUS
  <1>1. Log!TypeOK
    <2>1. IsFiniteSet({}) /\ Cardinality({}) = 0 BY FS_EmptySet
    <2> QED BY <2>1, SameSize, JournalConstants DEF Log!Init, Log!TypeOK
  <1>2. Pumping BY FS_EmptySet, JournalConstants DEF Log!Init, Pumping
  <1>3. \A s \in Streams : Served(s) BY DEF Log!Init, Served
  <1> QED BY <1>1, <1>2, <1>3 DEF JInv

LEMMA JournalStep == ASSUME Resume = FALSE PROVE JInv /\ [Log!Next]_(Log!vars) => JInv'
  <1> SUFFICES ASSUME JInv, [Log!Next]_(Log!vars) PROVE JInv'
    OBVIOUS
  <1>1. CASE UNCHANGED Log!vars
    <2>1. UNCHANGED <<next, subscribers, jQueue, todo, add, target, jAt, after, backlog, got,
                      seen, lastId>>
      BY <1>1 DEF Log!vars, Log!journal, Log!adding, Log!stream
    <2> QED BY <2>1 DEF JInv, Log!TypeOK, Pumping, Served, Chain, Consecutive, Warned, Log!Due
  <1>2. CASE Log!Next
    BY <1>2, NumberKeeps, OfferKeeps, DropKeeps, RoomKeeps, NoticeKeeps, AddedKeeps, SubscribeKeeps,
       ReplayKeeps, DeliverKeeps, DisconnectKeeps DEF Log!Next, Log!Adding, Log!Stream
  <1> QED BY <1>1, <1>2

\* What the journal's invariant gives while no tab names the event it has seen last.
THEOREM JournalInvariance == ASSUME Resume = FALSE PROVE Log!Spec => []JInv
  <1>1. Log!Spec <=> Log!Init /\ [][Log!Next]_(Log!vars) BY DEF Log!Spec
  <1> QED BY <1>1, JournalStarts, JournalStep, PTL

LEMMA JournalHolds == ASSUME JInv PROVE StreamHolds
  <1>1. ASSUME NEW s \in subscribers \ {target}
        PROVE  LET d == Log!Due(s) IN
               /\ \A i \in DOMAIN d : d[i] = Log!Event(d[1].id + i - 1)
               /\ d # <<>> => /\ d[1].id >= after[s] + 1
                              /\ (d[1].id > after[s] + 1 => d[1].id + MaxEvents <= next)
                              /\ d[Len(d)].id = IF s \in todo THEN next - 2 ELSE next - 1
    <2>1. s \in Streams /\ Chain(s) /\ after[s] = -1 BY <1>1 DEF JInv, Log!TypeOK, Served, Pumping
    <2>2. Log!Due(s) # <<>> => Log!Due(s)[1].id \in Nat
      <3> SUFFICES ASSUME Log!Due(s) # <<>> PROVE Log!Due(s)[1].id \in Nat
        OBVIOUS
      <3>1. Log!Due(s) \in Seq(Log!Items) BY <2>1, DueType DEF JInv
      <3>2. 1 \in 1 .. Len(Log!Due(s)) BY <3>1, EmptySeq
      <3> QED BY <3>1, <3>2, ElementOfSeq, ItemsHave
    <2> QED BY <2>1, <2>2 DEF Chain, Consecutive
  <1>2. Log!NoGap BY <1>1 DEF Log!NoGap
  <1>3. Log!DroppedIsTold BY DEF JInv, Served, Warned, Consecutive, Log!DroppedIsTold
  <1>4. Log!NeverRaises BY DEF JInv, Pumping, Log!NeverRaises
  <1> QED BY <1>2, <1>3, <1>4 DEF Log!DropIsClean, StreamHolds

-----------------------------------------------------------------------------
(* The MCP bridge, for any number of servers and requests.  Trust follows a request:
   every provider of the tool is exposed and its class is covered by the tool's effect,
   so a request that is on its way to a server that would change something has been
   agreed to, and so has every request carried out.  Replies follow it back: a
   request's number is in an inbox only after that server has carried it out. *)

\* What two sequences hold together.
LEMMA ElemsConcat ==
  ASSUME NEW S, NEW s \in Seq(S), NEW t \in Seq(S)
  PROVE  Elems(s \o t) \subseteq Elems(s) \cup Elems(t)
  <1>1. /\ Len(s) \in Nat /\ Len(t) \in Nat /\ DOMAIN s = 1 .. Len(s) /\ DOMAIN t = 1 .. Len(t)
        /\ DOMAIN (s \o t) = 1 .. Len(s) + Len(t)
    OBVIOUS
  <1>2. ASSUME NEW k \in 1 .. Len(s) + Len(t) PROVE (s \o t)[k] \in Elems(s) \cup Elems(t)
    <2>1. CASE k <= Len(s)
      <3>1. k \in DOMAIN s /\ (s \o t)[k] = s[k]
        BY <1>1, <2>1
      <3> QED
        BY <3>1 DEF Elems
    <2>2. CASE k > Len(s)
      <3>1. k - Len(s) \in DOMAIN t /\ (s \o t)[k] = t[k - Len(s)]
        BY <1>1, <2>2
      <3> QED
        BY <3>1 DEF Elems
    <2> QED
      BY <1>1, <2>1, <2>2
  <1> QED
    BY <1>1, <1>2 DEF Elems

McpLines == 0 .. Mcp!Eof

\* The types, those of the inboxes with them, and what a call that is under way
\* is about.
McpTyped ==
  /\ Mcp!TypeOK
  /\ inbox \in [Mcp!Accounts -> Seq(McpLines)]
  /\ mAt \in {"confirm", "wait"} => rid \in Mcp!Requests /\ account \in providers

\* Every provider may be behind the tool and the tool's effect covers it.
McpCovered ==
  \A a \in providers : Mcp!Exposed(a)
    /\ (Mcp!ClassOf(a) = "external_write" => effect = "external_write")

\* A request on its way to a server, or carried out by it, was agreed to when
\* the server would change something.
McpSent ==
  \A a \in Mcp!Accounts, r \in Mcp!Requests :
    r \in wire[a] \/ <<a, r>> \in done => a \in providers /\ (kind[a] # "read" => r \in agreed)

\* A reply comes only from a server that has carried its request out.
McpAnswered ==
  /\ \A a \in Mcp!Accounts, r \in Mcp!Requests : r \in Elems(inbox[a]) => <<a, r>> \in done
  /\ Mcp!OwnAnswer

LEMMA McpTypedInit == ASSUME Servers \in Nat, MaxRequests \in Nat PROVE Mcp!Init => McpTyped
  BY
  DEF Mcp!Init, McpTyped, Mcp!TypeOK, McpLines, Mcp!Accounts, Mcp!Requests, Mcp!Eof, Mcp!Modes,
      Mcp!Kinds

LEMMA McpTypedStep ==
  ASSUME Servers \in Nat, MaxRequests \in Nat PROVE McpTyped /\ [Mcp!Next]_(Mcp!vars) => McpTyped'
  <1> SUFFICES ASSUME McpTyped, [Mcp!Next]_(Mcp!vars) PROVE McpTyped'
    OBVIOUS
  <1> USE DEF Mcp!Accounts, Mcp!Requests, Mcp!Eof, Mcp!Modes, Mcp!Kinds, Mcp!quiet, Mcp!books
  <1>1. CASE Mcp!Enable
    <2>1. Mcp!ClassOf(started + 1) \in {"read", "external_write"}
          /\ Mcp!Joined(started + 1) \in {"none", "read", "external_write"}
      BY DEF McpTyped, Mcp!TypeOK, Mcp!ClassOf, Mcp!Joined
    <2>2. started + 1 \in Mcp!Accounts
      BY <1>1 DEF Mcp!Enable, McpTyped, Mcp!TypeOK
    <2>3. mAt' \in {"enable", "over"} /\ started' \in 0 .. Servers
      BY <1>1 DEF Mcp!Enable, McpTyped, Mcp!TypeOK
    <2>4. providers' \subseteq Mcp!Accounts /\ real' \in 0 .. Servers
      <3>1. \/ providers' = providers \cup {started + 1} /\ real' = started + 1
            \/ UNCHANGED <<providers, real>>
        BY <1>1 DEF Mcp!Enable
      <3>2. providers \subseteq Mcp!Accounts /\ real \in 0 .. Servers
            /\ Mcp!Accounts \subseteq 0 .. Servers
        BY DEF McpTyped, Mcp!TypeOK
      <3> HIDE DEF Mcp!Accounts
      <3> QED
        BY <2>2, <3>1, <3>2
    <2>5. effect' \in {"none", "read", "external_write"}
      BY <1>1, <2>1 DEF Mcp!Enable, McpTyped, Mcp!TypeOK
    <2>6. UNCHANGED <<mode, kind, account, mNext, rid, wire, inbox, dead, result, agreed, told,
          done>>
      BY <1>1 DEF Mcp!Enable
    <2> QED
      BY <2>3, <2>4, <2>5, <2>6 DEF McpTyped, Mcp!TypeOK
  <1>2. CASE Mcp!Enabled
    BY <1>2 DEF Mcp!Enabled, McpTyped, Mcp!TypeOK
  <1>3. CASE Mcp!Confirm
    <2>1. rid \in Mcp!Requests /\ account \in providers /\ account \in Mcp!Accounts
      BY <1>3 DEF Mcp!Confirm, McpTyped, Mcp!TypeOK
    <2>2. told' \in [Mcp!Requests -> 0 .. Servers] /\ agreed' \subseteq Mcp!Requests
      BY <1>3, <2>1 DEF Mcp!Confirm, McpTyped, Mcp!TypeOK
    <2>3. wire' \in [Mcp!Accounts -> SUBSET Mcp!Requests]
      BY <1>3, <2>1 DEF Mcp!Confirm, McpTyped, Mcp!TypeOK
    <2>4. result' \in [Mcp!Requests -> {"none", "answer", "late", "timeout", "closed", "exited",
          "denied"}]
      BY <1>3 DEF Mcp!Confirm, McpTyped, Mcp!TypeOK
    <2>5. mAt' \in {"wait", "ready"}
      BY <1>3 DEF Mcp!Confirm
    <2>6. UNCHANGED <<mode, kind, started, providers, effect, account, real, mNext, rid, inbox,
          dead, done>>
      BY <1>3 DEF Mcp!Confirm
    <2> QED
      BY <2>1, <2>2, <2>3, <2>4, <2>5, <2>6 DEF McpTyped, Mcp!TypeOK
  <1>4. CASE Mcp!Refused
    BY <1>4 DEF Mcp!Refused, McpTyped, Mcp!TypeOK
  <1>5. CASE Mcp!Receive
    <2>1. Mcp!ReadAnswer(Head(inbox[account])) \in {"closed", "answer", "none"}
      BY DEF Mcp!ReadAnswer
    <2>2. Tail(inbox[account]) \in Seq(McpLines) /\ account \in Mcp!Accounts
      BY <1>5, ElemsTail DEF Mcp!Receive, McpTyped, Mcp!TypeOK
    <2> QED
      BY <1>5, <2>1, <2>2 DEF Mcp!Receive, McpTyped, Mcp!TypeOK
  <1>6. CASE Mcp!TimeOut
    BY <1>6 DEF Mcp!TimeOut, McpTyped, Mcp!TypeOK
  <1>7. ASSUME NEW a \in Mcp!Accounts, Mcp!Call(a) PROVE McpTyped'
    <2>1. mNext + 1 \in Mcp!Requests
      BY <1>7 DEF Mcp!Call, McpTyped, Mcp!TypeOK
    <2>2. wire' \in [Mcp!Accounts -> SUBSET Mcp!Requests]
      BY <1>7, <2>1 DEF Mcp!Call, McpTyped, Mcp!TypeOK
    <2>3. result' \in [Mcp!Requests -> {"none", "answer", "late", "timeout", "closed", "exited",
          "denied"}]
      BY <1>7 DEF Mcp!Call, McpTyped, Mcp!TypeOK
    <2>4. /\ mNext' = mNext + 1 /\ account' = a /\ rid' = mNext + 1 /\ a \in providers
          /\ mAt' \in {"confirm", "wait"}
      BY <1>7 DEF Mcp!Call
    <2>5. UNCHANGED <<mode, kind, started, providers, effect, real, inbox, dead, agreed, told,
          done>>
      BY <1>7 DEF Mcp!Call
    <2> QED
      BY <2>1, <2>2, <2>3, <2>4, <2>5 DEF McpTyped, Mcp!TypeOK
  <1>8. ASSUME NEW a \in Mcp!Accounts, Mcp!Serve(a) PROVE McpTyped'
    <2> PICK r \in wire[a], noise \in BOOLEAN :
          /\ wire' = [wire EXCEPT ![a] = @ \ {r}] /\ done' = done \cup {<<a, r>>}
          /\ inbox' = [inbox EXCEPT ![a] = @ \o IF noise THEN <<Mcp!Noise, r>> ELSE <<r>>]
      BY <1>8 DEF Mcp!Serve
    <2>1. r \in Mcp!Requests /\ r \in McpLines /\ Mcp!Noise \in McpLines
      BY DEF McpTyped, Mcp!TypeOK, McpLines, Mcp!Noise
    <2>2. (IF noise THEN <<Mcp!Noise, r>> ELSE <<r>>) \in Seq(McpLines)
      BY <2>1
    <2>3. inbox[a] \o (IF noise THEN <<Mcp!Noise, r>> ELSE <<r>>) \in Seq(McpLines)
      BY <2>2 DEF McpTyped
    <2>4. wire' \in [Mcp!Accounts -> SUBSET Mcp!Requests]
          /\ done' \subseteq Mcp!Accounts \X Mcp!Requests
      BY <2>1 DEF McpTyped, Mcp!TypeOK
    <2>5. inbox' \in [Mcp!Accounts -> Seq(McpLines)]
      BY <2>3 DEF McpTyped
    <2>6. UNCHANGED <<mode, kind, mAt, started, providers, effect, account, real, mNext, rid,
          dead, result, agreed, told>>
      BY <1>8 DEF Mcp!Serve
    <2> QED
      BY <2>4, <2>5, <2>6 DEF McpTyped, Mcp!TypeOK
  <1>9. ASSUME NEW a \in Mcp!Accounts, Mcp!Die(a) PROVE McpTyped'
    <2>1. Append(inbox[a], Mcp!Eof) \in Seq(McpLines)
      BY DEF McpTyped, McpLines
    <2> QED
      BY <1>9, <2>1 DEF Mcp!Die, McpTyped, Mcp!TypeOK
  <1>10. CASE UNCHANGED Mcp!vars
    BY <1>10 DEF Mcp!vars, McpTyped, Mcp!TypeOK
  <1> QED
    BY <1>1, <1>2, <1>3, <1>4, <1>5, <1>6, <1>7, <1>8, <1>9, <1>10 DEF Mcp!Next

\* The types hold, for any number of servers and requests.
THEOREM McpTypeOK == ASSUME Servers \in Nat, MaxRequests \in Nat PROVE Mcp!Spec => []Mcp!TypeOK
  <1>1. McpTyped => Mcp!TypeOK
    BY DEF McpTyped
  <1> QED
    BY <1>1, McpTypedInit, McpTypedStep, PTL DEF Mcp!Spec

LEMMA McpCoveredStep ==
  ASSUME Servers \in Nat, MaxRequests \in Nat
  PROVE  McpTyped /\ McpCovered /\ [Mcp!Next]_(Mcp!vars) => McpCovered'
  <1> SUFFICES ASSUME McpTyped, McpCovered, [Mcp!Next]_(Mcp!vars) PROVE McpCovered'
    OBVIOUS
  <1>1. CASE Mcp!Enable /\ providers' # providers
    <2>1. /\ providers' = providers \cup {started + 1} /\ Mcp!Exposed(started + 1)
          /\ effect' = Mcp!Joined(started + 1) /\ UNCHANGED <<mode, kind>>
      BY <1>1 DEF Mcp!Enable, Mcp!quiet
    <2> QED
      BY <2>1 DEF McpCovered, Mcp!Exposed, Mcp!ClassOf, Mcp!Joined
  <1>2. CASE UNCHANGED <<mode, kind, providers, effect>>
    BY <1>2 DEF McpCovered, Mcp!Exposed, Mcp!ClassOf
  <1>3. Mcp!Enable /\ providers' = providers => UNCHANGED <<mode, kind, providers>>
        /\ (UNCHANGED effect \/ effect' = Mcp!Joined(started + 1))
    BY DEF Mcp!Enable, Mcp!quiet
  <1>4. CASE Mcp!Enable /\ providers' = providers
    BY <1>3, <1>4 DEF McpCovered, Mcp!Exposed, Mcp!ClassOf, Mcp!Joined
  <1>5. Mcp!Next => Mcp!Enable \/ UNCHANGED <<mode, kind, providers, effect>>
    BY
    DEF Mcp!Next, Mcp!Enabled, Mcp!Confirm, Mcp!Refused, Mcp!Receive, Mcp!TimeOut, Mcp!Call,
        Mcp!Serve, Mcp!Die, Mcp!quiet
  <1> QED
    BY <1>1, <1>2, <1>4, <1>5 DEF Mcp!vars

LEMMA McpSentStep ==
  ASSUME Servers \in Nat, MaxRequests \in Nat
  PROVE  McpTyped /\ McpCovered /\ McpSent /\ [Mcp!Next]_(Mcp!vars) => McpSent'
  <1> SUFFICES ASSUME McpTyped, McpCovered, McpSent, [Mcp!Next]_(Mcp!vars) PROVE McpSent'
    OBVIOUS
  <1> USE DEF Mcp!quiet, Mcp!books
  <1>1. CASE Mcp!Enable
    BY <1>1 DEF Mcp!Enable, McpSent
  <1>2. CASE Mcp!Enabled \/ Mcp!Refused \/ Mcp!Receive \/ Mcp!TimeOut \/ UNCHANGED Mcp!vars
    BY <1>2 DEF Mcp!Enabled, Mcp!Refused, Mcp!Receive, Mcp!TimeOut, Mcp!vars, McpSent
  <1>3. CASE Mcp!Confirm
    <2>1. account \in Mcp!Accounts /\ account \in providers
          /\ wire \in [Mcp!Accounts -> SUBSET Mcp!Requests]
      BY <1>3 DEF Mcp!Confirm, McpTyped, Mcp!TypeOK
    <2>2. CASE wire' = [wire EXCEPT ![account] = @ \cup {rid}] /\ agreed' = agreed \cup {rid}
      BY <1>3, <2>1, <2>2 DEF Mcp!Confirm, McpSent
    <2>3. CASE UNCHANGED wire /\ agreed \subseteq agreed'
      BY <1>3, <2>3 DEF Mcp!Confirm, McpSent
    <2> QED
      BY <1>3, <2>2, <2>3 DEF Mcp!Confirm
  <1>4. ASSUME NEW a \in Mcp!Accounts, Mcp!Call(a) PROVE McpSent'
    <2>1. wire \in [Mcp!Accounts -> SUBSET Mcp!Requests]
      BY DEF McpTyped, Mcp!TypeOK
    <2>2. CASE wire' = [wire EXCEPT ![a] = @ \cup {mNext'}] /\ effect # "external_write"
      <3>1. a \in providers /\ kind[a] = "read"
        BY <1>4, <2>2 DEF Mcp!Call, McpCovered, Mcp!ClassOf
      <3> QED
        BY <1>4, <2>1, <2>2, <3>1 DEF Mcp!Call, McpSent
    <2>3. CASE UNCHANGED wire
      BY <1>4, <2>3 DEF Mcp!Call, McpSent
    <2> QED
      BY <1>4, <2>2, <2>3 DEF Mcp!Call
  <1>5. ASSUME NEW a \in Mcp!Accounts, Mcp!Serve(a) PROVE McpSent'
    <2>1. wire \in [Mcp!Accounts -> SUBSET Mcp!Requests]
      BY DEF McpTyped, Mcp!TypeOK
    <2>2. PICK r \in wire[a] : wire' = [wire EXCEPT ![a] = @ \ {r}] /\ done' = done \cup {<<a, r>>}
      BY <1>5 DEF Mcp!Serve
    <2> QED
      BY <1>5, <2>1, <2>2 DEF Mcp!Serve, McpSent
  <1>6. ASSUME NEW a \in Mcp!Accounts, Mcp!Die(a) PROVE McpSent'
    <2>1. wire \in [Mcp!Accounts -> SUBSET Mcp!Requests]
      BY DEF McpTyped, Mcp!TypeOK
    <2> QED
      BY <1>6, <2>1 DEF Mcp!Die, McpSent
  <1> QED
    BY <1>1, <1>2, <1>3, <1>4, <1>5, <1>6 DEF Mcp!Next

\* Nothing changes an account without the operator's yes to that request, for
\* any number of accounts behind the tool.
THEOREM McpNothingUnasked ==
  ASSUME Servers \in Nat, MaxRequests \in Nat PROVE Mcp!Spec => []Mcp!NothingUnasked
  <1>1. Mcp!Init => McpCovered /\ McpSent
    BY DEF Mcp!Init, McpCovered, McpSent
  <1>2. McpTyped /\ McpCovered /\ McpSent => Mcp!NothingUnasked
    <2> SUFFICES ASSUME McpTyped, McpCovered, McpSent, NEW d \in done, kind[d[1]] # "read"
                 PROVE  /\ d[2] \in agreed /\ mode # "read_only"
                        /\ kind[d[1]] = "transmit" => mode = "live"
      BY DEF Mcp!NothingUnasked
    <2>1. d[1] \in Mcp!Accounts /\ d[2] \in Mcp!Requests /\ d = <<d[1], d[2]>>
      BY DEF McpTyped, Mcp!TypeOK
    <2>2. d[1] \in providers /\ d[2] \in agreed
      BY <2>1 DEF McpSent
    <2>3. Mcp!Exposed(d[1])
      BY <2>2 DEF McpCovered
    <2> QED
      BY <2>2, <2>3 DEF Mcp!Exposed, McpTyped, Mcp!TypeOK, Mcp!Modes
  <1> QED
    BY <1>1, <1>2, McpTypedInit, McpTypedStep, McpCoveredStep, McpSentStep, PTL DEF Mcp!Spec

LEMMA McpAnsweredStep ==
  ASSUME Servers \in Nat, MaxRequests \in Nat
  PROVE  McpTyped /\ McpAnswered /\ [Mcp!Next]_(Mcp!vars) => McpAnswered'
  <1> SUFFICES ASSUME McpTyped, McpAnswered, [Mcp!Next]_(Mcp!vars) PROVE McpAnswered'
    OBVIOUS
  <1> USE DEF Mcp!quiet, Mcp!books
  <1>1. result \in [Mcp!Requests -> {"none", "answer", "late", "timeout", "closed", "exited",
        "denied"}]
    BY DEF McpTyped, Mcp!TypeOK
  <1>2. CASE Mcp!Enable \/ Mcp!Enabled \/ Mcp!Refused \/ UNCHANGED Mcp!vars
    BY <1>2 DEF Mcp!Enable, Mcp!Enabled, Mcp!Refused, Mcp!vars, McpAnswered, Mcp!OwnAnswer
  <1>3. CASE Mcp!Confirm
    BY <1>1, <1>3 DEF Mcp!Confirm, McpAnswered, Mcp!OwnAnswer
  <1>4. CASE Mcp!TimeOut
    BY <1>1, <1>4 DEF Mcp!TimeOut, McpAnswered, Mcp!OwnAnswer
  <1>5. ASSUME NEW a \in Mcp!Accounts, Mcp!Call(a) PROVE McpAnswered'
    BY <1>1, <1>5 DEF Mcp!Call, McpAnswered, Mcp!OwnAnswer
  <1>6. CASE Mcp!Receive
    <2>1. account \in Mcp!Accounts /\ rid \in Mcp!Requests /\ inbox[account] \in Seq(McpLines)
          /\ inbox[account] # <<>>
      BY <1>6 DEF Mcp!Receive, McpTyped, Mcp!TypeOK
    <2>2. /\ Head(inbox[account]) \in Elems(inbox[account])
          /\ Elems(Tail(inbox[account])) \subseteq Elems(inbox[account])
      BY <2>1, ElemsTail
    <2>3. /\ inbox' = [inbox EXCEPT ![account] = Tail(@)] /\ UNCHANGED done
          /\ result' = [result EXCEPT ![rid] = Mcp!ReadAnswer(Head(inbox[account]))]
      BY <1>6 DEF Mcp!Receive
    <2>4. \A a \in Mcp!Accounts : Elems(inbox'[a]) \subseteq Elems(inbox[a])
      BY <2>1, <2>2, <2>3 DEF McpTyped
    <2>5. Mcp!ReadAnswer(Head(inbox[account])) = "answer" => <<account, rid>> \in done
      BY <2>1, <2>2 DEF Mcp!ReadAnswer, McpAnswered
    <2>6. Mcp!ReadAnswer(Head(inbox[account])) # "late"
      BY DEF Mcp!ReadAnswer
    <2> QED
      BY <1>1, <2>1, <2>3, <2>4, <2>5, <2>6 DEF McpAnswered, Mcp!OwnAnswer
  <1>7. ASSUME NEW a \in Mcp!Accounts, Mcp!Serve(a) PROVE McpAnswered'
    <2> PICK r \in wire[a], noise \in BOOLEAN :
          /\ done' = done \cup {<<a, r>>}
          /\ inbox' = [inbox EXCEPT ![a] = @ \o IF noise THEN <<Mcp!Noise, r>> ELSE <<r>>]
      BY <1>7 DEF Mcp!Serve
    <2> DEFINE line == IF noise THEN <<Mcp!Noise, r>> ELSE <<r>>
    <2>1. r \in Mcp!Requests /\ r \in McpLines /\ Mcp!Noise \in McpLines
          /\ Mcp!Noise \notin Mcp!Requests
      BY DEF McpTyped, Mcp!TypeOK, McpLines, Mcp!Noise, Mcp!Requests, Mcp!Eof
    <2>2. line \in Seq(McpLines) /\ Elems(line) \subseteq {Mcp!Noise, r}
      <3>1. CASE noise
        <4>1. <<Mcp!Noise, r>> \in Seq(McpLines) /\ DOMAIN <<Mcp!Noise, r>> = 1 .. 2
          BY <2>1
        <4> QED
          BY <3>1, <4>1 DEF Elems
      <3>2. CASE ~noise
        <4>1. <<r>> \in Seq(McpLines) /\ DOMAIN <<r>> = 1 .. 1
          BY <2>1
        <4> QED
          BY <3>2, <4>1 DEF Elems
      <3> QED
        BY <3>1, <3>2
    <2> HIDE DEF line
    <2>3. inbox[a] \in Seq(McpLines)
      BY DEF McpTyped
    <2>4. Elems(inbox[a] \o line) \subseteq Elems(inbox[a]) \cup {Mcp!Noise, r}
      BY <2>2, <2>3, ElemsConcat
    <2>5. inbox' = [inbox EXCEPT ![a] = inbox[a] \o line] /\ UNCHANGED result
      BY <1>7 DEF Mcp!Serve, line
    <2>6. ASSUME NEW b \in Mcp!Accounts, NEW q \in Mcp!Requests, q \in Elems(inbox'[b])
          PROVE  <<b, q>> \in done'
      <3>1. CASE b = a
        <4>1. q \in Elems(inbox[a]) \/ q = r
          BY <2>1, <2>4, <2>5, <2>6, <3>1 DEF McpTyped
        <4> QED
          BY <3>1, <4>1 DEF McpAnswered
      <3>2. CASE b # a
        BY <2>5, <2>6, <3>2 DEF McpTyped, McpAnswered
      <3> QED
        BY <3>1, <3>2
    <2> QED
      BY <2>5, <2>6 DEF McpAnswered, Mcp!OwnAnswer
  <1>8. ASSUME NEW a \in Mcp!Accounts, Mcp!Die(a) PROVE McpAnswered'
    <2>1. inbox[a] \in Seq(McpLines) /\ Mcp!Eof \notin Mcp!Requests /\ Mcp!Eof \in McpLines
      BY DEF McpTyped, Mcp!Eof, Mcp!Requests, McpLines
    <2>2. <<Mcp!Eof>> \in Seq(McpLines) /\ Elems(<<Mcp!Eof>>) \subseteq {Mcp!Eof}
      <3>1. <<Mcp!Eof>> \in Seq(McpLines) /\ DOMAIN <<Mcp!Eof>> = 1 .. 1
        BY <2>1
      <3> QED
        BY <3>1 DEF Elems
    <2>3. Append(inbox[a], Mcp!Eof) = inbox[a] \o <<Mcp!Eof>>
      BY <2>1
    <2>4. Elems(inbox[a] \o <<Mcp!Eof>>) \subseteq Elems(inbox[a]) \cup {Mcp!Eof}
      BY <2>1, <2>2, ElemsConcat
    <2>5. inbox' = [inbox EXCEPT ![a] = Append(inbox[a], Mcp!Eof)] /\ UNCHANGED <<result, done>>
      BY <1>8 DEF Mcp!Die
    <2>6. ASSUME NEW b \in Mcp!Accounts, NEW q \in Mcp!Requests, q \in Elems(inbox'[b])
          PROVE  q \in Elems(inbox[b])
      <3>1. CASE b = a
        BY <2>1, <2>3, <2>4, <2>5, <2>6, <3>1 DEF McpTyped
      <3>2. CASE b # a
        BY <2>5, <2>6, <3>2 DEF McpTyped
      <3> QED
        BY <3>1, <3>2
    <2> QED
      BY <2>5, <2>6 DEF McpAnswered, Mcp!OwnAnswer
  <1> QED
    BY <1>2, <1>3, <1>4, <1>5, <1>6, <1>7, <1>8 DEF Mcp!Next

\* An answer is the answer of its own request, which was carried out, whatever
\* came late, out of order or mixed with notifications.
THEOREM McpOwnAnswer ==
  ASSUME Servers \in Nat, MaxRequests \in Nat PROVE Mcp!Spec => []Mcp!OwnAnswer
  <1>1. Mcp!Init => McpAnswered
    BY DEF Mcp!Init, McpAnswered, Mcp!OwnAnswer, Elems
  <1>2. McpAnswered => Mcp!OwnAnswer
    BY DEF McpAnswered
  <1> QED
    BY <1>1, <1>2, McpTypedInit, McpTypedStep, McpAnsweredStep, PTL DEF Mcp!Spec

-----------------------------------------------------------------------------
(* The conversations, for any number of calls and crashes of one caller.  Between its
   load and its replacement nothing but its own temporary changes, so what it has loaded
   is still what the file holds, and what it puts in the file's place is the file with
   the one change. *)

\* One caller at a time.
OneCaller == \A c, d \in Callers : c = d

\* threads.json is whole and is not the temporary; a call has made its copy of what is
\* there, and the file it has open is the temporary, which nobody else touches.
ChatFiles ==
  /\ ~torn[file] /\ tmp # file /\ file <= ops
  /\ tmp # None => tmp <= ops
  /\ \A c \in Callers : cAt[c] # "idle" =>
       /\ call[c] \in Chat!Calls /\ file < call[c].n /\ call[c].n <= ops
       /\ copy[c] = Chat!Changed(call[c], content[file])
       /\ cAt[c] \in {"opened", "written"} => tmp = inode[c] /\ alone[c]
       /\ cAt[c] = "written" => ~torn[inode[c]] /\ content[inode[c]] = copy[c]
\* What a call goes by is still so.
ChatCalls ==
  \A c \in Callers : cAt[c] # "idle" =>
    LET k == call[c] IN
    /\ k.op = "create" => /\ content[file][k.thread] = None /\ k.thread \notin deleted
                          /\ \A m \in 1 .. MaxOps : <<k.thread, m>> \notin turns
    /\ k.op = "append" => content[file][k.thread] # None
    /\ k.op = "delete" => k.thread \in deleted
ChatTurns ==
  \A x \in turns :
    \/ x[1] \in deleted
    \/ content[file][x[1]] # None /\ \E i \in DOMAIN content[file][x[1]] : content[file][x[1]][i] = x[2]
ChatInv == Chat!TypeOK /\ ChatFiles /\ ChatCalls /\ ChatTurns

LEMMA ChatNone == None \notin Seq(1 .. MaxOps) /\ None \notin Nat
  <1>1. None \notin Nat /\ None \notin Seq(Nat) BY LabAssumption
  <1>2. 1 .. MaxOps \subseteq Nat BY LabAssumption
  <1> QED BY <1>1, <1>2, SeqMonotonic

LEMMA ChatDocs ==
  ASSUME NEW k \in Chat!Calls, NEW doc \in Chat!Docs, k.op = "append" => doc[k.thread] # None
  PROVE  /\ Chat!Changed(k, doc) \in Chat!Docs
         /\ \A t \in Threads \ {k.thread} : Chat!Changed(k, doc)[t] = doc[t]
         /\ k.op = "create" => Chat!Changed(k, doc)[k.thread] = <<>>
         /\ k.op = "delete" => Chat!Changed(k, doc)[k.thread] = None
         /\ k.op = "append" => Chat!Changed(k, doc)[k.thread] = Append(doc[k.thread], k.n)
  <1>1. /\ k.n \in 1 .. MaxOps /\ k.thread \in Threads /\ k.op \in {"create", "append", "delete"}
        /\ \A t \in Threads : doc[t] \in Seq(1 .. MaxOps) \cup {None}
        /\ DOMAIN doc = Threads
    BY DEF Chat!Calls, Chat!Docs
  <1>2. CASE k.op = "create"
    <2>1. Chat!Changed(k, doc) = [doc EXCEPT ![k.thread] = <<>>] BY <1>2 DEF Chat!Changed
    <2> QED BY <1>1, <1>2, <2>1 DEF Chat!Docs
  <1>3. CASE k.op = "append"
    <2>1. Chat!Changed(k, doc) = [doc EXCEPT ![k.thread] = Append(doc[k.thread], k.n)]
      BY <1>3 DEF Chat!Changed
    <2>2. doc[k.thread] \in Seq(1 .. MaxOps) BY <1>1, <1>3
    <2>3. Append(doc[k.thread], k.n) \in Seq(1 .. MaxOps) BY <1>1, <2>2
    <2> QED BY <1>1, <1>3, <2>1, <2>3 DEF Chat!Docs
  <1>4. CASE k.op = "delete"
    <2>1. Chat!Changed(k, doc) = [doc EXCEPT ![k.thread] = None] BY <1>4 DEF Chat!Changed
    <2> QED BY <1>1, <1>4, <2>1 DEF Chat!Docs
  <1> QED BY <1>1, <1>2, <1>3, <1>4

LEMMA ChatStarts == ASSUME Chat!Init PROVE ChatInv
  <1> USE LabAssumption DEF Chat!Init
  <1>1. Chat!Empty \in Chat!Docs BY DEF Chat!Empty, Chat!Docs
  <1>2. 0 \in Chat!Inodes /\ Chat!Inodes = 0 .. MaxOps BY DEF Chat!Inodes
  <1>3. Chat!TypeOK BY <1>1, <1>2 DEF Chat!TypeOK
  <1>4. ChatFiles BY <1>2 DEF ChatFiles
  <1> QED BY <1>3, <1>4 DEF ChatInv, ChatCalls, ChatTurns

LEMMA ChatBegins ==
  ASSUME ChatInv, OneCaller, NEW c \in Callers, Chat!Begin(c) PROVE ChatInv'
  <1> USE LabAssumption DEF ChatInv
  <1>1. PICK op \in {"create", "append", "delete"}, t \in Threads :
          LET k == [n |-> ops + 1, op |-> op, thread |-> t] IN
          /\ op = "create" => /\ Chat!Loaded[t] = None /\ t \notin deleted
                              /\ \A m \in 1 .. MaxOps : <<t, m>> \notin turns
          /\ op = "append" => Chat!Loaded[t] # None
          /\ call' = [call EXCEPT ![c] = k]
          /\ copy' = [copy EXCEPT ![c] = Chat!Changed(k, Chat!Loaded)]
          /\ deleted' = IF op = "delete" THEN deleted \cup {t} ELSE deleted
    BY DEF Chat!Begin
  <1> DEFINE k == [n |-> ops + 1, op |-> op, thread |-> t]
  <1>2. /\ cAt[c] = "idle" /\ ops < MaxOps /\ ops' = ops + 1 /\ cAt' = [cAt EXCEPT ![c] = "loaded"]
        /\ UNCHANGED <<content, torn, file, tmp, inode, alone, turns>>
    BY DEF Chat!Begin
  <1>3. ops \in 0 .. MaxOps /\ MaxOps \in Nat /\ k \in Chat!Calls /\ k.n = ops + 1
    BY <1>2 DEF Chat!TypeOK, Chat!Calls
  <1>4. /\ Chat!Loaded = content[file] /\ content[file] \in Chat!Docs
        /\ file \in Chat!Inodes /\ file <= ops /\ ~torn[file]
    BY DEF Chat!Loaded, ChatFiles, Chat!TypeOK
  <1>5. Chat!Changed(k, content[file]) \in Chat!Docs BY <1>1, <1>3, <1>4, ChatDocs
  <1>6. \A d \in Callers : d = c BY DEF OneCaller
  <1>7. /\ call' = [call EXCEPT ![c] = k] /\ copy' = [copy EXCEPT ![c] = Chat!Changed(k, content[file])]
        /\ deleted' = IF op = "delete" THEN deleted \cup {t} ELSE deleted
        /\ op = "create" => /\ content[file][t] = None /\ t \notin deleted
                            /\ \A m \in 1 .. MaxOps : <<t, m>> \notin turns
        /\ op = "append" => content[file][t] # None
    BY <1>1, <1>4
  <1>8. k.op = op /\ k.thread = t OBVIOUS
  <1> HIDE DEF k
  <1>9. Chat!TypeOK'
    <2>1. call' \in [Callers -> Chat!Calls \cup {None}] BY <1>3, <1>7 DEF Chat!TypeOK
    <2>2. copy' \in [Callers -> Chat!Docs] BY <1>5, <1>7 DEF Chat!TypeOK
    <2>3. cAt' \in [Callers -> {"idle", "loaded", "opened", "written"}] BY <1>2 DEF Chat!TypeOK
    <2>4. ops' \in 0 .. MaxOps BY <1>2, <1>3
    <2>5. deleted' \subseteq Threads BY <1>7 DEF Chat!TypeOK
    <2> QED BY <1>2, <2>1, <2>2, <2>3, <2>4, <2>5 DEF Chat!TypeOK
  <1>10. cAt'[c] = "loaded" /\ call'[c] = k /\ copy'[c] = Chat!Changed(k, content[file])
    BY <1>2, <1>7 DEF Chat!TypeOK
  <1>12. ChatFiles'
    <2>1. /\ file' < k.n /\ k.n <= ops' /\ file' <= ops' /\ tmp' # file'
          /\ (tmp # None => tmp <= ops')
      BY <1>2, <1>3, <1>4 DEF ChatFiles, Chat!Inodes, Chat!TypeOK
    <2>2. cAt'[c] # "idle" /\ cAt'[c] \notin {"opened", "written"} BY <1>10
    <2>3. copy'[c] = Chat!Changed(call'[c], content'[file']) BY <1>2, <1>10
    <2>4. call'[c] \in Chat!Calls /\ file' < call'[c].n /\ call'[c].n <= ops'
      BY <1>3, <1>10, <2>1
    <2>5. ~torn'[file'] /\ tmp' # file' /\ file' <= ops' /\ (tmp' # None => tmp' <= ops')
      BY <1>2, <1>4, <2>1
    <2> QED BY <1>6, <2>2, <2>3, <2>4, <2>5 DEF ChatFiles
  <1>13. ChatCalls' BY <1>2, <1>6, <1>7, <1>8, <1>10 DEF ChatCalls
  <1>14. ChatTurns' BY <1>2, <1>7 DEF ChatTurns
  <1> QED BY <1>9, <1>12, <1>13, <1>14

LEMMA ChatOpens ==
  ASSUME ChatInv, OneCaller, NEW c \in Callers, Chat!Open(c) PROVE ChatInv'
  <1> USE LabAssumption DEF ChatInv
  <1> DEFINE i == IF tmp = None THEN call[c].n ELSE tmp
  <1>1. /\ cAt[c] = "loaded" /\ cAt' = [cAt EXCEPT ![c] = "opened"]
        /\ tmp' = i /\ torn' = [torn EXCEPT ![i] = TRUE] /\ inode' = [inode EXCEPT ![c] = i]
        /\ alone' = [d \in Callers |->
                      IF d = c THEN \A e \in Callers \ {c} : ~(cAt[e] = "opened" /\ inode[e] = i)
                      ELSE alone[d] /\ inode[d] # i]
        /\ UNCHANGED <<content, file, call, copy, ops, turns, deleted>>
    BY DEF Chat!Open
  <1>2. \A d \in Callers : d = c BY DEF OneCaller
  <1>3. /\ call[c] \in Chat!Calls /\ file < call[c].n /\ ~torn[file] /\ tmp # file
        /\ file \in Chat!Inodes /\ MaxOps \in Nat
    BY <1>1 DEF ChatFiles, Chat!TypeOK
  <1>4. i \in Chat!Inodes /\ i # file /\ i <= ops /\ i # None
    <2>1. CASE tmp = None
      <3>1. i = call[c].n /\ call[c].n \in 1 .. MaxOps /\ call[c].n <= ops
        BY <1>1, <1>3, <2>1 DEF ChatFiles, Chat!Calls
      <3> QED BY <1>3, <3>1, ChatNone DEF Chat!Inodes
    <2>2. CASE tmp # None
      BY <1>3, <2>2 DEF ChatFiles, Chat!TypeOK
    <2> QED BY <2>1, <2>2
  <1> HIDE DEF i
  <1>5. alone'[c] = TRUE /\ alone' \in [Callers -> BOOLEAN] BY <1>1, <1>2
  <1>6. Chat!TypeOK' BY <1>1, <1>4, <1>5 DEF Chat!TypeOK
  <1>7. cAt'[c] = "opened" /\ inode'[c] = i /\ torn'[file] = torn[file]
    BY <1>1, <1>3, <1>4 DEF Chat!TypeOK
  <1>8. ChatFiles' BY <1>1, <1>2, <1>3, <1>4, <1>5, <1>7 DEF ChatFiles
  <1>9. ChatCalls' BY <1>1, <1>2 DEF ChatCalls
  <1>10. ChatTurns' BY <1>1 DEF ChatTurns
  <1> QED BY <1>6, <1>8, <1>9, <1>10

LEMMA ChatWrites ==
  ASSUME ChatInv, OneCaller, NEW c \in Callers, Chat!Write(c) PROVE ChatInv'
  <1> USE LabAssumption DEF ChatInv
  <1>1. PICK mixed \in BOOLEAN :
          /\ mixed => ~alone[c]
          /\ torn' = [torn EXCEPT ![inode[c]] = mixed]
    BY DEF Chat!Write
  <1>2. /\ cAt[c] = "opened" /\ cAt' = [cAt EXCEPT ![c] = "written"]
        /\ content' = [content EXCEPT ![inode[c]] = copy[c]]
        /\ UNCHANGED <<file, tmp, call, copy, inode, alone, ops, turns, deleted>>
    BY DEF Chat!Write
  <1>3. \A d \in Callers : d = c BY DEF OneCaller
  <1>4. tmp = inode[c] /\ alone[c] /\ tmp # file /\ ~mixed BY <1>1, <1>2 DEF ChatFiles
  <1>5. inode[c] \in Chat!Inodes /\ copy[c] \in Chat!Docs BY DEF Chat!TypeOK
  <1>6. /\ content'[file] = content[file] /\ torn'[file] = torn[file]
        /\ content'[inode[c]] = copy[c] /\ torn'[inode[c]] = FALSE /\ cAt'[c] = "written"
    BY <1>1, <1>2, <1>4, <1>5 DEF Chat!TypeOK
  <1>7. Chat!TypeOK' BY <1>1, <1>2, <1>5 DEF Chat!TypeOK
  <1>8. ChatFiles' BY <1>2, <1>3, <1>4, <1>6 DEF ChatFiles
  <1>9. ChatCalls' BY <1>2, <1>3, <1>6 DEF ChatCalls
  <1>10. ChatTurns' BY <1>2, <1>6 DEF ChatTurns
  <1> QED BY <1>7, <1>8, <1>9, <1>10

LEMMA ChatReplaces ==
  ASSUME ChatInv, OneCaller, NEW c \in Callers, Chat!Replace(c)
  PROVE  ChatInv' /\ \A t \in deleted : content[file][t] = None => content'[file'][t] = None
  <1> USE LabAssumption DEF ChatInv
  <1> DEFINE k == call[c]
  <1>1. /\ cAt[c] = "written" /\ cAt' = [cAt EXCEPT ![c] = "idle"]
        /\ call' = [call EXCEPT ![c] = None]
        /\ UNCHANGED <<content, torn, copy, inode, alone, ops, deleted>>
    BY DEF Chat!Replace
  <1>2. \A d \in Callers : d = c BY DEF OneCaller
  <1>3. /\ k \in Chat!Calls /\ file < k.n /\ copy[c] = Chat!Changed(k, content[file])
        /\ tmp = inode[c] /\ ~torn[inode[c]] /\ content[inode[c]] = copy[c] /\ tmp # file
    BY <1>1 DEF ChatFiles
  <1>4. inode[c] \in Chat!Inodes /\ tmp # None /\ content[file] \in Chat!Docs
    BY <1>3 DEF Chat!TypeOK, Chat!Inodes
  <1>5. /\ file' = tmp /\ tmp' = None
        /\ turns' = IF k.op = "append" THEN turns \cup {<<k.thread, k.n>>} ELSE turns
    BY <1>4 DEF Chat!Replace
  <1>6. /\ k.op = "create" => /\ content[file][k.thread] = None /\ k.thread \notin deleted
                              /\ \A m \in 1 .. MaxOps : <<k.thread, m>> \notin turns
        /\ k.op = "append" => content[file][k.thread] # None
        /\ k.op = "delete" => k.thread \in deleted
    BY <1>1 DEF ChatCalls
  <1>7. k.n \in 1 .. MaxOps /\ k.thread \in Threads /\ k.op \in {"create", "append", "delete"}
    BY <1>3 DEF Chat!Calls
  <1> DEFINE doc == content[file]
  <1>8. content'[file'] = Chat!Changed(k, doc) /\ ~torn'[file']
    BY <1>1, <1>3, <1>5
  <1>9. /\ Chat!Changed(k, doc) \in Chat!Docs
        /\ \A t \in Threads \ {k.thread} : Chat!Changed(k, doc)[t] = doc[t]
        /\ k.op = "create" => Chat!Changed(k, doc)[k.thread] = <<>>
        /\ k.op = "delete" => Chat!Changed(k, doc)[k.thread] = None
        /\ k.op = "append" => Chat!Changed(k, doc)[k.thread] = Append(doc[k.thread], k.n)
    BY <1>3, <1>4, <1>6, ChatDocs
  <1>10. Chat!TypeOK'
    <2>1. turns' \subseteq Threads \X (1 .. MaxOps) BY <1>5, <1>7 DEF Chat!TypeOK
    <2>2. cAt' \in [Callers -> {"idle", "loaded", "opened", "written"}] BY <1>1 DEF Chat!TypeOK
    <2>3. call' \in [Callers -> Chat!Calls \cup {None}] BY <1>1 DEF Chat!TypeOK
    <2>4. file' \in Chat!Inodes /\ tmp' = None BY <1>3, <1>4, <1>5
    <2> QED BY <1>1, <2>1, <2>2, <2>3, <2>4 DEF Chat!TypeOK
  <1>11. cAt'[c] = "idle" BY <1>1 DEF Chat!TypeOK
  <1>12. ChatFiles'
    <2>1. file' <= ops' /\ tmp' = None /\ tmp' # file'
      BY <1>1, <1>3, <1>4, <1>5, ChatNone DEF ChatFiles, Chat!Inodes
    <2> QED BY <1>2, <1>8, <1>11, <2>1 DEF ChatFiles
  <1>13. ChatCalls' BY <1>2, <1>11 DEF ChatCalls
  <1>14. ChatTurns'
    <2> SUFFICES ASSUME NEW x \in turns', x[1] \notin deleted
                 PROVE  /\ content'[file'][x[1]] # None
                        /\ \E i \in DOMAIN content'[file'][x[1]] : content'[file'][x[1]][i] = x[2]
      BY <1>1 DEF ChatTurns
    <2>1. CASE x \in turns /\ x[1] # k.thread
      <3>1. x[1] \in Threads BY <2>1 DEF Chat!TypeOK
      <3>2. content'[file'][x[1]] = doc[x[1]] BY <1>8, <1>9, <2>1, <3>1
      <3> QED BY <2>1, <3>2 DEF ChatTurns
    <2>2. CASE x \in turns /\ x[1] = k.thread
      <3>1. x[2] \in 1 .. MaxOps /\ x = <<x[1], x[2]>> BY <2>2 DEF Chat!TypeOK
      <3>2. k.op = "append" BY <1>6, <1>7, <2>2, <3>1
      <3>3. doc[k.thread] # None /\ \E i \in DOMAIN doc[k.thread] : doc[k.thread][i] = x[2]
        BY <2>2 DEF ChatTurns
      <3>4. doc[k.thread] \in Seq(1 .. MaxOps) BY <1>4, <1>7, <3>3 DEF Chat!Docs
      <3>5. PICK i \in DOMAIN doc[k.thread] : doc[k.thread][i] = x[2] BY <3>3
      <3>6. i \in DOMAIN Append(doc[k.thread], k.n) /\ Append(doc[k.thread], k.n)[i] = x[2]
        BY <3>4, <3>5
      <3>7. Append(doc[k.thread], k.n) \in Seq(1 .. MaxOps) BY <1>7, <3>4
      <3>8. content'[file'][k.thread] = Append(doc[k.thread], k.n) BY <1>8, <1>9, <3>2
      <3>9. content'[file'][k.thread] # None BY <3>7, <3>8, ChatNone
      <3> QED BY <2>2, <3>6, <3>8, <3>9
    <2>3. CASE x \notin turns
      <3>1. x = <<k.thread, k.n>> /\ k.op = "append" BY <1>5, <2>3
      <3>2. doc[k.thread] # None BY <1>6, <3>1
      <3>4. doc[k.thread] \in Seq(1 .. MaxOps) BY <1>4, <1>7, <3>2 DEF Chat!Docs
      <3>7. /\ Append(doc[k.thread], k.n) \in Seq(1 .. MaxOps)
            /\ Len(doc[k.thread]) + 1 \in DOMAIN Append(doc[k.thread], k.n)
            /\ Append(doc[k.thread], k.n)[Len(doc[k.thread]) + 1] = k.n
        BY <1>7, <3>4
      <3>8. content'[file'][k.thread] = Append(doc[k.thread], k.n) BY <1>8, <1>9, <3>1
      <3>9. content'[file'][k.thread] # None BY <3>7, <3>8, ChatNone
      <3> QED BY <3>1, <3>7, <3>8, <3>9
    <2> QED BY <2>1, <2>2, <2>3
  <1>15. ASSUME NEW t \in deleted, content[file][t] = None PROVE content'[file'][t] = None
    <2>1. t \in Threads BY DEF Chat!TypeOK
    <2> QED BY <1>6, <1>7, <1>8, <1>9, <1>15, <2>1
  <1> QED BY <1>10, <1>12, <1>13, <1>14, <1>15

LEMMA ChatCrashes == ASSUME ChatInv, Chat!Crash PROVE ChatInv'
  <1> USE LabAssumption DEF ChatInv
  <1>1. /\ cAt' = [c \in Callers |-> "idle"] /\ call' = [c \in Callers |-> None]
        /\ UNCHANGED <<content, torn, file, tmp, copy, inode, alone, ops, turns, deleted>>
    BY DEF Chat!Crash
  <1>2. Chat!TypeOK' BY <1>1 DEF Chat!TypeOK
  <1>3. ChatFiles' BY <1>1 DEF ChatFiles
  <1>4. ChatCalls' BY <1>1 DEF ChatCalls
  <1>5. ChatTurns' BY <1>1 DEF ChatTurns
  <1> QED BY <1>2, <1>3, <1>4, <1>5

LEMMA ChatStep ==
  ASSUME ChatInv, OneCaller, [Chat!Next]_(Chat!vars)
  PROVE  ChatInv' /\ \A t \in deleted : content[file][t] = None => content'[file'][t] = None
  <1>1. CASE UNCHANGED Chat!vars
    BY <1>1 DEF ChatInv, Chat!vars, Chat!TypeOK, ChatFiles, ChatCalls, ChatTurns
  <1>2. CASE Chat!Crash
    BY <1>2, ChatCrashes DEF Chat!Crash
  <1>3. CASE \E c \in Callers : Chat!Begin(c)
    BY <1>3, ChatBegins DEF Chat!Begin
  <1>4. CASE \E c \in Callers : Chat!Open(c)
    BY <1>4, ChatOpens DEF Chat!Open
  <1>5. CASE \E c \in Callers : Chat!Write(c)
    <2>1. PICK c \in Callers : Chat!Write(c) BY <1>5
    <2>2. /\ tmp = inode[c] /\ tmp # file /\ content' = [content EXCEPT ![inode[c]] = copy[c]]
          /\ file' = file
      BY <2>1 DEF Chat!Write, ChatInv, ChatFiles
    <2> QED BY <2>1, <2>2, ChatWrites DEF ChatInv, Chat!TypeOK
  <1>6. CASE \E c \in Callers : Chat!Replace(c)
    BY <1>6, ChatReplaces
  <1> QED BY <1>1, <1>2, <1>3, <1>4, <1>5, <1>6 DEF Chat!Next

LEMMA ChatHolds == ASSUME ChatInv PROVE Chat!TypeOK /\ Chat!WholeFile /\ Chat!TurnsKept
  <1>1. Chat!Loaded = content[file] BY DEF ChatInv, ChatFiles, Chat!Loaded
  <1>2. ASSUME NEW x \in turns, x[1] \notin deleted
        PROVE  content[file][x[1]] # None /\ Chat!Contains(content[file][x[1]], x[2])
    <2>1. /\ content[file][x[1]] # None
          /\ \E i \in DOMAIN content[file][x[1]] : content[file][x[1]][i] = x[2]
      BY <1>2 DEF ChatInv, ChatTurns
    <2>2. content[file][x[1]] \in Seq(1 .. MaxOps)
      BY <2>1 DEF ChatInv, Chat!TypeOK, Chat!Docs
    <2>3. DOMAIN content[file][x[1]] = 1 .. Len(content[file][x[1]]) BY <2>2
    <2> QED BY <2>1, <2>3 DEF Chat!Contains
  <1> QED BY <1>1, <1>2 DEF ChatInv, ChatFiles, Chat!WholeFile, Chat!TurnsKept

-----------------------------------------------------------------------------
(* The page, for any number of agents, conversations, runs, clicks and requests.  The
   invariant is about the requests on the wire: while the page is calm a request that
   starts a run is alone on it, all are about the selected agent, a deletion is in front
   of what it could disturb, and whatever the page does not show yet it has asked for. *)

\* Requests as the page makes and the server answers them.
RequestKinds == {"threads", "open", "refresh", "new", "run", "stop", "delete", "preview"}
Reads == {"open", "refresh"}
Starts == {"new", "run"}
Replies == (SUBSET Chats) \cup Nat \cup BOOLEAN \cup Chats \cup PageRuns \cup {None}
Names == Chats \cup PageRuns \cup {None}
Marks == PageRuns \cup {None}
Requests ==
  [kind : RequestKinds, agent : Agents, id : Names, run : Marks,
   served : BOOLEAN, answer : Replies]
Proper(q) ==
  /\ q.kind \in Reads   => q.id \in Chats /\ (q.served => q.answer \in Nat)
  /\ q.kind = "delete"  => q.id \in Chats
  /\ q.kind = "run"     => q.id \in Chats /\ (q.served => q.answer \in PageRuns \cup {None})
  /\ q.kind = "new"     => (q.served => q.answer \in Chats)
  /\ q.kind = "preview" => q.run \in PageRuns /\ (q.served => q.answer \in BOOLEAN)
  /\ q.kind = "threads" => (q.served => q.answer \subseteq Chats)
  /\ q.kind = "stop"    => q.id \in PageRuns /\ q.run = None
GoodWire(w) == w \in Seq(Requests) /\ \A i \in DOMAIN w : Proper(w[i])
WebTypes ==
  /\ agent \in Agents /\ thread \in Chats \cup {None} /\ run \in PageRuns \cup {None}
  /\ stream \in PageRuns \cup {None} /\ locked \in BOOLEAN /\ resumed \in BOOLEAN
  /\ (drawn = None \/ drawn \in [agent : Agents, id : Chats, n : Nat])
  /\ (list = None \/ list \in [agent : Agents, ids : SUBSET Chats])
  /\ feed \subseteq PageRuns /\ panes \subseteq [run : PageRuns, agent : Agents]
  /\ streams \subseteq PageRuns /\ pos \in [PageRuns -> 0 .. 3]
  /\ kept \in [Agents -> [Chats -> Nat \cup {None}]] /\ used \subseteq Chats
  /\ phase \in [PageRuns -> {"none", "running", "ended", "over"}]
  /\ owner \in [PageRuns -> Web!Conversation \cup {None}]
  /\ calm \in BOOLEAN /\ clicks \in 0 .. MaxClicks
  /\ lost \subseteq PageRuns /\ halted \subseteq PageRuns
  /\ locked = (run # None)
PageTyped ==
  /\ WebTypes /\ GoodWire(wired)
  /\ \A r \in PageRuns : phase[r] # "none" => owner[r] \in Web!Conversation

\* What the page and its requests are about, as long as it is calm.
PageAsks ==
  /\ \A i \in DOMAIN wired :
       /\ wired[i].agent = agent
       /\ wired[i].kind \in Starts => Len(wired) = 1 /\ run = None
       /\ wired[i].kind = "delete" => i = 1
  /\ \A i, j \in DOMAIN wired : wired[i].kind = "delete" => wired[j].kind \notin {"threads", "open"}
PageRun ==
  /\ stream = run /\ streams = IF run = None THEN {} ELSE {run}
  /\ \A r \in PageRuns : phase[r] \in {"running", "ended"} =>
       run = r \/ \E i \in DOMAIN wired : wired[i].kind = "run" /\ wired[i].served /\ wired[i].answer = r
PageStarts ==
  /\ lost = {}
  /\ \A i \in DOMAIN wired :
       /\ wired[i].kind = "run" => /\ wired[i].id = thread /\ wired[i].id \in Web!Ids(agent)
                                   /\ wired[i].served => wired[i].answer # None
       /\ wired[i].kind = "new" /\ wired[i].served => wired[i].answer \in Web!Ids(agent)
Leaving == wired # <<>> /\ wired[1].kind = "delete" /\ wired[1].id = thread
PageThread == thread \in Web!Ids(agent) \cup {None} \/ Leaving
PageList ==
  /\ \A i \in DOMAIN wired : wired[i].kind = "threads" /\ wired[i].served =>
       wired[i].answer \subseteq Web!Ids(agent)
  /\ (list # None => list.agent = agent /\ list.ids \subseteq Web!Ids(agent))
     \/ \E i \in DOMAIN wired : wired[i].kind \in Reads \cup {"threads", "delete"}
Reading(i) ==
  /\ wired[i].kind \in Reads /\ wired[i].id = thread
  /\ wired[i].served => wired[i].answer = kept[agent][thread]
  /\ \A j \in DOMAIN wired : j > i => wired[j].kind \notin Reads
PageShows ==
  \/ thread = None \/ run # None \/ Leaving
  \/ \E i \in DOMAIN wired : wired[i].kind \in Starts
  \/ \E i \in DOMAIN wired : Reading(i)
  \/ /\ drawn = [agent |-> agent, id |-> thread, n |-> kept[agent][thread]]
     /\ \A i \in DOMAIN wired : wired[i].kind \notin Reads
Previews == {i \in DOMAIN wired : wired[i].kind = "preview"}
PageFeed ==
  LET all_ == feed \cup {p.run : p \in panes} \cup {wired[i].run : i \in Previews} IN
  /\ \A r, s \in all_ : r = s
  /\ run # None => all_ \subseteq {run}
  /\ \A i \in DOMAIN wired : wired[i].kind = "run" => feed = {} /\ panes = {}
Calm == /\ PageAsks /\ PageRun /\ PageStarts /\ PageThread /\ PageList /\ PageShows /\ PageFeed
PageInv == PageTyped /\ (calm => Calm)

LEMMA Appended ==
  ASSUME NEW w, GoodWire(w), NEW q \in Requests, Proper(q)
  PROVE  /\ GoodWire(Append(w, q)) /\ Len(w) \in Nat /\ DOMAIN w = 1 .. Len(w)
         /\ DOMAIN Append(w, q) = 1 .. Len(w) + 1 /\ Len(Append(w, q)) = Len(w) + 1
         /\ \A i \in DOMAIN w : Append(w, q)[i] = w[i]
         /\ Append(w, q)[Len(w) + 1] = q
  <1>1. w \in Seq(Requests) BY DEF GoodWire
  <1>2. /\ Append(w, q) \in Seq(Requests) /\ Len(w) \in Nat /\ DOMAIN w = 1 .. Len(w)
        /\ DOMAIN Append(w, q) = 1 .. Len(w) + 1 /\ Len(Append(w, q)) = Len(w) + 1
        /\ \A i \in DOMAIN w : Append(w, q)[i] = w[i]
        /\ Append(w, q)[Len(w) + 1] = q
    BY <1>1
  <1>3. ASSUME NEW i \in DOMAIN Append(w, q) PROVE Proper(Append(w, q)[i])
    <2>1. CASE i = Len(w) + 1 BY <1>2, <2>1
    <2>2. CASE i # Len(w) + 1
      <3>1. i \in DOMAIN w BY <1>2, <2>2
      <3> QED BY <1>2, <3>1 DEF GoodWire
    <2> QED BY <2>1, <2>2
  <1> QED BY <1>2, <1>3 DEF GoodWire

LEMMA Removed ==
  ASSUME NEW w, GoodWire(w), NEW i \in DOMAIN w
  PROVE  /\ GoodWire(Web!RemoveAt(w, i)) /\ Len(w) \in Nat \ {0} /\ DOMAIN w = 1 .. Len(w)
         /\ i = 1 => /\ DOMAIN Web!RemoveAt(w, i) = 1 .. Len(w) - 1
                     /\ Len(Web!RemoveAt(w, i)) = Len(w) - 1
                     /\ \A j \in 1 .. Len(w) - 1 : Web!RemoveAt(w, i)[j] = w[j + 1]
  <1>1. /\ w \in Seq(Requests) /\ Len(w) \in Nat \ {0} /\ DOMAIN w = 1 .. Len(w) /\ i \in 1 .. Len(w)
    BY DEF GoodWire
  <1> DEFINE a == SubSeq(w, 1, i - 1)
             b == SubSeq(w, i + 1, Len(w))
  <1>2. /\ a \in Seq(Requests) /\ Len(a) = i - 1 /\ \A j \in 1 .. i - 1 : a[j] = w[j]
    BY <1>1
  <1>3. /\ b \in Seq(Requests) /\ Len(b) = Len(w) - i /\ \A j \in 1 .. Len(w) - i : b[j] = w[j + i]
    BY <1>1
  <1> HIDE DEF a, b
  <1>4. /\ a \o b \in Seq(Requests) /\ Len(a \o b) = Len(w) - 1 /\ DOMAIN (a \o b) = 1 .. Len(w) - 1
        /\ \A j \in 1 .. i - 1 : (a \o b)[j] = w[j]
        /\ \A j \in i .. Len(w) - 1 : (a \o b)[j] = w[j + 1]
    <2>1. /\ a \o b \in Seq(Requests) /\ Len(a \o b) = Len(w) - 1
          /\ DOMAIN (a \o b) = 1 .. Len(a) + Len(b)
          /\ \A j \in 1 .. Len(a) + Len(b) : (a \o b)[j] = IF j <= Len(a) THEN a[j] ELSE b[j - Len(a)]
      <3>1. /\ a \o b \in Seq(Requests) /\ Len(a \o b) = Len(a) + Len(b)
            /\ \A j \in 1 .. Len(a) + Len(b) : (a \o b)[j] = IF j <= Len(a) THEN a[j] ELSE b[j - Len(a)]
        BY <1>2, <1>3, ConcatProperties
      <3>2. Len(a) + Len(b) = Len(w) - 1 BY <1>1, <1>2, <1>3
      <3> QED BY <3>1, <3>2, LenProperties
    <2>2. ASSUME NEW j \in i .. Len(w) - 1 PROVE (a \o b)[j] = w[j + 1]
      <3>1. j - Len(a) \in 1 .. Len(w) - i /\ j \in 1 .. Len(a) + Len(b) /\ ~(j <= Len(a))
            /\ j - Len(a) + i = j + 1
        BY <1>1, <1>2, <1>3
      <3>2. (a \o b)[j] = b[j - Len(a)] BY <2>1, <3>1
      <3>3. b[j - Len(a)] = w[j - Len(a) + i] BY <1>3, <3>1
      <3> QED BY <3>1, <3>2, <3>3
    <2> QED BY <1>1, <1>2, <1>3, <2>1, <2>2
  <1>5. Web!RemoveAt(w, i) = a \o b BY DEF Web!RemoveAt, a, b
  <1>6. ASSUME NEW j \in 1 .. Len(w) - 1 PROVE Proper((a \o b)[j])
    <2>1. \/ j \in 1 .. i - 1 /\ j \in DOMAIN w
          \/ j \in i .. Len(w) - 1 /\ j + 1 \in DOMAIN w
      BY <1>1
    <2> QED BY <1>4, <2>1 DEF GoodWire
  <1> QED BY <1>1, <1>4, <1>5, <1>6 DEF GoodWire

LEMMA PageTypeOK == ASSUME PageTyped PROVE Web!TypeOK
  <1>1. ASSUME NEW i \in DOMAIN wired PROVE wired[i].kind \in RequestKinds
    <2>1. wired \in Seq(Requests) BY DEF PageTyped, GoodWire
    <2>2. wired[i] \in Requests BY <1>1, <2>1
    <2> QED BY <2>2 DEF Requests
  <1>2. \A q \in Web!ToSet(wired) : q.kind \in RequestKinds
    BY <1>1 DEF Web!ToSet
  <1> QED BY <1>2 DEF PageTyped, WebTypes, Web!TypeOK, Web!Closed, RequestKinds

LEMMA Nobody ==
  /\ None \notin Nat /\ None \notin Chats /\ None \notin PageRuns /\ MaxClicks \in Nat
  /\ Agents # {} /\ Chats # {}
  BY LabAssumption

\* A request out of an empty wire.
LEMMA First ==
  ASSUME NEW q \in Requests, Proper(q), wired = <<>>
  PROVE  /\ GoodWire(Append(wired, q)) /\ DOMAIN Append(wired, q) = {1} /\ Append(wired, q)[1] = q
         /\ Len(Append(wired, q)) = 1 /\ Append(wired, q) # <<>>
  <1>1. wired \in Seq(Requests) /\ Len(wired) = 0 /\ DOMAIN wired = {} BY EmptySeq
  <1>2. GoodWire(wired) BY <1>1 DEF GoodWire
  <1>3. /\ GoodWire(Append(wired, q)) /\ DOMAIN Append(wired, q) = 1 .. Len(wired) + 1
        /\ Len(Append(wired, q)) = Len(wired) + 1 /\ Append(wired, q)[Len(wired) + 1] = q
    BY <1>2, Appended
  <1>4. 1 .. 1 = {1} OBVIOUS
  <1>5. Append(wired, q) # <<>> BY <1>1, <1>3, EmptySeq
  <1> QED BY <1>1, <1>3, <1>4, <1>5

LEMMA PageStarts1 == ASSUME Web!Init PROVE PageInv
  <1>1. agent \in Agents
    BY Nobody DEF Web!Init
  <1> DEFINE q == Web!Ask("threads", agent, None, None)
  <1>2. q \in Requests /\ q.kind = "threads" /\ q.agent = agent /\ q.served = FALSE
    BY <1>1 DEF Web!Ask, Requests, RequestKinds, Names, Marks, Replies
  <1>3. wired = <<q>> BY DEF Web!Init
  <1> HIDE DEF q
  <1>4. GoodWire(wired) /\ DOMAIN wired = {1} /\ wired[1] = q /\ Len(wired) = 1
    BY <1>2, <1>3 DEF GoodWire, Proper, Reads
  <1>5. WebTypes
    <2>1. used \subseteq Chats BY Nobody DEF Web!Init
    <2>2. kept \in [Agents -> [Chats -> Nat \cup {None}]] BY <2>1 DEF Web!Init
    <2>3. 0 \in 0 .. MaxClicks /\ pos \in [PageRuns -> 0 .. 3] BY Nobody DEF Web!Init
    <2> QED BY <1>1, <2>1, <2>2, <2>3 DEF Web!Init, WebTypes
  <1>6. PageTyped BY <1>4, <1>5 DEF PageTyped, Web!Init
  <1>7. PageAsks BY <1>2, <1>4 DEF PageAsks, Starts
  <1>8. PageRun BY DEF PageRun, Web!Init
  <1>9. PageStarts BY <1>2, <1>4 DEF PageStarts, Web!Init
  <1>10. PageThread /\ PageShows BY DEF PageThread, PageShows, Web!Init
  <1>11. PageList BY <1>2, <1>4 DEF PageList, Web!Init
  <1>12. PageFeed BY <1>2, <1>4 DEF PageFeed, Previews, Web!Init
  <1> QED BY <1>6, <1>7, <1>8, <1>9, <1>10, <1>11, <1>12 DEF PageInv, Calm

\* What a click leaves alone, and that it leaves the page calm only if it was at rest.
LEMMA Clicked ==
  ASSUME PageTyped, Web!Click
  PROVE  /\ kept' = kept /\ used' = used /\ phase' = phase /\ owner' = owner /\ lost' = lost
         /\ halted' = halted /\ calm' \in BOOLEAN /\ clicks' \in 0 .. MaxClicks
         /\ calm' => calm /\ wired = <<>>
  <1>1. /\ UNCHANGED <<kept, used, phase, owner, lost, halted>> /\ clicks < MaxClicks
        /\ clicks' = clicks + 1 /\ calm' = (calm /\ wired = <<>>)
    BY DEF Web!Click, Web!server, Web!Quiet
  <1>2. clicks' \in 0 .. MaxClicks BY <1>1, Nobody DEF PageTyped, WebTypes
  <1> QED BY <1>1, <1>2

LEMMA SelectAgentKeeps == ASSUME PageInv, NEW a \in Agents, Web!SelectAgent(a) PROVE PageInv'
  <1> USE DEF PageInv
  <1> DEFINE q == Web!Ask("threads", a, None, None)
  <1>1. /\ agent' = a /\ wired' = Append(wired, q)
        /\ \/ thread # None /\ thread' = None /\ drawn' = None /\ feed' = {}
           \/ thread = None /\ UNCHANGED <<thread, drawn, feed>>
        /\ UNCHANGED <<run, locked, resumed, stream, list, panes, streams, pos>>
    BY DEF Web!SelectAgent, Web!NewChatThen
  <1>2. /\ kept' = kept /\ used' = used /\ phase' = phase /\ owner' = owner /\ lost' = lost
        /\ halted' = halted /\ calm' \in BOOLEAN /\ clicks' \in 0 .. MaxClicks
        /\ calm' => calm /\ wired = <<>>
    BY Clicked DEF Web!SelectAgent
  <1>3. q \in Requests /\ q.kind = "threads" /\ q.agent = a /\ q.served = FALSE
    BY DEF Web!Ask, Requests, RequestKinds, Names, Marks, Replies
  <1>4. Proper(q) BY <1>3 DEF Proper, Reads
  <1> HIDE DEF q
  <1>5. GoodWire(wired') BY <1>1, <1>3, <1>4, Appended DEF PageTyped
  <1>6. PageTyped' BY <1>1, <1>2, <1>5 DEF PageTyped, WebTypes
  <1> SUFFICES ASSUME calm' PROVE Calm'
    BY <1>6
  <1>7. Calm /\ wired = <<>> BY <1>2
  <1>8. DOMAIN wired' = {1} /\ wired'[1] = q /\ Len(wired') = 1
    BY <1>1, <1>3, <1>4, <1>7, First
  <1>9. PageAsks' BY <1>1, <1>3, <1>8 DEF PageAsks, Starts
  <1>10. PageRun' BY <1>1, <1>2, <1>7 DEF PageRun, Calm
  <1>11. PageStarts' BY <1>2, <1>3, <1>7, <1>8 DEF PageStarts, Calm
  <1>12. thread' = None BY <1>1
  <1>13. PageThread' /\ PageShows' BY <1>12 DEF PageThread, PageShows
  <1>14. PageList' BY <1>3, <1>8 DEF PageList
  <1>15. PageFeed' BY <1>1, <1>3, <1>7, <1>8 DEF PageFeed, Previews, Calm
  <1> QED BY <1>9, <1>10, <1>11, <1>13, <1>14, <1>15 DEF Calm

LEMMA NewChatKeeps == ASSUME PageInv, Web!NewChat PROVE PageInv'
  <1> USE DEF PageInv
  <1> DEFINE q == Web!Ask("threads", agent, None, None)
  <1>1. /\ agent' = agent /\ wired' = Append(wired, q) /\ thread' = None /\ drawn' = None /\ feed' = {}
        /\ UNCHANGED <<run, locked, resumed, stream, list, panes, streams, pos>>
    BY DEF Web!NewChat, Web!NewChatThen
  <1>2. /\ kept' = kept /\ used' = used /\ phase' = phase /\ owner' = owner /\ lost' = lost
        /\ halted' = halted /\ calm' \in BOOLEAN /\ clicks' \in 0 .. MaxClicks
        /\ calm' => calm /\ wired = <<>>
    BY Clicked DEF Web!NewChat
  <1>3. q \in Requests /\ q.kind = "threads" /\ q.agent = agent /\ q.served = FALSE
    BY DEF Web!Ask, Requests, RequestKinds, Names, Marks, Replies, PageTyped, WebTypes
  <1>4. Proper(q) BY <1>3 DEF Proper, Reads
  <1> HIDE DEF q
  <1>5. GoodWire(wired') BY <1>1, <1>3, <1>4, Appended DEF PageTyped
  <1>6. PageTyped' BY <1>1, <1>2, <1>5 DEF PageTyped, WebTypes
  <1> SUFFICES ASSUME calm' PROVE Calm'
    BY <1>6
  <1>7. Calm /\ wired = <<>> BY <1>2
  <1>8. DOMAIN wired' = {1} /\ wired'[1] = q /\ Len(wired') = 1
    BY <1>1, <1>3, <1>4, <1>7, First
  <1>9. PageAsks' BY <1>1, <1>3, <1>8 DEF PageAsks, Starts
  <1>10. PageRun' BY <1>1, <1>2, <1>7 DEF PageRun, Calm
  <1>11. PageStarts' BY <1>2, <1>3, <1>7, <1>8 DEF PageStarts, Calm
  <1>13. PageThread' /\ PageShows' BY <1>1 DEF PageThread, PageShows
  <1>14. PageList' BY <1>3, <1>8 DEF PageList
  <1>15. PageFeed' BY <1>1, <1>3, <1>7, <1>8 DEF PageFeed, Previews, Calm
  <1> QED BY <1>9, <1>10, <1>11, <1>13, <1>14, <1>15 DEF Calm

LEMMA OpenThreadKeeps == ASSUME PageInv, NEW id \in Chats, Web!OpenThread(id) PROVE PageInv'
  <1> USE DEF PageInv
  <1> DEFINE q == Web!Ask("open", agent, id, None)
  <1>1. /\ thread' = id /\ wired' = Append(wired, q) /\ list # None /\ id \in list.ids
        /\ UNCHANGED <<agent, run, locked, resumed, stream, drawn, list, feed, panes, streams, pos>>
    BY DEF Web!OpenThread, Web!OpenThen
  <1>2. /\ kept' = kept /\ used' = used /\ phase' = phase /\ owner' = owner /\ lost' = lost
        /\ halted' = halted /\ calm' \in BOOLEAN /\ clicks' \in 0 .. MaxClicks
        /\ calm' => calm /\ wired = <<>>
    BY Clicked DEF Web!OpenThread
  <1>3. /\ q \in Requests /\ q.kind = "open" /\ q.agent = agent /\ q.served = FALSE
        /\ q.id = id
    BY DEF Web!Ask, Requests, RequestKinds, Names, Marks, Replies, PageTyped, WebTypes
  <1>4. Proper(q) BY <1>3 DEF Proper, Reads
  <1> HIDE DEF q
  <1>5. GoodWire(wired') BY <1>1, <1>3, <1>4, Appended DEF PageTyped
  <1>6. PageTyped' BY <1>1, <1>2, <1>5 DEF PageTyped, WebTypes
  <1> SUFFICES ASSUME calm' PROVE Calm'
    BY <1>6
  <1>7. Calm /\ wired = <<>> BY <1>2
  <1>8. DOMAIN wired' = {1} /\ wired'[1] = q /\ Len(wired') = 1
    BY <1>1, <1>3, <1>4, <1>7, First
  <1>9. PageAsks' BY <1>1, <1>3, <1>8 DEF PageAsks, Starts
  <1>10. PageRun' BY <1>1, <1>2, <1>7 DEF PageRun, Calm
  <1>11. PageStarts' BY <1>2, <1>3, <1>7, <1>8 DEF PageStarts, Calm
  <1>12. id \in Web!Ids(agent)
    BY <1>1, <1>7 DEF PageList, Calm
  <1>13. PageThread' BY <1>1, <1>2, <1>12 DEF PageThread, Web!Ids
  <1>14. PageShows' BY <1>1, <1>3, <1>8 DEF PageShows, Reading, Reads
  <1>15. PageList' BY <1>3, <1>8 DEF PageList, Reads
  <1>16. PageFeed' BY <1>1, <1>3, <1>7, <1>8 DEF PageFeed, Previews, Calm
  <1> QED BY <1>9, <1>10, <1>11, <1>13, <1>14, <1>15, <1>16 DEF Calm

LEMMA DeleteThreadKeeps == ASSUME PageInv, NEW id \in Chats, Web!DeleteThread(id) PROVE PageInv'
  <1> USE DEF PageInv
  <1> DEFINE q == Web!Ask("delete", agent, id, None)
  <1>1. /\ wired' = Append(wired, q)
        /\ UNCHANGED <<agent, thread, run, locked, resumed, stream, drawn, list, feed, panes, streams, pos>>
    BY DEF Web!DeleteThread, Web!page
  <1>2. /\ kept' = kept /\ used' = used /\ phase' = phase /\ owner' = owner /\ lost' = lost
        /\ halted' = halted /\ calm' \in BOOLEAN /\ clicks' \in 0 .. MaxClicks
        /\ calm' => calm /\ wired = <<>>
    BY Clicked DEF Web!DeleteThread
  <1>3. /\ q \in Requests /\ q.kind = "delete" /\ q.agent = agent /\ q.served = FALSE
        /\ q.id = id
    BY DEF Web!Ask, Requests, RequestKinds, Names, Marks, Replies, PageTyped, WebTypes
  <1>4. Proper(q) BY <1>3 DEF Proper, Reads
  <1> HIDE DEF q
  <1>5. GoodWire(wired') BY <1>1, <1>3, <1>4, Appended DEF PageTyped
  <1>6. PageTyped' BY <1>1, <1>2, <1>5 DEF PageTyped, WebTypes
  <1> SUFFICES ASSUME calm' PROVE Calm'
    BY <1>6
  <1>7. Calm /\ wired = <<>> BY <1>2
  <1>8. DOMAIN wired' = {1} /\ wired'[1] = q /\ Len(wired') = 1
    BY <1>1, <1>3, <1>4, <1>7, First
  <1>9. PageAsks' BY <1>1, <1>3, <1>8 DEF PageAsks, Starts
  <1>10. PageRun' BY <1>1, <1>2, <1>7 DEF PageRun, Calm
  <1>11. PageStarts' BY <1>2, <1>3, <1>7, <1>8 DEF PageStarts, Calm
  <1>12. PageThread'
    <2>1. thread \in Web!Ids(agent) \cup {None} BY <1>7 DEF PageThread, Leaving, Calm
    <2> QED BY <1>1, <1>2, <2>1 DEF PageThread, Web!Ids
  <1>13. PageShows'
    <2>1. \/ thread = None \/ run # None
          \/ drawn = [agent |-> agent, id |-> thread, n |-> kept[agent][thread]]
      BY <1>7 DEF PageShows, Reading, Leaving, Calm
    <2> QED BY <1>1, <1>2, <1>3, <1>8, <2>1 DEF PageShows, Reads
  <1>14. PageList' BY <1>3, <1>8 DEF PageList
  <1>15. PageFeed' BY <1>1, <1>3, <1>7, <1>8 DEF PageFeed, Previews, Calm
  <1> QED BY <1>9, <1>10, <1>11, <1>12, <1>13, <1>14, <1>15 DEF Calm

LEMMA StopKeeps == ASSUME PageInv, Web!Stop PROVE PageInv'
  <1> USE DEF PageInv
  <1> DEFINE q == [Web!Ask("stop", agent, None, None) EXCEPT !.id = run]
  <1>1. /\ wired' = Append(wired, q) /\ run # None
        /\ UNCHANGED <<agent, thread, run, locked, resumed, stream, drawn, list, feed, panes, streams, pos>>
    BY DEF Web!Stop, Web!page
  <1>2. /\ kept' = kept /\ used' = used /\ phase' = phase /\ owner' = owner /\ lost' = lost
        /\ halted' = halted /\ calm' \in BOOLEAN /\ clicks' \in 0 .. MaxClicks
        /\ calm' => calm /\ wired = <<>>
    BY Clicked DEF Web!Stop
  <1>3. /\ q \in Requests /\ q.kind = "stop" /\ q.agent = agent /\ q.served = FALSE
        /\ q.id = run /\ q.run = None /\ run \in PageRuns
    BY <1>1 DEF Web!Ask, Requests, RequestKinds, Names, Marks, Replies, PageTyped, WebTypes
  <1>4. Proper(q) BY <1>3 DEF Proper, Reads
  <1> HIDE DEF q
  <1>5. GoodWire(wired') BY <1>1, <1>3, <1>4, Appended DEF PageTyped
  <1>6. PageTyped' BY <1>1, <1>2, <1>5 DEF PageTyped, WebTypes
  <1> SUFFICES ASSUME calm' PROVE Calm'
    BY <1>6
  <1>7. Calm /\ wired = <<>> BY <1>2
  <1>8. DOMAIN wired' = {1} /\ wired'[1] = q /\ Len(wired') = 1
    BY <1>1, <1>3, <1>4, <1>7, First
  <1>9. PageAsks' BY <1>1, <1>3, <1>8 DEF PageAsks, Starts
  <1>10. PageRun' BY <1>1, <1>2, <1>7 DEF PageRun, Calm
  <1>11. PageStarts' BY <1>2, <1>3, <1>7, <1>8 DEF PageStarts, Calm
  <1>12. PageThread'
    <2>1. thread \in Web!Ids(agent) \cup {None} BY <1>7 DEF PageThread, Leaving, Calm
    <2> QED BY <1>1, <1>2, <2>1 DEF PageThread, Web!Ids
  <1>13. PageShows' BY <1>1 DEF PageShows
  <1>14. PageList'
    <2>1. list # None => list.agent = agent /\ list.ids \subseteq Web!Ids(agent)
      BY <1>7 DEF PageList, Calm
    <2> QED BY <1>1, <1>2, <1>3, <1>8, <2>1 DEF PageList, Web!Ids
  <1>15. PageFeed' BY <1>1, <1>3, <1>7, <1>8 DEF PageFeed, Previews, Calm
  <1> QED BY <1>9, <1>10, <1>11, <1>12, <1>13, <1>14, <1>15 DEF Calm

LEMMA StartRunKeeps == ASSUME PageInv, Web!StartRun PROVE PageInv'
  <1> USE DEF PageInv
  <1> DEFINE q == IF thread = None THEN Web!Ask("new", agent, None, None)
                  ELSE Web!Ask("run", agent, thread, None)
  <1>1. /\ wired' = Append(wired, q) /\ ~locked
        /\ thread # None => feed' = {} /\ panes' = {}
        /\ thread = None => feed' = feed /\ panes' = panes
        /\ UNCHANGED <<agent, thread, run, locked, resumed, stream, drawn, list, streams, pos>>
    BY DEF Web!StartRun, Web!PostRun
  <1>2. /\ kept' = kept /\ used' = used /\ phase' = phase /\ owner' = owner /\ lost' = lost
        /\ halted' = halted /\ calm' \in BOOLEAN /\ clicks' \in 0 .. MaxClicks
        /\ calm' => calm /\ wired = <<>>
    BY Clicked DEF Web!StartRun
  <1>3. /\ q \in Requests /\ q.agent = agent /\ q.served = FALSE
        /\ thread = None => q.kind = "new"
        /\ thread # None => q.kind = "run" /\ q.id = thread /\ thread \in Chats
    BY DEF Web!Ask, Requests, RequestKinds, Names, Marks, Replies, PageTyped, WebTypes
  <1>4. Proper(q) BY <1>3 DEF Proper, Reads
  <1> HIDE DEF q
  <1>5. GoodWire(wired') BY <1>1, <1>3, <1>4, Appended DEF PageTyped
  <1>6. PageTyped' BY <1>1, <1>2, <1>5 DEF PageTyped, WebTypes
  <1> SUFFICES ASSUME calm' PROVE Calm'
    BY <1>6
  <1>7. Calm /\ wired = <<>> BY <1>2
  <1>8. DOMAIN wired' = {1} /\ wired'[1] = q /\ Len(wired') = 1
    BY <1>1, <1>3, <1>4, <1>7, First
  <1>9. run = None /\ q.kind \in Starts
    BY <1>1, <1>3 DEF PageTyped, WebTypes, Starts
  <1>10. PageAsks' BY <1>1, <1>3, <1>8, <1>9 DEF PageAsks, Starts
  <1>11. PageRun' BY <1>1, <1>2, <1>7 DEF PageRun, Calm
  <1>12. thread \in Web!Ids(agent) \cup {None} BY <1>7 DEF PageThread, Leaving, Calm
  <1>13. PageStarts' BY <1>1, <1>2, <1>3, <1>7, <1>8, <1>12 DEF PageStarts, Calm, Web!Ids
  <1>14. PageThread' BY <1>1, <1>2, <1>12 DEF PageThread, Web!Ids
  <1>15. PageShows' BY <1>8, <1>9 DEF PageShows
  <1>16. PageList'
    <2>1. list # None => list.agent = agent /\ list.ids \subseteq Web!Ids(agent)
      BY <1>7 DEF PageList, Calm
    <2> QED BY <1>1, <1>2, <1>3, <1>8, <2>1 DEF PageList, Web!Ids
  <1>17. PageFeed'
    <2>1. CASE thread = None BY <1>1, <1>3, <1>7, <1>8, <2>1 DEF PageFeed, Previews, Calm
    <2>2. CASE thread # None BY <1>1, <1>3, <1>8, <2>2 DEF PageFeed, Previews
    <2> QED BY <2>1, <2>2
  <1> QED BY <1>10, <1>11, <1>13, <1>14, <1>15, <1>16, <1>17 DEF Calm

\* What a request that is served leaves of the wire.
Answering(i, v) ==
  /\ DOMAIN wired' = DOMAIN wired /\ Len(wired') = Len(wired)
  /\ Len(wired) \in Nat \ {0} /\ DOMAIN wired = 1 .. Len(wired)
  /\ 1 \in DOMAIN wired /\ wired # <<>> /\ wired' # <<>>
  /\ \A j \in DOMAIN wired :
       /\ wired'[j].kind = wired[j].kind /\ wired'[j].agent = wired[j].agent
       /\ wired'[j].id = wired[j].id /\ wired'[j].run = wired[j].run
       /\ j # i => wired'[j].served = wired[j].served /\ wired'[j].answer = wired[j].answer
  /\ wired'[i].served = TRUE /\ wired'[i].answer = v

LEMMA ServedOnWire ==
  ASSUME PageTyped, NEW i \in DOMAIN wired, NEW v \in Replies, ~wired[i].served, Web!Answer(i, v),
         Proper([wired[i] EXCEPT !.served = TRUE, !.answer = v])
  PROVE  GoodWire(wired') /\ Answering(i, v)
  <1> DEFINE q == [wired[i] EXCEPT !.served = TRUE, !.answer = v]
             u == [wired EXCEPT ![i] = q]
  <1>1. wired \in Seq(Requests) /\ Len(wired) \in Nat \ {0} /\ DOMAIN wired = 1 .. Len(wired)
    BY DEF PageTyped, GoodWire
  <1>2. wired[i] \in Requests BY <1>1
  <1>3. /\ q \in Requests /\ q.kind = wired[i].kind /\ q.agent = wired[i].agent
        /\ q.id = wired[i].id /\ q.run = wired[i].run /\ q.served = TRUE /\ q.answer = v
    BY <1>2 DEF Requests
  <1>4. wired' = u BY <1>1 DEF Web!Answer
  <1> HIDE DEF q
  <1>5. u \in Seq(Requests) /\ DOMAIN u = DOMAIN wired /\ Len(u) = Len(wired)
        /\ u[i] = q /\ \A j \in DOMAIN wired \ {i} : u[j] = wired[j]
    BY <1>1, <1>3
  <1> HIDE DEF u
  <1>6. \A j \in DOMAIN u : Proper(u[j]) BY <1>5 DEF PageTyped, GoodWire, q
  <1>7. wired' # <<>> /\ wired # <<>> /\ 1 \in DOMAIN wired
    <2>1. Len(<<>>) = 0 BY EmptySeq
    <2> QED BY <1>1, <1>4, <1>5, <2>1
  <1> QED BY <1>1, <1>3, <1>4, <1>5, <1>6, <1>7 DEF GoodWire, Answering

\* A request of the wire.
LEMMA OnWire ==
  ASSUME PageTyped, NEW i \in DOMAIN wired
  PROVE  /\ wired[i] \in Requests /\ Proper(wired[i])
         /\ wired[i].kind \in RequestKinds /\ wired[i].agent \in Agents /\ wired[i].id \in Names
         /\ wired[i].run \in Marks /\ wired[i].served \in BOOLEAN /\ wired[i].answer \in Replies
  <1>1. wired \in Seq(Requests) /\ Proper(wired[i]) BY DEF PageTyped, GoodWire
  <1>2. wired[i] \in Requests BY <1>1
  <1> QED BY <1>1, <1>2 DEF Requests

LEMMA ServedProper ==
  ASSUME PageTyped, NEW i \in DOMAIN wired, NEW v,
         wired[i].kind \in Reads   => v \in Nat,
         wired[i].kind = "run"     => v \in PageRuns \cup {None},
         wired[i].kind = "new"     => v \in Chats,
         wired[i].kind = "preview" => v \in BOOLEAN,
         wired[i].kind = "threads" => v \subseteq Chats
  PROVE  Proper([wired[i] EXCEPT !.served = TRUE, !.answer = v])
  <1> DEFINE q == [wired[i] EXCEPT !.served = TRUE, !.answer = v]
  <1>1. wired[i] \in Requests /\ Proper(wired[i]) BY OnWire
  <1>2. q.kind = wired[i].kind /\ q.id = wired[i].id /\ q.run = wired[i].run /\ q.answer = v
    BY <1>1 DEF Requests
  <1> HIDE DEF q
  <1>3. Proper(q) BY <1>1, <1>2 DEF Proper
  <1> QED BY <1>3 DEF q

LEMMA ServeReadKeeps ==
  ASSUME PageInv, NEW i \in DOMAIN wired, Web!ServeRead(i)
  PROVE  PageInv'
  <1> USE DEF PageInv
  <1>1. /\ ~wired[i].served
        /\ UNCHANGED <<agent, thread, run, locked, resumed, stream, drawn, list, feed, panes, streams,
                       pos, kept, used, phase, owner, calm, clicks, lost, halted>>
    BY DEF Web!ServeRead, Web!page, Web!server, Web!ghosts
  <1>2. PICK v : /\ Web!Answer(i, v)
                 /\ \/ wired[i].kind = "threads" /\ v = Web!Ids(wired[i].agent)
                    \/ /\ wired[i].kind \in Reads
                       /\ v = IF wired[i].id \in Web!Ids(wired[i].agent)
                              THEN kept[wired[i].agent][wired[i].id] ELSE 0
    BY DEF Web!ServeRead, Reads
  <1>3. wired[i].agent \in Agents /\ Proper(wired[i]) BY OnWire
  <1>4. v \in Replies /\ (wired[i].kind = "threads" => v \subseteq Chats) /\ (wired[i].kind \in Reads => v \in Nat)
    <2>1. CASE wired[i].kind = "threads" BY <1>2, <2>1 DEF Replies, Web!Ids, Reads
    <2>2. CASE wired[i].kind \in Reads
      <3>1. wired[i].id \in Chats BY <1>3, <2>2 DEF Proper
      <3>2. kept[wired[i].agent][wired[i].id] \in Nat \cup {None}
        BY <1>3, <3>1 DEF PageTyped, WebTypes
      <3>3. v \in Nat BY <1>2, <2>2, <3>2 DEF Web!Ids, Reads
      <3> QED BY <2>2, <3>3 DEF Replies, Reads
    <2> QED BY <1>2, <2>1, <2>2
  <1>5. Proper([wired[i] EXCEPT !.served = TRUE, !.answer = v])
    BY <1>2, <1>4, ServedProper DEF Reads
  <1>6. GoodWire(wired') /\ Answering(i, v) BY <1>1, <1>2, <1>4, <1>5, ServedOnWire
  <1>7. PageTyped' BY <1>1, <1>6 DEF PageTyped, WebTypes
  <1> SUFFICES ASSUME calm' PROVE Calm'
    BY <1>7
  <1>8. Calm BY <1>1
  <1>9. wired[i].agent = agent BY <1>8 DEF PageAsks, Calm
  <1>10. PageAsks' BY <1>1, <1>6, <1>8 DEF PageAsks, Starts, Calm, Answering
  <1>11. wired[i].kind # "run" /\ wired[i].kind # "new" /\ wired[i].kind # "delete" /\ wired[i].kind # "preview"
    BY <1>2 DEF Reads
  <1>12. PageRun' BY <1>1, <1>6, <1>8, <1>11 DEF PageRun, Calm, Answering
  <1>13. PageStarts' BY <1>1, <1>6, <1>8, <1>11 DEF PageStarts, Calm, Web!Ids, Answering
  <1>14. Leaving' = Leaving BY <1>1, <1>6 DEF Leaving, Answering
  <1>15. PageThread' BY <1>1, <1>8, <1>14 DEF PageThread, Calm, Web!Ids
  <1>16. PageList' 
    <2>1. Web!Ids(agent)' = Web!Ids(agent) BY <1>1 DEF Web!Ids
    <2>2. wired[i].kind = "threads" => v \subseteq Web!Ids(agent) BY <1>2, <1>9 DEF Reads
    <2>3. \A j \in DOMAIN wired' : wired'[j].kind = "threads" /\ wired'[j].served =>
             wired'[j].answer \subseteq Web!Ids(agent)'
      BY <1>6, <1>8, <2>1, <2>2 DEF PageList, Calm, Answering
    <2>4. \/ (list # None => list.agent = agent /\ list.ids \subseteq Web!Ids(agent))
          \/ \E j \in DOMAIN wired' : wired'[j].kind \in Reads \cup {"threads", "delete"}
      BY <1>6, <1>8 DEF PageList, Calm, Answering
    <2> QED BY <1>1, <2>1, <2>3, <2>4 DEF PageList
  <1>17. PageShows'
    <2>1. \A j \in DOMAIN wired : Reading(j) => Reading(j)' \/ Leaving
      <3> SUFFICES ASSUME NEW j \in DOMAIN wired, Reading(j), ~Leaving PROVE Reading(j)'
        OBVIOUS
      <3>1. wired'[j].kind \in Reads /\ wired'[j].id = thread' BY <1>1, <1>6 DEF Reading, Answering
      <3>2. \A n \in DOMAIN wired' : n > j => wired'[n].kind \notin Reads BY <1>6 DEF Reading, Answering
      <3>3. CASE j = i
        <4>1. Proper(wired[i]) /\ thread \in Chats BY <1>3, <3>3 DEF Proper, Reading
        <4>2. thread \in Web!Ids(agent)
          BY <1>8, <4>1, Nobody DEF PageThread, Calm
        <4>3. v = kept[agent][thread] BY <1>2, <1>9, <3>3, <4>2 DEF Reading, Reads
        <4> QED BY <1>1, <1>6, <3>1, <3>2, <3>3, <4>3 DEF Reading, Answering
      <3>4. CASE j # i BY <1>1, <1>6, <3>1, <3>2, <3>4 DEF Reading, Answering
      <3> QED BY <3>3, <3>4
    <2>2. CASE thread = None \/ run # None \/ Leaving BY <1>1, <1>14, <2>2 DEF PageShows
    <2>3. CASE \E j \in DOMAIN wired : wired[j].kind \in Starts BY <1>6, <2>3 DEF PageShows, Answering
    <2>4. CASE \E j \in DOMAIN wired : Reading(j) BY <1>6, <1>14, <2>1, <2>4 DEF PageShows, Answering
    <2>5. CASE /\ drawn = [agent |-> agent, id |-> thread, n |-> kept[agent][thread]]
               /\ \A j \in DOMAIN wired : wired[j].kind \notin Reads
      BY <1>1, <1>6, <2>5 DEF PageShows, Answering
    <2> QED BY <1>8, <2>2, <2>3, <2>4, <2>5 DEF PageShows, Calm
  <1>18. PageFeed'
    <2>1. Previews' = Previews /\ \A j \in Previews : wired'[j].run = wired[j].run
      BY <1>6 DEF Previews, Answering
    <2>2. \A j \in DOMAIN wired : wired'[j].kind = wired[j].kind BY <1>6 DEF Answering
    <2>3. {wired'[j].run : j \in Previews'} = {wired[j].run : j \in Previews} BY <2>1
    <2> QED BY <1>1, <1>6, <1>8, <2>2, <2>3 DEF PageFeed, Calm, Answering
  <1> QED BY <1>10, <1>12, <1>13, <1>15, <1>16, <1>17, <1>18 DEF Calm

\* What the page draws does not depend on an answer it does not draw.
LEMMA ServedShows ==
  ASSUME PageTyped, PageShows, NEW i \in DOMAIN wired, NEW v, Answering(i, v),
         wired[i].kind \notin Reads, UNCHANGED <<agent, thread, run, drawn>>,
         thread \in Chats => kept'[agent][thread] = kept[agent][thread]
  PROVE  PageShows'
  <1>1. Leaving' = Leaving BY DEF Leaving, Answering
  <1>2. CASE thread = None \/ run # None \/ Leaving BY <1>1, <1>2 DEF PageShows
  <1>3. CASE \E j \in DOMAIN wired : wired[j].kind \in Starts BY <1>3 DEF PageShows, Answering
  <1>4. ASSUME NEW j \in DOMAIN wired, Reading(j) PROVE Reading(j)'
    <2>1. j # i BY <1>4 DEF Reading
    <2>2. thread \in Chats BY <1>4, OnWire DEF Reading, Proper
    <2> QED BY <1>4, <2>1, <2>2 DEF Reading, Answering
  <1>5. CASE \E j \in DOMAIN wired : Reading(j) BY <1>4, <1>5 DEF PageShows, Answering
  <1>6. CASE /\ drawn = [agent |-> agent, id |-> thread, n |-> kept[agent][thread]]
             /\ \A j \in DOMAIN wired : wired[j].kind \notin Reads
    <2>1. thread \in Chats \cup {None} BY DEF PageTyped, WebTypes
    <2> QED BY <1>6, <2>1 DEF PageShows, Answering
  <1> QED BY <1>2, <1>3, <1>5, <1>6 DEF PageShows

\* Nor do the timeline and the panes.
LEMMA ServedFeed ==
  ASSUME PageFeed, NEW i \in DOMAIN wired, NEW v, Answering(i, v), UNCHANGED <<run, feed, panes>>
  PROVE  PageFeed'
  <1>1. Previews' = Previews /\ \A j \in Previews : wired'[j].run = wired[j].run
    BY DEF Previews, Answering
  <1>2. \A j \in DOMAIN wired : wired'[j].kind = wired[j].kind BY DEF Answering
  <1>3. {wired'[j].run : j \in Previews'} = {wired[j].run : j \in Previews} BY <1>1
  <1> QED BY <1>2, <1>3 DEF PageFeed, Answering

\* An answer the page asked for no conversation or list.
LEMMA ServedCalm ==
  ASSUME PageTyped, Calm, NEW i \in DOMAIN wired, NEW v, Answering(i, v),
         wired[i].kind \in {"preview", "stop"},
         UNCHANGED <<agent, thread, run, stream, drawn, list, feed, panes, streams, kept, phase, lost>>
  PROVE  Calm'
  <1>1. PageAsks' BY DEF PageAsks, Starts, Calm, Answering
  <1>2. PageRun' BY DEF PageRun, Calm, Answering
  <1>3. PageStarts' BY DEF PageStarts, Calm, Web!Ids, Answering
  <1>4. Leaving' = Leaving BY DEF Leaving, Answering
  <1>5. PageThread' BY <1>4 DEF PageThread, Calm, Web!Ids
  <1>6. PageList' BY DEF PageList, Calm, Web!Ids, Answering
  <1>7. PageShows' BY ServedShows DEF Calm, Reads
  <1>8. PageFeed' BY ServedFeed DEF Calm
  <1> QED BY <1>1, <1>2, <1>3, <1>5, <1>6, <1>7, <1>8 DEF Calm

LEMMA ServePreviewKeeps ==
  ASSUME PageInv, NEW i \in DOMAIN wired, Web!ServePreview(i)
  PROVE  PageInv'
  <1> USE DEF PageInv
  <1>1. /\ ~wired[i].served /\ wired[i].kind = "preview"
        /\ UNCHANGED <<agent, thread, run, locked, resumed, stream, drawn, list, feed, panes, streams,
                       pos, kept, used, phase, owner, calm, clicks, lost, halted>>
    BY DEF Web!ServePreview, Web!page, Web!server, Web!ghosts
  <1>2. PICK v \in BOOLEAN : Web!Answer(i, v) BY DEF Web!ServePreview
  <1>3. v \in Replies BY DEF Replies
  <1>4. Proper([wired[i] EXCEPT !.served = TRUE, !.answer = v])
    BY <1>1, ServedProper DEF Reads
  <1>5. GoodWire(wired') /\ Answering(i, v) BY <1>1, <1>2, <1>3, <1>4, ServedOnWire
  <1>6. PageTyped' BY <1>1, <1>5 DEF PageTyped, WebTypes
  <1>7. calm' => Calm' BY <1>1, <1>5, ServedCalm
  <1> QED BY <1>6, <1>7

LEMMA ServeStopKeeps ==
  ASSUME PageInv, NEW i \in DOMAIN wired, Web!ServeStop(i)
  PROVE  PageInv'
  <1> USE DEF PageInv
  <1>1. /\ ~wired[i].served /\ wired[i].kind = "stop" /\ Web!Answer(i, TRUE)
        /\ halted' = halted \cup {wired[i].id}
        /\ UNCHANGED <<agent, thread, run, locked, resumed, stream, drawn, list, feed, panes, streams,
                       pos, kept, used, owner, calm, clicks, lost>>
    BY DEF Web!ServeStop, Web!page
  <1>2. wired[i].id \in PageRuns /\ wired[i].run = None BY <1>1, OnWire DEF Proper
  <1>3. phase' = phase BY <1>2 DEF Web!ServeStop
  <1>4. TRUE \in Replies BY DEF Replies
  <1>5. Proper([wired[i] EXCEPT !.served = TRUE, !.answer = TRUE])
    BY <1>1, ServedProper DEF Reads
  <1>6. GoodWire(wired') /\ Answering(i, TRUE) BY <1>1, <1>4, <1>5, ServedOnWire
  <1>7. PageTyped' BY <1>1, <1>2, <1>3, <1>6 DEF PageTyped, WebTypes
  <1>8. calm' => Calm' BY <1>1, <1>3, <1>6, ServedCalm
  <1> QED BY <1>7, <1>8

LEMMA ServeNewKeeps ==
  ASSUME PageInv, NEW i \in DOMAIN wired, Web!ServeNew(i)
  PROVE  PageInv'
  <1> USE DEF PageInv
  <1>1. /\ ~wired[i].served /\ wired[i].kind = "new"
        /\ UNCHANGED <<agent, thread, run, locked, resumed, stream, drawn, list, feed, panes, streams,
                       pos, phase, owner, calm, clicks, lost, halted>>
    BY DEF Web!ServeNew, Web!page, Web!ghosts
  <1>2. PICK t \in Chats \ used : /\ kept' = [kept EXCEPT ![wired[i].agent][t] = 0]
                                  /\ used' = used \cup {t} /\ Web!Answer(i, t)
    BY DEF Web!ServeNew
  <1>3. wired[i].agent \in Agents BY OnWire
  <1>4. t \in Replies BY DEF Replies
  <1>5. Proper([wired[i] EXCEPT !.served = TRUE, !.answer = t])
    BY <1>1, ServedProper DEF Reads
  <1>6. GoodWire(wired') /\ Answering(i, t) BY <1>1, <1>2, <1>4, <1>5, ServedOnWire
  <1>7. /\ kept' \in [Agents -> [Chats -> Nat \cup {None}]]
        /\ kept'[wired[i].agent] = [kept[wired[i].agent] EXCEPT ![t] = 0]
    BY <1>2, <1>3 DEF PageTyped, WebTypes
  <1>8. PageTyped' BY <1>1, <1>2, <1>6, <1>7 DEF PageTyped, WebTypes
  <1> SUFFICES ASSUME calm' PROVE Calm'
    BY <1>8
  <1>9. Calm /\ wired[i].agent = agent /\ Len(wired) = 1 /\ run = None /\ i = 1
    BY <1>1, <1>6 DEF PageAsks, Calm, Starts, Answering
  <1>10. DOMAIN wired = {1} /\ DOMAIN wired' = {1} /\ wired'[1].kind = "new" /\ wired'[1].agent = agent
         /\ wired'[1].answer = t /\ Len(wired') = 1
    BY <1>1, <1>6, <1>9 DEF Answering
  <1>11. Web!Ids(agent)' = Web!Ids(agent) \cup {t}
    BY <1>1, <1>7, <1>9, Nobody DEF Web!Ids, PageTyped, WebTypes
  <1>12. PageAsks' BY <1>1, <1>9, <1>10 DEF PageAsks
  <1>13. PageRun' BY <1>1, <1>9, <1>10 DEF PageRun, Calm
  <1>14. PageStarts' BY <1>1, <1>9, <1>10, <1>11 DEF PageStarts, Calm
  <1>15. ~Leaving BY <1>1, <1>9 DEF Leaving
  <1>16. PageThread' BY <1>1, <1>9, <1>11, <1>15 DEF PageThread, Calm
  <1>17. PageList' BY <1>1, <1>9, <1>10, <1>11 DEF PageList, Calm, Reads
  <1>18. PageShows' BY <1>10 DEF PageShows, Starts
  <1>19. PageFeed' BY <1>1, <1>6, <1>9, ServedFeed DEF Calm
  <1> QED BY <1>12, <1>13, <1>14, <1>16, <1>17, <1>18, <1>19 DEF Calm

LEMMA ServeDeleteKeeps ==
  ASSUME PageInv, NEW i \in DOMAIN wired, Web!ServeDelete(i)
  PROVE  PageInv'
  <1> USE DEF PageInv
  <1>1. /\ ~wired[i].served /\ wired[i].kind = "delete" /\ Web!Answer(i, TRUE)
        /\ kept' = [kept EXCEPT ![wired[i].agent][wired[i].id] = None]
        /\ UNCHANGED <<agent, thread, run, locked, resumed, stream, drawn, list, feed, panes, streams,
                       pos, used, phase, owner, calm, clicks, lost, halted>>
    BY DEF Web!ServeDelete, Web!page, Web!ghosts
  <1>3. wired[i].agent \in Agents /\ wired[i].id \in Chats BY <1>1, OnWire DEF Proper
  <1>4. TRUE \in Replies BY DEF Replies
  <1>5. Proper([wired[i] EXCEPT !.served = TRUE, !.answer = TRUE])
    BY <1>1, ServedProper DEF Reads
  <1>6. GoodWire(wired') /\ Answering(i, TRUE) BY <1>1, <1>4, <1>5, ServedOnWire
  <1>7. /\ kept' \in [Agents -> [Chats -> Nat \cup {None}]]
        /\ kept'[wired[i].agent] = [kept[wired[i].agent] EXCEPT ![wired[i].id] = None]
    BY <1>1, <1>3 DEF PageTyped, WebTypes
  <1>8. PageTyped' BY <1>1, <1>6, <1>7 DEF PageTyped, WebTypes
  <1> SUFFICES ASSUME calm' PROVE Calm'
    BY <1>8
  <1>9. Calm /\ wired[i].agent = agent /\ i = 1
    BY <1>1 DEF PageAsks, Calm
  <1>10. /\ Web!Ids(agent)' = Web!Ids(agent) \ {wired[i].id}
         /\ \A t \in Chats : t # wired[i].id => kept'[agent][t] = kept[agent][t]
    BY <1>1, <1>3, <1>7, <1>9, Nobody DEF Web!Ids, PageTyped, WebTypes
  <1>11. \A j \in DOMAIN wired : wired[j].kind \notin {"threads", "open", "run", "new"}
    <2>1. ASSUME NEW j \in DOMAIN wired, wired[j].kind \in Starts PROVE FALSE
      <3>1. Len(wired) = 1 BY <1>9, <2>1 DEF PageAsks, Calm
      <3>2. j = 1 BY <1>6, <3>1 DEF Answering
      <3> QED BY <1>1, <1>9, <2>1, <3>2 DEF Starts
    <2> QED BY <1>1, <1>9, <2>1 DEF PageAsks, Calm, Starts
  <1>12. PageAsks' BY <1>1, <1>6, <1>9 DEF PageAsks, Starts, Calm, Answering
  <1>13. PageRun' BY <1>1, <1>6, <1>9, <1>11 DEF PageRun, Calm, Answering
  <1>14. PageStarts' BY <1>1, <1>6, <1>9, <1>11 DEF PageStarts, Calm, Answering
  <1>15. Leaving' = (thread = wired[i].id) BY <1>1, <1>6, <1>9 DEF Leaving, Answering
  <1>16. Leaving = (thread = wired[i].id) BY <1>1, <1>6, <1>9 DEF Leaving, Answering
  <1>17. PageThread' BY <1>1, <1>9, <1>10, <1>15, <1>16 DEF PageThread, Calm
  <1>18. PageList' BY <1>1, <1>6, <1>9, <1>11 DEF PageList, Calm, Answering
  <1>19. PageShows'
    <2>1. CASE thread = wired[i].id BY <1>15, <2>1 DEF PageShows
    <2>2. CASE thread # wired[i].id BY <1>1, <1>6, <1>9, <1>10, <2>2, ServedShows DEF Calm, Reads
    <2> QED BY <2>1, <2>2
  <1>20. PageFeed' BY <1>1, <1>6, <1>9, ServedFeed DEF Calm
  <1> QED BY <1>12, <1>13, <1>14, <1>17, <1>18, <1>19, <1>20 DEF Calm

\* One more turn in a conversation that is there.
LEMMA OneTurnMore ==
  ASSUME PageTyped, NEW a \in Agents, NEW t, t \in Web!Ids(a), kept' = [kept EXCEPT ![a][t] = @ + 1]
  PROVE  /\ kept' \in [Agents -> [Chats -> Nat \cup {None}]]
         /\ \A b \in Agents : Web!Ids(b)' = Web!Ids(b)
         /\ \A b \in Agents, u \in Chats : <<b, u>> # <<a, t>> => kept'[b][u] = kept[b][u]
  <1>1. kept \in [Agents -> [Chats -> Nat \cup {None}]] BY DEF PageTyped, WebTypes
  <1>2. t \in Chats /\ kept[a][t] \in Nat BY <1>1 DEF Web!Ids
  <1>3. kept' = [kept EXCEPT ![a] = [kept[a] EXCEPT ![t] = kept[a][t] + 1]] BY <1>1, <1>2
  <1>4. kept[a][t] + 1 \in Nat BY <1>2
  <1>5. kept' \in [Agents -> [Chats -> Nat \cup {None}]] BY <1>1, <1>2, <1>3, <1>4
  <1>6. \A b \in Agents, u \in Chats : /\ <<b, u>> # <<a, t>> => kept'[b][u] = kept[b][u]
                                      /\ <<b, u>> = <<a, t>> => kept'[b][u] = kept[a][t] + 1
    BY <1>1, <1>2, <1>3, <1>4
  <1>7. \A b \in Agents, u \in Chats : kept'[b][u] # None <=> kept[b][u] # None
    BY <1>2, <1>4, <1>6, Nobody
  <1>8. \A b \in Agents : Web!Ids(b)' = Web!Ids(b) BY <1>7 DEF Web!Ids
  <1> QED BY <1>5, <1>6, <1>8

LEMMA ServeRunKeeps ==
  ASSUME PageInv, NEW i \in DOMAIN wired, Web!ServeRun(i)
  PROVE  PageInv'
  <1> USE DEF PageInv
  <1> DEFINE has == wired[i].id \in Web!Ids(wired[i].agent)
  <1>1. /\ ~wired[i].served /\ wired[i].kind = "run"
        /\ kept' = IF has THEN [kept EXCEPT ![wired[i].agent][wired[i].id] = @ + 1] ELSE kept
        /\ UNCHANGED <<agent, thread, run, locked, resumed, stream, drawn, list, feed, panes, streams,
                       pos, used, calm, clicks, halted>>
    BY DEF Web!ServeRun, Web!page
  <1>2. PICK v \in PageRuns \cup {None} :
          /\ Web!Answer(i, v)
          /\ \/ v = None /\ Web!Alive /\ UNCHANGED <<phase, owner, lost>>
             \/ /\ v \in PageRuns /\ ~Web!Alive /\ phase[v] = "none"
                /\ phase' = [phase EXCEPT ![v] = "running"]
                /\ owner' = [owner EXCEPT ![v] = [agent |-> wired[i].agent, id |-> wired[i].id]]
                /\ lost' = IF wired[i].id # None /\ ~has THEN lost \cup {v} ELSE lost
    <2>1. CASE Web!Alive /\ Web!Answer(i, None) /\ UNCHANGED <<phase, owner, lost>>
      BY <2>1
    <2>2. CASE \E r \in PageRuns :
                 /\ ~Web!Alive /\ phase[r] = "none" /\ Web!Answer(i, r)
                 /\ phase' = [phase EXCEPT ![r] = "running"]
                 /\ owner' = [owner EXCEPT ![r] = [agent |-> wired[i].agent, id |-> wired[i].id]]
                 /\ lost' = IF wired[i].id # None /\ ~has THEN lost \cup {r} ELSE lost
      <3>1. PICK r \in PageRuns :
                 /\ ~Web!Alive /\ phase[r] = "none" /\ Web!Answer(i, r)
                 /\ phase' = [phase EXCEPT ![r] = "running"]
                 /\ owner' = [owner EXCEPT ![r] = [agent |-> wired[i].agent, id |-> wired[i].id]]
                 /\ lost' = IF wired[i].id # None /\ ~has THEN lost \cup {r} ELSE lost
        BY <2>2
      <3> QED BY <3>1
    <2> QED BY <2>1, <2>2 DEF Web!ServeRun
  <1>3. wired[i].agent \in Agents /\ wired[i].id \in Chats BY <1>1, OnWire DEF Proper
  <1>4. v \in Replies BY DEF Replies
  <1>5. Proper([wired[i] EXCEPT !.served = TRUE, !.answer = v])
    BY <1>1, ServedProper DEF Reads
  <1>6. GoodWire(wired') /\ Answering(i, v) BY <1>1, <1>2, <1>4, <1>5, ServedOnWire
  <1>7. kept' \in [Agents -> [Chats -> Nat \cup {None}]]
    <2>1. CASE has BY <1>1, <1>3, <2>1, OneTurnMore
    <2>2. CASE ~has BY <1>1, <2>2 DEF PageTyped, WebTypes
    <2> QED BY <2>1, <2>2
  <1>8. PageTyped'
    <2>1. [agent |-> wired[i].agent, id |-> wired[i].id] \in Web!Conversation
      BY <1>3 DEF Web!Conversation
    <2>3. /\ phase' \in [PageRuns -> {"none", "running", "ended", "over"}]
          /\ owner' \in [PageRuns -> Web!Conversation \cup {None}] /\ lost' \subseteq PageRuns
      BY <1>2, <2>1 DEF PageTyped, WebTypes
    <2>4. \A r \in PageRuns : phase'[r] # "none" => owner'[r] \in Web!Conversation
      BY <1>2, <2>1 DEF PageTyped, WebTypes
    <2> QED BY <1>1, <1>6, <1>7, <2>3, <2>4 DEF PageTyped, WebTypes
  <1> SUFFICES ASSUME calm' PROVE Calm'
    BY <1>8
  <1>9. Calm /\ wired[i].agent = agent /\ Len(wired) = 1 /\ run = None /\ i = 1
    BY <1>1, <1>6 DEF PageAsks, Calm, Starts, Answering
  <1>10. /\ DOMAIN wired = {1} /\ DOMAIN wired' = {1} /\ wired'[1].kind = "run" /\ wired'[1].agent = agent
         /\ wired'[1].id = wired[1].id /\ wired'[1].answer = v /\ wired'[1].served /\ Len(wired') = 1
    BY <1>1, <1>6, <1>9 DEF Answering
  <1>11. wired[1].id = thread /\ has BY <1>1, <1>9 DEF PageStarts, Calm
  <1>12. Web!Ids(agent)' = Web!Ids(agent) BY <1>1, <1>3, <1>9, <1>11, OneTurnMore
  <1>13. \A r \in PageRuns : phase[r] \notin {"running", "ended"}
    BY <1>1, <1>9, <1>10, Nobody DEF PageRun, Calm
  <1>14. /\ v \in PageRuns /\ phase' = [phase EXCEPT ![v] = "running"] /\ lost' = lost
    BY <1>2, <1>11, <1>13 DEF Web!Alive
  <1>15. PageAsks' BY <1>1, <1>9, <1>10 DEF PageAsks
  <1>16. PageRun'
    <2>1. \A r \in PageRuns : phase'[r] \in {"running", "ended"} => r = v
      BY <1>13, <1>14 DEF PageTyped, WebTypes
    <2> QED BY <1>1, <1>9, <1>10, <2>1 DEF PageRun, Calm
  <1>17. PageStarts' BY <1>1, <1>9, <1>10, <1>11, <1>12, <1>14, Nobody DEF PageStarts, Calm
  <1>18. PageThread' BY <1>1, <1>9, <1>11, <1>12 DEF PageThread
  <1>19. PageList' BY <1>1, <1>9, <1>10, <1>12 DEF PageList, Calm, Reads
  <1>20. PageShows' BY <1>10 DEF PageShows, Starts
  <1>21. PageFeed' BY <1>1, <1>6, <1>9, ServedFeed DEF Calm
  <1> QED BY <1>15, <1>16, <1>17, <1>18, <1>19, <1>20, <1>21 DEF Calm

\* No request that starts a run is out while one is on the page.
LEMMA NoStarts ==
  ASSUME PageAsks, run # None
  PROVE  \A i \in DOMAIN wired : wired[i].kind # "run" /\ wired[i].kind # "new"
  BY DEF PageAsks, Starts

LEMMA RunEndsKeeps ==
  ASSUME PageInv, NEW r \in PageRuns, Web!RunEnds(r)
  PROVE  PageInv'
  <1> USE DEF PageInv
  <1>1. /\ phase[r] = "running" /\ phase' = [phase EXCEPT ![r] = "ended"]
        /\ UNCHANGED <<agent, thread, run, locked, resumed, stream, drawn, list, feed, panes, streams,
                       pos, wired, kept, used, owner, calm, clicks, lost, halted>>
    BY DEF Web!RunEnds, Web!page, Web!ghosts
  <1>2. PageTyped' BY <1>1 DEF PageTyped, WebTypes
  <1> SUFFICES ASSUME calm' PROVE Calm'
    BY <1>2
  <1>3. Calm BY <1>1
  <1>4. PageRun'
    <2>1. \A s \in PageRuns : phase'[s] \in {"running", "ended"} => phase[s] \in {"running", "ended"}
      BY <1>1 DEF PageTyped, WebTypes
    <2> QED BY <1>1, <1>3, <2>1 DEF PageRun, Calm
  <1>5. PageAsks' /\ PageStarts' /\ PageFeed'
    BY <1>1, <1>3 DEF PageAsks, PageStarts, PageFeed, Previews, Calm, Web!Ids
  <1>6. PageThread' /\ PageList' BY <1>1, <1>3 DEF PageThread, PageList, Leaving, Calm, Web!Ids
  <1>7. PageShows' BY <1>1, <1>3 DEF PageShows, Leaving, Reading, Calm
  <1> QED BY <1>4, <1>5, <1>6, <1>7 DEF Calm

LEMMA ReplyKeeps ==
  ASSUME PageInv, NEW r \in PageRuns, Web!Reply(r)
  PROVE  PageInv'
  <1> USE DEF PageInv
  <1> DEFINE c == owner[r]
  <1>1. /\ phase[r] = "ended" /\ phase' = [phase EXCEPT ![r] = "over"]
        /\ kept' = IF c.id \in Web!Ids(c.agent) THEN [kept EXCEPT ![c.agent][c.id] = @ + 1] ELSE kept
        /\ UNCHANGED <<agent, thread, run, locked, resumed, stream, drawn, list, feed, panes, streams,
                       pos, wired, used, owner, calm, clicks, lost, halted>>
    BY DEF Web!Reply, Web!page, Web!ghosts
  <1>2. c.agent \in Agents
    <2>2. c \in Web!Conversation BY <1>1 DEF PageTyped
    <2> QED BY <2>2 DEF Web!Conversation
  <1> HIDE DEF c
  <1>3. /\ kept' \in [Agents -> [Chats -> Nat \cup {None}]]
        /\ \A a \in Agents : Web!Ids(a)' = Web!Ids(a)
    <2>1. CASE c.id \in Web!Ids(c.agent) BY <1>1, <1>2, <2>1, OneTurnMore
    <2>2. CASE ~(c.id \in Web!Ids(c.agent)) BY <1>1, <2>2 DEF PageTyped, WebTypes, Web!Ids
    <2> QED BY <2>1, <2>2
  <1>4. PageTyped' BY <1>1, <1>3 DEF PageTyped, WebTypes
  <1> SUFFICES ASSUME calm' PROVE Calm'
    BY <1>4
  <1>5. Calm BY <1>1
  <1>6. agent \in Agents BY DEF PageTyped, WebTypes
  <1>7. Web!Ids(agent)' = Web!Ids(agent) BY <1>1, <1>3, <1>6
  <1>8. PageRun'
    <2>1. \A s \in PageRuns : phase'[s] \in {"running", "ended"} => phase[s] \in {"running", "ended"}
      BY <1>1 DEF PageTyped, WebTypes
    <2> QED BY <1>1, <1>5, <2>1 DEF PageRun, Calm
  <1>9. PageAsks' /\ PageStarts' /\ PageFeed'
    BY <1>1, <1>5, <1>7 DEF PageAsks, PageStarts, PageFeed, Previews, Calm
  <1>10. PageThread' /\ PageList' BY <1>1, <1>5, <1>7 DEF PageThread, PageList, Leaving, Calm
  <1>11. PageShows'
    <2>1. run # None \/ \E i \in DOMAIN wired : wired[i].kind \in Starts
      BY <1>1, <1>5, Nobody DEF PageRun, Calm, Starts
    <2> QED BY <1>1, <2>1 DEF PageShows
  <1> QED BY <1>8, <1>9, <1>10, <1>11 DEF Calm

\* The wire behind its first request, and the requests q_ at its end.
Passing(q_) ==
  /\ 1 \in DOMAIN wired /\ DOMAIN wired \subseteq Nat \ {0} /\ DOMAIN wired' \subseteq Nat \ {0}
  /\ \A j \in DOMAIN wired' :
       wired'[j] \in q_ \/ (j + 1 \in DOMAIN wired /\ wired'[j] = wired[j + 1])
  /\ \A j \in DOMAIN wired : j # 1 => j - 1 \in DOMAIN wired' /\ wired'[j - 1] = wired[j]

LEMMA Rested ==
  ASSUME GoodWire(wired), NEW i \in DOMAIN wired, wired' = Web!RemoveAt(wired, i)
  PROVE  GoodWire(wired') /\ (i = 1 => Passing({}))
  <1>1. /\ GoodWire(wired') /\ Len(wired) \in Nat \ {0} /\ DOMAIN wired = 1 .. Len(wired)
        /\ i = 1 => /\ DOMAIN wired' = 1 .. Len(wired) - 1
                    /\ \A j \in 1 .. Len(wired) - 1 : wired'[j] = wired[j + 1]
    BY Removed
  <1>2. ASSUME i = 1 PROVE Passing({})
    <2>1. 1 \in DOMAIN wired /\ DOMAIN wired \subseteq Nat \ {0} /\ DOMAIN wired' \subseteq Nat \ {0}
      BY <1>1, <1>2
    <2>2. \A j \in DOMAIN wired' : j + 1 \in DOMAIN wired /\ wired'[j] = wired[j + 1]
      BY <1>1, <1>2
    <2>3. \A j \in DOMAIN wired : j # 1 => j - 1 \in DOMAIN wired' /\ wired'[j - 1] = wired[j]
      BY <1>1, <1>2
    <2> QED BY <2>1, <2>2, <2>3 DEF Passing
  <1> QED BY <1>1, <1>2

LEMMA RestedAndAsked ==
  ASSUME GoodWire(wired), NEW i \in DOMAIN wired, NEW q \in Requests, Proper(q),
         wired' = Append(Web!RemoveAt(wired, i), q)
  PROVE  /\ GoodWire(wired')
         /\ i = 1 => Passing({q})
         /\ \E j \in DOMAIN wired' : wired'[j] = q /\ \A n \in DOMAIN wired' : n <= j
         /\ i = 1 /\ Len(wired) = 1 => DOMAIN wired' = {1} /\ wired'[1] = q /\ Len(wired') = 1
  <1> DEFINE u == Web!RemoveAt(wired, i)
  <1>1. /\ GoodWire(u) /\ Len(wired) \in Nat \ {0} /\ DOMAIN wired = 1 .. Len(wired)
        /\ i = 1 => /\ DOMAIN u = 1 .. Len(wired) - 1 /\ Len(u) = Len(wired) - 1
                    /\ \A j \in 1 .. Len(wired) - 1 : u[j] = wired[j + 1]
    BY Removed
  <1>2. wired' = Append(u, q) OBVIOUS
  <1> HIDE DEF u
  <1>3. /\ GoodWire(wired') /\ Len(u) \in Nat /\ DOMAIN u = 1 .. Len(u)
        /\ DOMAIN wired' = 1 .. Len(u) + 1 /\ Len(wired') = Len(u) + 1
        /\ \A j \in DOMAIN u : wired'[j] = u[j]
        /\ wired'[Len(u) + 1] = q
    <2>1. /\ GoodWire(Append(u, q)) /\ Len(u) \in Nat /\ DOMAIN u = 1 .. Len(u)
          /\ DOMAIN Append(u, q) = 1 .. Len(u) + 1 /\ Len(Append(u, q)) = Len(u) + 1
          /\ \A j \in DOMAIN u : Append(u, q)[j] = u[j]
          /\ Append(u, q)[Len(u) + 1] = q
      BY <1>1, Appended
    <2> QED BY <1>2, <2>1
  <1>4. \E j \in DOMAIN wired' : wired'[j] = q /\ \A n \in DOMAIN wired' : n <= j
    <2>1. Len(u) + 1 \in DOMAIN wired' /\ \A n \in DOMAIN wired' : n <= Len(u) + 1 BY <1>3
    <2> QED BY <1>3, <2>1
  <1>5. ASSUME i = 1 PROVE Passing({q})
    <2>1. /\ Len(u) + 1 = Len(wired) /\ Len(wired) \in Nat \ {0} /\ DOMAIN wired = 1 .. Len(wired)
          /\ DOMAIN u = 1 .. Len(wired) - 1
          /\ \A j \in 1 .. Len(wired) - 1 : u[j] = wired[j + 1]
      BY <1>1, <1>5
    <2>2. 1 \in DOMAIN wired /\ DOMAIN wired \subseteq Nat \ {0} /\ DOMAIN wired' \subseteq Nat \ {0}
      BY <1>3, <2>1
    <2>3. ASSUME NEW j \in DOMAIN wired'
          PROVE  wired'[j] = q \/ (j + 1 \in DOMAIN wired /\ wired'[j] = wired[j + 1])
      BY <1>3, <2>1
    <2>4. ASSUME NEW j \in DOMAIN wired, j # 1
          PROVE  j - 1 \in DOMAIN wired' /\ wired'[j - 1] = wired[j]
      <3>1. j - 1 \in 1 .. Len(wired) - 1 /\ (j - 1) + 1 = j BY <2>1, <2>4
      <3>2. j - 1 \in DOMAIN u /\ j - 1 \in DOMAIN wired' BY <1>3, <2>1, <3>1
      <3>3. u[j - 1] = wired[(j - 1) + 1] BY <2>1, <3>1
      <3> QED BY <1>3, <3>1, <3>2, <3>3
    <2> QED BY <2>2, <2>3, <2>4 DEF Passing
  <1>6. i = 1 /\ Len(wired) = 1 => DOMAIN wired' = {1} /\ wired'[1] = q /\ Len(wired') = 1
    <2>1. 1 .. 1 = {1} OBVIOUS
    <2> QED BY <1>1, <1>3, <2>1
  <1> QED BY <1>3, <1>4, <1>5, <1>6

\* What is on the wire behind a request that starts nothing.
LEMMA PassedAsks ==
  ASSUME GoodWire(wired), PageAsks, NEW q_, Passing(q_), wired[1].kind \notin Starts,
         \A q \in q_ : q.agent = agent /\ q.kind \in {"threads", "open"}, agent' = agent
  PROVE  /\ PageAsks'
         /\ \A j \in DOMAIN wired : wired[j].kind \notin Starts /\ (j # 1 => wired[j].kind # "delete")
         /\ \A j \in DOMAIN wired' : wired'[j].kind \notin Starts /\ wired'[j].kind # "delete"
  <1>1. \A j \in DOMAIN wired : wired[j].kind \notin Starts
    <2> SUFFICES ASSUME NEW j \in DOMAIN wired, wired[j].kind \in Starts PROVE FALSE
      OBVIOUS
    <2>1. Len(wired) = 1 BY DEF PageAsks
    <2>2. j = 1 BY <2>1 DEF GoodWire
    <2> QED BY <2>2
  <1>2. \A j \in DOMAIN wired : j # 1 => wired[j].kind # "delete" BY DEF PageAsks
  <1>3. ASSUME NEW j \in DOMAIN wired'
        PROVE  wired'[j].kind \notin Starts /\ wired'[j].kind # "delete" /\ wired'[j].agent = agent
    <2>1. CASE wired'[j] \in q_ BY <2>1 DEF Starts
    <2>2. CASE j + 1 \in DOMAIN wired /\ wired'[j] = wired[j + 1]
      <3>1. j + 1 # 1 BY DEF Passing
      <3> QED BY <1>1, <1>2, <2>2, <3>1 DEF PageAsks
    <2> QED BY <2>1, <2>2 DEF Passing
  <1> QED BY <1>1, <1>2, <1>3 DEF PageAsks

LEMMA PassedRun ==
  ASSUME PageRun, \A j \in DOMAIN wired : wired[j].kind \notin Starts,
         UNCHANGED <<run, stream, streams, phase>>
  PROVE  PageRun'
  BY DEF PageRun, Starts

LEMMA PassedFeed ==
  ASSUME PageFeed, NEW q_, Passing(q_), \A q \in q_ : q.kind # "preview", run' = run,
         feed' \subseteq feed,
         \A p \in panes' : p \in panes \/ (wired[1].kind = "preview" /\ p.run = wired[1].run),
         \A j \in DOMAIN wired' : wired'[j].kind \notin Starts
  PROVE  PageFeed'
  <1> DEFINE all_ == feed \cup {p.run : p \in panes} \cup {wired[i].run : i \in Previews}
             new  == feed' \cup {p.run : p \in panes'} \cup {wired'[i].run : i \in Previews'}
  <1>1. new \subseteq all_
    <2>1. ASSUME NEW p \in panes' PROVE p.run \in all_
      <3>1. CASE p \in panes BY <3>1
      <3>2. CASE wired[1].kind = "preview" /\ p.run = wired[1].run
        <4>1. 1 \in Previews BY <3>2 DEF Previews, Passing
        <4> QED BY <3>2, <4>1
      <3> QED BY <3>1, <3>2
    <2>2. ASSUME NEW j \in Previews' PROVE wired'[j].run \in all_
      <3>1. j \in DOMAIN wired' /\ wired'[j].kind = "preview" BY DEF Previews
      <3>2. j + 1 \in DOMAIN wired /\ wired'[j] = wired[j + 1] BY <3>1 DEF Passing
      <3>3. j + 1 \in Previews BY <3>1, <3>2 DEF Previews
      <3> QED BY <3>2, <3>3
    <2> QED BY <2>1, <2>2
  <1>2. \A r, s \in all_ : r = s BY DEF PageFeed
  <1>3. run # None => all_ \subseteq {run} BY DEF PageFeed
  <1>4. PageFeed' = (/\ \A r, s \in new : r = s
                     /\ run' # None => new \subseteq {run'}
                     /\ \A i \in DOMAIN wired' : wired'[i].kind = "run" => feed' = {} /\ panes' = {})
    BY DEF PageFeed
  <1> HIDE DEF all_, new
  <1> QED BY <1>1, <1>2, <1>3, <1>4 DEF Starts

LEMMA PassedShows ==
  ASSUME PageShows, NEW q_, Passing(q_), \A q \in q_ : q.kind \notin Reads,
         wired[1].kind \notin Reads, ~Leaving,
         \A j \in DOMAIN wired : wired[j].kind \notin Starts,
         UNCHANGED <<agent, thread, run, drawn, kept>>
  PROVE  PageShows'
  <1>1. ASSUME NEW j \in DOMAIN wired, Reading(j) PROVE j - 1 \in DOMAIN wired' /\ Reading(j - 1)'
    <2>1. j # 1 BY <1>1 DEF Reading
    <2>2. j - 1 \in DOMAIN wired' /\ wired'[j - 1] = wired[j] BY <2>1 DEF Passing
    <2>3. ASSUME NEW n \in DOMAIN wired', n > j - 1 PROVE wired'[n].kind \notin Reads
      <3>1. CASE wired'[n] \in q_ BY <3>1
      <3>2. CASE n + 1 \in DOMAIN wired /\ wired'[n] = wired[n + 1]
        <4>1. n + 1 > j BY <2>3 DEF Passing
        <4> QED BY <1>1, <3>2, <4>1 DEF Reading
      <3> QED BY <3>1, <3>2 DEF Passing
    <2> QED BY <1>1, <2>2, <2>3 DEF Reading
  <1>2. CASE thread = None \/ run # None BY <1>2 DEF PageShows
  <1>3. CASE \E j \in DOMAIN wired : Reading(j)
    <2>1. PICK j \in DOMAIN wired : Reading(j) BY <1>3
    <2> DEFINE k == j - 1
    <2>2. k \in DOMAIN wired' /\ Reading(k)' BY <1>1, <2>1
    <2> HIDE DEF k
    <2> QED BY <2>2 DEF PageShows
  <1>4. CASE /\ drawn = [agent |-> agent, id |-> thread, n |-> kept[agent][thread]]
             /\ \A j \in DOMAIN wired : wired[j].kind \notin Reads
    <2>1. ASSUME NEW j \in DOMAIN wired' PROVE wired'[j].kind \notin Reads
      BY <1>4 DEF Passing
    <2> QED BY <1>4, <2>1 DEF PageShows
  <1> QED BY <1>2, <1>3, <1>4 DEF PageShows

\* An answered list of conversations is of conversations that are there.
LEMMA PassedAnswers ==
  ASSUME PageList, NEW q_, Passing(q_), \A q \in q_ : ~q.served,
         Web!Ids(agent)' = Web!Ids(agent)
  PROVE  \A j \in DOMAIN wired' : wired'[j].kind = "threads" /\ wired'[j].served =>
           wired'[j].answer \subseteq Web!Ids(agent)'
  <1> SUFFICES ASSUME NEW j \in DOMAIN wired', wired'[j].kind = "threads", wired'[j].served
               PROVE  wired'[j].answer \subseteq Web!Ids(agent)
    OBVIOUS
  <1>1. j + 1 \in DOMAIN wired /\ wired'[j] = wired[j + 1] BY DEF Passing
  <1> QED BY <1>1 DEF PageList

\* The list the page draws is right, or will be asked for.
LEMMA PassedList ==
  ASSUME PageList, NEW q_, Passing(q_), wired[1].kind \notin Reads \cup {"threads", "delete"},
         q_ = {}, UNCHANGED <<agent, kept, list>>
  PROVE  PageList'
  <1>1. Web!Ids(agent)' = Web!Ids(agent) BY DEF Web!Ids
  <1>2. \A j \in DOMAIN wired' : wired'[j].kind = "threads" /\ wired'[j].served =>
           wired'[j].answer \subseteq Web!Ids(agent)'
    BY <1>1, PassedAnswers
  <1>3. CASE list # None => list.agent = agent /\ list.ids \subseteq Web!Ids(agent)
    BY <1>1, <1>2, <1>3 DEF PageList
  <1>4. CASE \E j \in DOMAIN wired : wired[j].kind \in Reads \cup {"threads", "delete"}
    <2>1. PICK j \in DOMAIN wired : wired[j].kind \in Reads \cup {"threads", "delete"} BY <1>4
    <2> DEFINE k == j - 1
    <2>2. k \in DOMAIN wired' /\ wired'[k] = wired[j] BY <2>1 DEF Passing
    <2> HIDE DEF k
    <2> QED BY <1>2, <2>1, <2>2 DEF PageList
  <1> QED BY <1>3, <1>4 DEF PageList

LEMMA GotThreadsKeeps ==
  ASSUME PageInv, NEW i \in DOMAIN wired, Web!GotThreads(i)
  PROVE  PageInv'
  <1> USE DEF PageInv
  <1>1. /\ wired[i].kind = "threads" /\ wired[i].served
        /\ calm' = (calm /\ i = 1)
        /\ UNCHANGED <<agent, run, locked, stream, drawn, feed, panes, streams,
                       pos, kept, used, phase, owner, clicks, lost, halted>>
    BY DEF Web!GotThreads, Web!Got, Web!Received, Web!server
  <1>2. wired[i].answer \subseteq Chats /\ wired[i].agent \in Agents BY <1>1, OnWire DEF Proper
  <1>3. GoodWire(wired) /\ agent \in Agents BY DEF PageTyped, WebTypes
  <1>4. CASE /\ thread = None /\ run = None /\ resumed' = TRUE /\ list' = list
             /\ \E id \in wired[i].answer : Web!OpenThen(id, Web!Rest(i))
    <2>1. PICK id \in wired[i].answer : Web!OpenThen(id, Web!Rest(i)) BY <1>4
    <2> DEFINE q == Web!Ask("open", agent, id, None)
    <2>2. thread' = id /\ wired' = Append(Web!RemoveAt(wired, i), q) /\ id \in Chats
      BY <1>2, <2>1 DEF Web!OpenThen, Web!Rest
    <2>3. q \in Requests /\ q.kind = "open" /\ q.agent = agent /\ q.served = FALSE /\ q.id = id
      BY <1>3, <2>2 DEF Web!Ask, Requests, RequestKinds, Names, Marks, Replies
    <2>4. Proper(q) BY <2>2, <2>3 DEF Proper, Reads
    <2> HIDE DEF q
    <2>5. /\ GoodWire(wired') /\ (i = 1 => Passing({q}))
          /\ \E j \in DOMAIN wired' : wired'[j] = q /\ \A n \in DOMAIN wired' : n <= j
      BY <1>3, <2>2, <2>3, <2>4, RestedAndAsked
    <2>6. PageTyped' BY <1>1, <1>4, <2>2, <2>5 DEF PageTyped, WebTypes
    <2> SUFFICES ASSUME calm' PROVE Calm'
      BY <2>6
    <2>7. Calm /\ i = 1 /\ Passing({q}) BY <1>1, <2>5
    <2>8. /\ PageAsks'
          /\ \A j \in DOMAIN wired : wired[j].kind \notin Starts /\ (j # 1 => wired[j].kind # "delete")
          /\ \A j \in DOMAIN wired' : wired'[j].kind \notin Starts /\ wired'[j].kind # "delete"
      BY <1>1, <1>3, <2>3, <2>7, PassedAsks DEF Calm, Starts
    <2>9. PageRun' BY <1>1, <2>7, <2>8, PassedRun DEF Calm
    <2>10. PageStarts' BY <1>1, <2>7, <2>8 DEF Calm, PageStarts, Starts
    <2>11. wired[1].agent = agent /\ wired[1].answer \subseteq Web!Ids(agent)
      BY <1>1, <2>7 DEF Calm, PageAsks, PageList
    <2>12. Web!Ids(agent)' = Web!Ids(agent) BY <1>1 DEF Web!Ids
    <2>13. PageThread' BY <2>1, <2>2, <2>7, <2>11, <2>12 DEF PageThread
    <2>14. PageList'
      <3>1. \A j \in DOMAIN wired' : wired'[j].kind = "threads" /\ wired'[j].served =>
              wired'[j].answer \subseteq Web!Ids(agent)'
        BY <2>3, <2>7, <2>12, PassedAnswers DEF Calm
      <3> QED BY <2>3, <2>5, <3>1 DEF PageList, Reads
    <2>15. PageShows'
      <3>1. PICK j \in DOMAIN wired' : wired'[j] = q /\ \A n \in DOMAIN wired' : n <= j BY <2>5
      <3>2. \A n \in DOMAIN wired' : ~(n > j) BY <2>7, <3>1 DEF Passing
      <3>3. Reading(j)' BY <2>2, <2>3, <3>1, <3>2 DEF Reading, Reads
      <3> QED BY <3>3 DEF PageShows
    <2>16. PageFeed' BY <1>1, <2>3, <2>7, <2>8, PassedFeed DEF Calm
    <2> QED BY <2>8, <2>9, <2>10, <2>13, <2>14, <2>15, <2>16 DEF Calm
  <1>5. CASE /\ list' = [agent |-> wired[i].agent, ids |-> wired[i].answer]
             /\ wired' = Web!Rest(i) /\ UNCHANGED <<thread, resumed>>
    <2>1. GoodWire(wired') /\ (i = 1 => Passing({})) BY <1>3, <1>5, Rested DEF Web!Rest
    <2>2. PageTyped' BY <1>1, <1>2, <1>5, <2>1 DEF PageTyped, WebTypes
    <2> SUFFICES ASSUME calm' PROVE Calm'
      BY <2>2
    <2>3. Calm /\ i = 1 /\ Passing({}) BY <1>1, <2>1
    <2>4. /\ PageAsks'
          /\ \A j \in DOMAIN wired : wired[j].kind \notin Starts /\ (j # 1 => wired[j].kind # "delete")
          /\ \A j \in DOMAIN wired' : wired'[j].kind \notin Starts /\ wired'[j].kind # "delete"
      BY <1>1, <1>3, <2>3, PassedAsks DEF Calm, Starts
    <2>5. PageRun' BY <1>1, <2>3, <2>4, PassedRun DEF Calm
    <2>6. PageStarts' BY <1>1, <2>3, <2>4 DEF Calm, PageStarts, Starts
    <2>7. wired[1].agent = agent /\ wired[1].answer \subseteq Web!Ids(agent)
      BY <1>1, <2>3 DEF Calm, PageAsks, PageList
    <2>8. Web!Ids(agent)' = Web!Ids(agent) /\ ~Leaving BY <1>1, <2>3 DEF Web!Ids, Leaving
    <2>9. PageThread' BY <1>1, <1>5, <2>3, <2>8 DEF PageThread, Calm
    <2>10. PageList'
      <3>1. \A j \in DOMAIN wired' : wired'[j].kind = "threads" /\ wired'[j].served =>
              wired'[j].answer \subseteq Web!Ids(agent)'
        BY <2>3, <2>8, PassedAnswers DEF Calm
      <3>2. list'.agent = agent' /\ list'.ids \subseteq Web!Ids(agent)'
        BY <1>1, <1>5, <2>3, <2>7, <2>8
      <3> QED BY <3>1, <3>2 DEF PageList
    <2>11. PageShows' BY <1>1, <1>5, <2>3, <2>4, <2>8, PassedShows DEF Calm, Reads
    <2>12. PageFeed' BY <1>1, <2>3, <2>4, PassedFeed DEF Calm
    <2> QED BY <2>4, <2>5, <2>6, <2>9, <2>10, <2>11, <2>12 DEF Calm
  <1> QED BY <1>4, <1>5 DEF Web!GotThreads

LEMMA GotThreadKeeps ==
  ASSUME PageInv, NEW i \in DOMAIN wired, Web!GotThread(i)
  PROVE  PageInv'
  <1> USE DEF PageInv
  <1> DEFINE q == Web!Ask("threads", agent, None, None)
  <1>1. /\ wired[i].kind \in Reads /\ wired[i].served
        /\ drawn' = [agent |-> wired[i].agent, id |-> wired[i].id, n |-> wired[i].answer]
        /\ feed' \subseteq feed /\ wired' = Append(Web!RemoveAt(wired, i), q)
        /\ calm' = (calm /\ i = 1)
        /\ UNCHANGED <<agent, thread, run, locked, resumed, stream, list, panes, streams,
                       pos, kept, used, phase, owner, clicks, lost, halted>>
    BY DEF Web!GotThread, Web!Got, Web!Received, Web!server, Web!Rest, Reads
  <1>2. wired[i].agent \in Agents /\ wired[i].id \in Chats /\ wired[i].answer \in Nat
    BY <1>1, OnWire DEF Proper
  <1>3. GoodWire(wired) /\ agent \in Agents BY DEF PageTyped, WebTypes
  <1>4. q \in Requests /\ q.kind = "threads" /\ q.agent = agent /\ q.served = FALSE
    BY <1>3 DEF Web!Ask, Requests, RequestKinds, Names, Marks, Replies
  <1>5. Proper(q) BY <1>4 DEF Proper, Reads
  <1> HIDE DEF q
  <1>6. /\ GoodWire(wired') /\ (i = 1 => Passing({q}))
        /\ \E j \in DOMAIN wired' : wired'[j] = q /\ \A n \in DOMAIN wired' : n <= j
    BY <1>1, <1>3, <1>4, <1>5, RestedAndAsked
  <1>7. PageTyped'
    <2>1. drawn' \in [agent : Agents, id : Chats, n : Nat] BY <1>1, <1>2
    <2> QED BY <1>1, <1>6, <2>1 DEF PageTyped, WebTypes
  <1> SUFFICES ASSUME calm' PROVE Calm'
    BY <1>7
  <1>8. Calm /\ i = 1 /\ Passing({q}) BY <1>1, <1>6
  <1>9. /\ PageAsks'
        /\ \A j \in DOMAIN wired : wired[j].kind \notin Starts /\ (j # 1 => wired[j].kind # "delete")
        /\ \A j \in DOMAIN wired' : wired'[j].kind \notin Starts /\ wired'[j].kind # "delete"
    BY <1>1, <1>3, <1>4, <1>8, PassedAsks DEF Calm, Starts, Reads
  <1>10. PageRun' BY <1>1, <1>8, <1>9, PassedRun DEF Calm
  <1>11. PageStarts' BY <1>1, <1>8, <1>9 DEF Calm, PageStarts, Starts
  <1>12. Web!Ids(agent)' = Web!Ids(agent) /\ ~Leaving /\ wired[1].agent = agent
    BY <1>1, <1>8 DEF Web!Ids, Leaving, Reads, Calm, PageAsks, Passing
  <1>13. PageThread' BY <1>1, <1>8, <1>12 DEF PageThread, Calm
  <1>14. PageList'
    <2>1. \A j \in DOMAIN wired' : wired'[j].kind = "threads" /\ wired'[j].served =>
            wired'[j].answer \subseteq Web!Ids(agent)'
      BY <1>4, <1>8, <1>12, PassedAnswers DEF Calm
    <2> QED BY <1>4, <1>6, <2>1 DEF PageList
  <1>15. PageShows'
    <2>1. CASE thread = None \/ run # None BY <1>1, <2>1 DEF PageShows
    <2>2. CASE \E j \in DOMAIN wired : Reading(j)
      <3>1. PICK j \in DOMAIN wired : Reading(j) BY <2>2
      <3>2. CASE j = 1
        <4>1. drawn' = [agent |-> agent, id |-> thread, n |-> kept[agent][thread]]
          BY <1>1, <1>8, <1>12, <3>1, <3>2 DEF Reading
        <4>2. ASSUME NEW n \in DOMAIN wired' PROVE wired'[n].kind \notin Reads
          <5>1. CASE wired'[n] = q BY <1>4, <5>1 DEF Reads
          <5>2. CASE n + 1 \in DOMAIN wired /\ wired'[n] = wired[n + 1]
            <6>1. n + 1 > 1 BY <1>8 DEF Passing
            <6> QED BY <3>1, <3>2, <5>2, <6>1 DEF Reading
          <5> QED BY <1>8, <5>1, <5>2 DEF Passing
        <4> QED BY <1>1, <4>1, <4>2 DEF PageShows
      <3>3. CASE j # 1
        <4> DEFINE k == j - 1
        <4>1. k \in DOMAIN wired' /\ wired'[k] = wired[j] /\ k \in Nat
          BY <1>8, <3>3 DEF Passing
        <4>2. ASSUME NEW n \in DOMAIN wired', n > k PROVE wired'[n].kind \notin Reads
          <5>1. CASE wired'[n] = q BY <1>4, <5>1 DEF Reads
          <5>2. CASE n + 1 \in DOMAIN wired /\ wired'[n] = wired[n + 1]
            <6>1. n + 1 > j BY <1>8, <4>2 DEF Passing
            <6> QED BY <3>1, <5>2, <6>1 DEF Reading
          <5> QED BY <1>8, <5>1, <5>2 DEF Passing
        <4> HIDE DEF k
        <4>3. Reading(k)' BY <1>1, <3>1, <4>1, <4>2 DEF Reading
        <4> QED BY <4>1, <4>3 DEF PageShows
      <3> QED BY <3>2, <3>3
    <2> QED BY <1>1, <1>8, <1>9, <1>12, <2>1, <2>2 DEF PageShows, Calm, Passing
  <1>16. PageFeed' BY <1>1, <1>4, <1>8, <1>9, PassedFeed DEF Calm
  <1> QED BY <1>9, <1>10, <1>11, <1>13, <1>14, <1>15, <1>16 DEF Calm

LEMMA GotNewKeeps ==
  ASSUME PageInv, NEW i \in DOMAIN wired, Web!GotNew(i)
  PROVE  PageInv'
  <1> USE DEF PageInv
  <1> DEFINE t == wired[i].answer
             q == Web!Ask("run", agent, t, None)
  <1>1. /\ wired[i].kind = "new" /\ wired[i].served
        /\ thread' = t /\ feed' = {} /\ panes' = {} /\ wired' = Append(Web!RemoveAt(wired, i), q)
        /\ calm' = (calm /\ i = 1)
        /\ UNCHANGED <<agent, run, locked, resumed, stream, drawn, list, streams,
                       pos, kept, used, phase, owner, clicks, lost, halted>>
    BY DEF Web!GotNew, Web!Got, Web!Received, Web!server, Web!Rest, Web!PostRun
  <1>2. t \in Chats BY <1>1, OnWire DEF Proper
  <1>3. GoodWire(wired) /\ agent \in Agents BY DEF PageTyped, WebTypes
  <1>4. q \in Requests /\ q.kind = "run" /\ q.agent = agent /\ q.served = FALSE /\ q.id = t
    BY <1>2, <1>3 DEF Web!Ask, Requests, RequestKinds, Names, Marks, Replies
  <1>5. Proper(q) BY <1>2, <1>4 DEF Proper, Reads
  <1> HIDE DEF q
  <1>6. /\ GoodWire(wired')
        /\ i = 1 /\ Len(wired) = 1 => DOMAIN wired' = {1} /\ wired'[1] = q /\ Len(wired') = 1
    BY <1>1, <1>3, <1>4, <1>5, RestedAndAsked
  <1>7. PageTyped' BY <1>1, <1>2, <1>6 DEF PageTyped, WebTypes
  <1> SUFFICES ASSUME calm' PROVE Calm'
    BY <1>7
  <1>8. Calm /\ i = 1 BY <1>1
  <1>9. Len(wired) = 1 /\ run = None /\ wired[1].agent = agent BY <1>1, <1>8 DEF Calm, PageAsks, Starts
  <1>10. DOMAIN wired' = {1} /\ wired'[1] = q /\ Len(wired') = 1 /\ DOMAIN wired = {1}
    <2>1. 1 .. 1 = {1} OBVIOUS
    <2> QED BY <1>3, <1>6, <1>8, <1>9, <2>1 DEF GoodWire
  <1>11. t \in Web!Ids(agent) /\ Web!Ids(agent)' = Web!Ids(agent)
    BY <1>1, <1>8 DEF Calm, PageStarts, Web!Ids
  <1>12. PageAsks' BY <1>1, <1>4, <1>9, <1>10 DEF PageAsks
  <1>13. PageRun' BY <1>1, <1>8, <1>9, <1>10 DEF PageRun, Calm
  <1>14. PageStarts' BY <1>1, <1>4, <1>8, <1>10, <1>11 DEF PageStarts, Calm
  <1>15. PageThread' BY <1>1, <1>11 DEF PageThread
  <1>16. PageList' BY <1>1, <1>4, <1>8, <1>10, <1>11 DEF PageList, Calm, Reads
  <1>17. PageShows' BY <1>4, <1>10 DEF PageShows, Starts
  <1>18. PageFeed' BY <1>1, <1>4, <1>9, <1>10 DEF PageFeed, Previews
  <1> QED BY <1>12, <1>13, <1>14, <1>15, <1>16, <1>17, <1>18 DEF Calm

LEMMA GotRunKeeps ==
  ASSUME PageInv, NEW i \in DOMAIN wired, Web!GotRun(i)
  PROVE  PageInv'
  <1> USE DEF PageInv
  <1> DEFINE r == wired[i].answer
  <1>1. /\ wired[i].kind = "run" /\ wired[i].served
        /\ r = None => UNCHANGED <<run, locked, stream, streams>>
        /\ r # None => run' = r /\ locked' = TRUE /\ stream' = r /\ streams' = streams \cup {r}
        /\ wired' = Web!RemoveAt(wired, i)
        /\ calm' = (calm /\ i = 1)
        /\ UNCHANGED <<agent, thread, resumed, drawn, list, feed, panes,
                       pos, kept, used, phase, owner, clicks, lost, halted>>
    BY DEF Web!GotRun, Web!Got, Web!Received, Web!server, Web!Rest
  <1>2. r \in PageRuns \cup {None} BY <1>1, OnWire DEF Proper
  <1>3. GoodWire(wired) BY DEF PageTyped
  <1>4. GoodWire(wired') /\ (i = 1 => Passing({})) BY <1>1, <1>3, Rested
  <1>5. PageTyped'
    <2>1. CASE r = None BY <1>1, <1>4, <2>1 DEF PageTyped, WebTypes
    <2>2. CASE r # None BY <1>1, <1>2, <1>4, <2>2, Nobody DEF PageTyped, WebTypes
    <2> QED BY <2>1, <2>2
  <1> SUFFICES ASSUME calm' PROVE Calm'
    BY <1>5
  <1>6. Calm /\ i = 1 /\ Passing({}) BY <1>1, <1>4
  <1>7. Len(wired) = 1 /\ run = None /\ r # None BY <1>1, <1>6 DEF Calm, PageAsks, PageStarts, Starts
  <1>8. DOMAIN wired' = {} /\ DOMAIN wired = {1}
    <2>1. 1 .. 1 = {1} OBVIOUS
    <2>2. DOMAIN wired = {1} BY <1>3, <1>7, <2>1 DEF GoodWire
    <2>3. ASSUME NEW j \in DOMAIN wired' PROVE FALSE
      BY <1>6, <2>2 DEF Passing
    <2> QED BY <2>2, <2>3
  <1>9. run' = r /\ stream' = r /\ streams' = {r} BY <1>1, <1>6, <1>7 DEF Calm, PageRun
  <1>10. Web!Ids(agent)' = Web!Ids(agent) BY <1>1 DEF Web!Ids
  <1>11. PageAsks' BY <1>8 DEF PageAsks
  <1>12. PageRun'
    <2>1. \A s \in PageRuns : phase[s] \in {"running", "ended"} => s = r
      <3> SUFFICES ASSUME NEW s \in PageRuns, phase[s] \in {"running", "ended"} PROVE s = r
        OBVIOUS
      <3>1. run # s BY <1>7, Nobody
      <3>2. PICK j \in DOMAIN wired : wired[j].answer = s
        BY <1>6, <3>1 DEF PageRun, Calm
      <3>3. j = i BY <1>6, <1>8
      <3> QED BY <3>2, <3>3
    <2> QED BY <1>1, <1>7, <1>9, <2>1 DEF PageRun
  <1>13. PageStarts' BY <1>1, <1>6, <1>8 DEF PageStarts, Calm
  <1>14. ~Leaving BY <1>1, <1>6 DEF Leaving
  <1>15. PageThread' BY <1>1, <1>6, <1>10, <1>14 DEF PageThread, Calm
  <1>16. PageList' BY <1>1, <1>6, <1>8, <1>10 DEF PageList, Calm, Reads
  <1>17. PageShows' BY <1>7, <1>9 DEF PageShows
  <1>18. PageFeed'
    <2>1. feed' = {} /\ panes' = {} /\ Previews' = {} BY <1>1, <1>6, <1>8 DEF PageFeed, Calm, Previews
    <2> QED BY <1>8, <2>1 DEF PageFeed
  <1> QED BY <1>11, <1>12, <1>13, <1>15, <1>16, <1>17, <1>18 DEF Calm

LEMMA GotDeleteKeeps ==
  ASSUME PageInv, NEW i \in DOMAIN wired, Web!GotDelete(i)
  PROVE  PageInv'
  <1> USE DEF PageInv
  <1> DEFINE q == Web!Ask("threads", agent, None, None)
             u == Append(Web!RemoveAt(wired, i), q)
  <1>1. /\ wired[i].kind = "delete" /\ wired[i].served
        /\ thread = wired[i].id => thread' = None /\ drawn' = None /\ feed' = {} /\ wired' = Append(u, q)
        /\ thread # wired[i].id => UNCHANGED <<thread, drawn, feed>> /\ wired' = u
        /\ calm' = (calm /\ i = 1)
        /\ UNCHANGED <<agent, run, locked, resumed, stream, list, panes, streams,
                       pos, kept, used, phase, owner, clicks, lost, halted>>
    BY DEF Web!GotDelete, Web!Got, Web!Received, Web!server, Web!Rest, Web!NewChatThen
  <1>2. GoodWire(wired) /\ agent \in Agents BY DEF PageTyped, WebTypes
  <1>3. q \in Requests /\ q.kind = "threads" /\ q.agent = agent /\ q.served = FALSE
    BY <1>2 DEF Web!Ask, Requests, RequestKinds, Names, Marks, Replies
  <1>4. Proper(q) BY <1>3 DEF Proper, Reads
  <1>5. /\ GoodWire(Web!RemoveAt(wired, i)) /\ Len(wired) \in Nat \ {0} /\ DOMAIN wired = 1 .. Len(wired)
        /\ i = 1 => /\ DOMAIN Web!RemoveAt(wired, i) = 1 .. Len(wired) - 1
                    /\ Len(Web!RemoveAt(wired, i)) = Len(wired) - 1
                    /\ \A j \in 1 .. Len(wired) - 1 : Web!RemoveAt(wired, i)[j] = wired[j + 1]
    BY <1>2, Removed
  <1> DEFINE rest == Web!RemoveAt(wired, i)
  <1>6. u = Append(rest, q) OBVIOUS
  <1> HIDE DEF q, u, rest
  <1>7. GoodWire(rest) BY <1>5 DEF rest
  <1>8. /\ GoodWire(u) /\ Len(rest) \in Nat /\ DOMAIN rest = 1 .. Len(rest)
        /\ DOMAIN u = 1 .. Len(rest) + 1 /\ Len(u) = Len(rest) + 1
        /\ \A j \in DOMAIN rest : u[j] = rest[j]
        /\ u[Len(rest) + 1] = q
    <2>1. /\ GoodWire(Append(rest, q)) /\ Len(rest) \in Nat /\ DOMAIN rest = 1 .. Len(rest)
          /\ DOMAIN Append(rest, q) = 1 .. Len(rest) + 1 /\ Len(Append(rest, q)) = Len(rest) + 1
          /\ \A j \in DOMAIN rest : Append(rest, q)[j] = rest[j]
          /\ Append(rest, q)[Len(rest) + 1] = q
      BY <1>3, <1>4, <1>7, Appended
    <2> QED BY <1>6, <2>1
  <1>9. /\ GoodWire(Append(u, q)) /\ Len(u) \in Nat /\ DOMAIN u = 1 .. Len(u)
        /\ DOMAIN Append(u, q) = 1 .. Len(u) + 1
        /\ \A j \in DOMAIN u : Append(u, q)[j] = u[j]
        /\ Append(u, q)[Len(u) + 1] = q
    BY <1>3, <1>4, <1>8, Appended
  <1>10. /\ GoodWire(wired') /\ DOMAIN wired' \subseteq Nat \ {0} /\ DOMAIN u \subseteq DOMAIN wired'
         /\ \A j \in DOMAIN u : wired'[j] = u[j]
         /\ \A j \in DOMAIN wired' : j \in DOMAIN rest \/ wired'[j] = q
    <2>1. CASE wired' = u BY <1>8, <2>1
    <2>2. CASE wired' = Append(u, q)
      <3>1. \A j \in DOMAIN wired' : j = Len(u) + 1 \/ j = Len(rest) + 1 \/ j \in DOMAIN rest
        BY <1>8, <1>9, <2>2
      <3> QED BY <1>8, <1>9, <2>2, <3>1
    <2> QED BY <1>1, <2>1, <2>2
  <1>11. PageTyped' BY <1>1, <1>10 DEF PageTyped, WebTypes
  <1> SUFFICES ASSUME calm' PROVE Calm'
    BY <1>11
  <1>12. Calm /\ i = 1 BY <1>1
  <1>13. Passing({q})
    <2>1. /\ DOMAIN rest = 1 .. Len(wired) - 1
          /\ \A j \in 1 .. Len(wired) - 1 : rest[j] = wired[j + 1]
          /\ DOMAIN wired = 1 .. Len(wired) /\ Len(wired) \in Nat \ {0}
      BY <1>5, <1>12 DEF rest
    <2>2. ASSUME NEW j \in DOMAIN wired'
          PROVE  wired'[j] = q \/ (j + 1 \in DOMAIN wired /\ wired'[j] = wired[j + 1])
      <3>1. CASE wired'[j] = q BY <3>1
      <3>2. CASE j \in DOMAIN rest
        <4>1. j \in DOMAIN u BY <1>8, <3>2
        <4>2. wired'[j] = rest[j] BY <1>8, <1>10, <3>2, <4>1
        <4> QED BY <2>1, <3>2, <4>2
      <3> QED BY <1>10, <3>1, <3>2
    <2>3. ASSUME NEW j \in DOMAIN wired, j # 1
          PROVE  j - 1 \in DOMAIN wired' /\ wired'[j - 1] = wired[j]
      <3> DEFINE k == j - 1
      <3>1. k \in DOMAIN rest /\ k + 1 = j /\ k \in 1 .. Len(wired) - 1 BY <2>1, <2>3
      <3>2. rest[k] = wired[j] BY <2>1, <3>1
      <3> HIDE DEF k
      <3>3. k \in DOMAIN u BY <1>8, <3>1
      <3>4. k \in DOMAIN wired' /\ wired'[k] = wired[j] BY <1>8, <1>10, <3>1, <3>2, <3>3
      <3> QED BY <3>4 DEF k
    <2> QED BY <1>10, <1>12, <2>1, <2>2, <2>3 DEF Passing
  <1>14. \E j \in DOMAIN wired' : wired'[j] = q
    <2>1. Len(rest) + 1 \in DOMAIN u BY <1>8
    <2> QED BY <1>8, <1>10, <2>1
  <1>15. /\ PageAsks'
         /\ \A j \in DOMAIN wired : wired[j].kind \notin Starts /\ (j # 1 => wired[j].kind # "delete")
         /\ \A j \in DOMAIN wired' : wired'[j].kind \notin Starts /\ wired'[j].kind # "delete"
    BY <1>1, <1>2, <1>3, <1>12, <1>13, PassedAsks DEF Calm, Starts
  <1>16. PageRun' BY <1>1, <1>12, <1>15, PassedRun DEF Calm
  <1>17. PageStarts' BY <1>1, <1>12, <1>15 DEF Calm, PageStarts, Starts
  <1>18. Web!Ids(agent)' = Web!Ids(agent) BY <1>1 DEF Web!Ids
  <1>19. Leaving => thread = wired[i].id BY <1>12 DEF Leaving
  <1>20. PageThread' BY <1>1, <1>12, <1>18, <1>19 DEF PageThread, Calm
  <1>21. PageList'
    <2>1. \A j \in DOMAIN wired' : wired'[j].kind = "threads" /\ wired'[j].served =>
            wired'[j].answer \subseteq Web!Ids(agent)'
      BY <1>3, <1>12, <1>13, <1>18, PassedAnswers DEF Calm
    <2> QED BY <1>3, <1>14, <2>1 DEF PageList
  <1>22. PageShows'
    <2>1. CASE thread = wired[i].id BY <1>1, <2>1 DEF PageShows
    <2>2. CASE thread # wired[i].id
      BY <1>1, <1>3, <1>12, <1>13, <1>15, <1>19, <2>2, PassedShows DEF Calm, Reads
    <2> QED BY <2>1, <2>2
  <1>23. PageFeed'
    <2>1. feed' \subseteq feed BY <1>1
    <2> QED BY <1>1, <1>3, <1>12, <1>13, <1>15, <2>1, PassedFeed DEF Calm
  <1> QED BY <1>15, <1>16, <1>17, <1>20, <1>21, <1>22, <1>23 DEF Calm

\* The answer of a preview or a Stop changes nothing the page asks by.
LEMMA Heard ==
  ASSUME PageTyped, Calm, NEW i \in DOMAIN wired, i = 1, wired[i].kind \in {"preview", "stop"},
         Passing({}),
         \A p \in panes' : p \in panes \/ (wired[1].kind = "preview" /\ p.run = wired[1].run),
         UNCHANGED <<agent, thread, run, stream, drawn, list, feed, streams, kept, phase, lost>>
  PROVE  Calm'
  <1>1. GoodWire(wired) BY DEF PageTyped
  <1>2. /\ PageAsks'
        /\ \A j \in DOMAIN wired : wired[j].kind \notin Starts /\ (j # 1 => wired[j].kind # "delete")
        /\ \A j \in DOMAIN wired' : wired'[j].kind \notin Starts /\ wired'[j].kind # "delete"
    BY <1>1, PassedAsks DEF Calm, Starts
  <1>3. PageRun' BY <1>2, PassedRun DEF Calm
  <1>4. PageStarts' BY <1>2 DEF Calm, PageStarts, Starts
  <1>5. ~Leaving BY DEF Leaving
  <1>6. PageThread' BY <1>5 DEF PageThread, Calm, Web!Ids
  <1>7. PageList' BY PassedList DEF Calm, Reads
  <1>8. PageShows' BY <1>2, <1>5, PassedShows DEF Calm, Reads
  <1>9. PageFeed' BY <1>2, PassedFeed DEF Calm
  <1> QED BY <1>2, <1>3, <1>4, <1>6, <1>7, <1>8, <1>9 DEF Calm

LEMMA GotPreviewKeeps ==
  ASSUME PageInv, NEW i \in DOMAIN wired, Web!GotPreview(i)
  PROVE  PageInv'
  <1> USE DEF PageInv
  <1>1. /\ wired[i].kind = "preview" /\ wired[i].served
        /\ panes' \subseteq panes \cup {[run |-> wired[i].run, agent |-> wired[i].agent]}
        /\ wired' = Web!RemoveAt(wired, i)
        /\ calm' = (calm /\ i = 1)
        /\ UNCHANGED <<agent, thread, run, locked, resumed, stream, drawn, list, feed, streams,
                       pos, kept, used, phase, owner, clicks, lost, halted>>
    BY DEF Web!GotPreview, Web!Got, Web!Received, Web!server, Web!Rest
  <1>2. wired[i].agent \in Agents /\ wired[i].run \in PageRuns BY <1>1, OnWire DEF Proper
  <1>3. GoodWire(wired) BY DEF PageTyped
  <1>4. GoodWire(wired') /\ (i = 1 => Passing({})) BY <1>1, <1>3, Rested
  <1>5. PageTyped'
    <2>1. panes' \subseteq [run : PageRuns, agent : Agents] BY <1>1, <1>2 DEF PageTyped, WebTypes
    <2> QED BY <1>1, <1>4, <2>1 DEF PageTyped, WebTypes
  <1> SUFFICES ASSUME calm' PROVE Calm'
    BY <1>5
  <1>6. Calm /\ i = 1 /\ Passing({}) BY <1>1, <1>4
  <1>7. \A p \in panes' : p \in panes \/ (wired[1].kind = "preview" /\ p.run = wired[1].run)
    BY <1>1, <1>6
  <1> QED BY <1>1, <1>6, <1>7, Heard

LEMMA GotStopKeeps ==
  ASSUME PageInv, NEW i \in DOMAIN wired, Web!GotStop(i)
  PROVE  PageInv'
  <1> USE DEF PageInv
  <1>1. /\ wired[i].kind = "stop" /\ wired' = Web!RemoveAt(wired, i)
        /\ calm' = (calm /\ i = 1)
        /\ UNCHANGED <<agent, thread, run, locked, resumed, stream, drawn, list, feed, panes, streams,
                       pos, kept, used, phase, owner, clicks, lost, halted>>
    BY DEF Web!GotStop, Web!Got, Web!Received, Web!server, Web!Rest, Web!page
  <1>2. GoodWire(wired) BY DEF PageTyped
  <1>3. GoodWire(wired') /\ (i = 1 => Passing({})) BY <1>1, <1>2, Rested
  <1>4. PageTyped' BY <1>1, <1>3 DEF PageTyped, WebTypes
  <1>5. calm' => Calm' BY <1>1, <1>3, Heard
  <1> QED BY <1>4, <1>5

\* The wire with one more request at its end, or as it was.
Longer(q_) ==
  /\ DOMAIN wired \subseteq DOMAIN wired' /\ DOMAIN wired' \subseteq Nat \ {0}
  /\ \A j \in DOMAIN wired : wired'[j] = wired[j]
  /\ \A j \in DOMAIN wired' : j \in DOMAIN wired \/ (wired'[j] \in q_ /\ \A n \in DOMAIN wired' : n <= j)
  /\ wired # <<>> => wired' # <<>> /\ 1 \in DOMAIN wired

LEMMA Lengthened ==
  ASSUME GoodWire(wired), NEW q \in Requests, Proper(q), wired' = Append(wired, q)
  PROVE  GoodWire(wired') /\ Longer({q}) /\ \E j \in DOMAIN wired' : wired'[j] = q /\ \A n \in DOMAIN wired' : n <= j
  <1>1. /\ GoodWire(wired') /\ Len(wired) \in Nat /\ DOMAIN wired = 1 .. Len(wired)
        /\ DOMAIN wired' = 1 .. Len(wired) + 1 /\ Len(wired') = Len(wired) + 1
        /\ \A j \in DOMAIN wired : wired'[j] = wired[j]
        /\ wired'[Len(wired) + 1] = q
    <2>1. /\ GoodWire(Append(wired, q)) /\ Len(wired) \in Nat /\ DOMAIN wired = 1 .. Len(wired)
          /\ DOMAIN Append(wired, q) = 1 .. Len(wired) + 1 /\ Len(Append(wired, q)) = Len(wired) + 1
          /\ \A j \in DOMAIN wired : Append(wired, q)[j] = wired[j]
          /\ Append(wired, q)[Len(wired) + 1] = q
      BY Appended
    <2> QED BY <2>1
  <1>2. Len(wired) + 1 \in DOMAIN wired' /\ \A n \in DOMAIN wired' : n <= Len(wired) + 1 BY <1>1
  <1>3. \A j \in DOMAIN wired' : j \in DOMAIN wired \/ (wired'[j] = q /\ \A n \in DOMAIN wired' : n <= j)
    <2> SUFFICES ASSUME NEW j \in DOMAIN wired', j \notin DOMAIN wired PROVE j = Len(wired) + 1
      BY <1>1, <1>2
    <2> QED BY <1>1
  <1>4. wired # <<>> => wired' # <<>> /\ 1 \in DOMAIN wired
    <2> SUFFICES ASSUME wired # <<>> PROVE wired' # <<>> /\ 1 \in DOMAIN wired
      OBVIOUS
    <2>1. Len(wired) # 0
      <3>1. wired \in Seq(Requests) BY DEF GoodWire
      <3> QED BY <3>1, EmptySeq
    <2>2. 1 \in DOMAIN wired BY <1>1, <2>1
    <2>3. wired' # <<>>
      <3>1. Len(<<>>) = 0 BY EmptySeq
      <3> QED BY <1>1, <3>1
    <2> QED BY <2>2, <2>3
  <1>5. DOMAIN wired \subseteq DOMAIN wired' /\ DOMAIN wired' \subseteq Nat \ {0} BY <1>1
  <1> QED BY <1>1, <1>2, <1>3, <1>4, <1>5 DEF Longer

LEMMA SameWire ==
  ASSUME GoodWire(wired), wired' = wired
  PROVE  GoodWire(wired') /\ Longer({})
  <1>1. wired \in Seq(Requests) BY DEF GoodWire
  <1>2. DOMAIN wired = 1 .. Len(wired) /\ Len(wired) \in Nat BY <1>1
  <1>3. wired # <<>> => Len(wired) # 0 BY <1>1, EmptySeq
  <1>4. DOMAIN wired \subseteq Nat \ {0} /\ (wired # <<>> => 1 \in DOMAIN wired) BY <1>2, <1>3
  <1> QED BY <1>4 DEF Longer

\* While a run is on the page, or one ends on it.
LEMMA LongerAsks ==
  ASSUME PageAsks, PageRun, PageStarts, PageThread, PageList, run # None,
         NEW q_, Longer(q_),
         \A q \in q_ : q.agent = agent /\ q.served = FALSE /\ q.kind \in {"preview", "refresh"},
         UNCHANGED <<agent, thread, list, kept, lost>>
  PROVE  /\ PageAsks' /\ PageStarts' /\ PageThread' /\ PageList'
         /\ \A j \in DOMAIN wired' : wired'[j].kind \notin Starts
  <1>1. \A j \in DOMAIN wired : wired[j].kind \notin Starts BY DEF PageAsks
  <1>2. Web!Ids(agent)' = Web!Ids(agent) BY DEF Web!Ids
  <1>3. ASSUME NEW j \in DOMAIN wired'
        PROVE  /\ wired'[j].kind \notin Starts /\ wired'[j].agent = agent
               /\ j \in DOMAIN wired \/ (wired'[j].kind \in {"preview", "refresh"} /\ ~wired'[j].served)
    <2>1. CASE j \in DOMAIN wired BY <1>1, <2>1 DEF Longer, PageAsks
    <2>2. CASE wired'[j] \in q_ BY <2>2 DEF Starts
    <2> QED BY <2>1, <2>2 DEF Longer
  <1>4. PageAsks'
    <2>1. \A j \in DOMAIN wired' : wired'[j].kind = "delete" => j \in DOMAIN wired /\ wired[j].kind = "delete"
      BY <1>3 DEF Longer
    <2>2. \A j \in DOMAIN wired' : wired'[j].kind \in {"threads", "open"} =>
            j \in DOMAIN wired /\ wired[j].kind = wired'[j].kind
      BY <1>3 DEF Longer
    <2> QED BY <1>3, <2>1, <2>2 DEF PageAsks
  <1>5. PageStarts' BY <1>3 DEF PageStarts, Starts
  <1>6. PageThread'
    <2>1. Leaving => Leaving' BY DEF Leaving, Longer
    <2> QED BY <1>2, <2>1 DEF PageThread
  <1>7. PageList'
    <2>1. \A j \in DOMAIN wired' : wired'[j].kind = "threads" /\ wired'[j].served =>
            wired'[j].answer \subseteq Web!Ids(agent)'
      BY <1>2, <1>3 DEF PageList, Longer
    <2>2. \/ list # None => list.agent = agent /\ list.ids \subseteq Web!Ids(agent)
          \/ \E j \in DOMAIN wired' : wired'[j].kind \in Reads \cup {"threads", "delete"}
      BY DEF PageList, Longer
    <2> QED BY <1>2, <2>1, <2>2 DEF PageList
  <1> QED BY <1>3, <1>4, <1>5, <1>6, <1>7

\* finishRun.
LEMMA Finished ==
  ASSUME PageTyped, Web!FinishRun
  PROVE  /\ GoodWire(wired') /\ streams' \subseteq streams /\ stream' = None /\ run' = None /\ locked' = FALSE
         /\ streams' = streams \ {stream}
         /\ \E q_ \in SUBSET Requests :
              /\ Longer(q_) /\ \A q \in q_ : q.agent = agent /\ q.served = FALSE /\ q.kind = "refresh"
              /\ thread = None \/ \E j \in DOMAIN wired' : /\ wired'[j].kind = "refresh" /\ ~wired'[j].served
                                                           /\ wired'[j].id = thread
                                                           /\ \A n \in DOMAIN wired' : n <= j
  <1>1. /\ streams' = streams \ {stream} /\ stream' = None /\ run' = None /\ locked' = FALSE
    BY DEF Web!FinishRun
  <1>2. GoodWire(wired) /\ agent \in Agents /\ thread \in Chats \cup {None} BY DEF PageTyped, WebTypes
  <1>3. CASE thread = None
    <2>1. wired' = wired BY <1>3 DEF Web!FinishRun
    <2>2. GoodWire(wired') /\ Longer({}) BY <1>2, <2>1, SameWire
    <2> QED BY <1>1, <1>3, <2>2
  <1>4. CASE thread # None
    <2> DEFINE q == Web!Ask("refresh", agent, thread, None)
    <2>1. wired' = Append(wired, q) BY <1>4 DEF Web!FinishRun
    <2>2. q \in Requests /\ q.kind = "refresh" /\ q.agent = agent /\ q.served = FALSE /\ q.id = thread
      BY <1>2, <1>4 DEF Web!Ask, Requests, RequestKinds, Names, Marks, Replies
    <2>3. Proper(q) BY <1>2, <1>4, <2>2 DEF Proper, Reads
    <2> HIDE DEF q
    <2>4. GoodWire(wired') /\ Longer({q}) /\ \E j \in DOMAIN wired' : wired'[j] = q /\ \A n \in DOMAIN wired' : n <= j
      BY <1>2, <2>1, <2>2, <2>3, Lengthened
    <2>5. \E j \in DOMAIN wired' : /\ wired'[j].kind = "refresh" /\ ~wired'[j].served
                                   /\ wired'[j].id = thread /\ \A n \in DOMAIN wired' : n <= j
      BY <2>2, <2>4
    <2>6. {q} \in SUBSET Requests /\ \A p \in {q} : p.agent = agent /\ p.served = FALSE /\ p.kind = "refresh"
      BY <2>2
    <2> QED BY <1>1, <2>4, <2>5, <2>6
  <1> QED BY <1>3, <1>4

LEMMA PageDropKeeps ==
  ASSUME PageInv, NEW r \in PageRuns, Web!Drop(r)
  PROVE  PageInv'
  <1>1. /\ pos' = [pos EXCEPT ![r] = 3] /\ calm' = FALSE
        /\ UNCHANGED <<agent, thread, resumed, drawn, list, feed, panes, kept, used, phase, owner,
                       clicks, lost, halted>>
    BY DEF Web!Drop, Web!Closed, Web!server
  <1>2. /\ GoodWire(wired') /\ streams' \subseteq streams /\ stream' = None /\ run' = None /\ locked' = FALSE
    BY Finished DEF PageInv, Web!Drop
  <1>3. 3 \in 0 .. 3 OBVIOUS
  <1> QED BY <1>1, <1>2, <1>3 DEF PageInv, PageTyped, WebTypes

LEMMA EventKeeps ==
  ASSUME PageInv, NEW r \in PageRuns, Web!Event(r)
  PROVE  PageInv'
  <1> USE DEF PageInv
  <1>1. /\ r \in streams /\ pos[r] < 3 /\ (pos[r] = 2 => phase[r] = "over")
        /\ pos' = [pos EXCEPT ![r] = pos[r] + 1]
        /\ UNCHANGED <<agent, thread, resumed, drawn, list, kept, used, phase, owner, calm, clicks,
                       lost, halted>>
    BY DEF Web!Event, Web!Closed, Web!server, Web!ghosts
  <1>2. pos' \in [PageRuns -> 0 .. 3] /\ pos[r] \in {0, 1, 2}
    BY <1>1 DEF PageTyped, WebTypes
  <1>3. GoodWire(wired) /\ agent \in Agents BY DEF PageTyped, WebTypes
  <1>4. ASSUME calm' PROVE Calm /\ run = r /\ run # None /\ streams = {r} /\ stream = r
    <2>1. Calm BY <1>1, <1>4
    <2> QED BY <1>1, <2>1, Nobody DEF Calm, PageRun
  <1>5. CASE pos[r] = 0 /\ feed' = {r} /\ panes' = {} /\ UNCHANGED <<run, locked, stream, streams, wired>>
    <2>1. PageTyped' BY <1>1, <1>2, <1>5 DEF PageTyped, WebTypes
    <2> SUFFICES ASSUME calm' PROVE Calm'
      BY <2>1
    <2>2. Calm /\ run = r /\ run # None BY <1>4
    <2>3. Longer({}) BY <1>3, <1>5, SameWire
    <2>4. /\ PageAsks' /\ PageStarts' /\ PageThread' /\ PageList'
          /\ \A j \in DOMAIN wired' : wired'[j].kind \notin Starts
      BY <1>1, <2>2, <2>3, LongerAsks DEF Calm
    <2>5. PageRun' BY <1>1, <1>5, <2>2 DEF Calm, PageRun
    <2>6. PageShows' BY <1>5, <2>2 DEF PageShows
    <2>7. PageFeed'
      <3>1. Previews' = Previews BY <1>5 DEF Previews
      <3>2. \A j \in Previews : wired'[j].run = r
        BY <1>5, <2>2 DEF Calm, PageFeed
      <3>3. \A j \in DOMAIN wired' : wired'[j].kind # "run" BY <2>4 DEF Starts
      <3> QED BY <1>5, <2>2, <3>1, <3>2, <3>3 DEF PageFeed
    <2> QED BY <2>4, <2>5, <2>6, <2>7 DEF Calm
  <1>6. CASE /\ pos[r] = 1 /\ feed' = feed \cup {r} /\ UNCHANGED <<run, locked, stream, streams, panes>>
             /\ \/ wired' = wired
                \/ wired' = Append(wired, Web!Ask("preview", agent, None, r))
    <2> DEFINE q == Web!Ask("preview", agent, None, r)
    <2>1. /\ q \in Requests /\ q.kind = "preview" /\ q.agent = agent /\ q.served = FALSE /\ q.run = r
      BY <1>3 DEF Web!Ask, Requests, RequestKinds, Names, Marks, Replies
    <2>2. Proper(q) BY <2>1 DEF Proper, Reads
    <2>3. wired' = wired \/ wired' = Append(wired, q) BY <1>6
    <2> HIDE DEF q
    <2>4. GoodWire(wired') /\ Longer({q})
      <3>1. CASE wired' = wired
        <4>1. GoodWire(wired') /\ Longer({}) BY <1>3, <3>1, SameWire
        <4> QED BY <4>1 DEF Longer
      <3>2. CASE wired' = Append(wired, q) BY <1>3, <2>1, <2>2, <3>2, Lengthened
      <3> QED BY <2>3, <3>1, <3>2
    <2>5. PageTyped' BY <1>1, <1>2, <1>6, <2>4 DEF PageTyped, WebTypes
    <2> SUFFICES ASSUME calm' PROVE Calm'
      BY <2>5
    <2>6. Calm /\ run = r /\ run # None BY <1>4
    <2>7. /\ PageAsks' /\ PageStarts' /\ PageThread' /\ PageList'
          /\ \A j \in DOMAIN wired' : wired'[j].kind \notin Starts
      BY <1>1, <2>1, <2>4, <2>6, LongerAsks DEF Calm
    <2>8. PageRun' 
      <3>1. \A j \in DOMAIN wired : wired[j].kind # "run" BY <2>6, NoStarts DEF Calm
      <3> QED BY <1>1, <1>6, <2>6, <3>1 DEF Calm, PageRun
    <2>9. PageShows' BY <1>6, <2>6 DEF PageShows
    <2>10. PageFeed'
      <3>1. ASSUME NEW j \in Previews' PROVE wired'[j].run = r
        <4>1. j \in DOMAIN wired' /\ wired'[j].kind = "preview" BY DEF Previews
        <4>2. CASE j \in DOMAIN wired
          <5>1. wired'[j] = wired[j] /\ j \in Previews BY <2>4, <4>1, <4>2 DEF Longer, Previews
          <5> QED BY <2>6, <5>1 DEF Calm, PageFeed
        <4>3. CASE wired'[j] = q BY <2>1, <4>3
        <4> QED BY <2>4, <4>1, <4>2, <4>3 DEF Longer
      <3>2. feed' \cup {p.run : p \in panes'} \subseteq {r}
        BY <1>6, <2>6 DEF Calm, PageFeed
      <3>3. \A j \in DOMAIN wired' : wired'[j].kind # "run" BY <2>7 DEF Starts
      <3>4. \A s \in feed' \cup {p.run : p \in panes'} \cup {wired'[j].run : j \in Previews'} : s = r
        BY <3>1, <3>2
      <3> QED BY <1>6, <2>6, <3>3, <3>4 DEF PageFeed
    <2> QED BY <2>7, <2>8, <2>9, <2>10 DEF Calm
  <1>7. CASE pos[r] = 2 /\ Web!FinishRun /\ UNCHANGED <<feed, panes>>
    <2>1. /\ GoodWire(wired') /\ streams' \subseteq streams /\ stream' = None /\ run' = None /\ locked' = FALSE
          /\ streams' = streams \ {stream}
      BY <1>7, Finished
    <2>2. PICK q_ \in SUBSET Requests :
              /\ Longer(q_) /\ \A q \in q_ : q.agent = agent /\ q.served = FALSE /\ q.kind = "refresh"
              /\ thread = None \/ \E j \in DOMAIN wired' : /\ wired'[j].kind = "refresh" /\ ~wired'[j].served
                                                           /\ wired'[j].id = thread
                                                           /\ \A n \in DOMAIN wired' : n <= j
      BY <1>7, Finished
    <2>3. PageTyped' BY <1>1, <1>2, <1>7, <2>1 DEF PageTyped, WebTypes
    <2> SUFFICES ASSUME calm' PROVE Calm'
      BY <2>3
    <2>4. Calm /\ run = r /\ run # None /\ streams = {r} /\ stream = r BY <1>4
    <2>5. /\ PageAsks' /\ PageStarts' /\ PageThread' /\ PageList'
          /\ \A j \in DOMAIN wired' : wired'[j].kind \notin Starts
      BY <1>1, <2>2, <2>4, LongerAsks DEF Calm
    <2>6. PageRun'
      <3>1. \A s \in PageRuns : phase[s] \notin {"running", "ended"}
        <4>1. \A j \in DOMAIN wired : wired[j].kind # "run" BY <2>4, NoStarts DEF Calm
        <4> QED BY <1>1, <1>7, <2>4, <4>1 DEF Calm, PageRun
      <3> QED BY <1>1, <2>1, <2>4, <3>1 DEF PageRun
    <2>7. PageShows'
      <3>1. CASE thread = None BY <1>1, <3>1 DEF PageShows
      <3>2. CASE thread # None
        <4>1. PICK j \in DOMAIN wired' : /\ wired'[j].kind = "refresh" /\ ~wired'[j].served
                                         /\ wired'[j].id = thread /\ \A n \in DOMAIN wired' : n <= j
          BY <2>2, <3>2
        <4>2. \A n \in DOMAIN wired' : ~(n > j) BY <2>2, <4>1 DEF Longer
        <4>3. Reading(j)' BY <1>1, <4>1, <4>2 DEF Reading, Reads
        <4> QED BY <4>3 DEF PageShows
      <3> QED BY <3>1, <3>2
    <2>8. PageFeed'
      <3>1. Previews' = Previews /\ \A j \in Previews : wired'[j] = wired[j]
        BY <2>2 DEF Previews, Longer
      <3>2. {wired'[j].run : j \in Previews'} = {wired[j].run : j \in Previews} BY <3>1
      <3>3. \A j \in DOMAIN wired' : wired'[j].kind # "run" BY <2>5 DEF Starts
      <3> QED BY <1>7, <2>1, <2>4, <3>2, <3>3 DEF PageFeed, Calm
    <2> QED BY <2>5, <2>6, <2>7, <2>8 DEF Calm
  <1>8. \/ pos[r] = 0 /\ feed' = {r} /\ panes' = {} /\ UNCHANGED <<run, locked, stream, streams, wired>>
        \/ /\ pos[r] = 1 /\ feed' = feed \cup {r} /\ UNCHANGED <<run, locked, stream, streams, panes>>
           /\ \/ wired' = wired
              \/ wired' = Append(wired, Web!Ask("preview", agent, None, r))
        \/ pos[r] = 2 /\ Web!FinishRun /\ UNCHANGED <<feed, panes>>
    BY <1>2 DEF Web!Event
  <1> QED BY <1>5, <1>6, <1>7, <1>8

LEMMA PageStep == ASSUME PageInv, [Web!Next]_(Web!vars) PROVE PageInv'
  <1>1. CASE UNCHANGED Web!vars
    <2>1. /\ UNCHANGED <<agent, thread, run, locked, resumed, stream, drawn, list, feed, panes, streams, pos>>
          /\ UNCHANGED <<wired, kept, used, phase, owner, calm, clicks, lost, halted>>
      BY <1>1 DEF Web!vars, Web!page, Web!server, Web!ghosts
    <2>2. PageTyped' BY <2>1 DEF PageInv, PageTyped, WebTypes
    <2>3. calm' => calm /\ Calm BY <2>1 DEF PageInv
    <2>4. calm' => PageAsks' /\ PageRun' /\ PageStarts' /\ PageThread'
      BY <2>1, <2>3 DEF Calm, PageAsks, PageRun, PageStarts, PageThread, Leaving, Web!Ids
    <2>5. calm' => PageList' /\ PageShows'
      <3>1. Leaving' = Leaving /\ Web!Ids(agent)' = Web!Ids(agent) BY <2>1 DEF Leaving, Web!Ids
      <3>2. \A i : Reading(i)' = Reading(i) BY <2>1 DEF Reading
      <3>3. PageList => PageList' BY <2>1, <3>1 DEF PageList
      <3>4. PageShows => PageShows' BY <2>1, <3>1, <3>2 DEF PageShows
      <3> QED BY <2>3, <3>3, <3>4 DEF Calm
    <2>6. calm' => PageFeed' BY <2>1, <2>3 DEF Calm, PageFeed, Previews
    <2> QED BY <2>2, <2>4, <2>5, <2>6 DEF PageInv, Calm
  <1>2. CASE Web!Operator
    BY <1>2, SelectAgentKeeps, NewChatKeeps, OpenThreadKeeps, DeleteThreadKeeps, StopKeeps,
       StartRunKeeps DEF Web!Operator
  <1>3. ASSUME NEW i \in DOMAIN wired, Web!Serve(i) PROVE PageInv'
    BY <1>3, ServeReadKeeps, ServePreviewKeeps, ServeNewKeeps, ServeDeleteKeeps, ServeRunKeeps,
       ServeStopKeeps DEF Web!Serve
  <1>4. ASSUME NEW i \in DOMAIN wired, Web!Receive(i) PROVE PageInv'
    BY <1>4, GotThreadsKeeps, GotThreadKeeps, GotNewKeeps, GotRunKeeps, GotDeleteKeeps,
       GotPreviewKeeps, GotStopKeeps DEF Web!Receive
  <1>5. ASSUME NEW r \in PageRuns, Web!RunEnds(r) \/ Web!Reply(r) \/ Web!Event(r) \/ Web!Drop(r)
        PROVE  PageInv'
    BY <1>5, RunEndsKeeps, ReplyKeeps, EventKeeps, PageDropKeeps
  <1> QED BY <1>1, <1>2, <1>3, <1>4, <1>5 DEF Web!Next

\* The invariant gives what a page at rest shows.
LEMMA PageHolds == ASSUME PageInv PROVE Web!PageIsRight /\ Web!TypeOK
  <1>1. Web!TypeOK BY PageTypeOK DEF PageInv
  <1>2. ASSUME calm, wired = <<>>
        PROVE  /\ list # None => list.agent = agent
               /\ run = None /\ thread # None =>
                    drawn = [agent |-> agent, id |-> thread, n |-> kept[agent][thread]]
               /\ \A r, s \in feed \cup {p.run : p \in panes} : r = s
               /\ \A r \in PageRuns : phase[r] = "running" => run = r
    <2>1. Calm BY <1>2 DEF PageInv
    <2>2. DOMAIN wired = {} /\ ~Leaving BY <1>2 DEF Leaving
    <2>3. list # None => list.agent = agent BY <2>1, <2>2 DEF Calm, PageList
    <2>4. run = None /\ thread # None =>
            drawn = [agent |-> agent, id |-> thread, n |-> kept[agent][thread]]
      BY <2>1, <2>2 DEF Calm, PageShows
    <2>5. \A r, s \in feed \cup {p.run : p \in panes} : r = s BY <2>1 DEF Calm, PageFeed
    <2>6. \A r \in PageRuns : phase[r] = "running" => run = r BY <2>1, <2>2 DEF Calm, PageRun
    <2> QED BY <2>3, <2>4, <2>5, <2>6
  <1>3. calm => lost = {} BY DEF PageInv, Calm, PageStarts
  <1> QED BY <1>1, <1>2, <1>3 DEF Web!PageIsRight, Web!Quiet

\* A page whose operator waits for it is at rest with what is selected, and no task
\* has gone into no conversation, whatever the bounds.
THEOREM PageHoldsAlways == Web!Spec => [](Web!PageIsRight /\ Web!TypeOK)
  <1>1. Web!Init => PageInv BY PageStarts1
  <1>2. PageInv /\ [Web!Next]_(Web!vars) => PageInv' BY PageStep
  <1>3. PageInv => Web!PageIsRight /\ Web!TypeOK BY PageHolds
  <1> QED BY <1>1, <1>2, <1>3, PTL DEF Web!Spec

-----------------------------------------------------------------------------
(* The composition                                                          *)

\* Every behaviour of the composition is one of each part.
LEMMA Parts == LabSpec => Spec /\ Log!Spec /\ Mcp!Spec /\ Chat!Spec /\ Life!Spec /\ Web!Spec
  <1>1. LabInit => Init /\ Log!Init /\ Mcp!Init /\ Chat!Init /\ Life!Init /\ Web!Init
    BY DEF LabInit
  <1> USE DEF LabNext, InConsent, InJournal, InChat, InLife, InMcp, InWeb, all
  <1>2. [LabNext]_all => [Next]_vars OBVIOUS
  <1>3. [LabNext]_all => [Log!Next]_(Log!vars)
    BY DEF journal, Log!vars, Log!journal, Log!adding, Log!stream
  <1>4. [LabNext]_all => [Mcp!Next]_(Mcp!vars) BY DEF mcp, Mcp!vars
  <1>5. [LabNext]_all => [Chat!Next]_(Chat!vars) BY DEF chat, Chat!vars
  <1>6. [LabNext]_all => [Life!Next]_(Life!vars) BY DEF life, Life!vars, Life!tree, Life!locks
  <1>7. [LabNext]_all => [Web!Next]_(Web!vars) BY DEF web, Web!vars, Web!page, Web!server, Web!ghosts
  <1> HIDE DEF LabNext, all
  <1> QED
    BY <1>1, <1>2, <1>3, <1>4, <1>5, <1>6, <1>7, PTL
    DEF LabSpec, Spec, Log!Spec, Mcp!Spec, Chat!Spec, Life!Spec, Web!Spec

\* The pump thread offers every stream what is due to it, in order and once each, until
\* the stream is dropped; one that is dropped is told of it, and the pump goes on.
THEOREM LabStreamHolds == ASSUME Resume = FALSE PROVE LabSpec => []StreamHolds
  <1>1. JInv => StreamHolds BY JournalHolds
  <1> QED BY <1>1, Parts, JournalInvariance, PTL

\* A call is allowed only by the yes to its own question, in every behaviour of the
\* composition, a question is decided once, and a yes in time is obeyed.
THEOREM LabConsent == LabSpec => []ConsentOnly /\ []DecidedOnce /\ []YesObeyed
  BY Parts, ConsentIsOwn, ConsentOnce, ConsentObeyed, PTL

\* No account is changed without the operator's yes, whatever the servers answer.
THEOREM LabNothingUnasked == LabSpec => []NothingUnasked
  <1>1. Servers \in Nat /\ MaxRequests \in Nat BY LabAssumption
  <1>2. Mcp!Spec => []Mcp!NothingUnasked BY <1>1, McpNothingUnasked
  <1>3. NothingUnasked <=> Mcp!NothingUnasked BY DEF NothingUnasked
  <1> QED BY <1>2, <1>3, Parts, PTL

\* An answer is the answer of its own request, whatever came late or out of order.
THEOREM LabOwnAnswer == LabSpec => []OwnAnswer
  <1>1. Servers \in Nat /\ MaxRequests \in Nat BY LabAssumption
  <1>2. Mcp!Spec => []Mcp!OwnAnswer BY <1>1, McpOwnAnswer
  <1>3. OwnAnswer <=> Mcp!OwnAnswer BY DEF OwnAnswer
  <1> QED BY <1>2, <1>3, Parts, PTL

\* With one caller at a time threads.json is whole whatever dies, no turn is lost and no
\* deleted conversation comes back; and a page whose operator waits for it shows
\* what is selected.
THEOREM LabHistoryHolds == ASSUME OneCaller PROVE LabSpec => HistoryHolds
  <1>1. Chat!Init => ChatInv BY ChatStarts
  <1>2. ChatInv /\ [Chat!Next]_(Chat!vars) => ChatInv' BY ChatStep
  <1>3. Chat!Spec => []ChatInv BY <1>1, <1>2, PTL DEF Chat!Spec
  <1>4. Web!Init => PageInv BY PageStarts1
  <1>5. PageInv /\ [Web!Next]_(Web!vars) => PageInv' BY PageStep
  <1>6. Web!Spec => []PageInv BY <1>4, <1>5, PTL DEF Web!Spec
  <1> DEFINE Step == /\ Chat!WholeFile' /\ Chat!TurnsKept' /\ Web!PageIsRight'
                     /\ \A t \in deleted : Chat!Loaded[t] = None => Chat!Loaded'[t] = None
  <1>7. ChatInv => Chat!WholeFile /\ Chat!TurnsKept BY ChatHolds
  <1>8. ChatInv' => Chat!WholeFile' /\ Chat!TurnsKept' BY <1>7, PTL
  <1>9. PageInv => Web!PageIsRight BY PageHolds
  <1>10. PageInv' => Web!PageIsRight' BY <1>9, PTL
  <1>11. ChatInv /\ ChatInv' /\ PageInv /\ PageInv' /\ [Chat!Next]_(Chat!vars) => Step
    <2> SUFFICES ASSUME ChatInv, ChatInv', PageInv', [Chat!Next]_(Chat!vars) PROVE Step
      OBVIOUS
    <2>1. Chat!WholeFile' /\ Chat!TurnsKept' BY <1>8
    <2>2. Web!PageIsRight' BY <1>10
    <2>3. Chat!Loaded = content[file] /\ Chat!Loaded' = content'[file']
      BY DEF ChatInv, ChatFiles, Chat!Loaded
    <2>4. \A t \in deleted : content[file][t] = None => content'[file'][t] = None BY ChatStep
    <2> QED BY <2>1, <2>2, <2>3, <2>4
  <1>12. HistoryHolds <=> [][Step]_all BY DEF HistoryHolds
  <1>13. LabSpec => [][LabNext]_all BY PTL DEF LabSpec
  <1>14. [LabNext]_all => [Chat!Next]_(Chat!vars)
    BY DEF LabNext, InConsent, InJournal, InChat, InLife, InMcp, InWeb, all, chat, Chat!vars
  <1> HIDE DEF Step
  <1> QED BY <1>3, <1>6, <1>11, <1>12, <1>13, <1>14, Parts, PTL

\* Every part keeps its types, in the journal as the page uses it and with one caller of
\* the conversations.
THEOREM LabTypes == ASSUME Resume = FALSE, OneCaller PROVE LabSpec => []LabTypeOK
  <1>1. Chat!Init => ChatInv BY ChatStarts
  <1>2. ChatInv /\ [Chat!Next]_(Chat!vars) => ChatInv' BY ChatStep
  <1>3. ChatInv => Chat!TypeOK BY ChatHolds
  <1>4. Chat!Spec => []Chat!TypeOK BY <1>1, <1>2, <1>3, PTL DEF Chat!Spec
  <1>5. JInv => Log!TypeOK BY DEF JInv
  <1>6. Log!Spec => []Log!TypeOK BY <1>5, JournalInvariance, PTL
  <1>7. Servers \in Nat /\ MaxRequests \in Nat /\ Life!RunsAssumption
    BY LabAssumption, RunConstants
  <1>8. Mcp!Spec => []Mcp!TypeOK BY <1>7, McpTypeOK
  <1>9. Life!Spec => []Life!TypeOK BY <1>7, Life!RunTypeOK
  <1>10. Web!Spec => []Web!TypeOK BY PageHoldsAlways, PTL
  <1>11. Spec => []TypeOK BY ConsentTypeOK
  <1>12. LabTypeOK <=> TypeOK /\ Log!TypeOK /\ Chat!TypeOK /\ Life!TypeOK /\ Mcp!TypeOK /\ Web!TypeOK
    BY DEF LabTypeOK
  <1> QED BY <1>4, <1>6, <1>8, <1>9, <1>10, <1>11, <1>12, Parts, PTL
=============================================================================
