----------------------------- MODULE ChatThreads -----------------------------
(***************************************************************************)
(* The conversation file of harness/chat.py: create, append and delete     *)
(* read threads.json, change the copy in memory and save it through        *)
(* threads.json.tmp and os.replace.  The callers are the HTTP handlers and *)
(* the pump threads of webui/server.py; nothing serialises them.  Files    *)
(* are inodes, as POSIX has them: a temporary that is opened twice is one  *)
(* file, and goes on being written after it was renamed.                   *)
(***************************************************************************)
EXTENDS Naturals, Sequences, SequencesExt

CONSTANTS
  Callers,   \* threads that may be in chat.py at the same time
  Threads,   \* conversation ids
  None,
  MaxOps     \* bound on the calls of one behaviour; call n appends turn n

\* A document: the turns of each conversation, None where there is none.
Docs  == [Threads -> Seq(1 .. MaxOps) \cup {None}]
Empty == [t \in Threads |-> None]
Inodes == 0 .. MaxOps

VARIABLES
  content,  \* content[i]: the document in inode i
  torn,     \* torn[i]: its bytes are none: empty, cut short or mixed
  file,     \* inode of threads.json
  tmp,      \* inode of threads.json.tmp, None when there is none
  at,       \* at[c]: where the call of c is
  call,     \* call[c]: number, operation and conversation of that call
  copy,     \* copy[c]: its document in memory
  inode,    \* inode[c]: the file it has open
  alone,    \* alone[c]: nobody else has opened that file since
  ops,      \* calls so far
  turns,    \* turns that were reported as appended, with their conversation
  deleted   \* conversations a delete has begun on

vars == <<content, torn, file, tmp, at, call, copy, inode, alone, ops, turns, deleted>>

Calls == [n : 1 .. MaxOps, op : {"create", "append", "delete"}, thread : Threads]

TypeOK ==
  /\ content \in [Inodes -> Docs] /\ torn \in [Inodes -> BOOLEAN]
  /\ file \in Inodes
  /\ tmp \in Inodes \cup {None}
  /\ at \in [Callers -> {"idle", "loaded", "opened", "written"}]
  /\ call \in [Callers -> Calls \cup {None}]
  /\ copy \in [Callers -> Docs]
  /\ inode \in [Callers -> Inodes]
  /\ alone \in [Callers -> BOOLEAN]
  /\ ops \in 0 .. MaxOps
  /\ turns \subseteq Threads \X (1 .. MaxOps)
  /\ deleted \subseteq Threads

Init ==
  /\ content = [i \in Inodes |-> Empty] /\ torn = [i \in Inodes |-> FALSE]
  /\ file = 0 /\ tmp = None
  /\ at = [c \in Callers |-> "idle"]
  /\ call = [c \in Callers |-> None]
  /\ copy = [c \in Callers |-> Empty]
  /\ inode = [c \in Callers |-> 0]
  /\ alone = [c \in Callers |-> TRUE]
  /\ ops = 0 /\ turns = {} /\ deleted = {}

\* _load: a file json refuses is an empty history.
Loaded == IF torn[file] THEN Empty ELSE content[file]

\* What the operation makes of the document; append to a conversation that is
\* not there returns False and saves nothing.
Changed(k, doc) ==
  CASE k.op = "create" -> [doc EXCEPT ![k.thread] = <<>>]
    [] k.op = "append" -> [doc EXCEPT ![k.thread] = Append(@, k.n)]
    [] k.op = "delete" -> [doc EXCEPT ![k.thread] = None]

\* Load and change; create draws an id nobody has used.
Begin(c) ==
  /\ at[c] = "idle" /\ ops < MaxOps
  /\ \E op \in {"create", "append", "delete"}, t \in Threads :
       LET k == [n |-> ops + 1, op |-> op, thread |-> t] IN
       /\ op = "create" => /\ Loaded[t] = None /\ t \notin deleted
                           /\ \A d \in Callers : call[d] # None => call[d].thread # t
                           /\ \A m \in 1 .. MaxOps : <<t, m>> \notin turns
       /\ op = "append" => Loaded[t] # None
       /\ call' = [call EXCEPT ![c] = k]
       /\ copy' = [copy EXCEPT ![c] = Changed(k, Loaded)]
       /\ deleted' = IF op = "delete" THEN deleted \cup {t} ELSE deleted
  /\ ops' = ops + 1
  /\ at' = [at EXCEPT ![c] = "loaded"]
  /\ UNCHANGED <<content, torn, file, tmp, inode, alone, turns>>

\* Slip: the file is written in place.
OpenInPlace(c) ==
  /\ at[c] = "loaded"
  /\ tmp' = file
  /\ torn' = [torn EXCEPT ![file] = TRUE]
  /\ inode' = [inode EXCEPT ![c] = file]
  /\ alone' = [alone EXCEPT ![c] = TRUE]
  /\ at' = [at EXCEPT ![c] = "opened"]
  /\ UNCHANGED <<content, file, call, copy, ops, turns, deleted>>

\* open(tmp, "w"): a new file, or the one another call is writing, cut to 0.
Open(c) ==
  /\ at[c] = "loaded"
  /\ LET i == IF tmp = None THEN call[c].n ELSE tmp IN
       /\ tmp' = i
       /\ torn' = [torn EXCEPT ![i] = TRUE]
       /\ inode' = [inode EXCEPT ![c] = i]
       /\ alone' = [d \in Callers |->
                      IF d = c THEN \A e \in Callers \ {c} : ~(at[e] = "opened" /\ inode[e] = i)
                      ELSE alone[d] /\ inode[d] # i]
  /\ at' = [at EXCEPT ![c] = "opened"]
  /\ UNCHANGED <<content, file, call, copy, ops, turns, deleted>>

\* json.dump and close: with another writer on the file the bytes may mix.
Write(c) ==
  /\ at[c] = "opened"
  /\ content' = [content EXCEPT ![inode[c]] = copy[c]]
  /\ \E mixed \in BOOLEAN : (mixed => ~alone[c]) /\ torn' = [torn EXCEPT ![inode[c]] = mixed]
  /\ at' = [at EXCEPT ![c] = "written"]
  /\ UNCHANGED <<file, tmp, call, copy, inode, alone, ops, turns, deleted>>

\* os.replace, and the call returns; with no temporary it raises.
Replace(c) ==
  /\ at[c] = "written"
  /\ IF tmp = None
       THEN UNCHANGED <<file, tmp, turns>>
       ELSE /\ file' = tmp
            /\ tmp' = None
            /\ turns' = IF call[c].op = "append"
                          THEN turns \cup {<<call[c].thread, call[c].n>>} ELSE turns
  /\ at' = [at EXCEPT ![c] = "idle"]
  /\ call' = [call EXCEPT ![c] = None]
  /\ UNCHANGED <<content, torn, copy, inode, alone, ops, deleted>>

\* The server process dies; the files stay.
Crash ==
  /\ \E c \in Callers : at[c] # "idle"
  /\ at' = [c \in Callers |-> "idle"]
  /\ call' = [c \in Callers |-> None]
  /\ UNCHANGED <<content, torn, file, tmp, copy, inode, alone, ops, turns, deleted>>

Next == Crash \/ \E c \in Callers : Begin(c) \/ Open(c) \/ Write(c) \/ Replace(c)

Spec == Init /\ [][Next]_vars

-----------------------------------------------------------------------------
\* "atomic: a crash leaves the old file, not half of one" (harness/chat.py:56):
\* whoever opens threads.json finds a whole document.
WholeFile == ~torn[file]

\* A turn whose append returned stays in its conversation until somebody
\* deletes the conversation, whatever call dies after it.
TurnsKept ==
  \A x \in turns : x[1] \in deleted \/ (Loaded[x[1]] # None /\ Contains(Loaded[x[1]], x[2]))

\* What was appended stays, and what was deleted does not come back.
HistoryHolds ==
  [][TurnsKept' /\ \A t \in deleted : Loaded[t] = None => Loaded'[t] = None]_vars
=============================================================================
