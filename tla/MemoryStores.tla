----------------------------- MODULE MemoryStores -----------------------------
(***************************************************************************)
(* The two memories of JSON lines: the facts of an agent (harness/memory.py) *)
(* and the scoped records (harness/scoped_memory.py).  Several processes    *)
(* have the same file open, each with what it has loaded and added; an      *)
(* append can be cut short by a death or a full disk, MaxFaults times.      *)
(* A fact is the set of its words; the subject (and tenant) of a scope and  *)
(* the attempt are members of small sets.                                   *)
(***************************************************************************)
EXTENDS Naturals, Sequences, FiniteSets

CONSTANTS
  Users,     \* the processes
  Facts,     \* sets of words
  Scopings,  \* how scopes may be given to processes
  MaxWrites, \* how many appends
  MaxFaults,
  MaxClock,
  None

MemoryAssumption ==
  /\ MaxWrites \in Nat /\ MaxFaults \in Nat /\ MaxClock \in Nat
  /\ None \notin Users /\ \A g \in Scopings, u \in Users : g[u][1] # None

VARIABLES
  form,   \* "facts" or "scoped"
  scope,  \* scope[u]: subject and attempt of u, None without an attempt
  lines,  \* the lines of the file: a record, Garbled, or Cut inside a character
  ended,  \* the last line has its newline
  store,  \* store[u]: what u has open, None without
  clock,
  writes, \* how many appends so far
  told,   \* the appends that were answered with a confirmation
  faults

vars == <<form, scope, lines, ended, store, clock, writes, told, faults>>

\* Where a record can be put: in the scope of a process, or for its whole subject.
Scopes  == UNION {{scope[u], <<scope[u][1], None>>} : u \in Users}
Garbled == [id |-> 0, what |-> "garbled"]
Cut     == [id |-> 0, what |-> "cut"]
Skipped == [id |-> 0, what |-> "skipped"]
IsRecord(x) == x.id # 0

\* A record; ids only tell appends apart.  The facts have neither scope nor expiry.
Rec(i, f, s, x, w) == [id |-> i, what |-> f, scope |-> s, expires |-> x, by |-> w]

Init ==
  /\ form \in {"facts", "scoped"} /\ scope \in Scopings /\ lines = <<>> /\ ended = TRUE
  /\ store = [u \in Users |-> None] /\ clock = 0 /\ writes = 0 /\ told = {} /\ faults = 0

-----------------------------------------------------------------------------
(* Loading                                                                  *)

\* What is kept of each line: a record, or nothing.  A fact is kept once, whatever the
\* file says.
Fresh(i) == \A j \in 1 .. i - 1 : IsRecord(lines[j]) => lines[j].what # lines[i].what
Parsed   == [i \in DOMAIN lines |->
               IF IsRecord(lines[i]) /\ (form = "facts" => Fresh(i)) THEN lines[i] ELSE Skipped]
Bad      == {i \in DOMAIN lines : ~IsRecord(lines[i])}

\* memory.py reads the file strictly, scoped_memory.py replaces what is no character.
Readable == form = "scoped" \/ \A i \in DOMAIN lines : lines[i] # Cut

\* A store is opened: bad lines are skipped, or kept apart with their reason.
OpenStore(u) ==
  /\ store[u] = None /\ Readable
  /\ \E p \in IF form = "scoped" THEN {"append", "read_only"} ELSE {"append"} :
       store' = [store EXCEPT ![u] =
         [policy |-> p, records |-> Parsed, quarantined |-> Cardinality(Bad)]]
  /\ UNCHANGED <<form, scope, lines, ended, clock, writes, told, faults>>

-----------------------------------------------------------------------------
(* Writing                                                                  *)

\* MemoryScope.permits: the same subject, and no attempt or one's own.
Permits(mine, other) == mine[1] = other[1] /\ other[2] \in {None, mine[2]}

\* A line is put where the file ends: behind a line that has no newline it becomes
\* the rest of that line, which then says nothing.
Appended(x) ==
  IF ended \/ lines = <<>> THEN Append(lines, x)
  ELSE [lines EXCEPT ![Len(lines)] = IF @ = Cut \/ x = Cut THEN Cut ELSE Garbled]

\* What the process keeps: save() remembers before it writes, write() after it.
Keep(u, r)  == store' = [store EXCEPT ![u].records = Append(@, r)]
Forget(u)   == store' = [store EXCEPT ![u] = None]

Written(u, r) ==
  /\ lines' = Appended(r) /\ ended' = TRUE /\ told' = told \cup {r.id} /\ Keep(u, r)
  /\ UNCHANGED faults

\* The append is cut short: nothing, a part of the line, or all but its newline is
\* there.  The process dies, or is told and goes on.
CutShort(u, r) ==
  /\ faults < MaxFaults /\ faults' = faults + 1 /\ UNCHANGED told
  /\ \/ UNCHANGED <<lines, ended>>
     \/ \E x \in {Garbled, Cut, r} : lines' = Appended(x) /\ ended' = FALSE
  /\ \/ Forget(u)
     \/ IF form = "facts" THEN Keep(u, r) ELSE UNCHANGED store

\* The places of its records, and what they say.
Held(u)  == {i \in DOMAIN store[u].records : IsRecord(store[u].records[i])}
Known(u) == {store[u].records[i].what : i \in Held(u)}

\* save() of a fact it does not have, or write() of a record its scope permits.
Remember(u) ==
  /\ store[u] # None /\ store[u].policy = "append" /\ writes < MaxWrites
  /\ \E f \in Facts, s \in Scopes \cup {<<None, None>>}, x \in 1 .. MaxClock + 1 :
       LET r == Rec(writes + 1, f, s, x, scope[u])
       IN  /\ IF form = "facts"
              THEN s = <<None, None>> /\ x = MaxClock + 1 /\ f \notin Known(u)
              ELSE s \in Scopes /\ Permits(scope[u], s) /\ x > clock
           /\ Written(u, r) \/ CutShort(u, r)
  /\ writes' = writes + 1
  /\ UNCHANGED <<form, scope, clock>>

CloseStore(u) ==
  /\ store[u] # None /\ Forget(u)
  /\ UNCHANGED <<form, scope, lines, ended, clock, writes, told, faults>>

Tick ==
  /\ clock < MaxClock /\ clock' = clock + 1
  /\ UNCHANGED <<form, scope, lines, ended, store, writes, told, faults>>

Next == Tick \/ \E u \in Users : OpenStore(u) \/ Remember(u) \/ CloseStore(u)
Spec == Init /\ [][Next]_vars

-----------------------------------------------------------------------------
(* Reading                                                                  *)

\* all() of the facts; visible() of the records.
Expired(r)  == clock >= r.expires
Visible(u)  == {i \in Held(u) :
                  LET r == store[u].records[i]
                  IN  form = "facts" \/ (Permits(scope[u], r.scope) /\ ~Expired(r))}

\* The best k by the words shared with the query, the older of equals first.
Overlap(query, r) == Cardinality(query \cap r.what)
Better(v, query, i, j) ==
  \/ Overlap(query, v[i]) > Overlap(query, v[j])
  \/ Overlap(query, v[i]) = Overlap(query, v[j]) /\ i < j
Search(u, query, k) ==
  LET v == store[u].records
  IN  {v[i] : i \in {i \in Visible(u) :
         /\ Overlap(query, v[i]) > 0
         /\ Cardinality({j \in Visible(u) : Better(v, query, j, i)}) < k}}

-----------------------------------------------------------------------------
TypeOK ==
  /\ form \in {"facts", "scoped"} /\ scope \in Scopings /\ ended \in BOOLEAN
  /\ clock \in 0 .. MaxClock
  /\ writes \in 0 .. MaxWrites /\ told \subseteq 1 .. writes /\ faults \in 0 .. MaxFaults
  /\ \A i \in DOMAIN lines : lines[i].id \in 0 .. writes
  /\ \A u \in Users : store[u] # None =>
       /\ store[u].policy \in {"append", "read_only"}
       /\ \A i \in DOMAIN store[u].records : store[u].records[i].id \in 0 .. writes

\* "Skip what cannot be read and keep the rest" (memory.py:57): an append that was
\* cut short costs what it was about and at most one confirmed record, the one that
\* is appended to the torn line, and spoils one line, however many share the file.
LossIsBounded ==
  /\ Cardinality(told \ {lines[i].id : i \in DOMAIN lines}) <= faults
  /\ \A u \in Users : store[u] # None => store[u].quarantined <= faults

\* "cross-attempt bleed ... fabricates the effect being measured" (scoped_memory.py:14):
\* what a search finds was written from within the same subject, and by the same
\* attempt when it is private to one, and has not expired, whoever wrote to the file.
NoBleed ==
  form = "scoped" => \A u \in Users : store[u] # None =>
    \A f \in Facts : \A r \in Search(u, f, 1) :
      /\ r.by[1] = scope[u][1] /\ clock < r.expires
      /\ r.scope[2] # None => r.by[2] = scope[u][2]

\* A fact is in the prompt once: nobody has a fact twice, whoever else saved it.
NoFactTwice ==
  form = "facts" => \A u \in Users : store[u] # None =>
    \A i, j \in Held(u) :
      i # j => store[u].records[i].what # store[u].records[j].what
=============================================================================
