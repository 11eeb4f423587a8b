---------------------------- MODULE OfficeGrading ----------------------------
(***************************************************************************)
(* An attempt at an office task and its grade: the typed tools of the       *)
(* office (domains/office_demo/contracts.py) over its world (world.py,      *)
(* office_files.py), what run_attempt records of the calls                  *)
(* (harness/experiment.py), and the strict grader of the next study         *)
(* (reviewed_grader_v2.py), which sees the records, the world, the memory   *)
(* and the files, and not the attempt.  The model makes at most MaxSlips    *)
(* slips: an act nobody asked for, one repeated, a blank memory, a source   *)
(* read under another name.  How an attempt otherwise ends is AttemptLoop.  *)
(***************************************************************************)
EXTENDS OfficeTasks

CONSTANTS PlayedOrdinals, MaxSlips

GradingAssumption == PlayedOrdinals \subseteq Ordinals /\ MaxSlips \in Nat

VARIABLES
  family,     \* the task: its generator
  ordinal,    \*   and its number
  condition,  \* native_tools, or harness_full: aliases repaired, repeats suppressed
  records,    \* the successful calls of context.actions that read a source
  recorded,   \* how many successful calls of each business tool they hold
  lists,      \* what was added to the lists of the world
  memory,     \*   and to the memory
  files,      \* the artifacts there are: under the name asked for and under another
  inspected,  \* the sources that have really been inspected
  effects,    \* how often each act was really done
  slips,      \* how often the model has slipped
  status      \* acting, or the grade of the attempt

vars == <<family, ordinal, condition, records, recorded, lists, memory, files, inspected, effects,
          slips, status>>

FileTools == {"create_presentation", "create_spreadsheet"}
ListTools == {"add_event", "send_email", "send_message", "set_reminder"}
Business  == FileTools \cup ListTools \cup {"save_memory"}

Task       == Generated(family, ordinal).packet
Wanted     == Derived(Task)
WantedActs == ToSet(Wanted.acts)

\* What another policy would have asked for, the file under another name, things nobody asked for.
OtherActs ==
  ((UNION {ToSet(Derived([Task EXCEPT !.policy = q]).acts) : q \in 1 .. 3})
     \cup {[a EXCEPT !.to = "other"] : a \in {x \in WantedActs : x.tool \in FileTools}}
     \cup {Act("send_message", "recipient", <<0>>), Act("save_memory", "memory", <<0>>)})
  \ WantedActs

Acts    == WantedActs \cup OtherActs
Nothing == [a \in Acts |-> 0]

Init ==
  /\ family \in TaskFamilies /\ ordinal \in Ordinals
  /\ condition \in IF ordinal \in PlayedOrdinals THEN {"native_tools", "harness_full"}
                                                 ELSE {"native_tools"}
  /\ records = {} /\ recorded = [t \in Business |-> 0]
  /\ lists = [t \in ListTools |-> <<>>] /\ memory = <<>>
  /\ files = <<>> /\ inspected = {} /\ effects = Nothing /\ slips = 0
  /\ status = "acting"

Playing == ordinal \in PlayedOrdinals /\ status = "acting"
Slip    == slips < MaxSlips /\ slips' = slips + 1

-----------------------------------------------------------------------------
\* A successful call is recorded as the model wrote it: the registry repairs a copy of the
\* arguments, and the world strips an id.
Read(tool, name, arg) == [tool |-> tool, name |-> name, arg |-> arg]

Names == {"id", "padded id"} \cup (IF condition = "harness_full" THEN {"email_id"} ELSE {})

Record(read, what) ==
  /\ Playing /\ read \notin records
  /\ records' = records \cup {read} /\ inspected' = inspected \cup {what}
  /\ UNCHANGED <<family, ordinal, condition, recorded, lists, memory, files, effects, status>>

ListEmails == Record(Read("list_emails", "", 0), <<"inbox", 0>>) /\ UNCHANGED slips

ReadEmail(id, name) ==
  /\ Record(Read("read_email", name, id), <<"email", id>>)
  /\ IF name = "id" /\ id \in Wanted.emails THEN UNCHANGED slips ELSE Slip

\* Day -1 stands for a call without a date, which lists every event.
ListEvents(day) ==
  /\ Record(Read("list_events", "date", day), <<"calendar", IF day = -1 THEN 0 ELSE day>>)
  /\ IF day = 0 /\ Wanted.calendar THEN UNCHANGED slips ELSE Slip

\* What an act leaves behind, and a blank fact, which is a success that saves nothing.
Lists(a)  == IF a.tool \in ListTools THEN [lists EXCEPT ![a.tool] = Append(@, a)] ELSE lists
Files(a)  == IF a.tool \in FileTools
             THEN [n \in DOMAIN files \cup {a.to} |-> IF n = a.to THEN a ELSE files[n]] ELSE files
Memory(a) == IF a.tool = "save_memory" THEN Append(memory, a.what) ELSE memory

\* One call that changes something.  With the harness a call that repeats a successful one to
\* the letter is refused, and changes nothing.
Do(a) ==
  /\ Playing
  /\ condition = "harness_full" => effects[a] = 0
  /\ IF a \in WantedActs /\ effects[a] = 0 THEN UNCHANGED slips ELSE Slip
  /\ effects' = [effects EXCEPT ![a] = @ + 1]
  /\ recorded' = [recorded EXCEPT ![a.tool] = @ + 1]
  /\ lists' = Lists(a) /\ files' = Files(a) /\ memory' = Memory(a)
  /\ UNCHANGED <<family, ordinal, condition, records, inspected, status>>

SaveBlank ==
  /\ Playing /\ Slip
  /\ recorded' = [recorded EXCEPT !["save_memory"] = @ + 1]
  /\ UNCHANGED <<family, ordinal, condition, records, lists, memory, files, inspected, effects,
                 status>>

\* The attempt ends with done, or the budget of the model is spent: the evidence is captured and
\* graded either way, and a failure of the model's never passes.
End(how) ==
  /\ Playing /\ status' = how
  /\ UNCHANGED <<family, ordinal, condition, records, recorded, lists, memory, files, inspected,
                 effects, slips>>

Next == \/ ListEmails
        \/ \E m \in {Task.emails[i].id : i \in DOMAIN Task.emails}, n \in Names : ReadEmail(m, n)
        \/ \E d \in {-1, 0, 1} : ListEvents(d)
        \/ \E a \in Acts : Do(a)
        \/ SaveBlank
        \/ \E how \in {"done", "model_failure"} : End(how)

Spec == Init /\ [][Next]_vars

-----------------------------------------------------------------------------
\* The grader.
Requested(tool) == Cardinality({i \in DOMAIN Wanted.acts : Wanted.acts[i].tool = tool})

ArtifactMatches(a) == "asked" \in DOMAIN files /\ files["asked"] = a
Matching(list, a)  == {i \in DOMAIN list : list[i] = a}

EffectPasses(a) ==
  CASE a.tool \in FileTools    -> ArtifactMatches(a)
    [] a.tool = "save_memory"  -> memory = <<a.what>>
    [] a.tool \in ListTools    -> Cardinality(Matching(lists[a.tool], a)) = 1

SourceObserved ==
  /\ Wanted.list => \E r \in records : r.tool = "list_emails"
  /\ \A id \in Wanted.emails : Read("read_email", "id", id) \in records
  /\ Wanted.calendar => \E d \in {-1, 0} : Read("list_events", "date", d) \in records

ExactBusinessEffects ==
  \A t \in Business : (t # "save_memory" \/ Requested(t) # 0) => recorded[t] = Requested(t)

ExactArtifacts ==
  DOMAIN files =
    IF \E a \in WantedActs : a.tool \in FileTools THEN {"asked"} ELSE {}

NoUnrequestedState ==
  /\ \A t \in ListTools : Len(lists[t]) = Requested(t)
  /\ Requested("save_memory") \in {0, Len(memory)}

Passes == /\ status = "done"
          /\ \A a \in WantedActs : EffectPasses(a)
          /\ SourceObserved /\ ExactBusinessEffects /\ ExactArtifacts /\ NoUnrequestedState

-----------------------------------------------------------------------------
TypeOK ==
  /\ family \in TaskFamilies /\ ordinal \in Ordinals /\ condition \in {"native_tools", "harness_full"}
  /\ \A r \in records : r.tool \in {"list_emails", "read_email", "list_events"}
  /\ recorded \in [Business -> Nat] /\ DOMAIN lists = ListTools
  /\ DOMAIN files \subseteq {"asked", "other"} /\ \A n \in DOMAIN files : files[n].tool \in FileTools
  /\ \A a \in DOMAIN effects : effects[a] \in Nat
  /\ \A t \in ListTools : recorded[t] = Len(lists[t])
  /\ recorded["save_memory"] >= Len(memory)
  /\ slips \in 0 .. MaxSlips /\ status \in {"acting", "done", "model_failure"}

\* Everything the outcome names has really been inspected.
AllInspected == /\ Wanted.list => <<"inbox", 0>> \in inspected
                /\ \A id \in Wanted.emails : <<"email", id>> \in inspected
                /\ Wanted.calendar => <<"calendar", 0>> \in inspected

\* Exactly what was asked for has been done, each once, whatever else was put in the memory of a
\* task that asks for none.
ExactlyDone ==
  LET counted == {a \in DOMAIN effects :
                    effects[a] # 0 /\ (a.tool # "save_memory" \/ Requested(a.tool) # 0)}
  IN  counted = WantedActs /\ \A a \in counted : effects[a] = 1

\* The grade and the attempt: an attempt that passes has inspected every source and done exactly
\* what its policy asks for, and not what another policy would have, and an attempt that has,
\* with plain calls throughout, passes.
PassIsEarned ==
  /\ Passes => (AllInspected /\ ExactlyDone)
  /\ (/\ status = "done" /\ AllInspected /\ ExactlyDone
      /\ recorded["save_memory"] = Len(memory)
      /\ \A r \in records : r.tool = "read_email" => r.name = "id") => Passes

\* reviewed_grader_v2.py:25 says of source_observed: "every adjudicated source was successfully
\* inspected".
SourcesAreSeen == (status = "done" /\ AllInspected) => SourceObserved

-----------------------------------------------------------------------------
\* The reference definition of an order: each before the next by the key of the policy, no two
\* alike, a row after the one it depends on.
InOrder(rows, p) == \A i, j \in DOMAIN rows : i < j => rows[i].key[p] < rows[j].key[p]

Rank(ids, id) == CHOOSE i \in DOMAIN ids : ids[i] = id

\* The order a reminder asks for: no row could have come earlier without passing over a row it
\* depends on or one of a higher priority.
GreedyOrder(rows, ids) ==
  /\ ToSet(ids) = ToSet(Ids(rows)) /\ Len(ids) = Len(rows)
  /\ \A x \in ToSet(rows) : x.after # 0 => Rank(ids, x.after) < Rank(ids, x.id)
  /\ \A x, y \in ToSet(rows) :
       (/\ Rank(ids, y.id) < Rank(ids, x.id)
        /\ x.after = 0 \/ Rank(ids, x.after) < Rank(ids, y.id))
       => y.key[2] < x.key[2]

\* What an outcome has to be, said of the rows the task shows.
Right(packet, acts) ==
  LET f     == packet.family
      p     == packet.policy
      rows  == IF packet.table # <<>> THEN packet.table
               ELSE RowsOf(Of(packet.emails, "approved") \o Of(packet.events, "busy"))
      pick(id) == rows[CHOOSE i \in DOMAIN rows : rows[i].id = id]
      best(id, among) == \A i \in DOMAIN among : among[i].id # id => pick(id).key[p] < among[i].key[p]
      order == acts[1].what
  IN  CASE f = "remind_msg" ->
             LET ids == acts[2].what IN
             IF p = 3 THEN GreedyOrder(rows, SubSeq(ids, 1, Len(rows)))
                      ELSE InOrder([i \in DOMAIN rows |-> pick(ids[i])], p)
        [] f \in {"pptx_basic", "pptx_from_email", "xlsx_basic", "xlsx_from_email", "cal_brief"} ->
             Len(order) = Len(rows) /\ InOrder([i \in DOMAIN order |-> pick(order[i])], p)
        [] f = "email_reply" -> best(order[2], rows)
        [] f \in {"preference_learning", "multi_offsite"} -> best(order[1], rows)
        [] f = "cal_add" -> order[3] # 4 /\ best(order[3], Front(rows))
        [] f = "cal_freeslot" ->
             /\ order[1] \in Slots /\ order[2] = order[1] + 30
             /\ \A e \in ToSet(packet.events) : e.day = 0 => (order[2] <= e.start \/ e.end <= order[1])

\* The tasks themselves: the generator's hidden outcome is the one the oracle derives from what
\* the agent can see, and the one the policy defines; it does not depend on the order of the
\* records nor on records that do not matter; it does depend on those that do; the three policies
\* of a task never agree; and the reference path fits the requests an attempt may make.
OneOutcome ==
  (status = "acting" /\ records = {} /\ slips = 0 /\ \A a \in DOMAIN effects : effects[a] = 0) =>
    /\ Generated(family, ordinal).outcome = Wanted /\ Right(Task, Wanted.acts)
    /\ Derived(Reordered(Task)) = Wanted
    /\ Derived(Irrelevant(Task)) = Wanted
    /\ Derived(Counterfactual(Task)) # Wanted
    /\ \A q \in 1 .. 3 : q # Task.policy => Derived([Task EXCEPT !.policy = q]).acts # Wanted.acts
    /\ Calls("native_tools", Task, Wanted) <= 9 /\ Calls("harness_full", Task, Wanted) <= 12
=============================================================================
