----------------------------- MODULE OfficeTasks -----------------------------
(***************************************************************************)
(* The synthetic office tasks (domains/office_demo): eleven families of 48  *)
(* instances each.  A generator writes an instance and the outcome it has   *)
(* in mind (generators_v2.py), an oracle derives the outcome from what the  *)
(* agent can see (outcome_oracle_v2.py), and the simulation of the suite    *)
(* perturbs what can be seen (bench/next_study_semantic_simulation.py).     *)
(*                                                                         *)
(* What a task orders or chooses among is a row [id, key, after]: key[p] is  *)
(* what the p-th policy of the family sorts by, smallest first, a           *)
(* descending one negated; `after` is the row it depends on.                *)
(***************************************************************************)
EXTENDS Integers, Sequences, FiniteSets, SequencesExt, TLC

TaskFamilies == {"pptx_basic", "pptx_from_email", "xlsx_basic", "xlsx_from_email", "email_reply",
                 "cal_add", "cal_freeslot", "cal_brief", "remind_msg", "preference_learning",
                 "multi_offsite"}
Ordinals == 0 .. 47

Workload(o)    == 3 + (o % 4)
Distractors(o) == (o \div 4) % 4
Policy(o)      == 1 + (o \div 16)

-----------------------------------------------------------------------------
\* What the agent can see: `table` is what the prompt lists, an e-mail is [id, of, row], an event
\* [id, day, start, end, of, row] with day 0 the one that is asked about, in minutes.
Row(id, key, after) == [id |-> id, key |-> key, after |-> after]
NoRow == Row(0, <<0, 0, 0>>, 0)
Mail(id, of, row) == [id |-> id, of |-> of, row |-> row]
Event(id, day, start, end, of, row) ==
  [id |-> id, day |-> day, start |-> start, end |-> end, of |-> of, row |-> row]

\* What has to be inspected (the list of the inbox, e-mails, the calendar) and the acts
\* [tool, to, what] that are required.
Act(tool, to, what) == [tool |-> tool, to |-> to, what |-> what]
Outcome(list, ids, calendar, acts) ==
  [list |-> list, emails |-> ids, calendar |-> calendar, acts |-> acts]

\* What a generator writes, and the outcome it has in mind.
Instance(table, emails, events, outcome) ==
  [table |-> table, emails |-> emails, events |-> events, outcome |-> outcome]

Rows(n, keys) == [i \in 1 .. n |-> Row(i, keys[i], 0)]
Told(rows)    == [i \in DOMAIN rows |-> Mail(i, "approved", rows[i])]
Drafts(o)     == [i \in 1 .. Distractors(o) |-> Mail(20 + i, "draft", NoRow)]
Busy(o, rows) == [i \in 1 .. Workload(o) |-> Event(i, 0, 480 + 60 * i, 510 + 60 * i, "busy", rows[i])]

Ids(rows)       == [i \in DOMAIN rows |-> rows[i].id]
Sorted(rows, p) == SortSeq(rows, LAMBDA x, y : x.key[p] < y.key[p])
Best(rows, p)   == Sorted(rows, p)[1]

\* The acts the families ask for, of rows in their order or of the row that was chosen.
Deck(rows)  == <<Act("create_presentation", "asked", Ids(rows))>>
Sheet(rows) == <<Act("create_spreadsheet", "asked", Ids(rows))>>
Briefing(rows) == <<Act("send_message", "recipient", Ids(rows)),
                    Act("send_message", "auditor", <<Len(rows)>>)>>
Checklist(rows) == <<Act("set_reminder", "self", <<rows[1].key[1]>> \o Ids(rows)),
                     Act("send_message", "recipient", Ids(rows) \o <<rows[1].key[1]>>)>>
Reply(decision, request) == <<Act("send_email", "sender", <<decision.id, request.id>>)>>
Meeting(row) == <<Act("add_event", "calendar", <<row.key[1], row.key[1] + row.key[3], row.id>>)>>
FocusBlock(s) == <<Act("add_event", "calendar", <<s, s + 30>>)>>
Bundle(row) == <<Act("save_memory", "memory", <<row.id>>), Act("add_event", "calendar", <<row.id>>)>>
Offsite(row) == <<Act("add_event", "calendar", <<row.id>>), Act("send_email", "sender", <<row.id>>),
                  Act("create_presentation", "asked", <<row.id>>)>>

-----------------------------------------------------------------------------
\* The generators, one a family.
PptxBasic(o) ==
  LET rows == Rows(Workload(o), <<<<3, -5, 1>>, <<1, -4, 2>>, <<2, -6, 3>>, <<4, -3, 4>>,
                                  <<6, -2, 5>>, <<5, -1, 6>>>>)
  IN  Instance(rows, <<>>, <<>>,
               Outcome(FALSE, {}, FALSE, Deck(Sorted(rows, Policy(o)))))

PptxFromEmail(o) ==
  LET region == <<2, 6, 1, 3, 4, 5>>
      rows   == Rows(Workload(o),
                     [i \in 1 .. 6 |-> <<i, -(12500000 + 173000 * (o + i - 1)), region[i]>>])
  IN  Instance(<<>>, Told(rows) \o Drafts(o), <<>>,
               Outcome(TRUE, ToSet(Ids(rows)), FALSE, Deck(Sorted(rows, Policy(o)))))

XlsxBasic(o) ==
  LET item == <<5, 1, 3, 6, 4, 2>>
      rows == Rows(Workload(o), [i \in 1 .. 6 |-> <<i, -(800 + 125 * (o + i)), item[i]>>])
  IN  Instance(rows, <<>>, <<>>,
               Outcome(FALSE, {}, FALSE, Sheet(Sorted(rows, Policy(o)))))

XlsxFromEmail(o) ==
  LET vendor == <<3, 1, 2, 4, 6, 5>>
      rows   == Rows(Workload(o),
                     [i \in 1 .. 6 |-> <<i, -(4500 + 137 * (o + 2 * (i - 1))), vendor[i]>>])
  IN  Instance(<<>>, Told(rows) \o Drafts(o), <<>>,
               Outcome(TRUE, ToSet(Ids(rows)), FALSE, Sheet(Sorted(rows, Policy(o)))))

\* The third key is whether a request has the key of the decision.
EmailReply(o) ==
  LET rows     == Rows(3, <<<<4, -4, 0>>, <<3, -9, 1>>, <<1, -1, 1>>>>)
      decision == Row(50, <<0, 0, 0>>, 0)
  IN  Instance(<<>>,
               <<Mail(10, "decision", decision)>> \o Told(rows) \o Drafts(o), <<>>,
               Outcome(TRUE, {10} \cup ToSet(Ids(rows)), FALSE,
                       Reply(decision, Best(rows, Policy(o)))))

\* A candidate starts at key[1] and takes key[3] minutes.
Feasible(rows, events) ==
  SelectSeq(rows, LAMBDA x : \A i \in DOMAIN events :
    ~(/\ events[i].day = 0
      /\ x.key[1] < events[i].end
      /\ events[i].start < x.key[1] + x.key[3]))

CalAdd(o) ==
  LET rows   == Rows(4, <<<<600, -5, 45>>, <<660, -9, 60>>, <<750, -4, 30>>, <<510, -99, 15>>>>)
      events == <<Event(10, 0, 510, 540, "blocker", NoRow)>>
                  \o [i \in 1 .. Distractors(o) |->
                        Event(20 + i, 0, 330 + 30 * i, 360 + 30 * i, "other", NoRow)]
  IN  Instance(rows, <<>>, events,
               Outcome(FALSE, {}, TRUE, Meeting(Best(Feasible(rows, events), Policy(o)))))

Slots == {540 + 30 * n : n \in 0 .. 15}
Pick(free, p) ==
  LET far(s) == IF s < 810 THEN 810 - s ELSE s - 810
  IN  CHOOSE s \in free : \A t \in free :
        CASE p = 1 -> s <= t
          [] p = 2 -> s >= t
          [] p = 3 -> far(s) < far(t) \/ (far(s) = far(t) /\ s <= t)

\* This generator counts the occupied minutes, and its oracle compares intervals.
CalFreeslot(o) ==
  LET events   == Busy(o, [i \in 1 .. 6 |-> NoRow])
                    \o [i \in 1 .. Distractors(o) |-> Event(20 + i, i, 600, 660, "other", NoRow)]
      occupied == UNION {e.start .. e.end - 1 : e \in {x \in ToSet(events) : x.day = 0}}
      free     == {s \in Slots : (s .. s + 29) \cap occupied = {}}
  IN  Instance(<<>>, <<>>, events,
               Outcome(FALSE, {}, TRUE, FocusBlock(Pick(free, Policy(o)))))

CalBrief(o) ==
  LET rows   == Rows(Workload(o), <<<<1, -5, 3>>, <<2, -4, 1>>, <<3, -6, 2>>, <<4, -3, 4>>,
                                    <<5, -2, 5>>, <<6, -1, 6>>>>)
      events == Busy(o, rows)
                  \o [i \in 1 .. Distractors(o) |->
                        Event(20 + i, IF i % 2 = 1 THEN 0 ELSE i, 690, 720, "other", NoRow)]
  IN  Instance(<<>>, <<>>, events,
               Outcome(FALSE, {}, TRUE, Briefing(Sorted(rows, Policy(o)))))

\* The generator writes the dependency order down, and the oracle derives it.
RemindMsg(o) ==
  LET priority == <<5, 9, 7, 4, 3, 2>>
      position == <<2, 1, 3, 4, 5, 6>>
      after    == <<0, 0, 1, 3, 4, 5>>
      rows     == [i \in 1 .. Workload(o) |-> Row(i, <<2 + i, -priority[i], position[i]>>, after[i])]
  IN  Instance(rows, <<>>, <<>>,
               Outcome(FALSE, {}, FALSE, Checklist(Sorted(rows, Policy(o)))))

PreferenceLearning(o) ==
  LET rows == Rows(3, <<<<-3, -4, -2>>, <<-2, -9, -1>>, <<-1, -3, -3>>>>)
  IN  Instance(rows, <<>>, <<>>,
               Outcome(FALSE, {}, FALSE, Bundle(Best(rows, Policy(o)))))

\* The table is the content of the index e-mail, the details are in the others.
MultiOffsite(o) ==
  LET rows == Rows(3, <<<<-3, -4, -1>>, <<-2, -9, -2>>, <<-1, -3, -9>>>>)
  IN  Instance(rows,
               <<Mail(10, "index", NoRow)>> \o Told(rows) \o Drafts(o), <<>>,
               Outcome(TRUE, {10, Best(rows, Policy(o)).id}, FALSE, Offsite(Best(rows, Policy(o)))))

Written(f, o) ==
  CASE f = "pptx_basic"          -> PptxBasic(o)
    [] f = "pptx_from_email"     -> PptxFromEmail(o)
    [] f = "xlsx_basic"          -> XlsxBasic(o)
    [] f = "xlsx_from_email"     -> XlsxFromEmail(o)
    [] f = "email_reply"         -> EmailReply(o)
    [] f = "cal_add"             -> CalAdd(o)
    [] f = "cal_freeslot"        -> CalFreeslot(o)
    [] f = "cal_brief"           -> CalBrief(o)
    [] f = "remind_msg"          -> RemindMsg(o)
    [] f = "preference_learning" -> PreferenceLearning(o)
    [] f = "multi_offsite"       -> MultiOffsite(o)

\* A task: its packet, and the outcome.
Generated(f, o) ==
  LET x == Written(f, o)
  IN  [packet  |-> [family |-> f, policy |-> Policy(o), table |-> x.table, emails |-> x.emails,
                    events |-> x.events],
       outcome |-> x.outcome]

-----------------------------------------------------------------------------
\* The oracle, one derivation a family, from the packet alone.
Of(s, what)  == SelectSeq(s, LAMBDA x : x.of = what)
RowsOf(s)    == [i \in DOMAIN s |-> s[i].row]

ByPolicy(packet)    == Sorted(packet.table, packet.policy)
DeriveTable(acts)   == Outcome(FALSE, {}, FALSE, acts)
DerivePptxBasic(packet) == DeriveTable(Deck(ByPolicy(packet)))
DeriveXlsxBasic(packet) == DeriveTable(Sheet(ByPolicy(packet)))

MailByPolicy(packet)     == Sorted(RowsOf(Of(packet.emails, "approved")), packet.policy)
DeriveMail(packet, acts) == Outcome(TRUE, ToSet(Ids(Of(packet.emails, "approved"))), FALSE, acts)
DerivePptxFromEmail(packet) == DeriveMail(packet, Deck(MailByPolicy(packet)))
DeriveXlsxFromEmail(packet) == DeriveMail(packet, Sheet(MailByPolicy(packet)))

DeriveEmailReply(packet) ==
  LET decision == Of(packet.emails, "decision")[1]
      requests == Of(packet.emails, "approved")
  IN  Outcome(TRUE, {decision.id} \cup ToSet(Ids(requests)), FALSE,
              Reply(decision.row, Best(RowsOf(requests), packet.policy)))

DeriveCalAdd(packet) ==
  Outcome(FALSE, {}, TRUE, Meeting(Best(Feasible(packet.table, packet.events), packet.policy)))

DeriveCalFreeslot(packet) ==
  LET free == {s \in Slots : \A i \in DOMAIN packet.events :
                 LET e == packet.events[i] IN ~(e.day = 0 /\ s < e.end /\ e.start < s + 30)}
  IN  Outcome(FALSE, {}, TRUE, FocusBlock(Pick(free, packet.policy)))

DeriveCalBrief(packet) ==
  LET priority == SelectSeq(packet.events, LAMBDA x : x.day = 0 /\ x.of = "busy")
  IN  Outcome(FALSE, {}, TRUE, Briefing(Sorted(RowsOf(priority), packet.policy)))

\* Again and again the best of those whose predecessor has been taken.
DependencyOrder(rows) ==
  LET all     == ToSet(rows)
      next(s) == LET eligible == {x \in all \ ToSet(s) : x.after \in {0} \cup ToSet(Ids(s))}
                 IN  CHOOSE x \in eligible : \A y \in eligible : x.key[2] <= y.key[2]
      taken[n \in 0 .. Cardinality(all)] ==
        IF n = 0 THEN <<>> ELSE Append(taken[n - 1], next(taken[n - 1]))
  IN  taken[Cardinality(all)]

DeriveRemindMsg(packet) ==
  DeriveTable(Checklist(IF packet.policy = 3 THEN DependencyOrder(packet.table)
                                             ELSE ByPolicy(packet)))

DerivePreferenceLearning(packet) ==
  Outcome(FALSE, {}, FALSE, Bundle(Best(packet.table, packet.policy)))

DeriveMultiOffsite(packet) ==
  LET chosen == Best(packet.table, packet.policy).id
      source == SelectSeq(packet.emails, LAMBDA x : x.id = chosen)[1]
  IN  Outcome(TRUE, {Of(packet.emails, "index")[1].id, source.id}, FALSE, Offsite(source.row))

Derived(packet) ==
  LET f == packet.family
  IN  CASE f = "pptx_basic"          -> DerivePptxBasic(packet)
        [] f = "pptx_from_email"     -> DerivePptxFromEmail(packet)
        [] f = "xlsx_basic"          -> DeriveXlsxBasic(packet)
        [] f = "xlsx_from_email"     -> DeriveXlsxFromEmail(packet)
        [] f = "email_reply"         -> DeriveEmailReply(packet)
        [] f = "cal_add"             -> DeriveCalAdd(packet)
        [] f = "cal_freeslot"        -> DeriveCalFreeslot(packet)
        [] f = "cal_brief"           -> DeriveCalBrief(packet)
        [] f = "remind_msg"          -> DeriveRemindMsg(packet)
        [] f = "preference_learning" -> DerivePreferenceLearning(packet)
        [] f = "multi_offsite"       -> DeriveMultiOffsite(packet)

-----------------------------------------------------------------------------
\* The perturbations of the simulation: the records the other way round, with others that do
\* not matter, and with one changed that does.
Reordered(packet) == [packet EXCEPT !.emails = Reverse(@), !.events = Reverse(@)]

Irrelevant(packet) ==
  [packet EXCEPT !.emails = Append(@, Mail(30, "draft", NoRow)),
                 !.events = Append(@, Event(30, -99, 0, 30, "other", NoRow))]

Counterfactual(packet) ==
  LET f      == packet.family
      p      == packet.policy
      rename(row)   == [row EXCEPT !.id = 60 + @]
      dearer(row)   == [rename(row) EXCEPT !.key[2] = @ - 1]
      first(s, ofs) == CHOOSE i \in DOMAIN s :
                         s[i].of \in ofs /\ \A j \in 1 .. i - 1 : s[j].of \notin ofs
  IN  CASE f = "pptx_basic" -> [packet EXCEPT !.table[1] = rename(@)]
        [] f = "xlsx_basic" -> [packet EXCEPT !.table[1] = dearer(@)]
        [] f \in {"pptx_from_email", "xlsx_from_email"} ->
             [packet EXCEPT !.emails[first(packet.emails, {"approved"})].row = dearer(@)]
        [] f = "email_reply" ->
             [packet EXCEPT !.emails[first(packet.emails, {"decision"})].row = rename(@)]
        [] f = "cal_add" ->
             [packet EXCEPT !.events = SelectSeq(@, LAMBDA e : ~(e.start <= 510 /\ 510 < e.end))]
        [] f = "cal_freeslot" ->
             LET s == Derived(packet).acts[1].what
             IN  [packet EXCEPT !.events = Append(@, Event(30, 0, s[1], s[2], "busy", NoRow))]
        [] f = "cal_brief" ->
             [packet EXCEPT !.events[first(packet.events, {"busy"})].row = rename(@)]
        [] f = "remind_msg" ->
             LET chosen == Derived(packet).acts[1].what[2]
                 new(id) == IF id = chosen THEN 60 + id ELSE id
             IN  [packet EXCEPT !.table = [i \in DOMAIN @ |->
                    [@[i] EXCEPT !.id = new(@), !.after = new(@)]]]
        [] f = "multi_offsite" ->
             LET chosen == Best(packet.table, p).id
             IN  [packet EXCEPT !.emails = [i \in DOMAIN @ |->
                    IF @[i].id = chosen THEN [@[i] EXCEPT !.row = rename(@)] ELSE @[i]]]
        [] f = "preference_learning" -> [packet EXCEPT !.policy = 1 + (@ % 3)]

-----------------------------------------------------------------------------
\* The reference path: the calls the simulation plays through the typed tools.
Calls(condition, packet, outcome) ==
  LET episodes == IF packet.family = "preference_learning" THEN 2 ELSE 1
      reads    == (IF outcome.list THEN 1 ELSE 0) + Cardinality(outcome.emails)
                    + (IF outcome.calendar THEN 1 ELSE 0)
      recall   == IF condition = "native_tools" /\ episodes = 2 THEN 1 ELSE 0
  IN  reads + recall + Len(outcome.acts)
        + episodes * (IF condition = "harness_full" THEN 4 ELSE 1)
=============================================================================
