------------------------------- MODULE Schedules -------------------------------
(***************************************************************************)
(* The schedules of the studies: which case is played under which           *)
(* condition, and when (bench/next_study_schedule.py, focused_followup.py,  *)
(* llama8_product_validation.py), and what is left to play when a block of  *)
(* the focused follow-up has stopped (focused_recovery_successor.py).       *)
(* A case is <<family, number>>; of the ranking of a family by digests only *)
(* its first half matters, which may be any half of the cases.              *)
(***************************************************************************)
EXTENDS Naturals, Sequences, FiniteSets, SequencesExt, FiniteSetsExt

CONSTANTS
  Families,   \* how many, in their order; the last one learns preferences
  Cases,      \* how many cases of each, an even number
  FirstBlock, \* the families of B1a are 1 .. FirstBlock, those of B1b the others
  None

SchedulesAssumption ==
  /\ Families \in Nat \ {0} /\ Cases \in Nat \ {0} /\ Cases % 2 = 0
  /\ FirstBlock \in 1 .. Families - 1

VARIABLES
  study,   \* what the schedule is for
  half,    \* half[f]: the first half of the ranked cases of family f
  clash,   \* a request seed would be one that has been used before
  at,      \* "build", "play", "stopped", "refused", "over"
  records, \* the schedule
  played,  \* how many of its cells have been played
  cut      \* how many of them in the first lane, None while that may grow

vars == <<study, half, clash, at, records, played, cut>>

\* What is compared: condition A, and B (in the product validation, the adapter).
Studies    == {"shakeout", "sentinel", "primary", "descriptive", "product", "focused"}
Conditions == <<"native_tools", "harness_full">>

Init ==
  /\ study \in Studies /\ half \in [1 .. Families -> kSubset(Cases \div 2, 1 .. Cases)]
  /\ clash \in BOOLEAN /\ (study # "focused" => ~clash)
  /\ at = "build" /\ records = <<>> /\ played = 0 /\ cut = None

-----------------------------------------------------------------------------
(* Building                                                                 *)

\* A cell; the seed leaves the condition out, so that both start alike.
Cell(block, case, condition, model, trial) ==
  [block |-> block, case |-> case, condition |-> condition, model |-> model, trial |-> trial,
   seed |-> <<case, trial, model>>]

\* The cells of a case under both conditions, one behind the other.
InOrder(order) == IF order = "AB" THEN Conditions ELSE Reverse(Conditions)
Pair(block, case, order, trial) ==
  [p \in 1 .. 2 |-> Cell(block, case, InOrder(order)[p], "4b", trial)]

\* The first half begins with native_tools, and the second trial turns it round.
Order(case, trial) == IF (case[2] \in half[case[1]]) = (trial = 0) THEN "AB" ELSE "BA"

\* Families that have one case each take turns.
Alternate(f) == IF f % 2 = 1 THEN "AB" ELSE "BA"

\* The cases of some families, by family and number.
CasesOf(first, last) ==
  FlattenSeq([f \in 1 .. last - first + 1 |-> [i \in 1 .. Cases |-> <<first + f - 1, i>>]])
AllCases == CasesOf(1, Families)

Phase(block, cases, trial) ==
  FlattenSeq([k \in DOMAIN cases |-> Pair(block, cases[k], Order(cases[k], trial), trial)])

Shakeout(chosen) ==
  FlattenSeq([f \in 1 .. Families |-> Pair("shakeout", <<f, chosen[f]>>, Alternate(f), 0)])

\* The gate of the product validation plays a case that is not in its panel.
Gate == FlattenSeq([f \in 1 .. Families |-> Pair("gate", <<f, 0>>, Alternate(f), 0)])

B1a == Phase("B1a", CasesOf(1, FirstBlock), 0)
B1b == Phase("B1b", CasesOf(FirstBlock + 1, Families), 0)
B2  == Phase("B2", CasesOf(1, FirstBlock), 1)

\* One case of either half of every family, in the blocks of the descriptive systems.
Selection(chosen) ==
  FlattenSeq([f \in 1 .. Families |-> <<<<f, chosen[f][1]>>, <<f, chosen[f][2]>>>>])
Add(block, cases, conditions, model) ==
  FlattenSeq([k \in DOMAIN cases |->
    [c \in DOMAIN conditions |-> Cell(block, cases[k], conditions[c], model, 0)]])
Descriptive(chosen) ==
  LET cases    == Selection(chosen)
      Learns(c) == c[1] = Families
  IN  Add("2b_native_full", cases, Conditions, "2b")
      \o Add("9b_native_full", cases, Conditions, "9b")
      \o Add("4b_raw_json", cases, <<"raw_json">>, "4b")
      \o Add("4b_three_harness_ablations", cases,
             <<"harness_no_plan", "harness_no_recovery", "harness_no_completion_guard">>, "4b")
      \o Add("4b_no_memory_learning", SelectSeq(cases, Learns), <<"harness_no_memory">>, "4b")
      \o Add("4b_role_aware_equal_action_native_full", cases,
             <<"native_equal_action", "harness_full_equal_action">>, "4b")

\* What may be built; the least digest may be that of any case.
Built ==
  CASE study = "shakeout"    -> {Shakeout(c) : c \in [1 .. Families -> 1 .. Cases]}
    [] study = "sentinel"    -> {Phase("sentinel", AllCases, 0)}
    [] study = "primary"     -> {Phase("primary", AllCases, 0) \o Phase("primary", AllCases, 1)}
    [] study = "product"     -> {Gate \o Phase("product", AllCases, 0)}
    [] study = "focused"     -> {B1a \o B1b \o B2}
    [] study = "descriptive" ->
         {Descriptive([f \in 1 .. Families |-> <<c[f][1], c[f][2]>>]) :
            c \in {d \in [1 .. Families -> (1 .. Cases) \X (1 .. Cases)] :
                     \A f \in 1 .. Families : d[f][1] \in half[f] /\ d[f][2] \notin half[f]}}

Ids(s)     == {<<s[k].block, s[k].case, s[k].condition, s[k].trial>> : k \in DOMAIN s}
Distinct(s) == Cardinality(Ids(s)) = Len(s)

\* The product's own list of what a schedule must be.
Paired(s) ==
  \A k \in DOMAIN s :
    LET mine == {s[j] : j \in {j \in DOMAIN s : s[j].case = s[k].case}}
    IN  /\ {c.condition : c \in mine} = Range(Conditions) /\ Cardinality(mine) = 2
        /\ Cardinality({c.seed : c \in mine}) = 1

\* No seed of the follow-up has been used before, and B2 repeats the cases of B1a.
Fresh == ~clash /\ {B1a[k].case : k \in DOMAIN B1a} = {B2[k].case : k \in DOMAIN B2}

Build ==
  /\ at = "build"
  /\ \E s \in Built :
       IF /\ Distinct(s) /\ (study = "product" => Paired(s)) /\ (study = "focused" => Fresh)
       THEN records' = s /\ at' = "play"
       ELSE records' = records /\ at' = "refused"
  /\ UNCHANGED <<study, half, clash, played, cut>>

-----------------------------------------------------------------------------
(* Playing                                                                  *)

Play ==
  /\ at = "play" /\ played < Len(records) /\ played' = played + 1
  /\ UNCHANGED <<study, half, clash, at, records, cut>>

End ==
  /\ at = "play" /\ played = Len(records) /\ at' = "over"
  /\ UNCHANGED <<study, half, clash, records, played, cut>>

\* A block of the follow-up is terminated behind any of its cells.
Stop ==
  /\ at = "play" /\ study = "focused" /\ cut = None
  /\ played \in 1 .. Len(records) - 1 /\ at' = "stopped" /\ cut' = played
  /\ UNCHANGED <<study, half, clash, records, played>>

\* What has been started, and what was never started of B1b.
Started == SubSeq(records, 1, played)
Missing == LET Unstarted(c) == Ids(<<c>>) \cap Ids(Started) = {}
           IN  SelectSeq(B1b, Unstarted)

\* A topology that can be recovered: all of B1a, nothing of B2, some of B1b, and
\* what is missing are whole pairs of one family.
Recoverable ==
  /\ Ids(B1a) \subseteq Ids(Started) /\ Ids(B2) \cap Ids(Started) = {}
  /\ Ids(Missing) # Ids(B1b) /\ Missing # <<>>
  /\ Cardinality({Missing[k].case[1] : k \in DOMAIN Missing}) = 1
  /\ \A k \in DOMAIN Missing :
       Cardinality({j \in DOMAIN Missing : Missing[j].case = Missing[k].case}) = 2

\* The lanes of the successor: the missing cells, and B2 as it was frozen.
Recover ==
  /\ at = "stopped"
  /\ IF Recoverable THEN records' = Started \o Missing \o B2 /\ at' = "play"
                    ELSE records' = records /\ at' = "refused"
  /\ UNCHANGED <<study, half, clash, played, cut>>

Next == Build \/ Play \/ End \/ Stop \/ Recover
Spec == Init /\ [][Next]_vars

-----------------------------------------------------------------------------
TypeOK ==
  /\ study \in Studies /\ clash \in BOOLEAN
  /\ \A f \in 1 .. Families : half[f] \subseteq 1 .. Cases /\ Cardinality(half[f]) = Cases \div 2
  /\ at \in {"build", "play", "stopped", "refused", "over"} /\ played \in 0 .. Len(records)
  /\ cut \in 0 .. Len(records) \cup {None}
  /\ \A k \in DOMAIN records :
       records[k].case \in (1 .. Families) \X (0 .. Cases) /\ records[k].trial \in {0, 1}

\* "Paired conditions run contiguously" (docs/PROJECT_SETUP.md:1069): wherever the
\* playing is interrupted, terminated or taken up again, no condition of a block is
\* more than one cell ahead of another in any family.
EvenAtAnyStop ==
  \A f \in 1 .. Families, b \in {records[k].block : k \in DOMAIN records} :
    LET Of(n) == {k \in 1 .. n : records[k].block = b /\ records[k].case[1] = f}
        Times(c) == Cardinality({k \in Of(played) : records[k].condition = c})
        conds == {records[k].condition : k \in Of(Len(records))}
    IN  \A c, d \in conds : Times(c) <= Times(d) + 1

\* The condition that a case of a block is played under first.
First(b, case, trial) ==
  records[Min({k \in DOMAIN records :
    records[k].block = b /\ records[k].case = case /\ records[k].trial = trial})].condition
Leading(b, cases, trial) ==
  Cardinality({c \in cases : First(b, c, trial) = Conditions[1]})

\* "AB/BA order is counterbalanced across families" (docs/PROJECT_SETUP.md:1070): at the
\* end, recovered or not, half of the cases of every family were played with native_tools
\* first, families with one case each took turns, and a case that is repeated is played
\* the other way round, by a reversal and not by a new draw (next_study_schedule.py:69-72).
Counterbalanced ==
  at = "over" /\ study # "descriptive" =>
    /\ \A b \in {"sentinel", "primary", "product", "B1a", "B1b", "B2"}, t \in {0, 1},
          f \in 1 .. Families :
         LET cases == {records[k].case : k \in {k \in DOMAIN records :
                         records[k].block = b /\ records[k].trial = t /\ records[k].case[1] = f}}
         IN  cases # {} => Cardinality(cases) = Cases /\ 2 * Leading(b, cases, t) = Cases
    /\ \A b \in {"shakeout", "gate"} :
         LET cases == {records[k].case : k \in {k \in DOMAIN records : records[k].block = b}}
         IN  cases # {} => Leading(b, cases, 0) = (Families + 1) \div 2
    /\ \A k \in DOMAIN records : records[k].trial = 1 =>
         LET b == records[k].block
         IN  First(b, records[k].case, 1)
               # First(IF b = "B2" THEN "B1a" ELSE b, records[k].case, 0)

\* However a follow-up came to its end, each of its cells was played once and none
\* twice, both cells of a case with the same seed and in the same lane.
PlayedOnce ==
  /\ Distinct(Started)
  /\ at = "over" /\ study = "focused" => Ids(Started) = Ids(B1a) \cup Ids(B1b) \cup Ids(B2)
  /\ at = "over" /\ study # "descriptive" =>
       \A k \in DOMAIN records : \E j \in DOMAIN records :
         /\ j \in {k - 1, k + 1} /\ records[j].case = records[k].case
         /\ records[j].seed = records[k].seed /\ records[j].condition # records[k].condition
         /\ cut # None => (j <= cut) = (k <= cut)
=============================================================================
