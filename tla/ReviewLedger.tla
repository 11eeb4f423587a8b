---------------------------- MODULE ReviewLedger ----------------------------
(***************************************************************************)
(* The human review of the next study's cases (bench/next_study_review.py   *)
(* and next_study_review_ops.py): packets are exported to the reviewers,    *)
(* responses sealed as files with a marker, taken in as receipts, and the   *)
(* ledger derived of them; a dispute is adjudicated, and two reliability    *)
(* events ask for a second review of every case.  Judgments, receipts and   *)
(* the ledger are published payload first, marker last, in new files.       *)
(***************************************************************************)
EXTENDS Naturals

CONSTANTS
  Cases, Fixed, Pilot, \* all cases, those of the fixed double review, those of the pilot
  Desks,               \* intake commands that may be open at the same time
  MaxFaults            \* bound: publications that end after the payload

ReviewAssumption == Pilot \subseteq Fixed /\ Fixed \subseteq Cases /\ MaxFaults \in Nat

Roles == {"primary", "secondary", "adjudicator"}
Slots == Cases \X Roles

\* What is known of a slot: no judgment, or one that is the canonical outcome of
\* the prompt, or any other (an invalid prompt and an accepted alternative too).
Judgments == [Slots -> {"none", "canonical", "other"}]
NoJudgment == [s \in Slots |-> "none"]

VARIABLES
  asked,    \* the slots exported to the person assigned to them
  sealed,   \* sealed[s]: the submission: none, half published, or its judgment
  pilot,    \* the pilot result: none, or does it expand the second reviews
  receipts, \* receipts[s]: the receipt of the submission, likewise
  ledger,   \* the materialized ledger: none, half, or whole, of these judgments
  outcomes, \* the adjudicated outcomes: none, half or whole
  desk,     \* desk[d]: an intake, what it has merged and has yet to receipt
  faults

vars == <<asked, sealed, pilot, receipts, ledger, outcomes, desk, faults>>

Away == [at |-> "away", merged |-> NoJudgment, todo |-> {}]

TypeOK ==
  /\ asked \subseteq Slots /\ pilot \in {"none", "planned", "expanded"}
  /\ sealed \in [Slots -> {"none", "half", "canonical", "other"}]
  /\ receipts \in [Slots -> {"none", "half", "canonical", "other"}]
  /\ ledger \in [at : {"none", "half", "whole"}, of : Judgments]
  /\ outcomes \in {"none", "half", "whole"} /\ faults \in 0 .. MaxFaults
  /\ desk \in [Desks -> [at : {"away", "receipts", "ledger"}, merged : Judgments,
                         todo : SUBSET Slots]]

Init ==
  /\ asked = {} /\ sealed = NoJudgment /\ pilot = "none" /\ receipts = NoJudgment
  /\ ledger = [at |-> "none", of |-> NoJudgment] /\ outcomes = "none"
  /\ desk = [d \in Desks |-> Away] /\ faults = 0

-----------------------------------------------------------------------------
(* The ledger that follows from judgments j: refresh_status                 *)

\* _reliability_events
Event(j, c) == /\ j[<<c, "primary">>] # "none"
               /\ "other" \in {j[<<c, "primary">>], j[<<c, "secondary">>]}

\* Two events expand the second reviews.
Expanded(j) == \E c, e \in Cases : c # e /\ Event(j, c) /\ Event(j, e)

Required(j, c) == c \in Fixed \/ j[<<c, "primary">>] = "other" \/ Expanded(j)

Agreed(j, c) == j[<<c, "primary">>] = "canonical" /\ j[<<c, "secondary">>] = "canonical"

\* What raises: a review before the primary one, an adjudication of what is not
\* disputed.
Derivable(j) ==
  \A c \in Cases :
    /\ j[<<c, "secondary">>] # "none" => j[<<c, "primary">>] # "none"
    /\ j[<<c, "adjudicator">>] # "none" => j[<<c, "secondary">>] # "none" /\ ~Agreed(j, c)

\* _entry_status
Status(j, c) ==
  LET first  == j[<<c, "primary">>]
      second == j[<<c, "secondary">>]
      last   == j[<<c, "adjudicator">>]
  IN  CASE first = "none"                    -> "pending"
        [] first # "none" /\ second = "none" -> IF Required(j, c) THEN "in_review"
                                                ELSE "accepted_single"
        [] Agreed(j, c)                      -> "agreed"
        [] "none" \notin {first, second} /\ ~Agreed(j, c)
             -> CASE last = "none"      -> "disputed"
                  [] last = "canonical" -> "adjudicated"
                  [] last = "other"     -> "rejected"

Resolved == {"accepted_single", "agreed", "adjudicated"}

Verdict(j) == IF \E c \in Cases : Status(j, c) = "rejected" THEN "rejected"
              ELSE IF \A c \in Cases : Status(j, c) \in Resolved THEN "complete"
              ELSE "pending"

\* The submissions of some cases, as a directory holds them; _load_submissions
\* finds the half ones invalid.
Valid(files, cases) == \A s \in Slots : s[1] \in cases => files[s] # "half"
Of(files, cases)    == [s \in Slots |-> IF s[1] \in cases THEN files[s] ELSE "none"]

\* validate_ledger: a marked ledger is nothing but what its judgments derive.
Stands(l) == l.at = "whole" /\ Derivable(l.of)

\* compile_adjudicated_outcomes: the final responses, of a complete ledger.
Compilable(l) == Stands(l) /\ Verdict(l.of) = "complete"

\* validate_pilot_result: two reviews of every case, in agreement or adjudicated,
\* and no prompt rejected.
PilotDone(j) ==
  \A c \in Pilot :
    j[<<c, "secondary">>] # "none" /\ Status(j, c) \in {"agreed", "adjudicated"}

-----------------------------------------------------------------------------
(* Exports and reviewers                                                    *)

Ask(slots) ==
  /\ asked' = asked \cup slots
  /\ UNCHANGED <<sealed, pilot, receipts, ledger, outcomes, desk, faults>>

\* export_review_packets: the secondary review too where it is requested.
Packets(cases, second) ==
  cases \X {"primary"} \cup (cases \cap second) \X {"secondary"}

ExportPilot == Ask(Packets(Pilot, Fixed))

\* Slip: both reviews of every case, whatever the pilot has shown.
SecondOfAll == Cases

\* The second reviews of the remaining cases.
Second == IF pilot = "expanded" THEN Cases ELSE Fixed

ExportFull == pilot # "none" /\ Ask(Packets(Cases \ Pilot, Second))

\* export-escalation, over a directory of submissions.
ExportEscalation ==
  \E cases \in {Pilot, Cases} :
    LET j       == Of(sealed, cases)
        missing == {c \in Cases : Required(j, c) /\ j[<<c, "secondary">>] = "none"}
    IN  /\ Valid(sealed, cases) /\ Derivable(j) /\ missing # {}
        /\ Ask(missing \X {"secondary"})

\* export-adjudication: of a dispute, of which exactly two reviews are sealed.
ExportAdjudication ==
  \E c \in Cases :
    /\ Valid(sealed, Cases) /\ Status(Of(sealed, {c}), c) = "disputed"
    /\ Ask({<<c, "adjudicator">>})

\* seal_submission: a complete response, signed by the person in the role.
Responses == {"canonical", "other"}

\* seal-review, by the person that was asked, in a new file.
Seal ==
  /\ \E s \in asked :
       /\ sealed[s] = "none"
       /\ \/ \E answer \in Responses : sealed' = [sealed EXCEPT ![s] = answer]
             /\ UNCHANGED faults
          \/ /\ faults < MaxFaults /\ faults' = faults + 1
             /\ sealed' = [sealed EXCEPT ![s] = "half"]
  /\ UNCHANGED <<asked, pilot, receipts, ledger, outcomes, desk>>

\* build-pilot-result: all judgments of the pilot are there and resolved, and
\* none rejects its prompt.
BuildPilotResult ==
  LET j == Of(sealed, Pilot) IN
  /\ Valid(sealed, Pilot) /\ Derivable(j) /\ PilotDone(j)
  /\ pilot' = IF Expanded(j) THEN "expanded" ELSE "planned"
  /\ UNCHANGED <<asked, sealed, receipts, ledger, outcomes, desk, faults>>

-----------------------------------------------------------------------------
(* intake                                                                   *)

Conflict(j) == \E s \in Slots : "none" \notin {receipts[s], j[s]} /\ receipts[s] # j[s]

\* Everything is read and the ledger derived before the first receipt.
Intake(d) ==
  /\ desk[d] = Away
  /\ \E cases \in {Pilot, Cases} :
       LET j      == Of(sealed, cases)
           merged == [s \in Slots |-> IF receipts[s] # "none" THEN receipts[s] ELSE j[s]]
           new    == {s \in Slots : receipts[s] = "none" /\ j[s] # "none"}
       IN  /\ Valid(sealed, cases) /\ Valid(receipts, Cases) /\ ~Conflict(j) /\ Derivable(merged)
           /\ desk' = [desk EXCEPT ![d] =
                [at |-> IF new = {} THEN "ledger" ELSE "receipts", merged |-> merged, todo |-> new]]
  /\ UNCHANGED <<asked, sealed, pilot, receipts, ledger, outcomes, faults>>

\* One receipt after the other, each a new file, or the intake raises.
Receipt(d) ==
  /\ desk[d].at = "receipts"
  /\ LET s    == CHOOSE s \in desk[d].todo : TRUE
         left == desk[d].todo \ {s}
     IN  \/ /\ receipts[s] # "none" /\ desk' = [desk EXCEPT ![d] = Away]
            /\ UNCHANGED <<receipts, faults>>
         \/ /\ receipts[s] = "none" /\ receipts' = [receipts EXCEPT ![s] = desk[d].merged[s]]
            /\ desk' = [desk EXCEPT ![d].todo = left,
                                    ![d].at = IF left = {} THEN "ledger" ELSE "receipts"]
            /\ UNCHANGED faults
         \/ /\ receipts[s] = "none" /\ faults < MaxFaults /\ faults' = faults + 1
            /\ receipts' = [receipts EXCEPT ![s] = "half"]
            /\ desk' = [desk EXCEPT ![d] = Away]
  /\ UNCHANGED <<asked, sealed, pilot, ledger, outcomes>>

\* A terminal ledger is published, or must be the one that is.
Materialize(d) ==
  /\ desk[d].at = "ledger" /\ desk' = [desk EXCEPT ![d] = Away]
  /\ \/ /\ Verdict(desk[d].merged) = "pending" \/ ledger.at # "none"
        /\ UNCHANGED <<ledger, faults>>
     \/ /\ Verdict(desk[d].merged) # "pending" /\ ledger.at = "none"
        /\ \/ ledger' = [at |-> "whole", of |-> desk[d].merged] /\ UNCHANGED faults
           \/ /\ faults < MaxFaults /\ faults' = faults + 1
              /\ ledger' = [at |-> "half", of |-> desk[d].merged]
  /\ UNCHANGED <<asked, sealed, pilot, receipts, outcomes>>

\* The command dies between two of its publications.
Die(d) ==
  /\ desk[d] # Away /\ faults < MaxFaults /\ faults' = faults + 1
  /\ desk' = [desk EXCEPT ![d] = Away]
  /\ UNCHANGED <<asked, sealed, pilot, receipts, ledger, outcomes>>

\* compile-outcomes, of a complete ledger.
CompileOutcomes ==
  /\ Compilable(ledger) /\ outcomes = "none"
  /\ \/ outcomes' = "whole" /\ UNCHANGED faults
     \/ faults < MaxFaults /\ faults' = faults + 1 /\ outcomes' = "half"
  /\ UNCHANGED <<asked, sealed, pilot, receipts, ledger, desk>>

\* A half published submission or receipt is refused until a hand removes it.
RemoveHalf ==
  /\ \E s \in Slots :
       \/ sealed[s] = "half" /\ sealed' = [sealed EXCEPT ![s] = "none"] /\ UNCHANGED receipts
       \/ receipts[s] = "half" /\ receipts' = [receipts EXCEPT ![s] = "none"] /\ UNCHANGED sealed
  /\ UNCHANGED <<asked, pilot, ledger, outcomes, desk, faults>>

Next ==
  \/ ExportPilot \/ ExportFull \/ ExportEscalation \/ ExportAdjudication \/ Seal
  \/ BuildPilotResult \/ CompileOutcomes \/ RemoveHalf
  \/ \E d \in Desks : Intake(d) \/ Receipt(d) \/ Materialize(d) \/ Die(d)

Spec == Init /\ [][Next]_vars

-----------------------------------------------------------------------------
\* What the receipts of submissions derive.
Received == [s \in Slots |-> IF receipts[s] = "half" THEN "none" ELSE receipts[s]]

\* "Two reliability events expand secondary review to all 308 cases; this rule
\* is automatic and cannot be waived after seeing results"
\* (bench/NEXT_STUDY_REVIEW_HANDBOOK.md:87): a verdict that was published is
\* what the receipts say for ever.  A complete ledger is theirs to the last
\* judgment, with a second review of every case if two were events, and no
\* judgment that would change it can come in any more; a rejection stays one.
VerdictStands ==
  ledger.at = "whole" =>
    /\ Verdict(Received) = Verdict(ledger.of)
    /\ Verdict(ledger.of) = "complete" =>
         /\ Received = ledger.of
         /\ Expanded(ledger.of) => \A c \in Cases : ledger.of[<<c, "secondary">>] # "none"
=============================================================================
