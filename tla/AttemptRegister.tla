--------------------------- MODULE AttemptRegister ---------------------------
(***************************************************************************)
(* What the evidence store promises to its readers: each key is decided at *)
(* most once, by one physical candidate, for good; a report lists exactly  *)
(* what was decided when it was made.                                      *)
(***************************************************************************)
CONSTANTS Keys, Candidates, None

VARIABLES
  decided,   \* decided[k]: the candidate that committed for k, or None
  reported   \* the candidates of the last report

Chosen == {decided[k] : k \in Keys} \ {None}

Init == decided = [k \in Keys |-> None] /\ reported = {}

Decide(k, c) ==
  /\ decided[k] = None
  /\ c \notin Chosen
  /\ decided' = [decided EXCEPT ![k] = c]
  /\ UNCHANGED reported

Report == reported' = Chosen /\ UNCHANGED decided

Next == Report \/ \E k \in Keys, c \in Candidates : Decide(k, c)

Spec == Init /\ [][Next]_<<decided, reported>>
=============================================================================
