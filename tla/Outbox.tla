-------------------------------- MODULE Outbox --------------------------------
(***************************************************************************)
(* What domains/brix_followup_synthetic/services.py promises of a message: *)
(* it goes out only as it was approved, and only once.                     *)
(***************************************************************************)
EXTENDS Sequences, SequencesExt

CONSTANT Messages   \* a proposal with the content of it that was approved

VARIABLES
  approved,  \* messages somebody entitled to has approved
  sent       \* what the client received, in order

Init == approved = {} /\ sent = <<>>

Approve == \E m \in Messages : approved' = approved \cup {m} /\ UNCHANGED sent

Deliver == \E m \in approved : /\ ~Contains(sent, m)
                               /\ sent' = Append(sent, m)
                               /\ UNCHANGED approved

Next == Approve \/ Deliver

Spec == Init /\ [][Next]_<<approved, sent>>
=============================================================================
