---------------------------- MODULE FollowupService ----------------------------
(***************************************************************************)
(* domains/brix_followup_synthetic/services.py: leads, proposals, their    *)
(* approval, dispatch to a provider whose answer may be unknown, and       *)
(* reconciliation.  The writers hold one lock; the check of a proposal's   *)
(* lead and the readers' audit records are made without it.                *)
(***************************************************************************)
EXTENDS Naturals, Sequences, FiniteSets, SequencesExt

CONSTANTS
  Actors, Agents, Approvers,  \* ACTORS and their roles
  Leads, Bodies,
  TenantOf,                   \* tenant of each actor and lead
  AssignedTo,                 \* actor of each lead
  Eligible,                   \* leads that are open and due
  Writers, Readers,           \* threads inside the service
  MaxProposals, MaxAudit,     \* bounds
  None

ASSUME TablesAssumption ==
  /\ Actors = Agents \cup Approvers
  /\ AssignedTo \in [Leads -> Actors] /\ Eligible \subseteq Leads
  /\ MaxProposals \in Nat /\ MaxAudit \in Nat

Ids    == 1 .. MaxProposals
States == {"draft", "approved", "delivered", "delivery_unknown", "superseded"}

ASSUME NoneAssumption == None \notin Leads \cup Bodies \cup States

VARIABLES
  count,     \* _sequence
  lead,      \* of a proposal: its lead,
  body,      \*   its content,
  hash,      \*   the content its payload_hash is of,
  state,
  version,
  approvedHash,
  expired,   \* proposals 1 .. expired are past their window
  wanted,    \* wanted[w]: the lead and body whose checks writer w has passed
  sent,      \* FakeProvider.sent, by idempotency key
  maybe,     \* sends whose outcome was unknown and that may still arrive
  audit,     \* _audit: number, action and proposal of each entry
  reading    \* reading[r]: the number reader r has computed for its entry

proposals == <<count, lead, body, hash, state, version, approvedHash>>
vars == <<proposals, expired, wanted, sent, maybe, audit, reading>>

Wishes  == [lead : Leads, body : Bodies]
Keys    == [id : Ids, body : Bodies]
Actions == {"propose_followup", "supersede_proposal", "approve", "dispatch", "delivery_unknown",
            "reconciled_delivered", "reconciled_not_delivered", "dispatch_suppressed", "read"}

TypeOK ==
  /\ count \in 0 .. MaxProposals
  /\ lead \in [Ids -> Leads \cup {None}] /\ body \in [Ids -> Bodies \cup {None}]
  /\ hash \in [Ids -> Bodies \cup {None}] /\ state \in [Ids -> States \cup {None}]
  /\ version \in [Ids -> 0 .. MaxProposals] /\ approvedHash \in [Ids -> Bodies \cup {None}]
  /\ expired \in 0 .. count
  /\ wanted \in [Writers -> Wishes \cup {None}]
  /\ sent \in Seq(Keys) /\ maybe \subseteq Keys
  /\ audit \in Seq([n : 1 .. MaxAudit, action : Actions, id : 0 .. MaxProposals])
  /\ reading \in [Readers -> 0 .. MaxAudit]

Init ==
  /\ count = 0
  /\ lead = [i \in Ids |-> None] /\ body = [i \in Ids |-> None] /\ hash = [i \in Ids |-> None]
  /\ state = [i \in Ids |-> None] /\ version = [i \in Ids |-> 0]
  /\ approvedHash = [i \in Ids |-> None]
  /\ expired = 0 /\ wanted = [w \in Writers |-> None]
  /\ sent = <<>> /\ maybe = {} /\ audit = <<>> /\ reading = [r \in Readers |-> 0]

\* _record; entries are made in the order of the sequence.
Entries(es) ==
  /\ Len(audit) + Len(es) <= MaxAudit
  /\ audit' = audit \o [k \in 1 .. Len(es) |->
       [n |-> Len(audit) + k, action |-> es[k][1], id |-> es[k][2]]]

Entry(action, i) == Entries(<<<<action, i>>>>)

Drafts(l) == {i \in 1 .. count : lead[i] = l /\ state[i] = "draft"}

-----------------------------------------------------------------------------
(* propose_followup                                                         *)

\* Tenant, assignment and eligibility, before the lock is taken.
Check(w) ==
  /\ wanted[w] = None
  /\ \E a \in Actors, l \in Leads, b \in Bodies :
       /\ TenantOf[l] = TenantOf[a] /\ AssignedTo[l] = a /\ l \in Eligible
       /\ wanted' = [wanted EXCEPT ![w] = [lead |-> l, body |-> b]]
  /\ UNCHANGED <<proposals, expired, sent, maybe, audit, reading>>

\* Slip: an earlier draft is left as it is.
NoneSuperseded(l) == {}

\* The drafts a new proposal of the lead supersedes.
Superseded(l) == Drafts(l)

NextVersion(l) == 1 + Cardinality({j \in 1 .. count : lead[j] = l})

\* Under the lock: supersede, number, store and record.
Draft(w) ==
  /\ wanted[w] # None /\ count < MaxProposals
  /\ LET l == wanted[w].lead  i == count + 1  old == SetToSeq(Superseded(l)) IN
       /\ count' = i
       /\ state' = [j \in Ids |-> IF j = i THEN "draft"
                                  ELSE IF j \in Superseded(l) THEN "superseded" ELSE state[j]]
       /\ lead' = [lead EXCEPT ![i] = l]
       /\ body' = [body EXCEPT ![i] = wanted[w].body]
       /\ hash' = [hash EXCEPT ![i] = wanted[w].body]
       /\ version' = [version EXCEPT ![i] = NextVersion(l)]
       /\ Entries([k \in 1 .. Len(old) |-> <<"supersede_proposal", old[k]>>]
                  \o <<<<"propose_followup", i>>>>)
  /\ wanted' = [wanted EXCEPT ![w] = None]
  /\ UNCHANGED <<approvedHash, expired, sent, maybe, reading>>

-----------------------------------------------------------------------------
(* approve, dispatch, reconcile                                             *)

MayApprove(a, i) == a \in Approvers /\ TenantOf[a] = TenantOf[lead[i]]

\* The approver names the content that was reviewed.
Approve(a, i, b) ==
  /\ i <= count /\ MayApprove(a, i)
  /\ state[i] = "draft" /\ i > expired /\ b = hash[i]
  /\ state' = [state EXCEPT ![i] = "approved"]
  /\ approvedHash' = [approvedHash EXCEPT ![i] = b]
  /\ Entry("approve", i)
  /\ UNCHANGED <<count, lead, body, hash, version, expired, wanted, sent, maybe, reading>>

Key(i) == [id |-> i, body |-> approvedHash[i]]

\* Slip: the provider trusts its caller.
SendBlindly(k) == sent' = Append(sent, k) /\ UNCHANGED maybe

\* FakeProvider.send that goes through: a key is sent once.
Send(k) ==
  /\ sent' = IF Contains(sent, k) THEN sent ELSE Append(sent, k)
  /\ UNCHANGED maybe

\* Approved, in time, and still the content the approval names.
Dispatchable(i) == state[i] = "approved" /\ i > expired /\ body[i] = approvedHash[i]

\* delivered, or duplicate_suppressed.
DispatchSent(i) ==
  /\ Dispatchable(i)
  /\ Send([id |-> i, body |-> body[i]])
  /\ state' = [state EXCEPT ![i] = "delivered"]
  /\ Entry("dispatch", i)
  /\ UNCHANGED <<count, lead, body, hash, version, approvedHash, expired, wanted, reading>>

\* The provider's answer is unknown: so is whether the message arrives.
DispatchUnknown(i) ==
  /\ Dispatchable(i)
  /\ maybe' = maybe \cup {[id |-> i, body |-> body[i]]}
  /\ state' = [state EXCEPT ![i] = "delivery_unknown"]
  /\ Entry("delivery_unknown", i)
  /\ UNCHANGED <<count, lead, body, hash, version, approvedHash, expired, wanted, sent, reading>>

\* Dispatching again what was delivered answers, and leaves a record.  (An
\* unknown outcome, a draft, or a provider that raises change nothing.)
DispatchAgain(i) ==
  /\ state[i] = "delivered"
  /\ Entry("dispatch_suppressed", i)
  /\ UNCHANGED <<proposals, expired, wanted, sent, maybe, reading>>

\* Slip: an unknown delivery is taken for none.
ReconcileHoping(i) ==
  /\ state[i] = "delivery_unknown"
  /\ state' = [state EXCEPT ![i] = "delivered"]
  /\ Entry("reconciled_delivered", i)
  /\ UNCHANGED <<count, lead, body, hash, version, approvedHash, expired, wanted, sent, maybe,
                 reading>>

\* was_delivered of the key decides.
Reconcile(i) ==
  /\ state[i] = "delivery_unknown"
  /\ IF Contains(sent, Key(i))
       THEN state' = [state EXCEPT ![i] = "delivered"] /\ Entry("reconciled_delivered", i)
       ELSE state' = [state EXCEPT ![i] = "approved"] /\ Entry("reconciled_not_delivered", i)
  /\ UNCHANGED <<count, lead, body, hash, version, approvedHash, expired, wanted, sent, maybe,
                 reading>>

-----------------------------------------------------------------------------
(* Readers, and what happens outside the service                            *)

\* list_due_followups, inspect_lead and inspect_proposals record without the
\* lock: the length of the log is read ...
Number(r) ==
  /\ reading[r] = 0 /\ Len(audit) < MaxAudit
  /\ reading' = [reading EXCEPT ![r] = Len(audit) + 1]
  /\ UNCHANGED <<proposals, expired, wanted, sent, maybe, audit>>

\* ... and the entry appended.
Log(r) ==
  /\ reading[r] # 0 /\ Len(audit) < MaxAudit
  /\ audit' = Append(audit, [n |-> reading[r], action |-> "read", id |-> 0])
  /\ reading' = [reading EXCEPT ![r] = 0]
  /\ UNCHANGED <<proposals, expired, wanted, sent, maybe>>

\* An hour passes for the oldest proposal that is in time.
Expire ==
  /\ expired < count
  /\ expired' = expired + 1
  /\ UNCHANGED <<proposals, wanted, sent, maybe, audit, reading>>

\* A message of unknown outcome arrives; the provider knows its keys.
Arrive(k) ==
  /\ k \in maybe
  /\ maybe' = maybe \ {k}
  /\ sent' = IF Contains(sent, k) THEN sent ELSE Append(sent, k)
  /\ UNCHANGED <<proposals, expired, wanted, audit, reading>>

\* The stored content changes behind the service.
Edit(i, b) ==
  /\ i <= count /\ state[i] \in {"draft", "approved"} /\ body[i] # b
  /\ body' = [body EXCEPT ![i] = b]
  /\ UNCHANGED <<count, lead, hash, state, version, approvedHash, expired, wanted, sent, maybe,
                 audit, reading>>

Next ==
  \/ \E w \in Writers : Check(w) \/ Draft(w)
  \/ \E i \in Ids : \/ \E a \in Actors, b \in Bodies : Approve(a, i, b)
                    \/ DispatchSent(i) \/ DispatchUnknown(i) \/ DispatchAgain(i) \/ Reconcile(i)
                    \/ \E b \in Bodies : Edit(i, b)
  \/ \E r \in Readers : Number(r) \/ Log(r)
  \/ Expire \/ \E k \in maybe : Arrive(k)

Spec == Init /\ [][Next]_vars

-----------------------------------------------------------------------------
\* Two proposers at once never leave two drafts of one lead to choose from.
OneDraft == \A l \in Leads : Cardinality(Drafts(l)) <= 1

\* A revision has a number of its own, counted within its lead.
VersionsCount ==
  \A i, j \in 1 .. count : i < j /\ lead[i] = lead[j] => version[i] < version[j]

\* The proposals of a lead make one line of versions with one draft at its end.
OneLineage == OneDraft /\ VersionsCount

\* delivered is never a guess: the provider has the key.
DeliveredIsTrue == \A i \in Ids : state[i] = "delivered" => Contains(sent, Key(i))

\* The log alone tells the state of every proposal: its last entry but for
\* suppressed dispatches.
Told(action) ==
  CASE action = "propose_followup"         -> "draft"
    [] action = "supersede_proposal"       -> "superseded"
    [] action \in {"approve", "reconciled_not_delivered"} -> "approved"
    [] action \in {"dispatch", "reconciled_delivered"}    -> "delivered"
    [] action = "delivery_unknown"         -> "delivery_unknown"

AuditTells ==
  \A i \in 1 .. count :
    LET ns == {n \in DOMAIN audit : audit[n].id = i /\ audit[n].action # "dispatch_suppressed"}
    IN  \E n \in ns : (\A m \in ns : m <= n) /\ Told(audit[n].action) = state[i]

\* The states are true, and the log tells them.
StatesTold == DeliveredIsTrue /\ AuditTells

\* The service implements the outbox.
ApprovedKeys == {Key(i) : i \in {j \in Ids : approvedHash[j] # None}}
Outbox == INSTANCE Outbox WITH Messages <- Keys, approved <- ApprovedKeys, sent <- sent
OutboxSpec == Outbox!Spec
=============================================================================
