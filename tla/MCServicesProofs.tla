--------------------------- MODULE MCServicesProofs ---------------------------
(***************************************************************************)
(* Proofs about MCServices: about its follow-up service, for any tables,   *)
(* threads and bounds, about the human review and about the agent's loop,  *)
(* and that what is proved of these, of the run lifecycle, of the run      *)
(* directory and of the decision of a masked run holds of the composition, *)
(* since each of its steps is one of a part or leaves the part alone.      *)
(***************************************************************************)
EXTENDS MCServices, FiniteSetTheorems, SequenceTheorems, TLAPS

\* What is known of a proposal in each of its states.
Blank ==
  \A i \in Ids :
    IF i > count
      THEN state[i] = None /\ approvedHash[i] = None
      ELSE /\ lead[i] \in Leads /\ body[i] \in Bodies /\ hash[i] \in Bodies /\ state[i] \in States
           /\ state[i] = "draft" => approvedHash[i] = None
           /\ state[i] \in {"approved", "delivered", "delivery_unknown"}
              => approvedHash[i] \in Bodies

\* One draft of a lead, and each version counts the proposals up to it.
Line ==
  \A i \in 1 .. count :
    /\ version[i] = Cardinality({j \in 1 .. i : lead[j] = lead[i]})
    /\ \A j \in 1 .. count :
         lead[i] = lead[j] /\ state[i] = "draft" /\ state[j] = "draft" => i = j

\* Only what was approved is under way.
UnderWay == maybe \subseteq ApprovedKeys

\* The log speaks of proposals that exist.
Logged == \A n \in DOMAIN audit : audit[n].id <= count

ServiceInv == TypeOK /\ Blank /\ Line /\ UnderWay /\ DeliveredIsTrue /\ Logged /\ AuditTells

-----------------------------------------------------------------------------
(* The log *)

Notes == [n : 1 .. MaxAudit, action : Actions, id : 0 .. MaxProposals]

\* SetToSeq lists a finite set, each element once.
LEMMA Listed ==
  ASSUME NEW S, IsFiniteSet(S)
  PROVE  /\ SetToSeq(S) \in [1 .. Cardinality(S) -> S] /\ Len(SetToSeq(S)) = Cardinality(S)
         /\ Cardinality(S) \in Nat
         /\ \A j, k \in 1 .. Cardinality(S) : SetToSeq(S)[j] = SetToSeq(S)[k] => j = k
         /\ \A x \in S : \E k \in 1 .. Cardinality(S) : SetToSeq(S)[k] = x
  <1> DEFINE n == Cardinality(S)
  <1>1. n \in Nat /\ ExistsBijection(1 .. n, S) BY FS_CardinalityType
  <1>2. \E f \in [1 .. n -> S] : IsInjective(f)
    BY <1>1 DEF ExistsBijection, Bijection, Injection
  <1>3. SetToSeq(S) \in [1 .. n -> S] /\ IsInjective(SetToSeq(S)) BY <1>2 DEF SetToSeq
  <1>4. SetToSeq(S) \in Injection(1 .. n, S) BY <1>3 DEF Injection
  <1>5. Cardinality(1 .. n) = n BY <1>1, FS_Interval
  <1>6. SetToSeq(S) \in Surjection(1 .. n, S) BY <1>4, <1>5, FS_Injection
  <1>7. \A x \in S : \E k \in 1 .. n : SetToSeq(S)[k] = x BY <1>6 DEF Surjection
  <1>8. \A j, k \in 1 .. n : SetToSeq(S)[j] = SetToSeq(S)[k] => j = k
    BY <1>3 DEF IsInjective
  <1> QED BY <1>1, <1>3, <1>7, <1>8

\* _record adds its entries at the end of the log.
LEMMA EntriesProperties ==
  ASSUME TypeOK, NEW es \in Seq(Actions \X (0 .. MaxProposals)), Entries(es)
  PROVE  /\ audit' \in Seq(Notes) /\ Len(audit') = Len(audit) + Len(es)
         /\ \A n \in 1 .. Len(audit) : audit'[n] = audit[n]
         /\ \A k \in 1 .. Len(es) :
              audit'[Len(audit) + k] = [n |-> Len(audit) + k, action |-> es[k][1], id |-> es[k][2]]
  <1> DEFINE new == [k \in 1 .. Len(es) |->
                       [n |-> Len(audit) + k, action |-> es[k][1], id |-> es[k][2]]]
  <1>1. Len(es) \in Nat /\ Len(audit) \in Nat /\ audit \in Seq(Notes)
    BY LenProperties DEF TypeOK, Notes
  <1>2. \A k \in 1 .. Len(es) : es[k][1] \in Actions /\ es[k][2] \in 0 .. MaxProposals
    BY ElementOfSeq
  <1>3. Len(audit) + Len(es) <= MaxAudit /\ audit' = audit \o new BY DEF Entries
  <1>4. \A k \in 1 .. Len(es) : new[k] \in Notes
    BY <1>1, <1>2, <1>3, TablesAssumption DEF Notes
  <1>5. new \in Seq(Notes) /\ Len(new) = Len(es) BY <1>1, <1>4
  <1>6. /\ audit' \in Seq(Notes) /\ Len(audit') = Len(audit) + Len(es)
        /\ \A n \in 1 .. Len(audit) + Len(es) :
             audit'[n] = IF n <= Len(audit) THEN audit[n] ELSE new[n - Len(audit)]
    BY <1>1, <1>3, <1>5, ConcatProperties
  <1>7. ASSUME NEW n \in 1 .. Len(audit) PROVE audit'[n] = audit[n]
    <2>1. n \in 1 .. Len(audit) + Len(es) /\ n <= Len(audit) BY <1>1
    <2> QED BY <1>6, <2>1
  <1>8. ASSUME NEW k \in 1 .. Len(es)
        PROVE  audit'[Len(audit) + k] = [n |-> Len(audit) + k, action |-> es[k][1], id |-> es[k][2]]
    <2>1. Len(audit) + k \in 1 .. Len(audit) + Len(es) /\ ~(Len(audit) + k <= Len(audit))
          /\ (Len(audit) + k) - Len(audit) = k
      BY <1>1
    <2> QED BY <1>6, <2>1
  <1> QED BY <1>6, <1>7, <1>8

\* The entry tells the state of the proposal.
Tells(e, i) == e.id = i /\ e.action # "dispatch_suppressed"

\* The log goes on telling every state if each proposal has kept its state and is not
\* spoken of, or the last new entry that speaks of it tells its new state.
LEMMA LogGoesOn ==
  ASSUME TypeOK, AuditTells, audit' \in Seq(Notes), Len(audit) <= Len(audit'), count' \in Nat,
         \A n \in 1 .. Len(audit) : audit'[n] = audit[n],
         \A i \in 1 .. count' :
           \/ /\ i <= count /\ state'[i] = state[i]
              /\ \A n \in Len(audit) + 1 .. Len(audit') : ~Tells(audit'[n], i)
           \/ \E n \in Len(audit) + 1 .. Len(audit') :
                /\ Tells(audit'[n], i) /\ Told(audit'[n].action) = state'[i]
                /\ \A m \in n + 1 .. Len(audit') : ~Tells(audit'[m], i)
  PROVE  AuditTells'
  <1>1. /\ Len(audit) \in Nat /\ DOMAIN audit = 1 .. Len(audit) /\ count \in Nat
        /\ Len(audit') \in Nat /\ DOMAIN audit' = 1 .. Len(audit')
    BY LenProperties, TablesAssumption DEF TypeOK
  <1> SUFFICES ASSUME NEW i \in 1 .. count'
               PROVE  \E n \in 1 .. Len(audit') :
                        /\ Tells(audit'[n], i) /\ Told(audit'[n].action) = state'[i]
                        /\ \A m \in 1 .. Len(audit') : Tells(audit'[m], i) => m <= n
    BY <1>1 DEF AuditTells, Tells
  <1>2. CASE /\ i <= count /\ state'[i] = state[i]
             /\ \A n \in Len(audit) + 1 .. Len(audit') : ~Tells(audit'[n], i)
    <2>0. i \in 1 .. count BY <1>1, <1>2
    <2>1. PICK n \in 1 .. Len(audit) :
            /\ Tells(audit[n], i) /\ Told(audit[n].action) = state[i]
            /\ \A m \in 1 .. Len(audit) : Tells(audit[m], i) => m <= n
      <3>1. DOMAIN audit = 1 .. Len(audit) BY <1>1
      <3> QED BY <1>2, <2>0, <3>1 DEF AuditTells, Tells
    <2>2. \A m \in 1 .. Len(audit') :
            Tells(audit'[m], i) => m \in 1 .. Len(audit) /\ Tells(audit[m], i)
      BY <1>1, <1>2 DEF Tells
    <2>3. Tells(audit'[n], i) /\ audit'[n] = audit[n] BY <1>1, <2>1 DEF Tells
    <2> QED BY <1>1, <1>2, <2>1, <2>2, <2>3
  <1>3. CASE \E n \in Len(audit) + 1 .. Len(audit') :
               /\ Tells(audit'[n], i) /\ Told(audit'[n].action) = state'[i]
               /\ \A m \in n + 1 .. Len(audit') : ~Tells(audit'[m], i)
    BY <1>1, <1>3
  <1> QED BY <1>2, <1>3

\* One entry about one proposal, whose state it tells.
LEMMA OneEntry ==
  ASSUME ServiceInv, NEW i \in 1 .. count, NEW action \in Actions \ {"dispatch_suppressed"},
         Entry(action, i), count' = count, state' = [state EXCEPT ![i] = Told(action)]
  PROVE  audit' \in Seq(Notes) /\ Logged' /\ AuditTells'
  <1> DEFINE es == <<<<action, i>>>>
  <1>1. /\ count \in 0 .. MaxProposals /\ i \in 0 .. MaxProposals /\ i \in Ids
        /\ Len(audit) \in Nat /\ DOMAIN audit = 1 .. Len(audit)
    BY TablesAssumption, LenProperties DEF ServiceInv, TypeOK, Ids
  <1>2. es \in Seq(Actions \X (0 .. MaxProposals)) /\ Len(es) = 1 /\ es[1] = <<action, i>>
    BY <1>1
  <1>3. /\ audit' \in Seq(Notes) /\ Len(audit') = Len(audit) + 1
        /\ \A n \in 1 .. Len(audit) : audit'[n] = audit[n]
        /\ audit'[Len(audit) + 1].action = action /\ audit'[Len(audit) + 1].id = i
    <2>1. TypeOK /\ Entries(es) BY DEF Entry, ServiceInv
    <2> HIDE DEF es
    <2>2. /\ audit' \in Seq(Notes) /\ Len(audit') = Len(audit) + 1
          /\ \A n \in 1 .. Len(audit) : audit'[n] = audit[n]
          /\ \A k \in 1 .. Len(es) :
               audit'[Len(audit) + k]
               = [n |-> Len(audit) + k, action |-> es[k][1], id |-> es[k][2]]
      <3>1. es \in Seq(Actions \X (0 .. MaxProposals)) BY <1>2
      <3>2. Len(audit') = Len(audit) + Len(es) BY <2>1, <3>1, EntriesProperties
      <3> QED BY <1>2, <2>1, <3>1, <3>2, EntriesProperties
    <2>3. 1 \in 1 .. Len(es) BY <1>2
    <2>4. audit'[Len(audit) + 1] = [n |-> Len(audit) + 1, action |-> es[1][1], id |-> es[1][2]]
      BY <2>2, <2>3
    <2> QED BY <1>2, <2>2, <2>4
  <1>4. DOMAIN audit' = 1 .. Len(audit') BY <1>3, LenProperties
  <1>5. Logged' BY <1>1, <1>3, <1>4 DEF ServiceInv, Logged
  <1>6. \A n \in Len(audit) + 1 .. Len(audit') : n = Len(audit) + 1 BY <1>1, <1>3
  <1>7. /\ Tells(audit'[Len(audit) + 1], i) /\ Told(audit'[Len(audit) + 1].action) = state'[i]
        /\ \A j \in 1 .. count : j # i => ~Tells(audit'[Len(audit) + 1], j) /\ state'[j] = state[j]
    <2>1. Tells(audit'[Len(audit) + 1], i) BY <1>3 DEF Tells
    <2>2. state \in [Ids -> States \cup {None}] BY DEF ServiceInv, TypeOK
    <2>3. state'[i] = Told(action) BY <1>1, <2>2
    <2>4. \A j \in 1 .. count : j # i => ~Tells(audit'[Len(audit) + 1], j) BY <1>3 DEF Tells
    <2>5. \A j \in 1 .. count : j # i => state'[j] = state[j]
      BY <1>1, <2>2, TablesAssumption DEF Ids
    <2> QED BY <1>3, <2>1, <2>3, <2>4, <2>5
  <1>8. AuditTells'
    <2>1. \A m \in Len(audit) + 1 + 1 .. Len(audit') : FALSE BY <1>1, <1>3
    <2>2. Len(audit) + 1 \in Len(audit) + 1 .. Len(audit') /\ Len(audit) <= Len(audit')
      BY <1>1, <1>3
    <2>3. ASSUME NEW j \in 1 .. count'
          PROVE  \/ /\ j <= count /\ state'[j] = state[j]
                    /\ \A n \in Len(audit) + 1 .. Len(audit') : ~Tells(audit'[n], j)
                 \/ \E n \in Len(audit) + 1 .. Len(audit') :
                      /\ Tells(audit'[n], j) /\ Told(audit'[n].action) = state'[j]
                      /\ \A m \in n + 1 .. Len(audit') : ~Tells(audit'[m], j)
      <3>1. CASE j = i BY <1>7, <2>1, <2>2, <3>1
      <3>2. CASE j # i BY <1>1, <1>6, <1>7, <3>2
      <3> QED BY <3>1, <3>2
    <2>4. TypeOK /\ AuditTells /\ count' \in Nat BY <1>1 DEF ServiceInv
    <2> QED BY <1>3, <2>2, <2>3, <2>4, LogGoesOn
  <1> QED BY <1>3, <1>5, <1>8

\* An entry that tells no state: of a reader, or of a dispatch that was suppressed.
LEMMA IdleEntry ==
  ASSUME ServiceInv, audit' \in Seq(Notes), Len(audit') = Len(audit) + 1,
         \A n \in 1 .. Len(audit) : audit'[n] = audit[n], UNCHANGED <<count, state>>,
         audit'[Len(audit) + 1].id \in 0 .. count,
         \A i \in 1 .. count : ~Tells(audit'[Len(audit) + 1], i)
  PROVE  Logged' /\ AuditTells'
  <1>1. /\ count \in Nat /\ Len(audit) \in Nat /\ DOMAIN audit = 1 .. Len(audit)
        /\ DOMAIN audit' = 1 .. Len(audit')
    BY LenProperties, TablesAssumption DEF ServiceInv, TypeOK
  <1>2. Logged' BY <1>1 DEF ServiceInv, Logged
  <1>3. \A n \in Len(audit) + 1 .. Len(audit') : n = Len(audit) + 1 BY <1>1
  <1>4. ASSUME NEW i \in 1 .. count'
        PROVE  /\ i <= count /\ state'[i] = state[i]
               /\ \A n \in Len(audit) + 1 .. Len(audit') : ~Tells(audit'[n], i)
    BY <1>1, <1>3
  <1>5. TypeOK /\ AuditTells /\ count' \in Nat /\ Len(audit) <= Len(audit')
    BY <1>1 DEF ServiceInv
  <1> QED BY <1>2, <1>4, <1>5, LogGoesOn

-----------------------------------------------------------------------------
(* What each step keeps *)

\* What the entries say, which the case distinction of Told spells out.
LEMMA ToldOf ==
  /\ Told("propose_followup") = "draft" /\ Told("supersede_proposal") = "superseded"
  /\ Told("approve") = "approved" /\ Told("reconciled_not_delivered") = "approved"
  /\ Told("dispatch") = "delivered" /\ Told("reconciled_delivered") = "delivered"
  /\ Told("delivery_unknown") = "delivery_unknown"
  BY Zenon DEF Told

\* A key that is sent is there, and none of the others goes.
LEMMA Sends ==
  ASSUME sent \in Seq(Keys), NEW k \in Keys,
         sent' = IF Contains(sent, k) THEN sent ELSE Append(sent, k)
  PROVE  /\ sent' \in Seq(Keys) /\ Contains(sent', k)
         /\ \A x : Contains(sent, x) => Contains(sent', x)
  <1>1. CASE Contains(sent, k) BY <1>1
  <1>2. CASE ~Contains(sent, k)
    <2>1. sent' = Append(sent, k) /\ Len(sent) \in Nat BY <1>2, LenProperties
    <2>2. /\ sent' \in Seq(Keys) /\ Len(sent') = Len(sent) + 1 /\ sent'[Len(sent) + 1] = k
          /\ \A n \in 1 .. Len(sent) : sent'[n] = sent[n]
      BY <2>1, AppendProperties
    <2> QED BY <2>1, <2>2 DEF Contains
  <1> QED BY <1>1, <1>2

\* Proposals, log and messages as they were: time passes, or a thread moves on outside
\* the lock.
LEMMA Elsewhere ==
  ASSUME ServiceInv, UNCHANGED <<proposals, sent, maybe, audit>>,
         expired' \in 0 .. count', wanted' \in [Writers -> Wishes \cup {None}],
         reading' \in [Readers -> 0 .. MaxAudit]
  PROVE  ServiceInv'
  <1> USE DEF ServiceInv, proposals
  <1>1. TypeOK' BY DEF TypeOK
  <1>2. Blank' /\ Line' /\ Logged' BY DEF Blank, Line, Logged
  <1>3. UnderWay' /\ DeliveredIsTrue' BY DEF UnderWay, ApprovedKeys, Key, DeliveredIsTrue
  <1>4. AuditTells' BY DEF AuditTells
  <1> QED BY <1>1, <1>2, <1>3, <1>4

LEMMA CheckKeeps == ASSUME ServiceInv, NEW w \in Writers, Check(w) PROVE ServiceInv'
  <1>1. wanted' \in [Writers -> Wishes \cup {None}] BY DEF Check, ServiceInv, TypeOK, Wishes
  <1> QED BY <1>1, Elsewhere DEF Check, ServiceInv, TypeOK, proposals

LEMMA NumberKeeps == ASSUME ServiceInv, NEW r \in Readers, Number(r) PROVE ServiceInv'
  <1>1. Len(audit) \in Nat BY LenProperties DEF ServiceInv, TypeOK
  <1>2. Len(audit) + 1 \in 0 .. MaxAudit BY <1>1, TablesAssumption DEF Number
  <1>3. reading' \in [Readers -> 0 .. MaxAudit] BY <1>2 DEF Number, ServiceInv, TypeOK
  <1> QED BY <1>3, Elsewhere DEF Number, ServiceInv, TypeOK, proposals

LEMMA ExpireKeeps == ASSUME ServiceInv, Expire PROVE ServiceInv'
  <1>1. expired' \in 0 .. count' BY TablesAssumption DEF Expire, ServiceInv, TypeOK, proposals
  <1> QED BY <1>1, Elsewhere DEF Expire, ServiceInv, TypeOK, proposals

\* A reader's entry tells no state, whatever number it carries.
LEMMA LogKeeps == ASSUME ServiceInv, NEW r \in Readers, Log(r) PROVE ServiceInv'
  <1> DEFINE e == [n |-> reading[r], action |-> "read", id |-> 0]
  <1>1. /\ audit \in Seq(Notes) /\ Len(audit) \in Nat /\ count \in 0 .. MaxProposals
        /\ reading[r] \in 0 .. MaxAudit
    BY LenProperties DEF ServiceInv, TypeOK, Notes
  <1>2. e \in Notes BY <1>1, TablesAssumption DEF Notes, Log, Actions
  <1>3. /\ audit' \in Seq(Notes) /\ Len(audit') = Len(audit) + 1
        /\ audit'[Len(audit) + 1] = e /\ \A n \in 1 .. Len(audit) : audit'[n] = audit[n]
    BY <1>1, <1>2, AppendProperties DEF Log
  <1>4. UNCHANGED <<proposals, expired, wanted, sent, maybe>> BY DEF Log
  <1>5. /\ audit'[Len(audit) + 1].id \in 0 .. count
        /\ \A i \in 1 .. count : ~Tells(audit'[Len(audit) + 1], i)
    BY <1>1, <1>3, TablesAssumption DEF Tells
  <1>6. Logged' /\ AuditTells' BY <1>3, <1>4, <1>5, IdleEntry DEF proposals
  <1>7. TypeOK'
    <2>1. reading' \in [Readers -> 0 .. MaxAudit] BY TablesAssumption DEF Log, ServiceInv, TypeOK
    <2> QED BY <1>3, <1>4, <2>1 DEF ServiceInv, TypeOK, Notes, proposals
  <1>8. Blank' /\ Line' BY <1>4 DEF ServiceInv, Blank, Line, proposals
  <1>9. UnderWay' /\ DeliveredIsTrue'
    BY <1>4 DEF ServiceInv, UnderWay, ApprovedKeys, Key, DeliveredIsTrue, proposals
  <1> QED BY <1>6, <1>7, <1>8, <1>9 DEF ServiceInv

\* A dispatch that is suppressed is put on record and changes nothing else.
LEMMA DispatchAgainKeeps == ASSUME ServiceInv, NEW i \in Ids, DispatchAgain(i) PROVE ServiceInv'
  <1>1. i \in 1 .. count /\ count \in 0 .. MaxProposals /\ Len(audit) \in Nat
    BY NoneAssumption, TablesAssumption, LenProperties
       DEF DispatchAgain, ServiceInv, Blank, TypeOK, Ids, States
  <1> DEFINE es == <<<<"dispatch_suppressed", i>>>>
  <1>2. /\ es \in Seq(Actions \X (0 .. MaxProposals)) /\ Len(es) = 1 /\ 1 \in 1 .. Len(es)
        /\ es[1] = <<"dispatch_suppressed", i>>
    BY <1>1, TablesAssumption DEF Actions
  <1>3. TypeOK /\ Entries(es) BY DEF DispatchAgain, Entry, ServiceInv
  <1> HIDE DEF es
  <1>4. /\ audit' \in Seq(Notes) /\ Len(audit') = Len(audit) + 1
        /\ \A n \in 1 .. Len(audit) : audit'[n] = audit[n]
    BY <1>2, <1>3, EntriesProperties
  <1>5. audit'[Len(audit) + 1] = [n |-> Len(audit) + 1, action |-> es[1][1], id |-> es[1][2]]
    BY <1>2, <1>3, EntriesProperties
  <1>6. /\ audit'[Len(audit) + 1].id \in 0 .. count
        /\ \A j \in 1 .. count : ~Tells(audit'[Len(audit) + 1], j)
    BY <1>1, <1>2, <1>5, TablesAssumption DEF Tells
  <1>7. UNCHANGED <<proposals, expired, wanted, sent, maybe, reading>> BY DEF DispatchAgain
  <1>8. Logged' /\ AuditTells' BY <1>4, <1>6, <1>7, IdleEntry DEF proposals
  <1>9. TypeOK' BY <1>4, <1>7 DEF ServiceInv, TypeOK, Notes, proposals
  <1>10. Blank' /\ Line' BY <1>7 DEF ServiceInv, Blank, Line, proposals
  <1>11. UnderWay' /\ DeliveredIsTrue'
    BY <1>7 DEF ServiceInv, UnderWay, ApprovedKeys, Key, DeliveredIsTrue, proposals
  <1> QED BY <1>8, <1>9, <1>10, <1>11 DEF ServiceInv

\* One proposal that exists goes to another state, its keys and versions as they were.
LEMMA Moves ==
  ASSUME ServiceInv, NEW i \in Ids, state[i] \in States, NEW s \in States,
         state' = [state EXCEPT ![i] = s],
         UNCHANGED <<count, lead, body, hash, version, approvedHash>>,
         s \in {"approved", "delivered", "delivery_unknown"}, approvedHash[i] \in Bodies
  PROVE  /\ i \in 1 .. count /\ Blank' /\ Line' /\ state' \in [Ids -> States \cup {None}]
         /\ ApprovedKeys' = ApprovedKeys
  <1>1. state \in [Ids -> States \cup {None}] /\ count \in 0 .. MaxProposals
    BY DEF ServiceInv, TypeOK
  <1>2. i \in 1 .. count /\ \A j \in 1 .. count : j \in Ids
    BY <1>1, NoneAssumption, TablesAssumption DEF ServiceInv, Blank, Ids
  <1>3. Blank' BY <1>1, <1>2, NoneAssumption DEF ServiceInv, Blank, Ids
  <1>4. Line' BY <1>1, <1>2 DEF ServiceInv, Line
  <1>5. ApprovedKeys' = ApprovedKeys BY DEF ApprovedKeys, Key
  <1> QED BY <1>1, <1>2, <1>3, <1>4, <1>5

\* A proposal is approved once, out of its draft: its key is new.
LEMMA ApproveKeeps ==
  ASSUME ServiceInv, NEW i \in Ids, NEW a \in Actors, NEW b \in Bodies, Approve(a, i, b)
  PROVE  ServiceInv' /\ ApprovedKeys' = ApprovedKeys \cup {[id |-> i, body |-> b]}
  <1> USE DEF ServiceInv
  <1>1. /\ i \in 1 .. count /\ state[i] = "draft" /\ approvedHash[i] = None
        /\ count \in 0 .. MaxProposals /\ state \in [Ids -> States \cup {None}]
        /\ approvedHash \in [Ids -> Bodies \cup {None}]
    BY TablesAssumption DEF Approve, Blank, TypeOK, Ids
  <1>2. /\ state' = [state EXCEPT ![i] = "approved"]
        /\ approvedHash' = [approvedHash EXCEPT ![i] = b]
        /\ Entry("approve", i)
        /\ UNCHANGED <<count, lead, body, hash, version, expired, wanted, sent, maybe, reading>>
    BY DEF Approve
  <1>3. audit' \in Seq(Notes) /\ Logged' /\ AuditTells'
    BY <1>1, <1>2, ToldOf, OneEntry DEF Actions
  <1>4. TypeOK' BY <1>1, <1>2, <1>3 DEF TypeOK, States, Notes
  <1>5. Blank' BY <1>1, <1>2, NoneAssumption, TablesAssumption DEF Blank, Ids, States
  <1>6. Line' BY <1>1, <1>2, TablesAssumption DEF Line, Ids
  <1>7. ApprovedKeys' = ApprovedKeys \cup {[id |-> i, body |-> b]}
    <2>1. \A j \in Ids : approvedHash'[j] = IF j = i THEN b ELSE approvedHash[j]
      BY <1>1, <1>2
    <2>2. b # None BY NoneAssumption
    <2> QED BY <1>1, <2>1, <2>2 DEF ApprovedKeys, Key
  <1>8. UnderWay' BY <1>2, <1>7 DEF UnderWay
  <1>9. DeliveredIsTrue' BY <1>1, <1>2 DEF DeliveredIsTrue, Key, Contains
  <1> QED BY <1>3, <1>4, <1>5, <1>6, <1>7, <1>8, <1>9

\* What is dispatched is the key that was approved.
LEMMA DispatchedKey ==
  ASSUME ServiceInv, NEW i \in Ids, Dispatchable(i)
  PROVE  /\ [id |-> i, body |-> body[i]] = Key(i) /\ Key(i) \in Keys /\ Key(i) \in ApprovedKeys
         /\ approvedHash[i] \in Bodies /\ state[i] \in States
  <1>1. i <= count BY NoneAssumption, TablesAssumption
                      DEF ServiceInv, Blank, TypeOK, Dispatchable, States, Ids
  <1>2. approvedHash[i] \in Bodies /\ body[i] = approvedHash[i] /\ state[i] \in States
    BY <1>1, TablesAssumption DEF ServiceInv, Blank, TypeOK, Dispatchable, States, Ids
  <1> QED BY <1>2, NoneAssumption DEF Key, Keys, ApprovedKeys

LEMMA DispatchSentKeeps ==
  ASSUME ServiceInv, NEW i \in Ids, DispatchSent(i)
  PROVE  /\ ServiceInv' /\ ApprovedKeys' = ApprovedKeys /\ Key(i) \in ApprovedKeys
         /\ sent' = IF Contains(sent, Key(i)) THEN sent ELSE Append(sent, Key(i))
  <1> USE DEF ServiceInv
  <1>1. /\ Dispatchable(i) /\ state' = [state EXCEPT ![i] = "delivered"] /\ Entry("dispatch", i)
        /\ UNCHANGED <<count, lead, body, hash, version, approvedHash, expired, wanted, reading>>
        /\ Send([id |-> i, body |-> body[i]])
    BY DEF DispatchSent
  <1>2. /\ Key(i) \in Keys /\ Key(i) \in ApprovedKeys /\ Send(Key(i))
        /\ approvedHash[i] \in Bodies /\ state[i] \in States
    BY <1>1, DispatchedKey
  <1>3. /\ i \in 1 .. count /\ Blank' /\ Line' /\ state' \in [Ids -> States \cup {None}]
        /\ ApprovedKeys' = ApprovedKeys
    BY <1>1, <1>2, Moves DEF States
  <1>4. audit' \in Seq(Notes) /\ Logged' /\ AuditTells'
    BY <1>1, <1>3, ToldOf, OneEntry DEF Actions
  <1>5. sent' = (IF Contains(sent, Key(i)) THEN sent ELSE Append(sent, Key(i))) /\ maybe' = maybe
    BY <1>2 DEF Send
  <1>6. /\ sent' \in Seq(Keys) /\ Contains(sent', Key(i))
        /\ \A x : Contains(sent, x) => Contains(sent', x)
    BY <1>2, <1>5, Sends DEF TypeOK
  <1>7. TypeOK' BY <1>1, <1>3, <1>4, <1>5, <1>6 DEF TypeOK, Notes
  <1>8. UnderWay' BY <1>3, <1>5 DEF UnderWay
  <1>9. DeliveredIsTrue' BY <1>1, <1>6 DEF DeliveredIsTrue, Key, TypeOK
  <1> QED BY <1>2, <1>3, <1>4, <1>5, <1>7, <1>8, <1>9

LEMMA DispatchUnknownKeeps ==
  ASSUME ServiceInv, NEW i \in Ids, DispatchUnknown(i)
  PROVE  ServiceInv' /\ ApprovedKeys' = ApprovedKeys
  <1> USE DEF ServiceInv
  <1>1. /\ Dispatchable(i) /\ state' = [state EXCEPT ![i] = "delivery_unknown"]
        /\ Entry("delivery_unknown", i) /\ maybe' = maybe \cup {[id |-> i, body |-> body[i]]}
        /\ UNCHANGED <<count, lead, body, hash, version, approvedHash, expired, wanted, sent,
                       reading>>
    BY DEF DispatchUnknown
  <1>2. /\ Key(i) \in Keys /\ Key(i) \in ApprovedKeys /\ maybe' = maybe \cup {Key(i)}
        /\ approvedHash[i] \in Bodies /\ state[i] \in States
    BY <1>1, DispatchedKey
  <1>3. /\ i \in 1 .. count /\ Blank' /\ Line' /\ state' \in [Ids -> States \cup {None}]
        /\ ApprovedKeys' = ApprovedKeys
    BY <1>1, <1>2, Moves DEF States
  <1>4. audit' \in Seq(Notes) /\ Logged' /\ AuditTells'
    BY <1>1, <1>3, ToldOf, OneEntry DEF Actions
  <1>5. TypeOK' BY <1>1, <1>2, <1>3, <1>4 DEF TypeOK, Notes
  <1>6. UnderWay' BY <1>2, <1>3 DEF UnderWay
  <1>7. DeliveredIsTrue' BY <1>1 DEF DeliveredIsTrue, Key, TypeOK
  <1> QED BY <1>3, <1>4, <1>5, <1>6, <1>7

\* The key in the provider's hands decides what an unknown outcome was.
LEMMA ReconcileKeeps ==
  ASSUME ServiceInv, NEW i \in Ids, Reconcile(i)
  PROVE  ServiceInv' /\ ApprovedKeys' = ApprovedKeys
  <1> USE DEF ServiceInv
  <1>1. /\ state[i] = "delivery_unknown"
        /\ UNCHANGED <<count, lead, body, hash, version, approvedHash, expired, wanted, sent,
                       maybe, reading>>
    BY DEF Reconcile
  <1>2. state[i] \in States /\ approvedHash[i] \in Bodies
    BY <1>1, NoneAssumption, TablesAssumption DEF Blank, TypeOK, States, Ids
  <1>3. PICK s \in {"delivered", "approved"}, action \in Actions \ {"dispatch_suppressed"} :
          /\ state' = [state EXCEPT ![i] = s] /\ Entry(action, i) /\ Told(action) = s
          /\ s = "delivered" => Contains(sent, Key(i))
    BY ToldOf DEF Reconcile, Actions
  <1>4. /\ i \in 1 .. count /\ Blank' /\ Line' /\ state' \in [Ids -> States \cup {None}]
        /\ ApprovedKeys' = ApprovedKeys
    BY <1>1, <1>2, <1>3, Moves DEF States
  <1>5. audit' \in Seq(Notes) /\ Logged' /\ AuditTells' BY <1>1, <1>3, <1>4, OneEntry
  <1>6. TypeOK' BY <1>1, <1>4, <1>5 DEF TypeOK, Notes
  <1>7. UnderWay' BY <1>1, <1>4 DEF UnderWay
  <1>8. DeliveredIsTrue' BY <1>1, <1>3 DEF DeliveredIsTrue, Key, TypeOK
  <1> QED BY <1>4, <1>5, <1>6, <1>7, <1>8

\* A message that was under way arrives, if the provider does not have it yet.
LEMMA ArriveKeeps ==
  ASSUME ServiceInv, NEW k \in maybe, Arrive(k)
  PROVE  /\ ServiceInv' /\ ApprovedKeys' = ApprovedKeys /\ k \in ApprovedKeys
         /\ sent' = IF Contains(sent, k) THEN sent ELSE Append(sent, k)
  <1> USE DEF ServiceInv
  <1>1. /\ sent' = (IF Contains(sent, k) THEN sent ELSE Append(sent, k)) /\ maybe' = maybe \ {k}
        /\ UNCHANGED <<proposals, expired, wanted, audit, reading>>
    BY DEF Arrive
  <1>2. k \in ApprovedKeys /\ k \in Keys BY DEF UnderWay, TypeOK
  <1>3. sent' \in Seq(Keys) /\ \A x : Contains(sent, x) => Contains(sent', x)
    BY <1>1, <1>2, Sends DEF TypeOK
  <1>4. ApprovedKeys' = ApprovedKeys BY <1>1 DEF ApprovedKeys, Key, proposals
  <1>5. TypeOK' BY <1>1, <1>3 DEF TypeOK, proposals
  <1>6. Blank' /\ Line' /\ Logged' BY <1>1 DEF Blank, Line, Logged, proposals
  <1>7. AuditTells' BY <1>1 DEF AuditTells, proposals
  <1>8. UnderWay' BY <1>1, <1>4 DEF UnderWay
  <1>9. DeliveredIsTrue' BY <1>1, <1>3 DEF DeliveredIsTrue, Key, proposals
  <1> QED BY <1>1, <1>2, <1>4, <1>5, <1>6, <1>7, <1>8, <1>9

\* An edit behind the service changes no key: the approval names the content.
LEMMA EditKeeps ==
  ASSUME ServiceInv, NEW i \in Ids, NEW b \in Bodies, Edit(i, b)
  PROVE  ServiceInv' /\ ApprovedKeys' = ApprovedKeys
  <1> USE DEF ServiceInv
  <1>1. /\ body' = [body EXCEPT ![i] = b]
        /\ UNCHANGED <<count, lead, hash, state, version, approvedHash, expired, wanted, sent,
                       maybe, audit, reading>>
    BY DEF Edit
  <1>2. TypeOK' BY <1>1 DEF TypeOK
  <1>3. Blank' BY <1>1 DEF Blank, TypeOK
  <1>4. Line' /\ Logged' BY <1>1 DEF Line, Logged
  <1>5. UnderWay' /\ DeliveredIsTrue' /\ ApprovedKeys' = ApprovedKeys
    BY <1>1 DEF UnderWay, ApprovedKeys, Key, DeliveredIsTrue
  <1>6. AuditTells' BY <1>1 DEF AuditTells
  <1> QED BY <1>2, <1>3, <1>4, <1>5, <1>6

\* The entries of a proposal: the drafts it supersedes, each once, then the proposal.
LEMMA DraftEntries ==
  ASSUME ServiceInv, count < MaxProposals, NEW S \in SUBSET (1 .. count),
         Entries([k \in 1 .. Len(SetToSeq(S)) |-> <<"supersede_proposal", SetToSeq(S)[k]>>]
                 \o <<<<"propose_followup", count + 1>>>>),
         count' = count + 1,
         state' = [j \in Ids |-> IF j = count + 1 THEN "draft"
                                 ELSE IF j \in S THEN "superseded" ELSE state[j]]
  PROVE  audit' \in Seq(Notes) /\ Logged' /\ AuditTells'
  <1>2. IsFiniteSet(S)
    <2>1. count \in Int BY TablesAssumption DEF ServiceInv, TypeOK
    <2>2. IsFiniteSet(1 .. count) BY <2>1, FS_Interval
    <2> QED BY <2>2, FS_Subset
  <1> DEFINE old == SetToSeq(S)  N == Cardinality(S)  L == Len(audit)
             first == [k \in 1 .. Len(old) |-> <<"supersede_proposal", old[k]>>]
             last == <<<<"propose_followup", count + 1>>>>
             es == first \o last
  <1>1. /\ count \in 0 .. MaxProposals /\ MaxProposals \in Nat /\ L \in Nat
        /\ DOMAIN audit = 1 .. L /\ TypeOK /\ AuditTells /\ audit \in Seq(Notes)
        /\ \A n \in DOMAIN audit : audit[n].id <= count
    BY TablesAssumption, LenProperties DEF ServiceInv, TypeOK, Notes, Logged
  <1>3. /\ old \in [1 .. N -> S] /\ Len(old) = N /\ N \in Nat
        /\ \A j, k \in 1 .. N : old[j] = old[k] => j = k
        /\ \A x \in S : \E k \in 1 .. N : old[k] = x
    BY <1>2, Listed
  <1>4. /\ first \in Seq(Actions \X (0 .. MaxProposals)) /\ Len(first) = N
        /\ \A k \in 1 .. N : first[k] = <<"supersede_proposal", old[k]>>
    <2> HIDE DEF old, N
    <2>1. \A k \in 1 .. N : old[k] \in 0 .. MaxProposals
      <3>1. \A k \in 1 .. N : old[k] \in 1 .. count BY <1>3
      <3>2. 1 .. count \subseteq 0 .. MaxProposals BY <1>1
      <3> QED BY <3>1, <3>2
    <2>2. "supersede_proposal" \in Actions BY DEF Actions
    <2> DEFINE T == Actions \X (0 .. MaxProposals)
    <2>3. \A k \in 1 .. N : <<"supersede_proposal", old[k]>> \in T BY <2>1, <2>2
    <2> HIDE DEF T
    <2>4. first \in Seq(T) /\ Len(first) = N BY <1>3, <2>3
    <2>5. \A k \in 1 .. N : first[k] = <<"supersede_proposal", old[k]>> BY <1>3
    <2> QED BY <2>4, <2>5 DEF T
  <1>5. /\ last \in Seq(Actions \X (0 .. MaxProposals)) /\ Len(last) = 1
        /\ last[1] = <<"propose_followup", count + 1>>
    BY <1>1 DEF Actions
  <1> HIDE DEF first, last
  <1>6. /\ es \in Seq(Actions \X (0 .. MaxProposals)) /\ Len(es) = N + 1
        /\ \A k \in 1 .. N : es[k] = <<"supersede_proposal", old[k]>>
        /\ es[N + 1] = <<"propose_followup", count + 1>>
    <2> DEFINE T == Actions \X (0 .. MaxProposals)
    <2>0. first \in Seq(T) /\ last \in Seq(T) BY <1>4, <1>5
    <2> HIDE DEF old, N, T
    <2>1. /\ es \in Seq(T) /\ Len(es) = N + 1
          /\ \A k \in 1 .. N + 1 : es[k] = IF k <= N THEN first[k] ELSE last[k - N]
      <3>1. /\ es \in Seq(T) /\ Len(es) = Len(first) + Len(last)
            /\ \A k \in 1 .. Len(first) + Len(last) :
                 es[k] = IF k <= Len(first) THEN first[k] ELSE last[k - Len(first)]
        BY <2>0, ConcatProperties
      <3> HIDE DEF es
      <3> QED BY <1>4, <1>5, <3>1
    <2>2. N + 1 \in 1 .. N + 1 /\ ~(N + 1 <= N) /\ (N + 1) - N = 1 BY <1>3
    <2>3. \A k \in 1 .. N : k \in 1 .. N + 1 /\ k <= N BY <1>3
    <2> QED BY <1>4, <1>5, <2>1, <2>2, <2>3 DEF T
  <1>7. Entries(es) BY DEF first, last
  <1> HIDE DEF es, old, N, L
  <1>8. /\ audit' \in Seq(Notes) /\ Len(audit') = L + (N + 1)
        /\ \A n \in 1 .. L : audit'[n] = audit[n]
        /\ \A k \in 1 .. Len(es) :
             audit'[L + k] = [n |-> L + k, action |-> es[k][1], id |-> es[k][2]]
    BY <1>1, <1>6, <1>7, EntriesProperties DEF L
  <1>9. /\ \A k \in 1 .. N :
             audit'[L + k].action = "supersede_proposal" /\ audit'[L + k].id = old[k]
        /\ audit'[L + (N + 1)].action = "propose_followup" /\ audit'[L + (N + 1)].id = count + 1
    <2>1. \A k \in 1 .. N : k \in 1 .. Len(es) BY <1>3, <1>6
    <2>2. N + 1 \in 1 .. Len(es) BY <1>3, <1>6
    <2>3. ASSUME NEW k \in 1 .. N
          PROVE  audit'[L + k].action = "supersede_proposal" /\ audit'[L + k].id = old[k]
      <3>1. audit'[L + k] = [n |-> L + k, action |-> es[k][1], id |-> es[k][2]]
        BY <1>8, <2>1
      <3>2. es[k] = <<"supersede_proposal", old[k]>> BY <1>6
      <3> QED BY <3>1, <3>2
    <2>4. audit'[L + (N + 1)]
          = [n |-> L + (N + 1), action |-> es[N + 1][1], id |-> es[N + 1][2]]
      BY <1>8, <2>2
    <2> QED BY <1>6, <2>3, <2>4
  <1>10. \A n \in L + 1 .. Len(audit') : n - L \in 1 .. N + 1 /\ n = L + (n - L)
    BY <1>1, <1>3, <1>8
  <1>11. DOMAIN audit' = 1 .. Len(audit') BY <1>8, LenProperties
  <1>12. \A n \in L + 1 .. Len(audit') :
           \/ /\ n - L \in 1 .. N
              /\ audit'[n].action = "supersede_proposal" /\ audit'[n].id = old[n - L]
           \/ n = L + (N + 1)
    <2> SUFFICES ASSUME NEW n \in L + 1 .. Len(audit')
                 PROVE  \/ /\ n - L \in 1 .. N
                           /\ audit'[n].action = "supersede_proposal" /\ audit'[n].id = old[n - L]
                        \/ n = L + (N + 1)
      OBVIOUS
    <2>1. n - L \in 1 .. N + 1 /\ n = L + (n - L) BY <1>10
    <2>2. CASE n - L \in 1 .. N BY <1>9, <2>1, <2>2
    <2>3. CASE n - L \notin 1 .. N BY <1>3, <2>1, <2>3
    <2> QED BY <2>2, <2>3
  <1>13. Logged'
    <2> SUFFICES ASSUME NEW n \in 1 .. Len(audit') PROVE audit'[n].id <= count + 1
      BY <1>11 DEF Logged
    <2>1. CASE n \in 1 .. L
      <3>1. audit'[n] = audit[n] /\ audit[n] \in Notes BY <1>1, <1>8, <2>1, ElementOfSeq DEF L
      <3>2. audit[n].id \in Nat /\ audit[n].id <= count BY <1>1, <2>1, <3>1 DEF L, Notes
      <3> QED BY <1>1, <3>1, <3>2
    <2>2. CASE n \notin 1 .. L
      <3>1. n \in L + 1 .. Len(audit') BY <1>1, <1>8, <2>2
      <3>2. CASE n = L + (N + 1) BY <1>1, <1>9, <3>2
      <3>3. CASE n # L + (N + 1)
        <4>1. n - L \in 1 .. N /\ audit'[n].id = old[n - L] BY <1>12, <3>1, <3>3
        <4>2. old[n - L] \in 1 .. count BY <1>3, <4>1
        <4> QED BY <1>1, <4>1, <4>2
      <3> QED BY <3>2, <3>3
    <2> QED BY <2>1, <2>2
  <1>14. ASSUME NEW j \in 1 .. count'
         PROVE  \/ /\ j <= count /\ state'[j] = state[j]
                   /\ \A n \in L + 1 .. Len(audit') : ~Tells(audit'[n], j)
                \/ \E n \in L + 1 .. Len(audit') :
                     /\ Tells(audit'[n], j) /\ Told(audit'[n].action) = state'[j]
                     /\ \A m \in n + 1 .. Len(audit') : ~Tells(audit'[m], j)
    <2>1. j \in Ids /\ state'[j] = (IF j = count + 1 THEN "draft"
                                    ELSE IF j \in S THEN "superseded" ELSE state[j])
      BY <1>1 DEF Ids
    <2>2. CASE j = count + 1
      <3>1. L + (N + 1) \in L + 1 .. Len(audit') BY <1>1, <1>3, <1>8
      <3>2. \A m \in L + (N + 1) + 1 .. Len(audit') : FALSE BY <1>1, <1>3, <1>8
      <3>3. Tells(audit'[L + (N + 1)], j) BY <1>9, <2>2 DEF Tells
      <3>4. Told(audit'[L + (N + 1)].action) = state'[j] BY <1>9, <2>1, <2>2, ToldOf
      <3> QED BY <3>1, <3>2, <3>3, <3>4
    <2>3. CASE j # count + 1 /\ j \in S
      <3>1. PICK k \in 1 .. N : old[k] = j BY <1>3, <2>3
      <3>2. L + k \in L + 1 .. Len(audit') BY <1>1, <1>3, <1>8
      <3>3. Tells(audit'[L + k], j) BY <1>9, <3>1 DEF Tells
      <3>4. Told(audit'[L + k].action) = state'[j] BY <1>9, <2>1, <2>3, ToldOf
      <3>5. ASSUME NEW m \in L + k + 1 .. Len(audit') PROVE ~Tells(audit'[m], j)
        <4>1. m \in L + 1 .. Len(audit') /\ (m - L \in 1 .. N => m - L # k)
          BY <1>1, <1>3, <1>8
        <4>2. CASE m = L + (N + 1) BY <1>9, <2>3, <4>2 DEF Tells
        <4>3. CASE m # L + (N + 1)
          <5>1. m - L \in 1 .. N /\ audit'[m].id = old[m - L] BY <1>12, <4>1, <4>3
          <5>2. old[m - L] # j BY <1>3, <3>1, <4>1, <5>1
          <5> QED BY <5>1, <5>2 DEF Tells
        <4> QED BY <4>2, <4>3
      <3> QED BY <3>2, <3>3, <3>4, <3>5
    <2>4. CASE j # count + 1 /\ j \notin S
      <3>1. ASSUME NEW n \in L + 1 .. Len(audit') PROVE ~Tells(audit'[n], j)
        <4>1. CASE n = L + (N + 1) BY <1>9, <2>4, <4>1 DEF Tells
        <4>2. CASE n # L + (N + 1) BY <1>3, <1>12, <2>4, <4>2 DEF Tells
        <4> QED BY <4>1, <4>2
      <3> QED BY <1>1, <2>1, <2>4, <3>1
    <2> QED BY <2>2, <2>3, <2>4
  <1>15. AuditTells'
    <2>1. L <= Len(audit') /\ count' \in Nat BY <1>1, <1>3, <1>8
    <2> QED BY <1>1, <1>8, <1>14, <2>1, LogGoesOn DEF L
  <1> QED BY <1>8, <1>13, <1>15

\* A new draft takes the next version of its lead and leaves no other draft there.
LEMMA DraftKeeps ==
  ASSUME ServiceInv, NEW w \in Writers, Draft(w)
  PROVE  ServiceInv' /\ ApprovedKeys' = ApprovedKeys
  <1> USE DEF ServiceInv
  <1> DEFINE l == wanted[w].lead  i == count + 1
             line == {j \in 1 .. count : lead[j] = l}
  <1>1. /\ count \in 0 .. MaxProposals /\ MaxProposals \in Nat /\ i \in Ids
        /\ \A j \in 1 .. i : j \in Ids
    BY TablesAssumption DEF Draft, TypeOK, Ids
  <1>2. l \in Leads /\ wanted[w].body \in Bodies BY DEF Draft, TypeOK, Wishes
  <1>3. /\ count < MaxProposals /\ count' = i
        /\ state' = [j \in Ids |-> IF j = i THEN "draft"
                                   ELSE IF j \in Superseded(l) THEN "superseded" ELSE state[j]]
        /\ lead' = [lead EXCEPT ![i] = l] /\ body' = [body EXCEPT ![i] = wanted[w].body]
        /\ hash' = [hash EXCEPT ![i] = wanted[w].body]
        /\ version' = [version EXCEPT ![i] = NextVersion(l)]
        /\ wanted' = [wanted EXCEPT ![w] = None]
        /\ UNCHANGED <<approvedHash, expired, sent, maybe, reading>>
    BY DEF Draft
  <1>4. audit' \in Seq(Notes) /\ Logged' /\ AuditTells'
    <2>1. Superseded(l) \in SUBSET (1 .. count) BY DEF Superseded, Drafts
    <2> QED BY <1>3, <2>1, DraftEntries DEF Draft
  <1>5. /\ IsFiniteSet(line) /\ Cardinality(line) \in 0 .. count
        /\ NextVersion(l) = 1 + Cardinality(line)
    <2>1. IsFiniteSet(1 .. count) /\ Cardinality(1 .. count) = count BY <1>1, FS_Interval
    <2>2. IsFiniteSet(line) /\ Cardinality(line) <= count BY <2>1, FS_Subset
    <2> QED BY <1>1, <2>2, FS_CardinalityType DEF NextVersion
  <1> HIDE DEF l
  <1>6. /\ lead \in [Ids -> Leads \cup {None}] /\ body \in [Ids -> Bodies \cup {None}]
        /\ hash \in [Ids -> Bodies \cup {None}] /\ state \in [Ids -> States \cup {None}]
        /\ version \in [Ids -> 0 .. MaxProposals]
    BY DEF TypeOK
  <1>7. lead'[i] = l /\ \A j \in 1 .. count : lead'[j] = lead[j] BY <1>1, <1>3, <1>6
  <1>8. Cardinality({j \in 1 .. i : lead'[j] = l}) = NextVersion(l)
    <2>1. {j \in 1 .. i : lead'[j] = l} = line \cup {i} BY <1>1, <1>7
    <2>2. i \notin line BY <1>1
    <2>3. Cardinality(line \cup {i}) = Cardinality(line) + 1
      <3> HIDE DEF i, line
      <3> QED BY <1>5, <2>2, FS_AddElement
    <2> HIDE DEF i, line
    <2> QED BY <1>1, <1>5, <2>1, <2>3
  <1>9. TypeOK'
    <2>1. NextVersion(l) \in 0 .. MaxProposals BY <1>1, <1>3, <1>5
    <2>2. expired' \in 0 .. count' BY <1>1, <1>3 DEF TypeOK
    <2>3. wanted' \in [Writers -> Wishes \cup {None}] BY <1>3 DEF TypeOK
    <2>4. state' \in [Ids -> States \cup {None}] BY <1>3, <1>6 DEF States
    <2>5. /\ lead' \in [Ids -> Leads \cup {None}] /\ body' \in [Ids -> Bodies \cup {None}]
          /\ hash' \in [Ids -> Bodies \cup {None}] /\ version' \in [Ids -> 0 .. MaxProposals]
      BY <1>2, <1>3, <1>6, <2>1
    <2>6. count' \in 0 .. MaxProposals BY <1>1, <1>3
    <2> QED BY <1>3, <1>4, <2>2, <2>3, <2>4, <2>5, <2>6 DEF TypeOK, Notes
  <1>10. Blank'
    <2> SUFFICES ASSUME NEW k \in Ids
                 PROVE  IF k > i
                          THEN state'[k] = None /\ approvedHash[k] = None
                          ELSE /\ lead'[k] \in Leads /\ body'[k] \in Bodies
                               /\ hash'[k] \in Bodies /\ state'[k] \in States
                               /\ state'[k] = "draft" => approvedHash[k] = None
                               /\ state'[k] \in {"approved", "delivered", "delivery_unknown"}
                                  => approvedHash[k] \in Bodies
      BY <1>3 DEF Blank
    <2>1. CASE k > i
      <3>1. k > count /\ k # i /\ k \notin Superseded(l) BY <1>1, <2>1 DEF Ids, Superseded, Drafts
      <3> QED BY <1>3, <2>1, <3>1 DEF Blank
    <2>2. CASE k = i
      <3>1. approvedHash[k] = None /\ ~(k > i) BY <1>1, <2>2 DEF Blank, Ids
      <3>2. lead'[k] = l /\ body'[k] = wanted[w].body /\ hash'[k] = wanted[w].body
            /\ state'[k] = "draft"
        BY <1>3, <1>6, <2>2
      <3> QED BY <1>2, <3>1, <3>2 DEF States, l
    <2>3. CASE ~(k > i) /\ k # i
      <3>1. ~(k > count) BY <1>1, <2>3 DEF Ids
      <3>2. /\ lead'[k] = lead[k] /\ body'[k] = body[k] /\ hash'[k] = hash[k]
            /\ state'[k] = IF k \in Superseded(l) THEN "superseded" ELSE state[k]
        BY <1>3, <1>6, <2>3
      <3> QED BY <2>3, <3>1, <3>2 DEF Blank, States
    <2> QED BY <2>1, <2>2, <2>3
  <1>11. Line'
    <2> SUFFICES ASSUME NEW k \in 1 .. i
                 PROVE  /\ version'[k] = Cardinality({j \in 1 .. k : lead'[j] = lead'[k]})
                        /\ \A j \in 1 .. i : lead'[k] = lead'[j] /\ state'[k] = "draft"
                                             /\ state'[j] = "draft" => k = j
      BY <1>3 DEF Line
    <2>1. version'[k] = Cardinality({j \in 1 .. k : lead'[j] = lead'[k]})
      <3>1. CASE k = i
        <4>1. version'[k] = NextVersion(l) BY <1>1, <1>3, <1>6, <3>1
        <4> QED BY <1>7, <1>8, <3>1, <4>1
      <3>2. CASE k # i
        <4>1. k \in 1 .. count /\ version'[k] = version[k] BY <1>1, <1>3, <1>6, <3>2
        <4>2. {j \in 1 .. k : lead'[j] = lead'[k]} = {j \in 1 .. k : lead[j] = lead[k]}
          BY <1>1, <1>7, <4>1
        <4> QED BY <4>1, <4>2 DEF Line
      <3> QED BY <3>1, <3>2
    <2>2. \A j \in 1 .. i : state'[j] = "draft" /\ lead'[j] = l => j = i
      BY <1>1, <1>3, <1>7 DEF Superseded, Drafts
    <2>3. \A j \in 1 .. i : state'[j] = "draft" /\ j # i => j \in 1 .. count /\ state[j] = "draft"
      BY <1>1, <1>3
    <2> QED BY <1>1, <1>7, <2>1, <2>2, <2>3 DEF Line
  <1>12. ApprovedKeys' = ApprovedKeys BY <1>3 DEF ApprovedKeys, Key
  <1>13. UnderWay' BY <1>3, <1>12 DEF UnderWay
  <1>14. DeliveredIsTrue'
    <2>1. \A k \in Ids : state'[k] = "delivered" => state[k] = "delivered" BY <1>3
    <2> QED BY <1>3, <2>1 DEF DeliveredIsTrue, Key
  <1> QED BY <1>4, <1>9, <1>10, <1>11, <1>12, <1>13, <1>14

-----------------------------------------------------------------------------
(* The follow-up service *)

LEMMA InitServiceInv == Init => ServiceInv
  <1> SUFFICES ASSUME Init PROVE ServiceInv
    OBVIOUS
  <1>1. count = 0 /\ Ids = 1 .. MaxProposals /\ MaxProposals \in Nat /\ MaxAudit \in Nat
    BY TablesAssumption DEF Init, Ids
  <1>2. TypeOK BY <1>1 DEF Init, TypeOK
  <1>3. Blank BY <1>1 DEF Init, Blank
  <1>4. Line /\ UnderWay /\ Logged BY <1>1 DEF Init, Line, UnderWay, Logged
  <1>5. DeliveredIsTrue BY NoneAssumption DEF Init, DeliveredIsTrue, States
  <1>6. AuditTells BY <1>1 DEF AuditTells
  <1> QED BY <1>2, <1>3, <1>4, <1>5, <1>6 DEF ServiceInv

\* Every step keeps the invariant and is one of the outbox, or none.
LEMMA ServiceStep ==
  ASSUME ServiceInv, [Next]_vars
  PROVE  ServiceInv' /\ [Outbox!Next]_<<ApprovedKeys, sent>>
  <1> DEFINE Goal == ServiceInv' /\ [Outbox!Next]_<<ApprovedKeys, sent>>
  <1>1. CASE UNCHANGED vars
    <2>1. UNCHANGED <<proposals, expired, wanted, sent, maybe, audit, reading>>
      BY <1>1 DEF vars
    <2>2. ServiceInv' BY <2>1, Elsewhere DEF ServiceInv, TypeOK, proposals
    <2>3. ApprovedKeys' = ApprovedKeys BY <2>1 DEF ApprovedKeys, Key, proposals
    <2> QED BY <2>1, <2>2, <2>3
  <1>2. ASSUME NEW w \in Writers, Check(w) PROVE Goal
    BY <1>2, CheckKeeps DEF Check, ApprovedKeys, Key, proposals
  <1>3. ASSUME NEW w \in Writers, Draft(w) PROVE Goal BY <1>3, DraftKeeps DEF Draft
  <1>4. ASSUME NEW i \in Ids, NEW a \in Actors, NEW b \in Bodies, Approve(a, i, b) PROVE Goal
    <2>1. ServiceInv' /\ ApprovedKeys' = ApprovedKeys \cup {[id |-> i, body |-> b]}
      BY <1>4, ApproveKeeps
    <2>2. [id |-> i, body |-> b] \in Keys /\ sent' = sent BY <1>4 DEF Keys, Approve
    <2>3. Outbox!Approve BY <2>1, <2>2 DEF Outbox!Approve
    <2> QED BY <2>1, <2>3 DEF Outbox!Next
  <1>5. ASSUME NEW k \in ApprovedKeys, ServiceInv', ApprovedKeys' = ApprovedKeys,
               sent' = IF Contains(sent, k) THEN sent ELSE Append(sent, k)
        PROVE  Goal
    <2>1. CASE Contains(sent, k) BY <1>5, <2>1
    <2>2. CASE ~Contains(sent, k)
      <3>1. Outbox!Deliver BY <1>5, <2>2 DEF Outbox!Deliver, Outbox!Contains, Contains
      <3> QED BY <1>5, <3>1 DEF Outbox!Next
    <2> QED BY <2>1, <2>2
  <1>6. ASSUME NEW i \in Ids, DispatchSent(i) PROVE Goal BY <1>5, <1>6, DispatchSentKeeps
  <1>7. ASSUME NEW i \in Ids, DispatchUnknown(i) PROVE Goal
    BY <1>7, DispatchUnknownKeeps DEF DispatchUnknown
  <1>8. ASSUME NEW i \in Ids, DispatchAgain(i) PROVE Goal
    BY <1>8, DispatchAgainKeeps DEF DispatchAgain, ApprovedKeys, Key, proposals
  <1>9. ASSUME NEW i \in Ids, Reconcile(i) PROVE Goal BY <1>9, ReconcileKeeps DEF Reconcile
  <1>10. ASSUME NEW i \in Ids, NEW b \in Bodies, Edit(i, b) PROVE Goal
    BY <1>10, EditKeeps DEF Edit
  <1>11. ASSUME NEW r \in Readers, Number(r) PROVE Goal
    BY <1>11, NumberKeeps DEF Number, ApprovedKeys, Key, proposals
  <1>12. ASSUME NEW r \in Readers, Log(r) PROVE Goal
    BY <1>12, LogKeeps DEF Log, ApprovedKeys, Key, proposals
  <1>13. CASE Expire BY <1>13, ExpireKeeps DEF Expire, ApprovedKeys, Key, proposals
  <1>14. ASSUME NEW k \in maybe, Arrive(k) PROVE Goal BY <1>5, <1>14, ArriveKeeps
  <1> QED
    BY <1>1, <1>2, <1>3, <1>4, <1>6, <1>7, <1>8, <1>9, <1>10, <1>11, <1>12, <1>13, <1>14
       DEF Next

\* What is known of the proposals, the keys and the log of the follow-up service holds
\* in every state, whatever its threads, its readers and the provider do.
THEOREM ServiceInvariance == Spec => []ServiceInv
  <1>1. ServiceInv /\ [Next]_vars => ServiceInv' BY ServiceStep
  <1> QED BY InitServiceInv, <1>1, PTL DEF Spec

\* The service keeps its types: it never numbers a version past its proposals.
THEOREM ServiceTypeOK == Spec => []TypeOK
  <1>1. ServiceInv => TypeOK BY DEF ServiceInv
  <1> QED BY ServiceInvariance, <1>1, PTL

\* The invariant gives one line of versions per lead.
LEMMA LineIsOne == ServiceInv => OneLineage
  <1> SUFFICES ASSUME ServiceInv PROVE OneDraft /\ VersionsCount
    BY DEF OneLineage
  <1>1. count \in Nat /\ Line BY TablesAssumption DEF ServiceInv, TypeOK
  <1>2. ASSUME NEW l \in Leads PROVE Cardinality(Drafts(l)) <= 1
    <2>1. CASE Drafts(l) = {} BY <2>1, FS_EmptySet
    <2>2. CASE Drafts(l) # {}
      <3>1. PICK x : x \in Drafts(l) BY <2>2
      <3>2. Drafts(l) = {x} BY <1>1, <3>1 DEF Drafts, Line
      <3>3. Cardinality(Drafts(l)) = 1 BY <3>2, FS_Singleton
      <3> QED BY <3>3
    <2> QED BY <2>1, <2>2
  <1>3. ASSUME NEW i \in 1 .. count, NEW j \in 1 .. count, i < j, lead[i] = lead[j]
        PROVE  version[i] < version[j]
    <2> DEFINE upto == {k \in 1 .. i : lead[k] = lead[i]}
               all  == {k \in 1 .. j : lead[k] = lead[j]}
    <2>1. version[i] = Cardinality(upto) /\ version[j] = Cardinality(all) BY <1>1 DEF Line
    <2>2. j \notin upto /\ j \in all /\ upto \cup {j} \subseteq all BY <1>1, <1>3
    <2>3. IsFiniteSet(1 .. j) BY <1>1, FS_Interval
    <2>4. IsFiniteSet(all) BY <2>3, FS_Subset
    <2>5. IsFiniteSet(upto) BY <2>2, <2>4, FS_Subset
    <2> HIDE DEF upto, all
    <2>6. Cardinality(upto \cup {j}) = Cardinality(upto) + 1 BY <2>2, <2>5, FS_AddElement
    <2>7. Cardinality(upto \cup {j}) <= Cardinality(all) BY <2>2, <2>4, FS_Subset
    <2>8. Cardinality(upto) \in Nat /\ Cardinality(all) \in Nat
      BY <2>4, <2>5, FS_CardinalityType
    <2> QED BY <2>1, <2>6, <2>7, <2>8
  <1> QED BY <1>2, <1>3 DEF OneDraft, VersionsCount

\* Two proposers at once never leave two drafts of one lead, and every revision has a
\* version of its own, though leads are checked before the lock is taken.
THEOREM ServiceOneLineage == Spec => []OneLineage
  BY ServiceInvariance, LineIsOne, PTL

\* delivered is never a guess, and the audit log alone tells the state of every proposal,
\* though readers write to it without the lock.
THEOREM ServiceStatesTold == Spec => []StatesTold
  <1>1. ServiceInv => StatesTold BY DEF ServiceInv, StatesTold
  <1> QED BY ServiceInvariance, <1>1, PTL

\* The service implements the outbox: a message goes out only as it was approved, and
\* only once, whatever is reconciled, retried, edited or late.
THEOREM ServiceOutbox == Spec => OutboxSpec
  <1>1. Init => Outbox!Init
    BY DEF Init, Outbox!Init, ApprovedKeys
  <1>2. ServiceInv /\ [Next]_vars => [Outbox!Next]_<<ApprovedKeys, sent>> BY ServiceStep
  <1> QED BY ServiceInvariance, <1>1, <1>2, PTL DEF Spec, OutboxSpec, Outbox!Spec

-----------------------------------------------------------------------------
(* The human review *)

Answers == {"canonical", "other"}

\* The cases whose sealed reviews are events and were asked for in any case.
Signs ==
  {c \in ReviewCases : \/ sealed[<<c, "primary">>] = "other"
                       \/ /\ c \in Fixed /\ sealed[<<c, "primary">>] \in Answers
                          /\ sealed[<<c, "secondary">>] = "other"}

TwoSigns == \E c, e \in Signs : c # e

\* Only who was asked has sealed, and what is asked beyond the plan has a reason
\* in what is sealed.
Reasons ==
  /\ \A s \in Rev!Slots : sealed[s] # "none" => s \in exported
  /\ \A c \in ReviewCases :
       /\ <<c, "secondary">> \in exported
          => c \in Fixed \/ sealed[<<c, "primary">>] = "other" \/ TwoSigns
       /\ <<c, "adjudicator">> \in exported
          => /\ sealed[<<c, "primary">>] \in Answers /\ sealed[<<c, "secondary">>] \in Answers
             /\ "other" \in {sealed[<<c, "primary">>], sealed[<<c, "secondary">>]}
  /\ pilot = "expanded" => TwoSigns

\* Receipts, and what an intake goes by, are what is sealed; behind its receipts
\* an intake has them all.
Taken ==
  /\ \A s \in Rev!Slots : receipts[s] \in Answers => sealed[s] = receipts[s]
  /\ \A d \in Desks :
       /\ desk[d].at = "receipts" => desk[d].todo # {}
       /\ desk[d].at = "ledger" => desk[d].todo = {}
       /\ \A s \in Rev!Slots :
            /\ desk[d].merged[s] # "none"
               => /\ sealed[s] = desk[d].merged[s]
                  /\ s \in desk[d].todo \/ receipts[s] = desk[d].merged[s]
            /\ s \in desk[d].todo => desk[d].merged[s] # "none"

\* A published verdict is one, and is about receipts.
Published ==
  ledger.at # "none" =>
    /\ Rev!Verdict(ledger.of) # "pending"
    /\ \A s \in Rev!Slots : ledger.of[s] # "none" => receipts[s] = ledger.of[s]

ReviewInv == Rev!TypeOK /\ Reasons /\ Taken /\ Published

\* The slots of a case.
LEMMA SlotsOf ==
  ASSUME NEW c \in ReviewCases
  PROVE  <<c, "primary">> \in Rev!Slots /\ <<c, "secondary">> \in Rev!Slots
         /\ <<c, "adjudicator">> \in Rev!Slots
  BY DEF Rev!Slots, Rev!Roles

\* What a status tells.
LEMMA StatusTells ==
  ASSUME NEW j \in Rev!Judgments, NEW c \in ReviewCases
  PROVE  /\ Rev!Status(j, c) \in Rev!Resolved
            => /\ j[<<c, "primary">>] # "none"
               /\ j[<<c, "secondary">>] = "none" => ~Rev!Required(j, c)
               /\ j[<<c, "secondary">>] # "none" /\ ~Rev!Agreed(j, c)
                  => j[<<c, "adjudicator">>] # "none"
         /\ Rev!Status(j, c) = "disputed"
            => /\ j[<<c, "primary">>] # "none" /\ j[<<c, "secondary">>] # "none"
               /\ ~Rev!Agreed(j, c)
         /\ Rev!Status(j, c) = "rejected"
            <=> /\ j[<<c, "primary">>] # "none" /\ j[<<c, "secondary">>] # "none"
                /\ ~Rev!Agreed(j, c) /\ j[<<c, "adjudicator">>] = "other"
  <1>1. /\ j[<<c, "primary">>] \in {"none", "canonical", "other"}
        /\ j[<<c, "secondary">>] \in {"none", "canonical", "other"}
        /\ j[<<c, "adjudicator">>] \in {"none", "canonical", "other"}
    BY SlotsOf DEF Rev!Judgments
  <1>2. Rev!Agreed(j, c)
          <=> j[<<c, "primary">>] = "canonical" /\ j[<<c, "secondary">>] = "canonical"
    BY DEF Rev!Agreed
  <1>3. CASE j[<<c, "primary">>] = "none"
    <2>1. Rev!Status(j, c) = "pending" BY <1>2, <1>3, Zenon DEF Rev!Status
    <2> QED BY <1>3, <2>1 DEF Rev!Resolved
  <1>4. CASE j[<<c, "primary">>] # "none" /\ j[<<c, "secondary">>] = "none"
    <2>1. Rev!Status(j, c) = IF Rev!Required(j, c) THEN "in_review" ELSE "accepted_single"
      BY <1>2, <1>4, Zenon DEF Rev!Status
    <2> QED BY <1>4, <2>1 DEF Rev!Resolved
  <1>5. CASE Rev!Agreed(j, c)
    <2>1. Rev!Status(j, c) = "agreed" BY <1>2, <1>5, Zenon DEF Rev!Status
    <2> QED BY <1>2, <1>5, <2>1 DEF Rev!Resolved
  <1>6. CASE j[<<c, "primary">>] # "none" /\ j[<<c, "secondary">>] # "none" /\ ~Rev!Agreed(j, c)
    <2>1. Rev!Status(j, c) = CASE j[<<c, "adjudicator">>] = "none"      -> "disputed"
                               [] j[<<c, "adjudicator">>] = "canonical" -> "adjudicated"
                               [] j[<<c, "adjudicator">>] = "other"     -> "rejected"
      BY <1>6, Zenon DEF Rev!Status
    <2>2. CASE j[<<c, "adjudicator">>] = "none"
      <3>1. Rev!Status(j, c) = "disputed" BY <2>1, <2>2, Zenon
      <3> QED BY <1>6, <2>2, <3>1 DEF Rev!Resolved
    <2>3. CASE j[<<c, "adjudicator">>] = "canonical"
      <3>1. Rev!Status(j, c) = "adjudicated" BY <2>1, <2>3, Zenon
      <3> QED BY <1>6, <2>3, <3>1 DEF Rev!Resolved
    <2>4. CASE j[<<c, "adjudicator">>] = "other"
      <3>1. Rev!Status(j, c) = "rejected" BY <2>1, <2>4, Zenon
      <3> QED BY <1>6, <2>4, <3>1 DEF Rev!Resolved
    <2> QED BY <1>1, <2>2, <2>3, <2>4
  <1> QED BY <1>2, <1>3, <1>4, <1>5, <1>6

\* Judgments that are sealed: their events are signs, unless two signs are there anyway.
LEMMA EventsAreSigns ==
  ASSUME ReviewInv, NEW j \in Rev!Judgments,
         \A s \in Rev!Slots : j[s] # "none" => sealed[s] = j[s],
         Rev!Expanded(j)
  PROVE  TwoSigns
  <1>1. PICK p, q \in ReviewCases : p # q /\ Rev!Event(j, p) /\ Rev!Event(j, q)
    BY DEF Rev!Expanded
  <1>2. ASSUME NEW c \in ReviewCases, Rev!Event(j, c) PROVE c \in Signs \/ TwoSigns
    <2>1. /\ j[<<c, "primary">>] \in Answers /\ sealed[<<c, "primary">>] = j[<<c, "primary">>]
          /\ j[<<c, "primary">>] = "other" \/ j[<<c, "secondary">>] = "other"
      BY <1>2, SlotsOf DEF Rev!Event, Rev!Judgments, Answers
    <2>2. CASE j[<<c, "primary">>] = "other" BY <2>1, <2>2 DEF Signs
    <2>3. CASE j[<<c, "secondary">>] = "other"
      <3>1. sealed[<<c, "secondary">>] = "other" BY <2>3, SlotsOf
      <3>2. c \in Fixed \/ sealed[<<c, "primary">>] = "other" \/ TwoSigns
        BY <3>1, SlotsOf DEF ReviewInv, Reasons
      <3> QED BY <2>1, <3>1, <3>2 DEF Signs
    <2> QED BY <2>1, <2>2, <2>3
  <1> QED BY <1>1, <1>2 DEF TwoSigns

\* A complete ledger has every judgment that is sealed.
LEMMA CompleteIsAll ==
  ASSUME ReviewInv, ledger.at # "none", Rev!Verdict(ledger.of) = "complete"
  PROVE  /\ \A s \in Rev!Slots : sealed[s] \in Answers => ledger.of[s] = sealed[s]
         /\ Rev!Expanded(ledger.of) => \A c \in ReviewCases : ledger.of[<<c, "secondary">>] # "none"
  <1> DEFINE j == ledger.of
  <1>1. j \in Rev!Judgments BY DEF ReviewInv, Rev!TypeOK
  <1>2. \A c \in ReviewCases : Rev!Status(j, c) \in Rev!Resolved BY DEF Rev!Verdict
  <1>3. ASSUME NEW s \in Rev!Slots, j[s] # "none" PROVE sealed[s] = j[s]
    BY <1>1, <1>3 DEF ReviewInv, Published, Taken, Rev!Judgments, Answers
  <1>4. ASSUME NEW c \in ReviewCases
        PROVE  /\ j[<<c, "primary">>] # "none" /\ sealed[<<c, "primary">>] = j[<<c, "primary">>]
               /\ j[<<c, "secondary">>] = "none" => ~Rev!Required(j, c)
               /\ j[<<c, "secondary">>] # "none"
                  => sealed[<<c, "secondary">>] = j[<<c, "secondary">>]
               /\ j[<<c, "secondary">>] # "none" /\ ~Rev!Agreed(j, c)
                  => j[<<c, "adjudicator">>] # "none"
    BY <1>1, <1>2, <1>3, SlotsOf, StatusTells
  <1>5. ASSUME TwoSigns PROVE Rev!Expanded(j)
    <2>1. ASSUME NEW c \in Signs PROVE c \in ReviewCases /\ Rev!Event(j, c)
      <3>1. CASE sealed[<<c, "primary">>] = "other" BY <1>4, <2>1, <3>1 DEF Signs, Rev!Event
      <3>2. CASE c \in Fixed /\ sealed[<<c, "secondary">>] = "other"
        BY <1>4, <2>1, <3>2 DEF Signs, Rev!Event, Rev!Required
      <3> QED BY <2>1, <3>1, <3>2 DEF Signs
    <2> QED BY <1>5, <2>1 DEF TwoSigns, Rev!Expanded
  <1>6. ASSUME NEW c \in ReviewCases, sealed[<<c, "secondary">>] \in Answers
        PROVE  j[<<c, "secondary">>] # "none"
    <2>1. c \in Fixed \/ sealed[<<c, "primary">>] = "other" \/ TwoSigns
      BY <1>6, SlotsOf DEF ReviewInv, Reasons, Answers
    <2> QED BY <1>4, <1>5, <2>1 DEF Rev!Required
  <1>7. ASSUME NEW c \in ReviewCases, sealed[<<c, "adjudicator">>] \in Answers
        PROVE  j[<<c, "adjudicator">>] # "none"
    <2>1. /\ sealed[<<c, "secondary">>] \in Answers
          /\ "other" \in {sealed[<<c, "primary">>], sealed[<<c, "secondary">>]}
      BY <1>7, SlotsOf DEF ReviewInv, Reasons, Answers
    <2> QED BY <1>4, <1>6, <2>1 DEF Rev!Agreed
  <1>8. ASSUME NEW s \in Rev!Slots, sealed[s] \in Answers PROVE j[s] = sealed[s]
    <2>1. PICK c \in ReviewCases :
            s \in {<<c, "primary">>, <<c, "secondary">>, <<c, "adjudicator">>}
      BY DEF Rev!Slots, Rev!Roles
    <2> QED BY <1>3, <1>4, <1>6, <1>7, <1>8, <2>1
  <1>9. ASSUME Rev!Expanded(j), NEW c \in ReviewCases PROVE j[<<c, "secondary">>] # "none"
    BY <1>4, <1>9 DEF Rev!Required
  <1> QED BY <1>8, <1>9

\* What is sealed stays sealed, and so do the signs.
Grows == \A s \in Rev!Slots : sealed[s] \in Answers => sealed'[s] = sealed[s]

LEMMA SignsStay == ASSUME Grows PROVE TwoSigns => TwoSigns'
  <1>1. Signs \subseteq Signs' BY SlotsOf DEF Grows, Signs, Answers
  <1> QED BY <1>1 DEF TwoSigns

LEMMA ReasonsStay ==
  ASSUME ReviewInv, Grows, UNCHANGED <<exported, pilot>>,
         \A s \in Rev!Slots : sealed'[s] # "none" => s \in exported
  PROVE  Reasons'
  BY SignsStay, SlotsOf DEF ReviewInv, Reasons, Grows, Answers

\* The judgments that are read of submissions are those that are sealed.
LEMMA ReadSealed ==
  ASSUME ReviewInv, NEW cases \in SUBSET ReviewCases, Rev!Valid(sealed, cases)
  PROVE  /\ Rev!Of(sealed, cases) \in Rev!Judgments
         /\ \A s \in Rev!Slots :
              Rev!Of(sealed, cases)[s] # "none" => sealed[s] = Rev!Of(sealed, cases)[s]
  BY DEF ReviewInv, Rev!TypeOK, Rev!Valid, Rev!Of, Rev!Judgments

\* An export asks for what the plan has or what is sealed gives reason to.
LEMMA AskKeeps ==
  ASSUME ReviewInv, NEW slots \in SUBSET Rev!Slots, Rev!Ask(slots),
         \A c \in ReviewCases :
           /\ <<c, "secondary">> \in slots
              => c \in Fixed \/ sealed[<<c, "primary">>] = "other" \/ TwoSigns
           /\ <<c, "adjudicator">> \in slots
              => /\ sealed[<<c, "primary">>] \in Answers /\ sealed[<<c, "secondary">>] \in Answers
                 /\ "other" \in {sealed[<<c, "primary">>], sealed[<<c, "secondary">>]}
  PROVE  ReviewInv'
  <1> USE DEF ReviewInv, Rev!Ask
  <1>1. Rev!TypeOK' BY DEF Rev!TypeOK
  <1>2. Reasons' BY DEF Reasons, Signs, TwoSigns
  <1>3. Taken' /\ Published' BY DEF Taken, Published
  <1> QED BY <1>1, <1>2, <1>3

\* The packets of some cases.
LEMMA PacketsAre ==
  ASSUME NEW cases \in SUBSET ReviewCases, NEW second
  PROVE  /\ Rev!Packets(cases, second) \in SUBSET Rev!Slots
         /\ \A c \in ReviewCases :
              /\ <<c, "secondary">> \in Rev!Packets(cases, second) => c \in second
              /\ <<c, "adjudicator">> \notin Rev!Packets(cases, second)
  BY DEF Rev!Packets, Rev!Slots, Rev!Roles

LEMMA ExportsKeep ==
  ASSUME ReviewInv,
         Rev!ExportPilot \/ Rev!ExportFull \/ Rev!ExportEscalation \/ Rev!ExportAdjudication
  PROVE  ReviewInv'
  <1>0. Pilot \in SUBSET ReviewCases /\ ReviewCases \ Pilot \in SUBSET ReviewCases
    BY ReviewConstants DEF Rev!ReviewAssumption
  <1>1. CASE Rev!ExportPilot BY <1>0, <1>1, PacketsAre, AskKeeps DEF Rev!ExportPilot
  <1>2. CASE Rev!ExportFull
    <2>1. \A c \in Rev!Second : c \in Fixed \/ TwoSigns
      BY DEF Rev!Second, ReviewInv, Reasons
    <2> QED BY <1>0, <1>2, <2>1, PacketsAre, AskKeeps DEF Rev!ExportFull
  <1>3. CASE Rev!ExportEscalation
    <2>1. PICK cases \in {Pilot, ReviewCases} :
            LET j       == Rev!Of(sealed, cases)
                missing == {c \in ReviewCases :
                              Rev!Required(j, c) /\ j[<<c, "secondary">>] = "none"}
            IN  Rev!Valid(sealed, cases) /\ Rev!Ask(missing \X {"secondary"})
      BY <1>3 DEF Rev!ExportEscalation
    <2> DEFINE j       == Rev!Of(sealed, cases)
               missing == {c \in ReviewCases :
                              Rev!Required(j, c) /\ j[<<c, "secondary">>] = "none"}
    <2>2. /\ j \in Rev!Judgments
          /\ \A s \in Rev!Slots : j[s] # "none" => sealed[s] = j[s]
      BY <1>0, <2>1, ReadSealed
    <2>3. ASSUME NEW c \in missing
          PROVE  c \in Fixed \/ sealed[<<c, "primary">>] = "other" \/ TwoSigns
      <3> HIDE DEF j
      <3>1. Rev!Required(j, c) /\ c \in ReviewCases OBVIOUS
      <3> QED BY <2>2, <3>1, EventsAreSigns, SlotsOf DEF Rev!Required
    <2>4. missing \X {"secondary"} \in SUBSET Rev!Slots
      BY DEF Rev!Slots, Rev!Roles
    <2>5. Rev!Ask(missing \X {"secondary"}) BY <2>1
    <2> HIDE DEF missing
    <2>6. \A c \in ReviewCases : /\ <<c, "secondary">> \in missing \X {"secondary"} => c \in missing
                                 /\ <<c, "adjudicator">> \notin missing \X {"secondary"}
      OBVIOUS
    <2> QED BY <2>3, <2>4, <2>5, <2>6, AskKeeps
  <1>4. CASE Rev!ExportAdjudication
    <2>1. PICK c \in ReviewCases :
            /\ Rev!Valid(sealed, ReviewCases)
            /\ Rev!Status(Rev!Of(sealed, {c}), c) = "disputed" /\ Rev!Ask({<<c, "adjudicator">>})
      BY <1>4 DEF Rev!ExportAdjudication
    <2> DEFINE j == Rev!Of(sealed, {c})
    <2>2. Rev!Valid(sealed, {c}) BY <2>1 DEF Rev!Valid, Rev!Slots
    <2>3. /\ j \in Rev!Judgments
          /\ \A s \in Rev!Slots : j[s] # "none" => sealed[s] = j[s]
      BY <2>2, ReadSealed
    <2> HIDE DEF j
    <2>4. j[<<c, "primary">>] # "none" /\ j[<<c, "secondary">>] # "none" /\ ~Rev!Agreed(j, c)
      BY <2>1, <2>3, StatusTells DEF j
    <2>5. /\ sealed[<<c, "primary">>] \in Answers /\ sealed[<<c, "secondary">>] \in Answers
          /\ "other" \in {sealed[<<c, "primary">>], sealed[<<c, "secondary">>]}
      BY <2>3, <2>4, SlotsOf DEF Rev!Agreed, Rev!Judgments, Answers
    <2>6. {<<c, "adjudicator">>} \in SUBSET Rev!Slots BY SlotsOf
    <2> QED BY <2>1, <2>5, <2>6, AskKeeps
  <1> QED BY <1>1, <1>2, <1>3, <1>4

LEMMA SealKeeps == ASSUME ReviewInv, Rev!Seal PROVE ReviewInv'
  <1> USE DEF ReviewInv
  <1>1. PICK s \in exported :
          /\ sealed[s] = "none" /\ UNCHANGED <<exported, pilot, receipts, ledger, outcomes, desk>>
          /\ \E answer \in {"canonical", "other", "half"} :
               sealed' = [sealed EXCEPT ![s] = answer]
          /\ faults' \in 0 .. MaxFaults
    BY ReviewConstants DEF Rev!Seal, Rev!Responses, Rev!TypeOK, Rev!ReviewAssumption
  <1>2. \A t \in Rev!Slots : t # s => sealed'[t] = sealed[t]
    BY <1>1 DEF Rev!TypeOK
  <1>3. Rev!TypeOK' BY <1>1 DEF Rev!TypeOK
  <1>4. Grows BY <1>1, <1>2 DEF Grows, Answers
  <1>5. Reasons' BY <1>1, <1>2, <1>4, ReasonsStay DEF Reasons
  <1>6. Taken' BY <1>1, <1>2 DEF Taken, Answers
  <1>7. Published' BY <1>1 DEF Published
  <1> QED BY <1>3, <1>5, <1>6, <1>7

\* What the invariant takes up of what is not about the pilot's result, but needs no more.
LEMMA PilotKeeps == ASSUME ReviewInv, Rev!BuildPilotResult PROVE ReviewInv'
  <1> USE DEF ReviewInv
  <1> DEFINE j == Rev!Of(sealed, Pilot)
  <1>1. /\ Rev!Valid(sealed, Pilot)
        /\ UNCHANGED <<exported, sealed, receipts, ledger, outcomes, desk, faults>>
        /\ pilot' = IF Rev!Expanded(j) THEN "expanded" ELSE "planned"
    BY DEF Rev!BuildPilotResult
  <1>2. /\ j \in Rev!Judgments
        /\ \A s \in Rev!Slots : j[s] # "none" => sealed[s] = j[s]
    BY <1>1, ReadSealed, ReviewConstants DEF Rev!ReviewAssumption
  <1> HIDE DEF j
  <1>3. Rev!Expanded(j) => TwoSigns BY <1>2, EventsAreSigns
  <1>4. Rev!TypeOK' BY <1>1 DEF Rev!TypeOK
  <1>5. Reasons' BY <1>1, <1>3 DEF Reasons, Signs, TwoSigns
  <1>6. Taken' /\ Published' BY <1>1 DEF Taken, Published
  <1> QED BY <1>4, <1>5, <1>6

\* An intake that ends leaves what is known.
LEMMA AwayKeeps ==
  ASSUME ReviewInv, NEW d \in Desks, desk' = [desk EXCEPT ![d] = Rev!Away],
         UNCHANGED <<exported, sealed, pilot>>, Rev!TypeOK', Published',
         \A s \in Rev!Slots :
           receipts'[s] # receipts[s] => receipts[s] \notin Answers /\ receipts'[s] \notin Answers
  PROVE  ReviewInv'
  <1> USE DEF ReviewInv
  <1>1. /\ desk'[d] = Rev!Away /\ \A e \in Desks : e # d => desk'[e] = desk[e]
    BY DEF Rev!TypeOK
  <1>2. Reasons' BY DEF Reasons, Signs, TwoSigns
  <1>3. \A s \in Rev!Slots : \A e \in Desks : desk[e].merged[s] \in Answers \cup {"none"}
    BY DEF Rev!TypeOK, Rev!Judgments, Answers
  <1>4. Taken'
    <2>1. \A s \in Rev!Slots : receipts'[s] \in Answers => sealed'[s] = receipts'[s]
      BY DEF Taken
    <2>2. ASSUME NEW e \in Desks
          PROVE  /\ desk'[e].at = "receipts" => desk'[e].todo # {}
                 /\ desk'[e].at = "ledger" => desk'[e].todo = {}
                 /\ \A s \in Rev!Slots :
                      /\ desk'[e].merged[s] # "none"
                         => /\ sealed'[s] = desk'[e].merged[s]
                            /\ s \in desk'[e].todo \/ receipts'[s] = desk'[e].merged[s]
                      /\ s \in desk'[e].todo => desk'[e].merged[s] # "none"
      <3>1. CASE e = d BY <1>1, <3>1 DEF Rev!Away, Rev!NoJudgment
      <3>2. CASE e # d BY <1>1, <1>3, <3>2 DEF Taken
      <3> QED BY <3>1, <3>2
    <2> QED BY <2>1, <2>2 DEF Taken
  <1> QED BY <1>2, <1>4

LEMMA IntakeKeeps == ASSUME ReviewInv, NEW d \in Desks, Rev!Intake(d) PROVE ReviewInv'
  <1> USE DEF ReviewInv
  <1>1. PICK cases \in {Pilot, ReviewCases} :
          LET j      == Rev!Of(sealed, cases)
              merged == [s \in Rev!Slots |-> IF receipts[s] # "none" THEN receipts[s] ELSE j[s]]
              new    == {s \in Rev!Slots : receipts[s] = "none" /\ j[s] # "none"}
          IN  /\ Rev!Valid(sealed, cases) /\ Rev!Valid(receipts, ReviewCases)
              /\ desk' = [desk EXCEPT ![d] = [at |-> IF new = {} THEN "ledger" ELSE "receipts",
                                              merged |-> merged, todo |-> new]]
    BY DEF Rev!Intake
  <1>2. UNCHANGED <<exported, sealed, pilot, receipts, ledger, outcomes, faults>>
    BY DEF Rev!Intake
  <1> DEFINE j      == Rev!Of(sealed, cases)
             merged == [s \in Rev!Slots |-> IF receipts[s] # "none" THEN receipts[s] ELSE j[s]]
             new    == {s \in Rev!Slots : receipts[s] = "none" /\ j[s] # "none"}
             open   == [at |-> IF new = {} THEN "ledger" ELSE "receipts",
                        merged |-> merged, todo |-> new]
  <1>3. cases \in SUBSET ReviewCases BY ReviewConstants DEF Rev!ReviewAssumption
  <1>4. /\ j \in Rev!Judgments
        /\ \A s \in Rev!Slots : j[s] # "none" => sealed[s] = j[s]
    BY <1>1, <1>3, ReadSealed
  <1>5. desk' = [desk EXCEPT ![d] = open] BY <1>1
  <1> HIDE DEF j
  <1>6. \A s \in Rev!Slots : receipts[s] \in Answers \cup {"none"}
    BY <1>1 DEF Rev!TypeOK, Rev!Valid, Rev!Slots, Answers
  <1>7. merged \in Rev!Judgments BY <1>4, <1>6 DEF Rev!Judgments, Answers
  <1>8. /\ \A s \in Rev!Slots :
             /\ merged[s] # "none" => /\ sealed[s] = merged[s]
                                      /\ s \in new \/ receipts[s] = merged[s]
             /\ s \in new => merged[s] # "none"
        /\ new \in SUBSET Rev!Slots
    BY <1>4, <1>6 DEF Taken, Answers
  <1> HIDE DEF merged, new
  <1>9. /\ desk'[d] = open /\ \A e \in Desks : e # d => desk'[e] = desk[e]
    BY <1>5 DEF Rev!TypeOK
  <1>10. Rev!TypeOK' BY <1>2, <1>5, <1>7, <1>8 DEF Rev!TypeOK
  <1>11. Reasons' BY <1>2 DEF Reasons, Signs, TwoSigns
  <1>12. Taken'
    <2>1. ASSUME NEW e \in Desks
          PROVE  /\ desk'[e].at = "receipts" => desk'[e].todo # {}
                 /\ desk'[e].at = "ledger" => desk'[e].todo = {}
                 /\ \A s \in Rev!Slots :
                      /\ desk'[e].merged[s] # "none"
                         => /\ sealed[s] = desk'[e].merged[s]
                            /\ s \in desk'[e].todo \/ receipts[s] = desk'[e].merged[s]
                      /\ s \in desk'[e].todo => desk'[e].merged[s] # "none"
      <3>1. CASE e = d BY <1>8, <1>9, <3>1
      <3>2. CASE e # d BY <1>9, <3>2 DEF Taken
      <3> QED BY <3>1, <3>2
    <2> QED BY <1>2, <2>1 DEF Taken
  <1>13. Published' BY <1>2 DEF Published
  <1> QED BY <1>10, <1>11, <1>12, <1>13

LEMMA ReceiptKeeps == ASSUME ReviewInv, NEW d \in Desks, Rev!Receipt(d) PROVE ReviewInv'
  <1> USE DEF ReviewInv
  <1> DEFINE t == CHOOSE s \in desk[d].todo : TRUE
  <1>1. /\ t \in desk[d].todo /\ t \in Rev!Slots /\ desk[d].merged[t] \in Answers
        /\ sealed[t] = desk[d].merged[t]
    BY DEF Rev!Receipt, Rev!TypeOK, Taken, Rev!Judgments, Answers
  <1>2. UNCHANGED <<exported, sealed, pilot, ledger, outcomes>> BY DEF Rev!Receipt
  <1>3. CASE receipts[t] # "none" /\ desk' = [desk EXCEPT ![d] = Rev!Away]
             /\ UNCHANGED <<receipts, faults>>
    <2>1. Rev!TypeOK' BY <1>2, <1>3 DEF Rev!TypeOK, Rev!Away, Rev!NoJudgment, Rev!Judgments
    <2>2. Published' BY <1>2, <1>3 DEF Published
    <2> QED BY <1>2, <1>3, <2>1, <2>2, AwayKeeps
  <1>4. CASE /\ receipts[t] = "none" /\ faults < MaxFaults /\ faults' = faults + 1
             /\ receipts' = [receipts EXCEPT ![t] = "half"]
             /\ desk' = [desk EXCEPT ![d] = Rev!Away]
    <2> HIDE DEF t
    <2>1. Rev!TypeOK'
      BY <1>1, <1>2, <1>4, ReviewConstants
         DEF Rev!TypeOK, Rev!Away, Rev!NoJudgment, Rev!Judgments, Rev!ReviewAssumption
    <2>2. receipts'[t] = "half" /\ \A s \in Rev!Slots : s # t => receipts'[s] = receipts[s]
      BY <1>1, <1>4 DEF Rev!TypeOK
    <2>3. Published' BY <1>2, <1>4, <2>2 DEF Published
    <2> QED BY <1>2, <1>4, <2>1, <2>2, <2>3, AwayKeeps DEF Answers
  <1>5. CASE /\ receipts[t] = "none" /\ receipts' = [receipts EXCEPT ![t] = desk[d].merged[t]]
             /\ desk' = [desk EXCEPT ![d].todo = desk[d].todo \ {t},
                                     ![d].at = IF desk[d].todo \ {t} = {} THEN "ledger"
                                               ELSE "receipts"]
             /\ UNCHANGED faults
    <2> HIDE DEF t
    <2> DEFINE left == desk[d].todo \ {t}
    <2>1. /\ receipts'[t] = desk[d].merged[t]
          /\ \A s \in Rev!Slots : s # t => receipts'[s] = receipts[s]
      BY <1>1, <1>5 DEF Rev!TypeOK
    <2>2. /\ desk'[d] = [at |-> IF left = {} THEN "ledger" ELSE "receipts",
                         merged |-> desk[d].merged, todo |-> left]
          /\ \A e \in Desks : e # d => desk'[e] = desk[e]
      <3>1. desk[d] \in [at : {"away", "receipts", "ledger"}, merged : Rev!Judgments,
                         todo : SUBSET Rev!Slots]
        BY DEF Rev!TypeOK
      <3> QED BY <1>5, <3>1 DEF Rev!TypeOK
    <2>3. Rev!TypeOK'
      <3>1. receipts' \in [Rev!Slots -> {"none", "half", "canonical", "other"}]
        BY <1>1, <1>5 DEF Rev!TypeOK, Answers
      <3>2. desk' \in [Desks -> [at : {"away", "receipts", "ledger"}, merged : Rev!Judgments,
                                 todo : SUBSET Rev!Slots]]
        <4>1. desk'[d] \in [at : {"away", "receipts", "ledger"}, merged : Rev!Judgments,
                            todo : SUBSET Rev!Slots]
          BY <2>2 DEF Rev!TypeOK
        <4>2. desk' = [desk EXCEPT ![d] = desk'[d]]
          BY <1>5, <2>2 DEF Rev!TypeOK
        <4> QED BY <4>1, <4>2 DEF Rev!TypeOK
      <3> QED BY <1>2, <1>5, <3>1, <3>2 DEF Rev!TypeOK
    <2>4. Reasons' BY <1>2 DEF Reasons, Signs, TwoSigns
    <2>5. Taken'
      <3>1. \A s \in Rev!Slots : receipts'[s] \in Answers => sealed[s] = receipts'[s]
        BY <1>1, <2>1 DEF Taken
      <3>2. ASSUME NEW e \in Desks
            PROVE  /\ desk'[e].at = "receipts" => desk'[e].todo # {}
                   /\ desk'[e].at = "ledger" => desk'[e].todo = {}
                   /\ \A s \in Rev!Slots :
                        /\ desk'[e].merged[s] # "none"
                           => /\ sealed[s] = desk'[e].merged[s]
                              /\ s \in desk'[e].todo \/ receipts'[s] = desk'[e].merged[s]
                        /\ s \in desk'[e].todo => desk'[e].merged[s] # "none"
        <4>1. CASE e = d BY <2>1, <2>2, <4>1 DEF Taken
        <4>2. CASE e # d BY <1>1, <2>1, <2>2, <4>2 DEF Taken
        <4> QED BY <4>1, <4>2
      <3> QED BY <1>2, <3>1, <3>2 DEF Taken
    <2>6. Published'
      <3>1. ledger.at # "none" => ledger.of \in Rev!Judgments /\ ledger.of[t] = "none"
        BY <1>1, <1>5 DEF Rev!TypeOK, Published
      <3> QED BY <1>2, <2>1, <3>1 DEF Published
    <2> QED BY <2>3, <2>4, <2>5, <2>6
  <1> QED BY <1>3, <1>4, <1>5 DEF Rev!Receipt

LEMMA MaterializeKeeps == ASSUME ReviewInv, NEW d \in Desks, Rev!Materialize(d) PROVE ReviewInv'
  <1> USE DEF ReviewInv
  <1>1. /\ desk' = [desk EXCEPT ![d] = Rev!Away] /\ desk[d].at = "ledger"
        /\ UNCHANGED <<exported, sealed, pilot, receipts, outcomes>>
    BY DEF Rev!Materialize
  <1>2. /\ \/ UNCHANGED ledger
           \/ /\ Rev!Verdict(desk[d].merged) # "pending"
              /\ \E how \in {"half", "whole"} : ledger' = [at |-> how, of |-> desk[d].merged]
        /\ faults' \in 0 .. MaxFaults
    BY ReviewConstants DEF Rev!Materialize, Rev!TypeOK, Rev!ReviewAssumption
  <1>3. Rev!TypeOK'
    BY <1>1, <1>2 DEF Rev!TypeOK, Rev!Away, Rev!NoJudgment, Rev!Judgments
  <1>4. Published'
    <2>1. CASE UNCHANGED ledger BY <1>1, <2>1 DEF Published
    <2>2. CASE /\ Rev!Verdict(desk[d].merged) # "pending"
               /\ \E how \in {"half", "whole"} : ledger' = [at |-> how, of |-> desk[d].merged]
      <3>1. ledger'.of = desk[d].merged BY <2>2
      <3>2. \A s \in Rev!Slots : desk[d].merged[s] # "none" => receipts[s] = desk[d].merged[s]
        BY <1>1 DEF Taken
      <3>3. Rev!Verdict(ledger'.of) # "pending" BY <2>2, <3>1
      <3> QED BY <1>1, <3>1, <3>2, <3>3 DEF Published
    <2> QED BY <1>2, <2>1, <2>2
  <1> QED BY <1>1, <1>3, <1>4, AwayKeeps

LEMMA DieKeeps == ASSUME ReviewInv, NEW d \in Desks, Rev!Die(d) PROVE ReviewInv'
  <1>1. Rev!TypeOK'
    BY ReviewConstants DEF ReviewInv, Rev!Die, Rev!TypeOK, Rev!Away, Rev!NoJudgment, Rev!Judgments,
                           Rev!ReviewAssumption
  <1>2. Published' BY DEF ReviewInv, Rev!Die, Published
  <1> QED BY <1>1, <1>2, AwayKeeps DEF Rev!Die

LEMMA CompileKeeps == ASSUME ReviewInv, Rev!CompileOutcomes PROVE ReviewInv'
  <1>1. Rev!TypeOK'
    BY ReviewConstants DEF ReviewInv, Rev!CompileOutcomes, Rev!TypeOK, Rev!ReviewAssumption
  <1>2. Reasons' /\ Taken' /\ Published'
    BY DEF ReviewInv, Rev!CompileOutcomes, Reasons, Signs, TwoSigns, Taken, Published
  <1> QED BY <1>1, <1>2 DEF ReviewInv

LEMMA RemoveKeeps == ASSUME ReviewInv, Rev!RemoveHalf PROVE ReviewInv'
  <1> USE DEF ReviewInv
  <1>1. PICK s \in Rev!Slots :
          \/ sealed[s] = "half" /\ sealed' = [sealed EXCEPT ![s] = "none"] /\ UNCHANGED receipts
          \/ receipts[s] = "half" /\ receipts' = [receipts EXCEPT ![s] = "none"] /\ UNCHANGED sealed
    BY DEF Rev!RemoveHalf
  <1>2. UNCHANGED <<exported, pilot, ledger, outcomes, desk, faults>> BY DEF Rev!RemoveHalf
  <1>3. \A t \in Rev!Slots : \A v \in Answers :
          (sealed[t] = v => sealed'[t] = v) /\ (receipts[t] = v <=> receipts'[t] = v)
    BY <1>1 DEF Rev!TypeOK, Answers
  <1>4. Rev!TypeOK' BY <1>1, <1>2 DEF Rev!TypeOK
  <1>5. Grows BY <1>3 DEF Grows
  <1>6. \A t \in Rev!Slots : sealed'[t] # "none" => t \in exported
    BY <1>1 DEF Rev!TypeOK, Reasons
  <1>7. Reasons' BY <1>2, <1>5, <1>6, ReasonsStay
  <1>8. /\ \A e \in Desks : \A t \in Rev!Slots : desk[e].merged[t] \in Answers \cup {"none"}
        /\ \A t \in Rev!Slots : ledger.of[t] \in Answers \cup {"none"}
    BY DEF Rev!TypeOK, Rev!Judgments, Answers
  <1>9. Taken' BY <1>2, <1>3, <1>8 DEF Taken
  <1>10. Published' BY <1>2, <1>3, <1>8 DEF Published
  <1> QED BY <1>4, <1>7, <1>9, <1>10

\* Every step keeps what is known of the review.
LEMMA ReviewStep == ASSUME ReviewInv, [Rev!Next]_(Rev!vars) PROVE ReviewInv'
  <1>1. CASE UNCHANGED Rev!vars
    <2>1. Rev!TypeOK' BY <1>1 DEF Rev!vars, ReviewInv, Rev!TypeOK
    <2>2. Reasons' BY <1>1 DEF Rev!vars, ReviewInv, Reasons, Signs, TwoSigns
    <2>3. Taken' /\ Published' BY <1>1 DEF Rev!vars, ReviewInv, Taken, Published
    <2> QED BY <2>1, <2>2, <2>3 DEF ReviewInv
  <1>2. CASE Rev!Next
    BY <1>2, ExportsKeep, SealKeeps, PilotKeeps, IntakeKeeps, ReceiptKeeps, MaterializeKeeps,
       DieKeeps, CompileKeeps, RemoveKeeps DEF Rev!Next
  <1> QED BY <1>1, <1>2

THEOREM ReviewInvariance == Rev!Spec => []ReviewInv
  <1>1. Rev!Init => ReviewInv
    <2> SUFFICES ASSUME Rev!Init PROVE ReviewInv
      OBVIOUS
    <2>1. Rev!TypeOK
      <3>1. Rev!NoJudgment \in Rev!Judgments BY DEF Rev!NoJudgment, Rev!Judgments
      <3>2. 0 \in 0 .. MaxFaults BY ReviewConstants DEF Rev!ReviewAssumption
      <3> QED BY <3>1, <3>2 DEF Rev!Init, Rev!TypeOK, Rev!Away, Rev!Judgments
    <2>2. Reasons BY SlotsOf DEF Rev!Init, Reasons, Rev!NoJudgment
    <2>3. Taken BY DEF Rev!Init, Taken, Rev!Away, Rev!NoJudgment, Answers
    <2>4. Published BY DEF Rev!Init, Published
    <2> QED BY <2>1, <2>2, <2>3, <2>4 DEF ReviewInv
  <1>2. ReviewInv /\ [Rev!Next]_(Rev!vars) => ReviewInv' BY ReviewStep
  <1> QED BY <1>1, <1>2, PTL DEF Rev!Spec

\* What is known of the review makes a published verdict what the receipts say for ever.
LEMMA VerdictHolds == ASSUME ReviewInv PROVE VerdictStands
  <1> DEFINE j == ledger.of
             r == Rev!Received
  <1> SUFFICES ASSUME ledger.at = "whole"
               PROVE  /\ Rev!Verdict(r) = Rev!Verdict(j)
                      /\ Rev!Verdict(j) = "complete" =>
                           /\ r = j
                           /\ Rev!Expanded(j)
                              => \A c \in ReviewCases : j[<<c, "secondary">>] # "none"
    BY DEF VerdictStands, Rev!VerdictStands
  <1>1. /\ j \in Rev!Judgments /\ r \in Rev!Judgments
        /\ \A s \in Rev!Slots : j[s] # "none" => r[s] = j[s]
        /\ \A s \in Rev!Slots : r[s] # "none" => sealed[s] \in Answers /\ r[s] = sealed[s]
    BY DEF ReviewInv, Rev!TypeOK, Published, Taken, Rev!Received, Rev!Judgments, Answers
  <1>2. Rev!Verdict(j) # "pending" BY DEF ReviewInv, Published
  <1>3. CASE Rev!Verdict(j) = "complete"
    <2>1. \A s \in Rev!Slots : r[s] # "none" => r[s] = j[s] BY <1>1, <1>3, CompleteIsAll
    <2>2. r = j BY <1>1, <2>1 DEF Rev!Judgments
    <2> QED BY <1>3, <2>2, CompleteIsAll
  <1>4. CASE Rev!Verdict(j) # "complete"
    <2>1. PICK c \in ReviewCases : Rev!Status(j, c) = "rejected" BY <1>2, <1>4 DEF Rev!Verdict
    <2> HIDE DEF j, r
    <2>2. Rev!Status(r, c) = "rejected" BY <1>1, <2>1, StatusTells, SlotsOf DEF Rev!Agreed
    <2> QED BY <1>4, <2>1, <2>2 DEF Rev!Verdict
  <1> QED BY <1>3, <1>4

\* A published verdict of the review is what its receipts say for ever: a complete ledger
\* is theirs to the last judgment, and a rejection stays one.
THEOREM ReviewVerdictStands == Rev!Spec => []VerdictStands
  BY ReviewInvariance, VerdictHolds, PTL

-----------------------------------------------------------------------------
(* The agent's own loop *)

\* What the guards keep.
GuardStates ==
  [first : BOOLEAN, looked : BOOLEAN, nudged : BOOLEAN, replanned : BOOLEAN,
   writes : SUBSET Loop!Mutating, named : BOOLEAN, opened : BOOLEAN, file : BOOLEAN, echo : BOOLEAN]

\* Where a call is under way.
Busy == {"valid", "unplanned", "unread", "unlooked", "repeat", "policy"}

\* Every entry and every question has cost a model call of its own.
Metered ==
  /\ Len(log) + Len(asked) + (IF step \in Busy THEN 1 ELSE 0) <= calls
  /\ world <= Len(log) /\ streak <= calls
  /\ step = "plan" => log = <<>> /\ calls = 0
  /\ \A c \in Loop!Calls : seen[c].repeats <= Len(log) /\ seen[c].version <= world

\* In a guarded run: what the guards that are behind have found of the call, and
\* what the guards know of the log and of their questions.
Passed ==
  /\ step \in {"unplanned", "unread", "unlooked", "repeat", "policy"} => call.date # "other"
  /\ step \in {"unread", "unlooked", "repeat", "policy"} => ~Loop!Unplanned(plan)
  /\ step \in {"repeat", "policy"}
     => ~(guard.first /\ ~guard.looked /\ ~guard.nudged /\ Loop!IsWrite(call))

Aware ==
  /\ guard.looked => \E i \in DOMAIN log : log[i].ok /\ log[i].call \in {Loop!Look, Loop!Open}
  /\ guard.nudged => \E i \in DOMAIN asked : asked[i][1] = "read_before_write"
  /\ \A t \in guard.writes : Loop!Questioned("unplanned_write", t)
  /\ \A i \in DOMAIN asked :
       /\ asked[i][1] = "unplanned_write" => asked[i][2].tool \in guard.writes
       /\ asked[i][1] = "unread_file" => guard.file
       /\ asked[i][1] = "read_before_write" => guard.nudged

Guarded == condition = "guarded" => Passed /\ Aware /\ Loop!AskedFirst

\* An entry moves the world for a call, and none between two entries has.
MovesOn(e, c)        == e.ok /\ Loop!IsWrite(e.call) /\ e.call # c
Unmoved(es, c, i, j) == \A k \in i + 1 .. j - 1 : ~MovesOn(es[k], c)
\* The entries of a call up to one of them since the world has moved for it.
Copied(es, j)        == {i \in 1 .. j : es[i].call = es[j].call /\ Unmoved(es, es[j].call, i, j)}

\* The books on a call are about its last entry.
Books ==
  \A c \in Loop!Calls :
    IF seen[c].yet
      THEN \E j \in 1 .. Len(log) :
             /\ log[j].call = c /\ \A k \in j + 1 .. Len(log) : log[k].call # c
             /\ seen[c].repeats = Cardinality(Copied(log, j)) /\ (seen[c].ok <=> log[j].ok)
             /\ seen[c].version = world <=> Unmoved(log, c, j, Len(log) + 1)
      ELSE \A j \in 1 .. Len(log) : log[j].call # c

Counted ==
  condition # "raw" =>
    /\ Books
    /\ step = "policy" => call = Loop!Think \/ Loop!Repeats(call) < Loop!Limit(call)

LoopInv == Loop!TypeOK /\ Metered /\ Guarded /\ Counted /\ Loop!NoFutileRepeat

\* The calls, and which of them write.
LEMMA CallsAre ==
  /\ {Loop!Look, Loop!Open, Loop!Think} \subseteq Loop!Calls
  /\ \A c \in Loop!Calls : Loop!IsWrite(c) => c \notin {Loop!Look, Loop!Open, Loop!Think}
  /\ \A c \in Loop!Calls : c.tool = "note" <=> c \in {Loop!Note, Loop!Slip}
  BY DEF Loop!Calls, Loop!IsWrite, Loop!Mutating, Loop!Look, Loop!Open, Loop!Think, Loop!Note,
         Loop!Slip, Loop!Send

\* A plan that is not empty names a tool.
LEMMA PlansAre == \A p \in Loop!Plans : p # <<>> => Loop!PlanSet(p) # {}
  <1> SUFFICES ASSUME NEW p \in Loop!Plans, p # <<>> PROVE Loop!PlanSet(p) # {}
    OBVIOUS
  <1>1. p \in {<<"note">>, <<"look", "note">>, <<"note", "look">>} BY DEF Loop!Plans
  <1>2. 1 \in DOMAIN p
    <2>1. CASE p = <<"note">> BY <2>1
    <2>2. CASE p = <<"look", "note">> BY <2>2
    <2>3. CASE p = <<"note", "look">> BY <2>3
    <2> QED BY <1>1, <2>1, <2>2, <2>3
  <1> QED BY <1>2 DEF Loop!PlanSet

LEMMA FirstIs ==
  /\ condition = "raw" => Loop!First = "policy"
  /\ condition = "harness" => Loop!First = "repeat"
  /\ condition = "guarded" => Loop!First = "valid"
  <1>1. condition = "raw" => Loop!First = "policy" BY Zenon DEF Loop!First
  <1>2. condition = "harness" => Loop!First = "repeat" BY Zenon DEF Loop!First
  <1>3. condition = "guarded" => Loop!First = "valid" BY Zenon DEF Loop!First
  <1> QED BY <1>1, <1>2, <1>3

\* The counts are those of the library.
LEMMA CountsAre == \A S : Loop!Cardinality(S) = Cardinality(S)
  BY DEF Loop!Cardinality, Cardinality

\* An entry at the end of a sequence.
LEMMA AtTheEnd ==
  ASSUME NEW S, NEW s \in Seq(S), NEW e \in S
  PROVE  /\ Append(s, e) \in Seq(S) /\ Len(Append(s, e)) = Len(s) + 1 /\ Len(s) \in Nat
         /\ DOMAIN s = 1 .. Len(s) /\ DOMAIN Append(s, e) = 1 .. Len(s) + 1
         /\ \A i \in 1 .. Len(s) : Append(s, e)[i] = s[i]
         /\ Append(s, e)[Len(s) + 1] = e
  BY AppendProperties, LenProperties

\* Lengths are numbers.
LEMMA LoopLengths ==
  ASSUME LoopInv
  PROVE  /\ Len(log) \in Nat /\ DOMAIN log = 1 .. Len(log)
         /\ Len(asked) \in Nat /\ DOMAIN asked = 1 .. Len(asked)
         /\ calls \in Nat /\ calls <= MaxCalls /\ MaxCalls \in Nat
         /\ world \in Nat /\ streak \in Nat
  BY LenProperties, LoopAssumption DEF LoopInv, Loop!TypeOK

\* Without a new entry the books are as they were.
LEMMA NoEntry ==
  ASSUME LoopInv, UNCHANGED <<condition, world, seen, log>>,
         step' = "policy" /\ condition # "raw"
         => call' = Loop!Think \/ Loop!Repeats(call') < Loop!Limit(call')
  PROVE  Counted' /\ Loop!NoFutileRepeat'
  <1>1. Books => Books' BY DEF Books
  <1>2. Counted' BY <1>1 DEF LoopInv, Counted, Loop!Repeats, Loop!Limit
  <1>3. Loop!NoFutileRepeat'
    BY DEF LoopInv, Loop!NoFutileRepeat, Loop!Copies, Loop!Still, Loop!Allowed
  <1> QED BY <1>2, <1>3

\* Without an entry or a question the guards know what they knew.
LEMMA NoQuestion ==
  ASSUME LoopInv, UNCHANGED <<condition, log, asked>>,
         /\ guard'.looked = guard.looked /\ guard'.nudged = guard.nudged
         /\ guard'.writes = guard.writes /\ guard'.file = guard.file,
         guard'.first = guard.first \/ log = <<>>
  PROVE  condition = "guarded" => Aware' /\ Loop!AskedFirst'
  <1> SUFFICES ASSUME condition = "guarded" PROVE Aware' /\ Loop!AskedFirst'
    OBVIOUS
  <1>1. Aware /\ Loop!AskedFirst BY DEF LoopInv, Guarded
  <1>2. Aware' BY <1>1 DEF Aware, Loop!Questioned
  <1>3. log = <<>> => DOMAIN log = {} BY LoopLengths, EmptySeq
  <1>4. Loop!AskedFirst'
    BY <1>1, <1>3 DEF Loop!AskedFirst, Loop!Questioned, Loop!Reads
  <1> QED BY <1>2, <1>4

\* A question that is put in a guarded run: a new one, of which the guards know.
LEMMA Asks ==
  ASSUME LoopInv, NEW g \in Loop!Guards, condition = "guarded", UNCHANGED <<condition, log>>,
         asked' = Append(asked, <<g, call>>), step' = "top",
         /\ guard'.looked = guard.looked /\ guard'.first = guard.first
         /\ guard'.writes = guard.writes \cup (IF g = "unplanned_write" THEN {call.tool} ELSE {})
         /\ guard'.file <=> guard.file \/ g = "unread_file"
         /\ guard'.nudged <=> guard.nudged \/ g = "read_before_write",
         /\ g = "unplanned_write" => call.tool \notin guard.writes
         /\ g = "unread_file" => ~guard.file
         /\ g = "read_before_write" => ~guard.nudged
  PROVE  Guarded'
  <1>1. Aware /\ Loop!AskedFirst BY DEF LoopInv, Guarded
  <1>2. /\ DOMAIN asked' = 1 .. Len(asked) + 1 /\ DOMAIN asked = 1 .. Len(asked)
        /\ Len(asked) \in Nat
        /\ \A i \in 1 .. Len(asked) : asked'[i] = asked[i]
        /\ asked'[Len(asked) + 1] = <<g, call>>
    BY AtTheEnd DEF LoopInv, Loop!TypeOK
  <1>3. Passed' BY DEF Passed
  <1>4. \A q, t : Loop!Questioned(q, t) => Loop!Questioned(q, t)'
    BY <1>2 DEF Loop!Questioned
  <1>5. Aware'
    <2>1. guard'.looked => \E i \in DOMAIN log' :
                             log'[i].ok /\ log'[i].call \in {Loop!Look, Loop!Open}
      BY <1>1 DEF Aware
    <2>2. guard'.nudged => \E i \in DOMAIN asked' : asked'[i][1] = "read_before_write"
      BY <1>1, <1>2 DEF Aware
    <2>3. ASSUME NEW t \in guard'.writes PROVE Loop!Questioned("unplanned_write", t)'
      <3>1. CASE t \in guard.writes BY <1>1, <1>4, <3>1 DEF Aware
      <3>2. CASE g = "unplanned_write" /\ t = call.tool BY <1>2, <3>2 DEF Loop!Questioned
      <3> QED BY <2>3, <3>1, <3>2
    <2>4. ASSUME NEW i \in DOMAIN asked'
          PROVE  /\ asked'[i][1] = "unplanned_write" => asked'[i][2].tool \in guard'.writes
                 /\ asked'[i][1] = "unread_file" => guard'.file
                 /\ asked'[i][1] = "read_before_write" => guard'.nudged
      <3>1. CASE i = Len(asked) + 1 BY <1>2, <3>1
      <3>2. CASE i # Len(asked) + 1 BY <1>1, <1>2, <3>2 DEF Aware
      <3> QED BY <3>1, <3>2
    <2> QED BY <2>1, <2>2, <2>3, <2>4 DEF Aware
  <1>6. Loop!AskedFirst'
    <2>1. ASSUME NEW n \in DOMAIN log'
          PROVE  /\ log'[n].call.date # "other"
                 /\ Loop!IsWrite(log'[n].call) /\ ~log'[n].planned
                    => Loop!Questioned("unplanned_write", log[n].call.tool)'
                 /\ Loop!IsWrite(log'[n].call) /\ guard'.first /\ Loop!Reads(n)' = {}
                    => \E i \in DOMAIN asked' : asked'[i][1] = "read_before_write"
      BY <1>1, <1>2, <1>4, <2>1 DEF Loop!AskedFirst, Loop!Reads
    <2>2. ASSUME NEW i \in DOMAIN asked', NEW j \in DOMAIN asked',
                 asked'[i][1] = asked'[j][1], asked'[i][1] # "wrong_date",
                 asked'[i][2].tool = asked'[j][2].tool
          PROVE  i = j
      <3>1. ASSUME NEW k \in 1 .. Len(asked), asked[k][1] = g, asked[k][2].tool = call.tool,
                   g # "wrong_date"
            PROVE  FALSE
        BY <1>1, <1>2, <3>1 DEF Aware, Loop!Guards
      <3>2. CASE i \in 1 .. Len(asked) /\ j \in 1 .. Len(asked)
        BY <1>1, <1>2, <2>2, <3>2 DEF Loop!AskedFirst
      <3>3. CASE i = Len(asked) + 1 /\ j # Len(asked) + 1
        BY <1>2, <2>2, <3>1, <3>3
      <3>4. CASE i # Len(asked) + 1 /\ j = Len(asked) + 1
        BY <1>2, <2>2, <3>1, <3>4
      <3> QED BY <1>2, <3>2, <3>3, <3>4
    <2> QED BY <2>1, <2>2 DEF Loop!AskedFirst
  <1> QED BY <1>3, <1>5, <1>6 DEF Guarded

LEMMA MakePlanKeeps == ASSUME LoopInv, Loop!MakePlan PROVE LoopInv'
  <1> USE LoopLengths DEF Loop!MakePlan
  <1>1. calls = 0 /\ log = <<>> /\ Len(log) = 0 /\ Len(asked) = 0
    BY EmptySeq DEF LoopInv, Metered, Busy
  <1>2. /\ guard'.first \in BOOLEAN /\ guard' = [guard EXCEPT !.first = guard'.first]
        /\ guard'.looked = guard.looked /\ guard'.nudged = guard.nudged
        /\ guard'.writes = guard.writes /\ guard'.file = guard.file
    BY DEF LoopInv, Loop!TypeOK, Loop!ReadFirst
  <1>3. Loop!TypeOK'
    <2>1. guard' \in GuardStates BY <1>2 DEF LoopInv, Loop!TypeOK, GuardStates
    <2>2. step' = "top" /\ plan' \in Loop!Plans /\ calls' \in 0 .. MaxCalls
      BY <1>1, LoopAssumption DEF Loop!TypeOK
    <2>3. Len(log') + Len(asked') <= MaxCalls BY <1>1
    <2> QED BY <2>1, <2>2, <2>3 DEF LoopInv, Loop!TypeOK, GuardStates
  <1>4. Metered' BY <1>1 DEF LoopInv, Metered, Busy
  <1>5. Guarded'
    <2>1. condition = "guarded" => Aware' /\ Loop!AskedFirst' BY <1>1, <1>2, NoQuestion
    <2> QED BY <2>1 DEF Guarded, Passed
  <1>6. Counted' /\ Loop!NoFutileRepeat' BY NoEntry
  <1> QED BY <1>3, <1>4, <1>5, <1>6 DEF LoopInv

\* The loop ends.
LEMMA FinishKeeps ==
  ASSUME LoopInv, NEW how \in {"done", "stuck", "budget", "transport", "raised"}, Loop!Finish(how),
         UNCHANGED <<calls, streak, verified, guard>>
  PROVE  LoopInv'
  <1> USE LoopLengths DEF Loop!Finish
  <1>1. Loop!TypeOK' BY DEF LoopInv, Loop!TypeOK
  <1>2. Metered' BY DEF LoopInv, Metered, Busy
  <1>3. Guarded'
    <2>1. condition = "guarded" => Aware' /\ Loop!AskedFirst' BY NoQuestion
    <2> QED BY <2>1 DEF Guarded, Passed
  <1>4. Counted' /\ Loop!NoFutileRepeat' BY NoEntry
  <1> QED BY <1>1, <1>2, <1>3, <1>4 DEF LoopInv

LEMMA DriveKeeps == ASSUME LoopInv, Loop!Drive PROVE LoopInv'
  <1> USE LoopLengths DEF Loop!Drive
  <1>1. /\ call' \in Loop!Calls /\ step' \in {"top", "done", Loop!First}
        /\ Loop!First \in {"policy", "repeat", "valid"}
    BY FirstIs DEF LoopInv, Loop!TypeOK, Loop!Conditions
  <1>2. Loop!TypeOK' BY <1>1 DEF LoopInv, Loop!TypeOK, Metered
  <1>3. Metered' BY <1>1 DEF LoopInv, Metered, Busy
  <1>4. Guarded'
    <2>1. condition = "guarded" => Aware' /\ Loop!AskedFirst' BY NoQuestion
    <2>2. condition = "guarded" => step' \in {"top", "done", "valid"} BY <1>1, FirstIs
    <2> QED BY <2>1, <2>2 DEF Guarded, Passed
  <1>5. Counted' /\ Loop!NoFutileRepeat'
    <2>1. condition # "raw" => step' # "policy"
      BY <1>1, FirstIs DEF LoopInv, Loop!TypeOK, Loop!Conditions
    <2> QED BY <2>1, NoEntry
  <1> QED BY <1>2, <1>3, <1>4, <1>5 DEF LoopInv

LEMMA VerifyKeeps == ASSUME LoopInv, Loop!Verify PROVE LoopInv'
  <1> USE LoopLengths, LoopAssumption DEF Loop!Verify
  <1>1. Loop!TypeOK' BY DEF LoopInv, Loop!TypeOK
  <1>2. Metered' BY DEF LoopInv, Metered, Busy
  <1>3. Guarded'
    <2>1. condition = "guarded" => Aware' /\ Loop!AskedFirst' BY NoQuestion
    <2> QED BY <2>1 DEF Guarded, Passed
  <1>4. Counted' /\ Loop!NoFutileRepeat' BY NoEntry
  <1> QED BY <1>1, <1>2, <1>3, <1>4 DEF LoopInv

LEMMA DoneKeeps == ASSUME LoopInv, Loop!Done PROVE LoopInv'
  <1>1. CASE Loop!Finish("done") /\ UNCHANGED guard
    BY <1>1, FinishKeeps DEF Loop!Done
  <1>2. CASE /\ guard' = [guard EXCEPT !.echo = TRUE] /\ step' = "top"
             /\ UNCHANGED <<condition, plan, call, world, seen, log, asked, end>>
    <2> USE <1>2, LoopLengths DEF Loop!Done
    <2>1. Loop!TypeOK' BY DEF LoopInv, Loop!TypeOK
    <2>2. Metered' BY DEF LoopInv, Metered, Busy
    <2>3. Guarded'
      <3>1. /\ guard'.looked = guard.looked /\ guard'.nudged = guard.nudged
            /\ guard'.writes = guard.writes /\ guard'.file = guard.file
            /\ guard'.first = guard.first
        BY DEF LoopInv, Loop!TypeOK
      <3>2. condition = "guarded" => Aware' /\ Loop!AskedFirst' BY <3>1, NoQuestion
      <3> QED BY <3>2 DEF Guarded, Passed
    <2>4. Counted' /\ Loop!NoFutileRepeat' BY NoEntry
    <2> QED BY <2>1, <2>2, <2>3, <2>4 DEF LoopInv
  <1> QED BY <1>1, <1>2 DEF Loop!Done

\* A guard that has no question passes the call on.
LEMMA PassKeeps ==
  ASSUME LoopInv, NEW to \in {"unplanned", "unread", "unlooked", "repeat"}, step \in Busy,
         Loop!Pass(to), UNCHANGED <<plan, guard>>, condition = "guarded" => Passed'
  PROVE  LoopInv'
  <1> USE LoopLengths DEF Loop!Pass
  <1>1. Loop!TypeOK' BY DEF LoopInv, Loop!TypeOK
  <1>2. Metered' BY DEF LoopInv, Metered, Busy
  <1>3. Guarded'
    <2>1. condition = "guarded" => Aware' /\ Loop!AskedFirst' BY NoQuestion
    <2> QED BY <2>1 DEF Guarded
  <1>4. Counted' /\ Loop!NoFutileRepeat' BY NoEntry
  <1> QED BY <1>1, <1>2, <1>3, <1>4 DEF LoopInv

\* A guard that has one puts it instead of the call.
LEMMA QuestionKeeps ==
  ASSUME LoopInv, NEW g \in Loop!Guards, step \in Busy, Loop!Question(g), plan' = plan,
         guard' \in GuardStates, condition = "guarded" => Guarded'
  PROVE  LoopInv'
  <1> USE LoopLengths DEF Loop!Question
  <1>1. /\ asked' \in Seq(Loop!Guards \X Loop!Calls) /\ Len(asked') = Len(asked) + 1
        /\ Loop!Think \in Loop!Calls
    BY AtTheEnd, CallsAre DEF LoopInv, Loop!TypeOK
  <1>2. Len(log) + Len(asked') <= MaxCalls BY <1>1 DEF LoopInv, Metered
  <1>3. Loop!TypeOK' BY <1>1, <1>2 DEF LoopInv, Loop!TypeOK, GuardStates
  <1>4. Metered' BY <1>1 DEF LoopInv, Metered, Busy
  <1>5. Counted' /\ Loop!NoFutileRepeat' BY NoEntry
  <1>6. Guarded' BY DEF Guarded
  <1> QED BY <1>3, <1>4, <1>5, <1>6 DEF LoopInv

LEMMA WrongDateKeeps == ASSUME LoopInv, Loop!WrongDate PROVE LoopInv'
  <1> USE DEF Loop!WrongDate
  <1>1. step = "valid" /\ step \in Busy /\ UNCHANGED <<plan, guard>> /\ guard \in GuardStates
    BY DEF Busy, GuardStates, LoopInv, Loop!TypeOK
  <1>2. CASE call.date = "other"
    <2>1. Loop!Question("wrong_date") /\ "wrong_date" \in Loop!Guards BY <1>2 DEF Loop!Guards
    <2>2. condition = "guarded" => Guarded' BY <1>1, <2>1, Asks DEF Loop!Question
    <2> QED BY <1>1, <2>1, <2>2, QuestionKeeps
  <1>3. CASE call.date # "other"
    <2>1. Loop!Pass("unplanned") BY <1>3
    <2>2. Passed' BY <1>3, <2>1 DEF Passed, Loop!Pass
    <2> QED BY <1>1, <2>1, <2>2, PassKeeps
  <1> QED BY <1>2, <1>3

LEMMA UnplannedKeeps == ASSUME LoopInv, Loop!UnplannedWrite PROVE LoopInv'
  <1> USE DEF Loop!UnplannedWrite
  <1>1. step = "unplanned" /\ step \in Busy /\ guard \in GuardStates
    BY DEF Busy, GuardStates, LoopInv, Loop!TypeOK
  <1>2. CASE ~Loop!Unplanned(plan)
    <2>1. Loop!Pass("unread") /\ UNCHANGED <<plan, guard>> BY <1>2
    <2>2. condition = "guarded" => Passed'
      <3>1. ~Loop!Unplanned(plan)' BY <1>2, <2>1 DEF Loop!Unplanned, Loop!PlanSet, Loop!Pass
      <3>2. condition = "guarded" => call.date # "other"
        BY <1>1 DEF LoopInv, Guarded, Passed
      <3> QED BY <2>1, <3>1, <3>2 DEF Passed, Loop!Pass
    <2> QED BY <1>1, <2>1, <2>2, PassKeeps
  <1>3. CASE /\ Loop!Unplanned(plan) /\ guard.looked /\ ~guard.replanned
             /\ calls >= MaxCalls \/ Loop!Finish("transport")
    <2>1. Loop!Finish("transport") => step' # step BY <1>1 DEF Loop!Finish
    <2>2. \/ Loop!Finish("raised") /\ UNCHANGED <<calls, streak, verified, guard>>
          \/ Loop!Finish("transport") /\ UNCHANGED <<calls, streak, verified, guard>>
      BY <1>3, <2>1, LoopLengths
    <2> QED BY <2>2, FinishKeeps
  <1>4. CASE /\ Loop!Unplanned(plan) /\ guard.looked /\ ~guard.replanned
             /\ ~(calls >= MaxCalls \/ Loop!Finish("transport"))
    <2>0. /\ calls < MaxCalls /\ calls' = calls + 1
          /\ \E p \in Loop!Plans : plan' = IF p = <<>> THEN plan ELSE p
          /\ guard' = [guard EXCEPT !.replanned = TRUE]
          /\ UNCHANGED <<condition, step, streak, verified, world, seen, log, call, asked, end>>
      BY <1>4, LoopLengths
    <2>1. /\ guard' \in GuardStates /\ guard'.first = guard.first
          /\ guard'.looked = guard.looked /\ guard'.nudged = guard.nudged
          /\ guard'.writes = guard.writes /\ guard'.file = guard.file
      BY <1>1, <2>0 DEF GuardStates
    <2>2. plan' \in Loop!Plans /\ calls' \in 0 .. MaxCalls
      BY <2>0, LoopLengths DEF LoopInv, Loop!TypeOK
    <2>3. Loop!TypeOK' BY <2>0, <2>1, <2>2 DEF LoopInv, Loop!TypeOK, GuardStates
    <2>4. Metered' BY <1>1, <2>0, LoopLengths DEF LoopInv, Metered, Busy
    <2>5. Guarded'
      <3>1. condition = "guarded" => Aware' /\ Loop!AskedFirst' BY <2>0, <2>1, NoQuestion
      <3> QED BY <1>1, <2>0, <3>1 DEF LoopInv, Guarded, Passed
    <2>6. Counted' /\ Loop!NoFutileRepeat'
      <3>1. step' # "policy" BY <1>1, <2>0
      <3> QED BY <2>0, <3>1, NoEntry
    <2> QED BY <2>3, <2>4, <2>5, <2>6 DEF LoopInv
  <1>5. CASE Loop!Unplanned(plan) /\ ~(guard.looked /\ ~guard.replanned)
    <2>1. /\ Loop!Question("unplanned_write") /\ UNCHANGED plan
          /\ guard' = [guard EXCEPT !.writes = @ \cup {call.tool}]
      BY <1>5
    <2>2. call.tool \in Loop!Mutating /\ call.tool \notin guard.writes
      BY <1>5 DEF Loop!Unplanned, Loop!IsWrite
    <2>3. /\ guard' \in GuardStates /\ guard'.first = guard.first
          /\ guard'.looked = guard.looked /\ guard'.nudged = guard.nudged
          /\ guard'.writes = guard.writes \cup {call.tool} /\ guard'.file = guard.file
      BY <1>1, <2>1, <2>2 DEF GuardStates
    <2>4. "unplanned_write" \in Loop!Guards BY DEF Loop!Guards
    <2>5. condition = "guarded" => Guarded'
      BY <2>1, <2>2, <2>3, <2>4, Asks DEF Loop!Question
    <2> QED BY <1>1, <2>1, <2>3, <2>4, <2>5, QuestionKeeps
  <1> QED BY <1>2, <1>3, <1>4, <1>5

LEMMA UnreadKeeps == ASSUME LoopInv, Loop!UnreadFile PROVE LoopInv'
  <1> USE DEF Loop!UnreadFile
  <1>1. step = "unread" /\ step \in Busy /\ guard \in GuardStates /\ plan' = plan
    BY DEF Busy, GuardStates, LoopInv, Loop!TypeOK
  <1>2. CASE Loop!Question("unread_file") /\ ~guard.file /\ guard' = [guard EXCEPT !.file = TRUE]
    <2>1. /\ guard' \in GuardStates /\ guard'.first = guard.first
          /\ guard'.looked = guard.looked /\ guard'.nudged = guard.nudged
          /\ guard'.writes = guard.writes /\ guard'.file = TRUE
      BY <1>1, <1>2 DEF GuardStates
    <2>2. "unread_file" \in Loop!Guards BY DEF Loop!Guards
    <2>3. condition = "guarded" => Guarded' BY <1>2, <2>1, <2>2, Asks DEF Loop!Question
    <2> QED BY <1>1, <1>2, <2>1, <2>2, <2>3, QuestionKeeps
  <1>3. CASE Loop!Pass("unlooked") /\ UNCHANGED guard
    <2>1. condition = "guarded" => Passed'
      <3>1. Loop!Unplanned(plan)' <=> Loop!Unplanned(plan)
        BY <1>1, <1>3 DEF Loop!Unplanned, Loop!PlanSet, Loop!Pass
      <3> QED BY <1>1, <1>3, <3>1 DEF LoopInv, Guarded, Passed, Loop!Pass
    <2> QED BY <1>1, <1>3, <2>1, PassKeeps
  <1> QED BY <1>2, <1>3

LEMMA UnlookedKeeps == ASSUME LoopInv, Loop!ReadBeforeWrite PROVE LoopInv'
  <1> USE DEF Loop!ReadBeforeWrite
  <1>1. step = "unlooked" /\ step \in Busy /\ guard \in GuardStates /\ plan' = plan
    BY DEF Busy, GuardStates, LoopInv, Loop!TypeOK
  <1>2. CASE /\ Loop!Question("read_before_write") /\ ~guard.nudged
             /\ guard' = [guard EXCEPT !.nudged = TRUE]
    <2>1. /\ guard' \in GuardStates /\ guard'.first = guard.first
          /\ guard'.looked = guard.looked /\ guard'.nudged = TRUE
          /\ guard'.writes = guard.writes /\ guard'.file = guard.file
      BY <1>1, <1>2 DEF GuardStates
    <2>2. "read_before_write" \in Loop!Guards BY DEF Loop!Guards
    <2>3. condition = "guarded" => Guarded' BY <1>2, <2>1, <2>2, Asks DEF Loop!Question
    <2> QED BY <1>1, <1>2, <2>1, <2>2, <2>3, QuestionKeeps
  <1>3. CASE /\ Loop!Pass("repeat") /\ UNCHANGED guard
             /\ ~(guard.first /\ ~guard.looked /\ ~guard.nudged /\ Loop!IsWrite(call))
    <2>1. condition = "guarded" => Passed'
      <3>1. Loop!Unplanned(plan)' <=> Loop!Unplanned(plan)
        BY <1>1, <1>3 DEF Loop!Unplanned, Loop!PlanSet, Loop!Pass
      <3>2. Loop!IsWrite(call)' <=> Loop!IsWrite(call) BY <1>3 DEF Loop!IsWrite, Loop!Pass
      <3> QED BY <1>1, <1>3, <3>1, <3>2 DEF LoopInv, Guarded, Passed, Loop!Pass
    <2> QED BY <1>1, <1>3, <2>1, PassKeeps
  <1> QED BY <1>2, <1>3

LEMMA RepeatKeeps == ASSUME LoopInv, Loop!Repeat PROVE LoopInv'
  <1> USE LoopLengths DEF Loop!Repeat
  <1>1. /\ step' \in {"top", "policy"} /\ call' \in Loop!Calls
        /\ step' = "policy"
           => /\ call' = call
              /\ call = Loop!Think \/ ~(Loop!Repeats(call) >= Loop!Limit(call))
    BY CallsAre DEF LoopInv, Loop!TypeOK
  <1>2. Loop!TypeOK' BY <1>1 DEF LoopInv, Loop!TypeOK
  <1>3. Metered' BY <1>1 DEF LoopInv, Metered, Busy
  <1>4. Guarded'
    <2>1. condition = "guarded" => Aware' /\ Loop!AskedFirst' BY NoQuestion
    <2>2. condition = "guarded" => Passed'
      <3> SUFFICES ASSUME condition = "guarded", step' = "policy" PROVE Passed'
        BY <1>1 DEF Passed
      <3>1. Loop!Unplanned(plan)' <=> Loop!Unplanned(plan)
        BY <1>1 DEF Loop!Unplanned, Loop!PlanSet
      <3>2. Loop!IsWrite(call)' <=> Loop!IsWrite(call) BY <1>1 DEF Loop!IsWrite
      <3> QED BY <1>1, <3>1, <3>2 DEF LoopInv, Guarded, Passed
    <2> QED BY <2>1, <2>2 DEF Guarded
  <1>5. Loop!Repeats(call) \in Nat /\ Loop!Limit(call) \in Nat
    BY LoopAssumption DEF LoopInv, Loop!TypeOK, Loop!Repeats, Loop!Limit
  <1>6. Counted' /\ Loop!NoFutileRepeat' BY <1>1, <1>5, NoEntry
  <1> QED BY <1>2, <1>3, <1>4, <1>6 DEF LoopInv

\* What is executed, or refused, in a guarded run has passed the guards.
LEMMA ExecuteGuarded ==
  ASSUME LoopInv, NEW ok \in BOOLEAN, NEW yes \in BOOLEAN, NEW named, step = "policy",
         Loop!Record(ok, yes), Loop!Learn(ok, named), named => call = Loop!Look
  PROVE  Guarded'
  <1> SUFFICES ASSUME condition = "guarded" PROVE Guarded'
    BY DEF Guarded, Loop!Record
  <1> DEFINE inPlan == plan = <<>> \/ call.tool \in Loop!PlanSet(plan)
             e == [call |-> call, ok |-> ok, confirmed |-> yes, planned |-> inPlan]
             n == Len(log) + 1
  <1>0. inPlan \in BOOLEAN /\ (~inPlan => plan # <<>> /\ call.tool \notin Loop!PlanSet(plan))
    OBVIOUS
  <1>9. log' = Append(log, e) BY DEF Loop!Record
  <1> HIDE DEF inPlan
  <1>1. Passed /\ Aware /\ Loop!AskedFirst /\ call \in Loop!Calls /\ guard \in GuardStates
    BY DEF LoopInv, Guarded, Loop!TypeOK, GuardStates
  <1>2. /\ log' = Append(log, e) /\ step' = "top" /\ UNCHANGED <<condition, plan, asked>>
        /\ e \in Loop!Entries
    BY <1>0, <1>9, <1>1 DEF Loop!Record, Loop!Entries
  <1>3. /\ DOMAIN log' = 1 .. n /\ DOMAIN log = 1 .. Len(log) /\ Len(log) \in Nat
        /\ \A i \in 1 .. Len(log) : log'[i] = log[i]
        /\ log'[n] = e
    BY <1>2, AtTheEnd DEF LoopInv, Loop!TypeOK
  <1>4. /\ guard'.first = guard.first /\ guard'.nudged = guard.nudged
        /\ guard'.writes = guard.writes /\ guard'.file = guard.file
        /\ guard'.looked <=> guard.looked \/ (ok /\ call \in {Loop!Look, Loop!Open})
    BY <1>1 DEF Loop!Learn, GuardStates
  <1>5. Passed' BY <1>2 DEF Passed
  <1>6. \A q, t : Loop!Questioned(q, t)' <=> Loop!Questioned(q, t)
    BY <1>2 DEF Loop!Questioned
  <1>7. Aware'
    <2>1. guard'.looked => \E i \in DOMAIN log' :
                             log'[i].ok /\ log'[i].call \in {Loop!Look, Loop!Open}
      <3>1. CASE guard.looked BY <1>1, <1>3, <3>1 DEF Aware
      <3>2. CASE ok /\ call \in {Loop!Look, Loop!Open} BY <1>3, <3>2
      <3> QED BY <1>4, <3>1, <3>2
    <2> QED BY <1>1, <1>2, <1>4, <1>6, <2>1 DEF Aware
  <1>8. Loop!AskedFirst'
    <2>1. ASSUME NEW m \in DOMAIN log'
          PROVE  /\ log'[m].call.date # "other"
                 /\ Loop!IsWrite(log[m].call)' /\ ~log'[m].planned
                    => Loop!Questioned("unplanned_write", log[m].call.tool)'
                 /\ Loop!IsWrite(log[m].call)' /\ guard'.first /\ Loop!Reads(m)' = {}
                    => \E i \in DOMAIN asked' : asked'[i][1] = "read_before_write"
      <3>1. CASE m # n
        <4>1. m \in DOMAIN log /\ log'[m] = log[m] BY <1>3, <2>1, <3>1
        <4>2. Loop!IsWrite(log[m].call)' <=> Loop!IsWrite(log[m].call) BY <4>1 DEF Loop!IsWrite
        <4>3. Loop!Questioned("unplanned_write", log[m].call.tool)'
                <=> Loop!Questioned("unplanned_write", log[m].call.tool)
          BY <4>1, <1>2 DEF Loop!Questioned
        <4>4. Loop!Reads(m)' = Loop!Reads(m) BY <1>3, <4>1 DEF Loop!Reads
        <4> QED BY <1>1, <1>2, <1>4, <4>1, <4>2, <4>3, <4>4 DEF Loop!AskedFirst
      <3>2. CASE m = n
        <4>1. log'[m].call = call /\ (log'[m].planned <=> inPlan) BY <1>3, <3>2
        <4>2. Loop!IsWrite(log[m].call)' <=> Loop!IsWrite(call) BY <4>1 DEF Loop!IsWrite
        <4>3. Loop!Questioned("unplanned_write", log[m].call.tool)'
                <=> Loop!Questioned("unplanned_write", call.tool)
          BY <4>1, <1>2 DEF Loop!Questioned
        <4>4. call.date # "other" BY <1>1 DEF Passed
        <4>5. ASSUME Loop!IsWrite(call), ~log'[m].planned
              PROVE  Loop!Questioned("unplanned_write", call.tool)
          <5>1. Loop!PlanSet(plan) # {}
            BY <1>0, <4>1, <4>5, PlansAre DEF LoopInv, Loop!TypeOK
          <5>2. call.tool \in guard.writes
            BY <1>0, <1>1, <4>1, <4>5, <5>1 DEF Passed, Loop!Unplanned
          <5> QED BY <1>1, <5>2 DEF Aware
        <4>6. ASSUME Loop!IsWrite(call), guard'.first, Loop!Reads(m)' = {}
              PROVE  \E i \in DOMAIN asked' : asked'[i][1] = "read_before_write"
          <5>1. guard.looked \/ guard.nudged BY <1>1, <1>4, <4>6 DEF Passed
          <5>2. ~guard.looked
            <6> SUFFICES ASSUME guard.looked PROVE FALSE
              OBVIOUS
            <6>1. PICK i \in DOMAIN log : log[i].ok /\ log[i].call \in {Loop!Look, Loop!Open}
              BY <1>1 DEF Aware
            <6>2. i \in Loop!Reads(m)' BY <1>3, <3>2, <6>1 DEF Loop!Reads
            <6> QED BY <4>6, <6>2
          <5> QED BY <1>1, <1>2, <5>1, <5>2 DEF Aware
        <4> QED BY <4>1, <4>2, <4>3, <4>4, <4>5, <4>6
      <3> QED BY <3>1, <3>2
    <2>2. \A i, j \in DOMAIN asked' :
            asked'[i][1] = asked'[j][1] /\ asked'[i][1] # "wrong_date"
              /\ asked'[i][2].tool = asked'[j][2].tool => i = j
      BY <1>1, <1>2 DEF Loop!AskedFirst
    <2> QED BY <2>1, <2>2 DEF Loop!AskedFirst
  <1> QED BY <1>5, <1>7, <1>8 DEF Guarded

\* What Copies counts.
LEMMA CopiesAre ==
  /\ \A j \in Nat : Loop!Copies(j) = Copied(log, j)
  /\ \A j \in Nat : Loop!Copies(j)' = Copied(log', j)
  BY DEF Loop!Copies, Loop!Still, Copied, Unmoved, MovesOn, Loop!IsWrite

\* What is counted of an entry depends on the entries up to it.
LEMMA CopiedAre ==
  ASSUME NEW s, NEW t, NEW j \in Nat, \A i \in 1 .. j : s[i] = t[i]
  PROVE  Copied(s, j) = Copied(t, j)
  <1>1. CASE j = 0 BY <1>1 DEF Copied
  <1>2. CASE j # 0
    <2>1. \A c : \A i \in 1 .. j : Unmoved(s, c, i, j) <=> Unmoved(t, c, i, j) BY DEF Unmoved
    <2>2. s[j] = t[j] BY <1>2
    <2> QED BY <2>1, <2>2 DEF Copied
  <1> QED BY <1>1, <1>2

LEMMA CopiedFinite ==
  ASSUME NEW s, NEW j \in Nat
  PROVE  IsFiniteSet(Copied(s, j)) /\ Cardinality(Copied(s, j)) \in Nat
  <1>1. Copied(s, j) \in SUBSET (1 .. j) BY DEF Copied
  <1>2. IsFiniteSet(1 .. j) BY FS_Interval
  <1> QED BY <1>1, <1>2, FS_Subset, FS_CardinalityType

\* A new entry counts the copies before it, as the books have them.
LEMMA NewCopies ==
  ASSUME LoopInv, condition # "raw", NEW n, n = Len(log), NEW c \in Loop!Calls,
         NEW s, \A i \in 1 .. n : s[i] = log[i], s[n + 1].call = c
  PROVE  /\ Cardinality(Copied(s, n + 1)) = Loop!Repeats(c) + 1
         /\ \A i \in Copied(s, n + 1) \ {n + 1} :
              /\ i \in 1 .. n /\ Loop!Repeats(c) >= 1
              /\ c # Loop!Think => log[i].ok \/ ~seen[c].ok
  <1> DEFINE C == Copied(s, n + 1)
             B == {i \in 1 .. n : log[i].call = c /\ Unmoved(log, c, i, n + 1)}
  <1>1. n \in Nat BY LoopLengths
  <1>2. C = B \cup {n + 1} /\ n + 1 \notin B
    <2>1. \A i \in 1 .. n + 1 : Unmoved(s, c, i, n + 1) <=> Unmoved(log, c, i, n + 1)
      BY <1>1 DEF Unmoved
    <2>2. Unmoved(s, c, n + 1, n + 1) BY <1>1 DEF Unmoved
    <2>3. C = {i \in 1 .. n + 1 : s[i].call = c /\ Unmoved(s, c, i, n + 1)} BY DEF Copied
    <2>4. \A i : i \in 1 .. n + 1 <=> i \in 1 .. n \/ i = n + 1 BY <1>1
    <2>5. n + 1 \notin 1 .. n BY <1>1
    <2> QED BY <2>1, <2>2, <2>3, <2>4, <2>5
  <1> HIDE DEF C
  <1>6. Books BY DEF LoopInv, Counted
  <1>7. CASE ~seen[c].yet
    <2>1. \A i \in 1 .. n : log[i].call # c BY <1>6, <1>7 DEF Books
    <2>2. B = {} BY <2>1
    <2>3. C = {n + 1} BY <1>2, <2>2
    <2>4. Cardinality(C) = 1 BY <2>3, FS_Singleton
    <2> QED BY <1>2, <1>7, <2>2, <2>4 DEF Loop!Repeats, C
  <1>8. CASE seen[c].yet
    <2>1. PICK j \in 1 .. n :
            /\ log[j].call = c /\ \A k \in j + 1 .. n : log[k].call # c
            /\ seen[c].repeats = Cardinality(Copied(log, j)) /\ (seen[c].ok <=> log[j].ok)
            /\ seen[c].version = world <=> Unmoved(log, c, j, n + 1)
      BY <1>6, <1>8 DEF Books
    <2>2. Copied(log, j) = {i \in 1 .. j : log[i].call = c /\ Unmoved(log, c, i, j)}
      BY <2>1 DEF Copied
    <2>3. \A i \in 1 .. j : log[i].call = c =>
            (Unmoved(log, c, i, n + 1) <=> Unmoved(log, c, i, j) /\ Unmoved(log, c, j, n + 1))
      BY <1>1, <2>1 DEF Unmoved, MovesOn
    <2>4. IsFiniteSet(Copied(log, j)) /\ Cardinality(Copied(log, j)) \in Nat
      BY <1>1, CopiedFinite
    <2>5. CASE seen[c].version = world
      <3>1. B = Copied(log, j)
        <4>1. \A i \in 1 .. n : log[i].call = c => i \in 1 .. j BY <1>1, <2>1
        <4>2. \A i \in 1 .. j : i \in 1 .. n BY <1>1
        <4> QED BY <2>1, <2>2, <2>3, <2>5, <4>1, <4>2
      <3>2. Cardinality(C) = Cardinality(Copied(log, j)) + 1
        BY <1>2, <2>4, <3>1, FS_AddElement
      <3>3. Loop!Repeats(c) = Cardinality(Copied(log, j)) BY <1>8, <2>1, <2>5 DEF Loop!Repeats
      <3>4. j \in Copied(log, j) BY <1>1, <2>1, <2>2 DEF Unmoved
      <3>5. Cardinality(Copied(log, j)) >= 1 BY <2>4, <3>4, FS_EmptySet
      <3>6. \A i \in Copied(log, j) \ {j} : log[i].ok \/ c = Loop!Think
        <4>1. j \in DOMAIN log /\ Loop!Copies(j) = Copied(log, j)
          BY <1>1, LoopLengths, CopiesAre
        <4> QED BY <2>1, <4>1 DEF LoopInv, Loop!NoFutileRepeat
      <3>7. \A i \in C \ {n + 1} : i \in 1 .. n /\ (c # Loop!Think => log[i].ok \/ ~seen[c].ok)
        BY <1>2, <2>1, <3>1, <3>6
      <3> QED BY <3>2, <3>3, <3>5, <3>7 DEF C
    <2>6. CASE seen[c].version # world
      <3>1. B = {}
        <4>1. \A i \in 1 .. n : log[i].call = c => i \in 1 .. j BY <1>1, <2>1
        <4> QED BY <2>1, <2>3, <2>6, <4>1
      <3>2. C = {n + 1} BY <1>2, <3>1
      <3>3. Cardinality(C) = 1 BY <3>2, FS_Singleton
      <3> QED BY <1>2, <1>8, <2>6, <3>1, <3>3 DEF Loop!Repeats, C
    <2> QED BY <2>5, <2>6
  <1> QED BY <1>7, <1>8
\* An entry keeps the books, and is no futile repeat.
LEMMA ExecuteCounted ==
  ASSUME LoopInv, NEW ok \in BOOLEAN, NEW yes \in BOOLEAN, step = "policy", condition # "raw",
         Loop!Record(ok, yes)
  PROVE  Counted' /\ Loop!NoFutileRepeat'
  <1> SUFFICES ASSUME NEW n, n = Len(log), NEW c, c = call PROVE Counted' /\ Loop!NoFutileRepeat'
    OBVIOUS
  <1>1. /\ n \in Nat /\ Len(log') = n + 1 /\ \A i \in 1 .. n : log'[i] = log[i]
        /\ log'[n + 1].call = c /\ (log'[n + 1].ok <=> ok)
        /\ DOMAIN log' = 1 .. n + 1 /\ DOMAIN log = 1 .. n
    <2> DEFINE inPlan == plan = <<>> \/ call.tool \in Loop!PlanSet(plan)
               e == [call |-> call, ok |-> ok, confirmed |-> yes, planned |-> inPlan]
    <2>1. inPlan \in BOOLEAN OBVIOUS
    <2>2. log' = Append(log, e) BY DEF Loop!Record
    <2> HIDE DEF inPlan
    <2>3. e \in Loop!Entries BY <2>1 DEF LoopInv, Loop!TypeOK, Loop!Entries
    <2> QED BY <2>2, <2>3, AtTheEnd DEF LoopInv, Loop!TypeOK
  <1>2. c \in Loop!Calls /\ Books /\ Metered /\ world \in Nat
    BY LoopLengths DEF LoopInv, Loop!TypeOK, Counted
  <1>3. /\ world' = IF ok /\ Loop!IsWrite(c) THEN world + 1 ELSE world
        /\ seen'[c].yet /\ seen'[c].version = world' /\ (seen'[c].ok <=> ok)
        /\ seen'[c].repeats = Loop!Repeats(c) + 1
        /\ \A d \in Loop!Calls \ {c} : seen'[d] = seen[d]
        /\ condition' = condition /\ step' = "top"
    BY <1>2 DEF Loop!Record, LoopInv, Loop!TypeOK
  <1>4. /\ Cardinality(Copied(log', n + 1)) = Loop!Repeats(c) + 1
        /\ \A i \in Copied(log', n + 1) \ {n + 1} :
             /\ i \in 1 .. n /\ Loop!Repeats(c) >= 1
             /\ c # Loop!Think => log[i].ok \/ ~seen[c].ok
    BY <1>1, <1>2, NewCopies
  <1>5. \A j \in 1 .. n : Copied(log', j) = Copied(log, j)
    <2> SUFFICES ASSUME NEW j \in 1 .. n PROVE Copied(log', j) = Copied(log, j)
      OBVIOUS
    <2>1. j \in Nat /\ \A i \in 1 .. j : log'[i] = log[i] BY <1>1
    <2> QED BY <2>1, CopiedAre
  <1>6. Books'
    <2> SUFFICES ASSUME NEW d \in Loop!Calls
                 PROVE  IF seen'[d].yet
                          THEN \E j \in 1 .. n + 1 :
                                 /\ log'[j].call = d /\ \A k \in j + 1 .. n + 1 : log'[k].call # d
                                 /\ seen'[d].repeats = Cardinality(Copied(log', j))
                                 /\ (seen'[d].ok <=> log'[j].ok)
                                 /\ seen'[d].version = world' <=> Unmoved(log', d, j, n + 1 + 1)
                          ELSE \A j \in 1 .. n + 1 : log'[j].call # d
      BY <1>1 DEF Books
    <2>1. CASE d = c
      <3>1. Unmoved(log', d, n + 1, n + 1 + 1) /\ \A k \in n + 1 + 1 .. n + 1 : log'[k].call # d
        BY <1>1 DEF Unmoved
      <3> QED BY <1>1, <1>3, <1>4, <2>1, <3>1
    <2>2. CASE d # c /\ ~seen[d].yet BY <1>1, <1>2, <1>3, <2>2 DEF Books
    <2>3. CASE d # c /\ seen[d].yet
      <3>1. PICK j \in 1 .. n :
              /\ log[j].call = d /\ \A k \in j + 1 .. n : log[k].call # d
              /\ seen[d].repeats = Cardinality(Copied(log, j)) /\ (seen[d].ok <=> log[j].ok)
              /\ seen[d].version = world <=> Unmoved(log, d, j, n + 1)
        BY <1>2, <2>3 DEF Books
      <3>2. \A k \in j + 1 .. n + 1 : log'[k].call # d BY <1>1, <2>3, <3>1
      <3>3. Unmoved(log', d, j, n + 1 + 1)
              <=> Unmoved(log, d, j, n + 1) /\ ~(ok /\ Loop!IsWrite(c))
        <4>1. MovesOn(log'[n + 1], d) <=> ok /\ Loop!IsWrite(c) BY <1>1, <2>3 DEF MovesOn
        <4>2. \A k : k \in j + 1 .. n + 1 + 1 - 1 <=> k \in j + 1 .. n + 1 - 1 \/ k = n + 1
          BY <1>1
        <4>3. \A k \in j + 1 .. n + 1 - 1 : log'[k] = log[k] BY <1>1
        <4> QED BY <4>1, <4>2, <4>3 DEF Unmoved
      <3>4. seen[d].version \in Nat /\ seen[d].version <= world
        BY <1>2, LoopAssumption DEF Metered, LoopInv, Loop!TypeOK
      <3>5. seen'[d].version = world' <=> Unmoved(log', d, j, n + 1 + 1)
        BY <1>2, <1>3, <2>3, <3>1, <3>3, <3>4
      <3>6. j \in 1 .. n + 1 /\ log'[j] = log[j] BY <1>1
      <3> QED BY <1>3, <1>5, <2>3, <3>1, <3>2, <3>5, <3>6
    <2> QED BY <2>1, <2>2, <2>3
  <1>7. Loop!NoFutileRepeat'
    <2> SUFFICES ASSUME NEW j \in 1 .. n + 1, log'[j].call # Loop!Think
                 PROVE  /\ Cardinality(Copied(log', j)) <= Loop!Allowed(log'[j].call)
                        /\ \A i \in Copied(log', j) \ {j} : log'[i].ok
      <3>1. \A j \in 1 .. n + 1 : Loop!Copies(j)' = Copied(log', j) BY <1>1, CopiesAre
      <3> QED BY <1>1, <3>1, CountsAre DEF Loop!NoFutileRepeat, Loop!Allowed, Loop!IsWrite
    <2>1. CASE j # n + 1
      <3>1. j \in 1 .. n /\ log'[j] = log[j] BY <1>1, <2>1
      <3>2. Loop!Copies(j) = Copied(log, j) /\ Copied(log', j) = Copied(log, j)
        BY <1>1, <1>5, <3>1, CopiesAre
      <3>3. \A i \in Copied(log', j) : log'[i] = log[i] BY <1>1, <3>1 DEF Copied
      <3> QED BY <1>1, <3>1, <3>2, <3>3, CountsAre DEF LoopInv, Loop!NoFutileRepeat
    <2>2. CASE j = n + 1
      <3>1. Loop!Repeats(c) < Loop!Limit(c) BY <1>1, <2>2 DEF LoopInv, Counted
      <3>2. Loop!Repeats(c) \in Nat
        BY <1>2, LoopAssumption DEF LoopInv, Loop!TypeOK, Loop!Repeats
      <3>3. /\ Loop!Limit(c) <= Loop!Allowed(c) /\ Loop!Limit(c) \in Nat
            /\ Loop!Allowed(c) \in Nat /\ (~seen[c].ok => Loop!Limit(c) = 1)
        BY LoopAssumption DEF Loop!Limit, Loop!Allowed
      <3> QED BY <1>1, <1>4, <2>2, <3>1, <3>2, <3>3
    <2> QED BY <2>1, <2>2
  <1>8. Counted' BY <1>3, <1>6 DEF Counted
  <1> QED BY <1>7, <1>8

LEMMA ExecuteKeeps == ASSUME LoopInv, Loop!Execute PROVE LoopInv'
  <1>1. PICK ok \in BOOLEAN, yes \in BOOLEAN, named \in BOOLEAN :
          Loop!Record(ok, yes) /\ Loop!Learn(ok, named) /\ (named => call = Loop!Look)
    <2>1. CASE Loop!Record(FALSE, FALSE) /\ Loop!Learn(FALSE, FALSE) BY <2>1
    <2>2. CASE \E ok, named \in BOOLEAN :
                 /\ named => call = Loop!Look
                 /\ Loop!Record(ok, call.tool \in Loop!Outside) /\ Loop!Learn(ok, named)
      <3>1. (call.tool \in Loop!Outside) \in BOOLEAN OBVIOUS
      <3> QED BY <2>2, <3>1, Zenon
    <2> QED BY <2>1, <2>2 DEF Loop!Execute
  <1>2. step = "policy" /\ call \in Loop!Calls BY DEF Loop!Execute, LoopInv, Loop!TypeOK
  <1>3. /\ log' \in Seq(Loop!Entries) /\ Len(log') = Len(log) + 1
    <2> DEFINE inPlan == plan = <<>> \/ call.tool \in Loop!PlanSet(plan)
               e == [call |-> call, ok |-> ok, confirmed |-> yes, planned |-> inPlan]
    <2>1. inPlan \in BOOLEAN OBVIOUS
    <2>2. log' = Append(log, e) BY <1>1 DEF Loop!Record
    <2> HIDE DEF inPlan
    <2>3. e \in Loop!Entries BY <1>2, <2>1 DEF Loop!Entries
    <2> QED BY <2>2, <2>3, AtTheEnd DEF LoopInv, Loop!TypeOK
  <1>4. Len(log) + Len(asked) + 1 <= calls BY <1>2 DEF LoopInv, Metered, Busy
  <1>5. /\ world' \in Nat /\ world' <= Len(log') /\ world <= world' /\ step' = "top"
        /\ UNCHANGED <<condition, calls, plan, verified, asked, end>>
        /\ streak' = 0 /\ call' = Loop!Think
    BY <1>1, <1>3, LoopLengths DEF Loop!Record, LoopInv, Metered
  <1>6. \A c \in Loop!Calls :
          /\ seen'[c] \in [version : Nat, repeats : Nat, ok : BOOLEAN, yet : BOOLEAN]
          /\ seen'[c].repeats <= Len(log') /\ seen'[c].version <= world'
    <2> SUFFICES ASSUME NEW c \in Loop!Calls
                 PROVE  /\ seen'[c] \in [version : Nat, repeats : Nat, ok : BOOLEAN, yet : BOOLEAN]
                        /\ seen'[c].repeats <= Len(log') /\ seen'[c].version <= world'
      OBVIOUS
    <2>1. /\ seen[c] \in [version : Nat, repeats : Nat, ok : BOOLEAN, yet : BOOLEAN]
          /\ seen[c].repeats <= Len(log) /\ seen[c].version <= world
      BY LoopAssumption DEF LoopInv, Loop!TypeOK, Metered
    <2>2. CASE seen'[c] = seen[c] BY <1>3, <1>5, <2>1, <2>2, LoopLengths
    <2>3. CASE c = call /\ seen'[c] = [version |-> world', repeats |-> Loop!Repeats(call) + 1,
                                       ok |-> ok, yet |-> TRUE]
      <3>1. Loop!Repeats(c) \in Nat /\ Loop!Repeats(c) <= Len(log)
        BY <2>1, LoopLengths DEF Loop!Repeats
      <3> QED BY <1>3, <1>5, <2>3, <3>1, LoopLengths
    <2>4. seen'[c] = seen[c] \/ (c = call /\ seen'[c] =
            [version |-> world', repeats |-> Loop!Repeats(call) + 1, ok |-> ok, yet |-> TRUE])
      BY <1>1 DEF Loop!Record, LoopInv, Loop!TypeOK
    <2> QED BY <2>2, <2>3, <2>4
  <1>7. Loop!TypeOK'
    <2>1. guard' \in GuardStates
      <3>1. guard \in GuardStates BY DEF LoopInv, Loop!TypeOK, GuardStates
      <3> QED BY <1>1, <3>1 DEF Loop!Learn, GuardStates
    <2>2. seen' \in [Loop!Calls -> [version : 0 .. MaxCalls, repeats : 0 .. MaxCalls,
                                    ok : BOOLEAN, yet : BOOLEAN]]
      <3>1. DOMAIN seen' = Loop!Calls /\ seen' = [c \in Loop!Calls |-> seen'[c]]
        BY <1>1 DEF Loop!Record, LoopInv, Loop!TypeOK
      <3>2. \A c \in Loop!Calls :
              seen'[c] \in [version : 0 .. MaxCalls, repeats : 0 .. MaxCalls,
                            ok : BOOLEAN, yet : BOOLEAN]
        BY <1>3, <1>4, <1>5, <1>6, LoopLengths
      <3> QED BY <3>1, <3>2
    <2>3. world' \in 0 .. MaxCalls /\ Len(log') + Len(asked') <= MaxCalls
      BY <1>3, <1>4, <1>5, LoopLengths
    <2>4. Loop!Think \in Loop!Calls /\ 0 \in 0 .. MaxCalls BY CallsAre, LoopAssumption
    <2> QED BY <1>3, <1>5, <2>1, <2>2, <2>3, <2>4 DEF LoopInv, Loop!TypeOK, GuardStates
  <1>8. Metered' BY <1>3, <1>4, <1>5, <1>6, LoopLengths DEF Metered, Busy
  <1>9. Guarded' BY <1>1, <1>2, ExecuteGuarded
  <1>10. Counted' /\ Loop!NoFutileRepeat'
    <2>1. CASE condition = "raw" BY <1>5, <2>1 DEF Counted, Loop!NoFutileRepeat
    <2>2. CASE condition # "raw" BY <1>1, <1>2, <2>2, ExecuteCounted
    <2> QED BY <2>1, <2>2
  <1> QED BY <1>7, <1>8, <1>9, <1>10 DEF LoopInv

\* The invariant of the agent's loop is inductive.
LEMMA LoopStep == LoopInv /\ [Loop!Next]_(Loop!vars) => LoopInv'
  <1> SUFFICES ASSUME LoopInv, [Loop!Next]_(Loop!vars) PROVE LoopInv'
    OBVIOUS
  <1>1. CASE UNCHANGED Loop!vars
    <2> USE <1>1 DEF Loop!vars
    <2>1. Loop!TypeOK' /\ Metered' BY DEF LoopInv, Loop!TypeOK, Metered
    <2>2. Guarded'
      <3>1. condition = "guarded" => Aware' /\ Loop!AskedFirst' BY NoQuestion
      <3>2. Passed' <=> Passed BY DEF Passed, Loop!Unplanned, Loop!PlanSet, Loop!IsWrite
      <3> QED BY <3>1, <3>2 DEF LoopInv, Guarded
    <2>3. Counted' /\ Loop!NoFutileRepeat'
      <3>1. step' = "policy" /\ condition # "raw"
            => call' = Loop!Think \/ Loop!Repeats(call') < Loop!Limit(call')
        BY DEF LoopInv, Counted
      <3> QED BY <3>1, NoEntry
    <2> QED BY <2>1, <2>2, <2>3 DEF LoopInv
  <1>2. CASE Loop!Transport BY <1>2, FinishKeeps DEF Loop!Transport
  <1>3. CASE Loop!Leave
    <2>1. Loop!Finish("budget") \/ Loop!Finish("stuck") BY <1>3 DEF Loop!Leave
    <2> QED BY <1>3, <2>1, FinishKeeps DEF Loop!Leave
  <1> QED BY <1>1, <1>2, <1>3, MakePlanKeeps, DriveKeeps, VerifyKeeps, DoneKeeps, WrongDateKeeps,
             UnplannedKeeps, UnreadKeeps, UnlookedKeeps, RepeatKeeps, ExecuteKeeps DEF Loop!Next

LEMMA LoopStarts == Loop!Init => LoopInv
  <1> SUFFICES ASSUME Loop!Init PROVE LoopInv
    OBVIOUS
  <1> USE DEF Loop!Init
  <1>1. Len(log) = 0 /\ Len(asked) = 0 /\ DOMAIN log = {} /\ DOMAIN asked = {}
    BY EmptySeq
  <1>2. Loop!TypeOK
    BY <1>1, CallsAre, LoopAssumption, EmptySeq
       DEF Loop!TypeOK, Loop!NotSeen, Loop!Plans, Loop!Conditions
  <1>3. Metered BY <1>1 DEF Metered, Busy, Loop!NotSeen
  <1>4. Guarded BY <1>1 DEF Guarded, Passed, Aware, Loop!AskedFirst
  <1>5. Counted /\ Loop!NoFutileRepeat
    BY <1>1 DEF Counted, Books, Loop!NotSeen, Loop!NoFutileRepeat
  <1> QED BY <1>2, <1>3, <1>4, <1>5 DEF LoopInv

\* What the loop's invariant gives at every point of every run of the agent: its
\* types and its budget, the books of the repeat rule, and what the guards know.
THEOREM LoopInvariance == Loop!Spec => []LoopInv
  <1>1. Loop!Spec <=> Loop!Init /\ [][Loop!Next]_(Loop!vars) BY DEF Loop!Spec
  <1> QED BY <1>1, LoopStarts, LoopStep, PTL

-----------------------------------------------------------------------------
(* The directory of a run: run.lock makes the steps from the look at run.json to the
   attempts directory one section, so its document is written once; whoever looked
   outside the lock saw a document that was whole, and so stays. *)

Holding(p) == pc[p] \in {"read", "write", "flush", "attempts", "enter", "rescan", "restat",
                        "rebuild", "replace"}

\* run.lock does its work: whoever is inside is the one who holds it.
DirExclusive == \A p \in Callers : Holding(p) => holder = p

\* What is made in the directory comes after it and after run.lock.
Founded ==
  /\ run # None => there /\ lockfile
  /\ \A p \in Callers : /\ pc[p] = "lock" => there
                        /\ Holding(p) => there /\ lockfile

\* Whoever is at work has a document; what a creator under the lock knows of run.json.
Creating ==
  \A p \in Callers :
    /\ pc[p] # "out" => doc[p] \in Metadata
    /\ pc[p] = "write" => run = None
    /\ pc[p] = "flush" => run = Torn
    /\ pc[p] = "attempts" => run = doc[p]

Documented == attempts \/ results \/ temp => run \in Metadata

OpenedWhole == \A p \in Callers : Dir!Opened(p) => Dir!Whole(p)

Undisturbed == \A p \in Callers : pc[p] = "restat" => ~Dir!Vanished(p)

DirInv == Dir!TypeOK /\ DirExclusive /\ Founded /\ Creating /\ Documented /\ OpenedWhole
  /\ Undisturbed

\* The inductive invariant holds at first.
LEMMA DirStarts == ASSUME Dir!DirectoryAssumption, Dir!Init PROVE DirInv
  BY
  DEF Dir!DirectoryAssumption, Dir!Init, DirInv, Dir!TypeOK, DirExclusive, Founded, Creating,
      Documented, OpenedWhole, Undisturbed, Holding, Dir!Opened, Dir!Whole, Dir!Vanished

\* A caller that raises, is refused or dies leaves everything as it should be.
LEMMA DirLeaves ==
  ASSUME Dir!DirectoryAssumption, DirInv, NEW p \in Callers, Dir!Leave(p)
  PROVE  DirInv'
  <1> USE DEF Dir!DirectoryAssumption, Dir!Leave, Dir!files, Dir!Goto, DirInv, Dir!TypeOK
  <1>1. Dir!TypeOK' OBVIOUS
  <1>2. DirExclusive' BY DEF DirExclusive, Holding
  <1>3. Founded' BY DEF DirExclusive, Founded, Holding
  <1>4. Creating' BY DEF DirExclusive, Creating, Holding, Documented
  <1>5. Documented' BY DEF Documented, Creating, OpenedWhole, Dir!Opened, Dir!Whole
  <1>6. OpenedWhole' BY DEF DirExclusive, Holding, Creating, Founded, OpenedWhole, Dir!Opened,
                        Dir!Whole
  <1>7. Undisturbed' BY DEF DirExclusive, Holding, Undisturbed, Dir!Vanished
  <1> QED BY <1>1, <1>2, <1>3, <1>4, <1>5, <1>6, <1>7

\* Every step of a caller keeps the invariant.
LEMMA DirSteps ==
  ASSUME Dir!DirectoryAssumption, DirInv, NEW p \in Callers, Dir!Step(p)
  PROVE  DirInv'
  <1> USE DEF Dir!DirectoryAssumption, DirInv, Dir!TypeOK, Dir!files, Dir!Goto
  <1>1. ASSUME Dir!Create(p) PROVE DirInv'
    <2>1. Dir!TypeOK' BY <1>1 DEF Dir!Create
    <2>2. DirExclusive' BY <1>1 DEF Dir!Create, DirExclusive, Holding
    <2>3. Founded' BY <1>1 DEF Dir!Create, Founded, DirExclusive, Holding
    <2>4. Creating' BY <1>1 DEF Dir!Create, Creating, DirExclusive, Holding, Documented
    <2>5. Documented' BY <1>1 DEF Dir!Create, Documented, Creating, OpenedWhole, Dir!Opened,
                         Dir!Whole
    <2>6. OpenedWhole'
      BY <1>1
      DEF Dir!Create, OpenedWhole, Dir!Opened, Dir!Whole, DirExclusive, Holding, Creating, Founded
    <2>7. Undisturbed' BY <1>1 DEF Dir!Create, Undisturbed, Dir!Vanished, DirExclusive, Holding
    <2> QED BY <2>1, <2>2, <2>3, <2>4, <2>5, <2>6, <2>7
  <1>2. ASSUME Dir!MakeDirectory(p), ~Dir!Leave(p) PROVE DirInv'
    <2>1. Dir!TypeOK' BY <1>2 DEF Dir!MakeDirectory
    <2>2. DirExclusive' BY <1>2 DEF Dir!MakeDirectory, DirExclusive, Holding
    <2>3. Founded' BY <1>2 DEF Dir!MakeDirectory, Founded, DirExclusive, Holding
    <2>4. Creating' BY <1>2 DEF Dir!MakeDirectory, Creating, DirExclusive, Holding, Documented
    <2>5. Documented' BY <1>2 DEF Dir!MakeDirectory, Documented, Creating, OpenedWhole,
                         Dir!Opened, Dir!Whole
    <2>6. OpenedWhole'
      BY <1>2
      DEF Dir!MakeDirectory, OpenedWhole, Dir!Opened, Dir!Whole, DirExclusive, Holding, Creating,
          Founded
    <2>7. Undisturbed' BY <1>2 DEF Dir!MakeDirectory, Undisturbed, Dir!Vanished, DirExclusive,
                          Holding
    <2> QED BY <2>1, <2>2, <2>3, <2>4, <2>5, <2>6, <2>7
  <1>3. ASSUME Dir!Lock(p), ~Dir!Leave(p) PROVE DirInv'
    <2>1. Dir!TypeOK' BY <1>3 DEF Dir!Lock, Dir!Acquire
    <2>2. DirExclusive' BY <1>3 DEF Dir!Lock, Dir!Acquire, DirExclusive, Holding
    <2>3. Founded' BY <1>3 DEF Dir!Lock, Dir!Acquire, Founded, DirExclusive, Holding
    <2>4. Creating' BY <1>3 DEF Dir!Lock, Dir!Acquire, Creating, DirExclusive, Holding, Documented
    <2>5. Documented' BY <1>3 DEF Dir!Lock, Dir!Acquire, Documented, Creating, OpenedWhole,
                         Dir!Opened, Dir!Whole
    <2>6. OpenedWhole'
      BY <1>3
      DEF Dir!Lock, Dir!Acquire, OpenedWhole, Dir!Opened, Dir!Whole, DirExclusive, Holding,
          Creating, Founded
    <2>7. Undisturbed' BY <1>3 DEF Dir!Lock, Dir!Acquire, Undisturbed, Dir!Vanished, DirExclusive,
                          Holding
    <2> QED BY <2>1, <2>2, <2>3, <2>4, <2>5, <2>6, <2>7
  <1>4. ASSUME Dir!ReadRun(p), ~Dir!Leave(p) PROVE DirInv'
    <2>1. Dir!TypeOK' BY <1>4 DEF Dir!ReadRun
    <2>2. DirExclusive' BY <1>4 DEF Dir!ReadRun, DirExclusive, Holding
    <2>3. Founded' BY <1>4 DEF Dir!ReadRun, Founded, DirExclusive, Holding
    <2>4. Creating' BY <1>4 DEF Dir!ReadRun, Creating, DirExclusive, Holding, Documented
    <2>5. Documented' BY <1>4 DEF Dir!ReadRun, Documented, Creating, OpenedWhole, Dir!Opened,
                         Dir!Whole
    <2>6. OpenedWhole'
      BY <1>4
      DEF Dir!ReadRun, OpenedWhole, Dir!Opened, Dir!Whole, DirExclusive, Holding, Creating, Founded
    <2>7. Undisturbed' BY <1>4 DEF Dir!ReadRun, Undisturbed, Dir!Vanished, DirExclusive, Holding
    <2> QED BY <2>1, <2>2, <2>3, <2>4, <2>5, <2>6, <2>7
  <1>5. ASSUME Dir!OpenNew(p), ~Dir!Leave(p) PROVE DirInv'
    <2>1. Dir!TypeOK' BY <1>5 DEF Dir!OpenNew
    <2>2. DirExclusive' BY <1>5 DEF Dir!OpenNew, DirExclusive, Holding
    <2>3. Founded' BY <1>5 DEF Dir!OpenNew, Founded, DirExclusive, Holding
    <2>4. Creating' BY <1>5 DEF Dir!OpenNew, Creating, DirExclusive, Holding, Documented
    <2>5. Documented' BY <1>5 DEF Dir!OpenNew, Documented, Creating, OpenedWhole, Dir!Opened,
                         Dir!Whole
    <2>6. OpenedWhole'
      BY <1>5
      DEF Dir!OpenNew, OpenedWhole, Dir!Opened, Dir!Whole, DirExclusive, Holding, Creating, Founded
    <2>7. Undisturbed' BY <1>5 DEF Dir!OpenNew, Undisturbed, Dir!Vanished, DirExclusive, Holding
    <2> QED BY <2>1, <2>2, <2>3, <2>4, <2>5, <2>6, <2>7
  <1>6. ASSUME Dir!Flush(p) PROVE DirInv'
    <2>1. Dir!TypeOK' BY <1>6 DEF Dir!Flush
    <2>2. DirExclusive' BY <1>6 DEF Dir!Flush, DirExclusive, Holding
    <2>3. Founded' BY <1>6 DEF Dir!Flush, Founded, DirExclusive, Holding
    <2>4. Creating' BY <1>6 DEF Dir!Flush, Creating, DirExclusive, Holding, Documented
    <2>5. Documented' BY <1>6 DEF Dir!Flush, Documented, Creating, OpenedWhole, Dir!Opened,
                         Dir!Whole
    <2>6. OpenedWhole'
      BY <1>6
      DEF Dir!Flush, OpenedWhole, Dir!Opened, Dir!Whole, DirExclusive, Holding, Creating, Founded
    <2>7. Undisturbed' BY <1>6 DEF Dir!Flush, Undisturbed, Dir!Vanished, DirExclusive, Holding
    <2> QED BY <2>1, <2>2, <2>3, <2>4, <2>5, <2>6, <2>7
  <1>7. ASSUME Dir!MakeAttempts(p) PROVE DirInv'
    <2>1. Dir!TypeOK' BY <1>7 DEF Dir!MakeAttempts
    <2>2. DirExclusive' BY <1>7 DEF Dir!MakeAttempts, DirExclusive, Holding
    <2>3. Founded' BY <1>7 DEF Dir!MakeAttempts, Founded, DirExclusive, Holding
    <2>4. Creating' BY <1>7 DEF Dir!MakeAttempts, Creating, DirExclusive, Holding, Documented
    <2>5. Documented' BY <1>7 DEF Dir!MakeAttempts, Documented, Creating, OpenedWhole, Dir!Opened,
                         Dir!Whole
    <2>6. OpenedWhole'
      BY <1>7
      DEF Dir!MakeAttempts, OpenedWhole, Dir!Opened, Dir!Whole, DirExclusive, Holding, Creating,
          Founded
    <2>7. Undisturbed' BY <1>7 DEF Dir!MakeAttempts, Undisturbed, Dir!Vanished, DirExclusive,
                          Holding
    <2> QED BY <2>1, <2>2, <2>3, <2>4, <2>5, <2>6, <2>7
  <1>8. ASSUME Dir!OpenRun(p) PROVE DirInv'
    <2>1. Dir!TypeOK' BY <1>8 DEF Dir!OpenRun
    <2>2. DirExclusive' BY <1>8 DEF Dir!OpenRun, DirExclusive, Holding
    <2>3. Founded' BY <1>8 DEF Dir!OpenRun, Founded, DirExclusive, Holding
    <2>4. Creating' BY <1>8 DEF Dir!OpenRun, Creating, DirExclusive, Holding, Documented
    <2>5. Documented' BY <1>8 DEF Dir!OpenRun, Documented, Creating, OpenedWhole, Dir!Opened,
                         Dir!Whole
    <2>6. OpenedWhole'
      BY <1>8
      DEF Dir!OpenRun, OpenedWhole, Dir!Opened, Dir!Whole, DirExclusive, Holding, Creating, Founded
    <2>7. Undisturbed' BY <1>8 DEF Dir!OpenRun, Undisturbed, Dir!Vanished, DirExclusive, Holding
    <2> QED BY <2>1, <2>2, <2>3, <2>4, <2>5, <2>6, <2>7
  <1>9. ASSUME Dir!Layout(p), ~Dir!Leave(p) PROVE DirInv'
    <2>1. Dir!TypeOK' BY <1>9 DEF Dir!Layout
    <2>2. DirExclusive' BY <1>9 DEF Dir!Layout, DirExclusive, Holding
    <2>3. Founded' BY <1>9 DEF Dir!Layout, Founded, DirExclusive, Holding
    <2>4. Creating' BY <1>9 DEF Dir!Layout, Creating, DirExclusive, Holding, Documented
    <2>5. Documented' BY <1>9 DEF Dir!Layout, Documented, Creating, OpenedWhole, Dir!Opened,
                         Dir!Whole
    <2>6. OpenedWhole'
      BY <1>9
      DEF Dir!Layout, OpenedWhole, Dir!Opened, Dir!Whole, DirExclusive, Holding, Creating, Founded
    <2>7. Undisturbed' BY <1>9 DEF Dir!Layout, Undisturbed, Dir!Vanished, DirExclusive, Holding
    <2> QED BY <2>1, <2>2, <2>3, <2>4, <2>5, <2>6, <2>7
  <1>10. ASSUME Dir!Scan(p) PROVE DirInv'
    <2>1. Dir!TypeOK' BY <1>10 DEF Dir!Scan
    <2>2. DirExclusive' BY <1>10 DEF Dir!Scan, DirExclusive, Holding
    <2>3. Founded' BY <1>10 DEF Dir!Scan, Founded, DirExclusive, Holding
    <2>4. Creating' BY <1>10 DEF Dir!Scan, Creating, DirExclusive, Holding, Documented
    <2>5. Documented' BY <1>10 DEF Dir!Scan, Documented, Creating, OpenedWhole, Dir!Opened,
                         Dir!Whole
    <2>6. OpenedWhole'
      BY <1>10
      DEF Dir!Scan, OpenedWhole, Dir!Opened, Dir!Whole, DirExclusive, Holding, Creating, Founded
    <2>7. Undisturbed' BY <1>10 DEF Dir!Scan, Undisturbed, Dir!Vanished, DirExclusive, Holding
    <2> QED BY <2>1, <2>2, <2>3, <2>4, <2>5, <2>6, <2>7
  <1>11. ASSUME Dir!Stat(p), ~Dir!Leave(p) PROVE DirInv'
    <2>1. Dir!TypeOK' BY <1>11 DEF Dir!Stat
    <2>2. DirExclusive' BY <1>11 DEF Dir!Stat, DirExclusive, Holding
    <2>3. Founded' BY <1>11 DEF Dir!Stat, Founded, DirExclusive, Holding
    <2>4. Creating' BY <1>11 DEF Dir!Stat, Creating, DirExclusive, Holding, Documented
    <2>5. Documented' BY <1>11 DEF Dir!Stat, Documented, Creating, OpenedWhole, Dir!Opened,
                         Dir!Whole
    <2>6. OpenedWhole'
      BY <1>11
      DEF Dir!Stat, OpenedWhole, Dir!Opened, Dir!Whole, DirExclusive, Holding, Creating, Founded
    <2>7. Undisturbed' BY <1>11 DEF Dir!Stat, Undisturbed, Dir!Vanished, DirExclusive, Holding
    <2> QED BY <2>1, <2>2, <2>3, <2>4, <2>5, <2>6, <2>7
  <1>12. ASSUME Dir!Enter(p) PROVE DirInv'
    <2>1. Dir!TypeOK' BY <1>12 DEF Dir!Enter, Dir!Acquire
    <2>2. DirExclusive' BY <1>12 DEF Dir!Enter, Dir!Acquire, DirExclusive, Holding
    <2>3. Founded'
      BY <1>12
      DEF Dir!Enter, Dir!Acquire, Founded, DirExclusive, Holding, OpenedWhole, Dir!Opened, Dir!Whole
    <2>4. Creating' BY <1>12 DEF Dir!Enter, Dir!Acquire, Creating, DirExclusive, Holding, Documented
    <2>5. Documented' BY <1>12 DEF Dir!Enter, Dir!Acquire, Documented, Creating, OpenedWhole,
                         Dir!Opened, Dir!Whole
    <2>6. OpenedWhole'
      BY <1>12
      DEF Dir!Enter, Dir!Acquire, OpenedWhole, Dir!Opened, Dir!Whole, DirExclusive, Holding,
          Creating, Founded
    <2>7. Undisturbed' BY <1>12 DEF Dir!Enter, Dir!Acquire, Undisturbed, Dir!Vanished,
                          DirExclusive, Holding
    <2> QED BY <2>1, <2>2, <2>3, <2>4, <2>5, <2>6, <2>7
  <1>13. ASSUME Dir!Rebuild(p) PROVE DirInv'
    <2>1. Dir!TypeOK' BY <1>13 DEF Dir!Rebuild
    <2>2. DirExclusive' BY <1>13 DEF Dir!Rebuild, DirExclusive, Holding
    <2>3. Founded' BY <1>13 DEF Dir!Rebuild, Founded, DirExclusive, Holding
    <2>4. Creating' BY <1>13 DEF Dir!Rebuild, Creating, DirExclusive, Holding, Documented
    <2>5. Documented' BY <1>13 DEF Dir!Rebuild, Documented, Creating, OpenedWhole, Dir!Opened,
                         Dir!Whole
    <2>6. OpenedWhole'
      BY <1>13
      DEF Dir!Rebuild, OpenedWhole, Dir!Opened, Dir!Whole, DirExclusive, Holding, Creating, Founded
    <2>7. Undisturbed' BY <1>13 DEF Dir!Rebuild, Undisturbed, Dir!Vanished, DirExclusive, Holding
    <2> QED BY <2>1, <2>2, <2>3, <2>4, <2>5, <2>6, <2>7
  <1>14. ASSUME Dir!Replace(p) PROVE DirInv'
    <2>1. Dir!TypeOK' BY <1>14 DEF Dir!Replace
    <2>2. DirExclusive' BY <1>14 DEF Dir!Replace, DirExclusive, Holding
    <2>3. Founded' BY <1>14 DEF Dir!Replace, Founded, DirExclusive, Holding
    <2>4. Creating' BY <1>14 DEF Dir!Replace, Creating, DirExclusive, Holding, Documented
    <2>5. Documented' BY <1>14 DEF Dir!Replace, Documented, Creating, OpenedWhole, Dir!Opened,
                         Dir!Whole
    <2>6. OpenedWhole'
      BY <1>14
      DEF Dir!Replace, OpenedWhole, Dir!Opened, Dir!Whole, DirExclusive, Holding, Creating, Founded
    <2>7. Undisturbed' BY <1>14 DEF Dir!Replace, Undisturbed, Dir!Vanished, DirExclusive, Holding
    <2> QED BY <2>1, <2>2, <2>3, <2>4, <2>5, <2>6, <2>7
  <1>15. CASE Dir!Leave(p) BY <1>15, DirLeaves
  <1> QED
    BY <1>1, <1>2, <1>3, <1>4, <1>5, <1>6, <1>7, <1>8, <1>9, <1>10, <1>11, <1>12, <1>13, <1>14,
       <1>15 DEF Dir!Step, Dir!Die

\* The inductive invariant holds for good.
THEOREM DirectoryInvariance == ASSUME Dir!DirectoryAssumption PROVE Dir!Spec => []DirInv
  <1>1. Dir!Init => DirInv BY DirStarts
  <1>2. DirInv /\ [Dir!Next]_(Dir!vars) => DirInv'
    <2> SUFFICES ASSUME DirInv, [Dir!Next]_(Dir!vars) PROVE DirInv'  OBVIOUS
    <2>1. CASE Dir!Next BY <2>1, DirSteps DEF Dir!Next
    <2>2. CASE UNCHANGED Dir!vars
      BY <2>2
      DEF Dir!vars, DirInv, Dir!TypeOK, DirExclusive, Founded, Creating, Documented, OpenedWhole,
          Undisturbed, Holding, Dir!Opened, Dir!Whole, Dir!Vanished
    <2> QED BY <2>1, <2>2
  <1> QED BY <1>1, <1>2, PTL DEF Dir!Spec

\* The type invariant, for any number of callers and documents.
THEOREM DirectoryTypeOK == ASSUME Dir!DirectoryAssumption PROVE Dir!Spec => []Dir!TypeOK
  <1>1. DirInv => Dir!TypeOK BY DEF DirInv
  <1> QED BY <1>1, DirectoryInvariance, PTL

\* Whoever has a store of a run has the document of run.json, which stays, in a
\* whole directory; a session is not refused for what others left; and a torn
\* document never gets an attempt or a result.
THEOREM DirectoryOneDocument == ASSUME Dir!DirectoryAssumption PROVE Dir!Spec => []Dir!OneDocument
  <1>1. DirInv => Dir!OneDocument
    BY DEF DirInv, Dir!OneDocument, Documented, OpenedWhole, Undisturbed
  <1> QED BY <1>1, DirectoryInvariance, PTL

-----------------------------------------------------------------------------
(* The composition *)

\* Every behaviour of the composition is one of each part.
LEMMA Parts ==
  ServicesSpec => Spec /\ Lab!Spec /\ Loop!Spec /\ Dir!Spec /\ D0!DecisionsSpec /\ Rev!Spec
  <1>1. ServicesInit => Init /\ Lab!Init /\ Loop!Init /\ Dir!Init /\ D0!DecisionsInit /\ Rev!Init
    BY DEF ServicesInit
  <1> DEFINE Steps == [ServicesNext]_<<unit, vars, lab, loop, dir, d0, rev>>
  <1>2. Steps => [Next]_vars BY DEF ServicesNext
  <1>3. Steps => [Lab!Next]_(Lab!vars) BY DEF ServicesNext, lab, Lab!vars, Lab!tree, Lab!locks
  <1>4. Steps => [Dir!Next]_(Dir!vars) BY DEF ServicesNext, dir, Dir!vars
  <1>5. Steps => [D0!DecisionsNext]_(D0!dvars)
    BY DEF ServicesNext, d0, D0!dvars, D0!vars, D0!decisions
  <1>6. Steps => [Rev!Next]_(Rev!vars) BY DEF ServicesNext, rev, Rev!vars
  <1>7. Steps => [Loop!Next]_(Loop!vars) BY DEF ServicesNext, loop, Loop!vars
  <1> QED BY <1>1, <1>2, <1>3, <1>4, <1>5, <1>6, <1>7, PTL
          DEF ServicesSpec, Spec, Lab!Spec, Loop!Spec, Dir!Spec, D0!DecisionsSpec, Rev!Spec

\* At most one runner's subprocess is alive, and no reset works under a live one.
THEOREM ServicesOneAtATime == ServicesSpec => []OneAtATime
  <1>1. Lab!Spec => []Lab!OneAtATime BY RunConstants, Lab!RunsOneAtATime
  <1>2. OneAtATime <=> Lab!OneAtATime BY DEF OneAtATime
  <1> QED BY <1>1, <1>2, Parts, PTL

\* A run that is said to be closed has ended as it says, and nothing of it is alive.
THEOREM ServicesCloseIsTrue == ServicesSpec => []CloseIsTrue
  <1>1. Lab!Spec => []Lab!CloseIsTrue BY RunConstants, Lab!ClosedEventIsTrue
  <1>2. CloseIsTrue <=> Lab!CloseIsTrue BY DEF CloseIsTrue
  <1> QED BY <1>1, <1>2, Parts, PTL

\* A run's directory holds one document, and a look outside the lock sees no other.
THEOREM ServicesOneDocument == ServicesSpec => []OneDocument
  <1>1. Dir!Spec => []Dir!OneDocument BY DirectoryConstants, DirectoryOneDocument
  <1>2. OneDocument <=> Dir!OneDocument BY DEF OneDocument
  <1> QED BY <1>1, <1>2, Parts, PTL

\* What was decided of a masked run is about the evidence as it will stay, nothing is graded
\* before that, and what a command has told is what is sealed.
THEOREM ServicesDecisionStands == ServicesSpec => []DecisionStands
  <1>1. D0!DecisionsSpec => []D0!DecisionStands BY DecisionConstants, D0!DecisionsStand
  <1>2. DecisionStands <=> D0!DecisionStands BY DEF DecisionStands
  <1> QED BY <1>1, <1>2, Parts, PTL

\* A published verdict of the review is what its receipts say for ever.
THEOREM ServicesVerdictStands == ServicesSpec => []VerdictStands
  BY Parts, ReviewVerdictStands, PTL

\* In a guarded run a doubtful write was questioned before it ran, one on a day the task
\* does not name never runs, and a guard asks once per tool.
THEOREM ServicesAskedFirst == ServicesSpec => []AskedFirst
  <1>1. LoopInv /\ Loop!TypeOK => AskedFirst
    <2>1. condition = "guarded" \/ condition # "guarded" OBVIOUS
    <2> QED BY <2>1 DEF LoopInv, Guarded, AskedFirst, Loop!AskedFirst
  <1>2. LoopInv => Loop!TypeOK BY DEF LoopInv
  <1> QED BY <1>1, <1>2, Parts, LoopInvariance, PTL

\* With any scaffolding, no call is executed more often than its limit while nothing has
\* changed, and never again after it has failed.
THEOREM ServicesNoFutileRepeat == ServicesSpec => []NoFutileRepeat
  <1>1. LoopInv => NoFutileRepeat BY DEF LoopInv, NoFutileRepeat
  <1> QED BY <1>1, Parts, LoopInvariance, PTL

\* Each part keeps its types, and the agent's loop its budget.
THEOREM ServicesTypes == ServicesSpec => []ServicesTypeOK
  <1> DEFINE parts == {"followup", "lab", "loop", "directory", "decision", "review"}
             types == TypeOK /\ Lab!TypeOK /\ Loop!TypeOK /\ Dir!TypeOK
                      /\ (D0!TypeOK /\ D0!DecisionsTypeOK) /\ Rev!TypeOK
  <1>1. ServicesInit => unit \in parts BY DEF ServicesInit
  <1>2. unit \in parts /\ [ServicesNext]_<<unit, vars, lab, loop, dir, d0, rev>>
        => (unit \in parts)'
    BY DEF ServicesNext
  <1>3. ServicesSpec => [](unit \in parts) BY <1>1, <1>2, PTL DEF ServicesSpec
  <1>4. Lab!Spec => []Lab!TypeOK BY RunConstants, Lab!RunTypeOK
  <1>5. Dir!Spec => []Dir!TypeOK BY DirectoryConstants, DirectoryTypeOK
  <1>6. D0!DecisionsSpec => [](D0!TypeOK /\ D0!DecisionsTypeOK)
    BY DecisionConstants, D0!DecisionsTypes
  <1>7. LoopInv => Loop!TypeOK BY DEF LoopInv
  <1>8. ReviewInv => Rev!TypeOK BY DEF ReviewInv
  <1>9. unit \in parts /\ types => ServicesTypeOK
    <2> SUFFICES ASSUME unit \in parts, types PROVE ServicesTypeOK
      OBVIOUS
    <2> HIDE DEF types
    <2>0. TypeOK /\ Lab!TypeOK /\ Loop!TypeOK /\ Dir!TypeOK
          /\ (D0!TypeOK /\ D0!DecisionsTypeOK) /\ Rev!TypeOK
      BY DEF types
    <2>1. CASE unit = "followup"  BY <2>0, <2>1, Zenon DEF ServicesTypeOK
    <2>2. CASE unit = "lab"       BY <2>0, <2>2, Zenon DEF ServicesTypeOK
    <2>3. CASE unit = "loop"      BY <2>0, <2>3, Zenon DEF ServicesTypeOK
    <2>4. CASE unit = "directory" BY <2>0, <2>4, Zenon DEF ServicesTypeOK
    <2>5. CASE unit = "decision"  BY <2>0, <2>5, Zenon DEF ServicesTypeOK
    <2>6. CASE unit = "review"    BY <2>0, <2>6, Zenon DEF ServicesTypeOK
    <2> QED BY <2>1, <2>2, <2>3, <2>4, <2>5, <2>6
  <1> QED BY <1>3, <1>4, <1>5, <1>6, <1>7, <1>8, <1>9, Parts, ServiceTypeOK, LoopInvariance,
             ReviewInvariance, PTL

\* One line of versions per lead, states that are true and told by the log, and messages
\* that go out once and as approved, in every behaviour of the composition.
THEOREM ServicesFollowups == ServicesSpec => []OneLineage /\ []StatesTold /\ OutboxSpec
  BY Parts, ServiceOneLineage, ServiceStatesTold, ServiceOutbox, PTL
=============================================================================
