------------------------------ MODULE McpBridge ------------------------------
(***************************************************************************)
(* One capability of the agent offered by real accounts (mcp_bridge.py and *)
(* the run panel's side of it in webui/runner.py).  Each MCP server is a   *)
(* child process spoken to over its stdin and stdout; enable() adapts what *)
(* the servers publish into one tool, which the loop confirms by its       *)
(* effect before a call reaches a server.  A server answers late, never,   *)
(* or not at all because it died.                                          *)
(***************************************************************************)
EXTENDS Naturals, Sequences, FiniteSets

CONSTANTS
  Servers,      \* number of configured servers; server s is account number s
  MaxRequests   \* bound: tools/call requests of one run

Accounts == 1 .. Servers
Requests == 1 .. MaxRequests
Noise    == 0                  \* a notification, or a line that is not a reply
Eof      == MaxRequests + 1    \* what the reader thread leaves at the end
Modes    == {"draft", "live", "read_only"}
\* What a server's own tool of this name is: classify() and _transmits().
Kinds    == {"absent", "read", "write", "transmit"}

VARIABLES
  mode,      \* mode of the run
  kind,      \* kind[a]: what server a publishes
  at,        \* the runner: "enable", "ready", "confirm", "wait" or "over"
  started,   \* servers launched so far, in the order of the configuration
  providers, \* servers behind the tool
  effect,    \* effects[name]
  account,   \* the account the call names
  real,      \* tool_account[name]: what the confirmation shows
  next,      \* requests sent so far
  rid,       \* the request being waited for, by account and id
  wire,      \* wire[a]: requests server a has read or will read
  inbox,     \* inbox[a]: MCPClient._inbox, of request numbers, Noise and Eof
  dead,      \* servers that have exited
  result,    \* result[r]: what the executor of request r returned
  agreed,    \* history: requests the operator was asked about and allowed
  told,      \* history: told[r]: the account the confirmation of r named
  done       \* history: <<account, request>> a server has carried out

vars == <<mode, kind, at, started, providers, effect, account, real, next, rid, wire, inbox,
          dead, result, agreed, told, done>>
quiet == <<mode, kind>>
books == <<agreed, told, done>>

Init ==
  /\ mode \in Modes /\ kind \in [Accounts -> Kinds]
  /\ at = "enable" /\ started = 0 /\ providers = {} /\ effect = "none"
  /\ account = 0 /\ real = 0 /\ next = 0 /\ rid = 0
  /\ wire = [a \in Accounts |-> {}] /\ inbox = [a \in Accounts |-> <<>>] /\ dead = {}
  /\ result = [r \in Requests |-> "none"] /\ agreed = {} /\ told = [r \in Requests |-> 0]
  /\ done = {}

TypeOK ==
  /\ mode \in Modes /\ kind \in [Accounts -> Kinds] /\ started \in 0 .. Servers
  /\ at \in {"enable", "ready", "confirm", "wait", "over"} /\ providers \subseteq Accounts
  /\ effect \in {"none", "read", "external_write"} /\ account \in 0 .. Servers
  /\ real \in 0 .. Servers /\ next \in 0 .. MaxRequests /\ rid \in 0 .. MaxRequests
  /\ wire \in [Accounts -> SUBSET Requests] /\ dead \subseteq Accounts
  /\ result \in [Requests -> {"none", "answer", "late", "timeout", "closed", "exited", "denied"}]
  /\ agreed \subseteq Requests /\ told \in [Requests -> 0 .. Servers]
  /\ done \subseteq Accounts \X Requests

-----------------------------------------------------------------------------
\* What enable() keeps of a server's tool.
Exposed(a) == /\ kind[a] # "absent"
              /\ ~(mode = "read_only" /\ kind[a] # "read")
              /\ ~(mode = "draft" /\ kind[a] = "transmit")
ClassOf(a) == IF kind[a] = "read" THEN "read" ELSE "external_write"

\* The class of the tool after server a joins: the most dangerous provider's.
\* Slip: the newest provider's.
JoinedNewest(a) == ClassOf(a)
Joined(a) == IF providers = {} \/ ClassOf(a) = "external_write" THEN ClassOf(a) ELSE effect

\* The next server is launched and its tools adapted, or it fails and the run
\* with it.
Enable ==
  /\ at = "enable" /\ started < Servers /\ started' = started + 1
  /\ LET a == started + 1 IN
     \/ IF Exposed(a)
        THEN /\ providers' = providers \cup {a} /\ effect' = Joined(a) /\ real' = a
             /\ UNCHANGED at
        ELSE UNCHANGED <<providers, effect, real, at>>
     \/ at' = "over" /\ UNCHANGED <<providers, effect, real>>
  /\ UNCHANGED <<quiet, account, next, rid, wire, inbox, dead, result, books>>

Enabled == /\ at = "enable" /\ started = Servers
           /\ at' = IF providers = {} THEN "over" ELSE "ready"
           /\ UNCHANGED <<quiet, started, providers, effect, account, real, next, rid, wire,
                          inbox, dead, result, books>>

-----------------------------------------------------------------------------
\* The model calls the tool; a brokered one must name a connected account.
Call(a) ==
  /\ at = "ready" /\ a \in providers /\ next < MaxRequests
  /\ next' = next + 1 /\ account' = a
  /\ at' = IF effect = "external_write" THEN "confirm" ELSE "wait"
  /\ rid' = next + 1
  /\ IF effect = "external_write" THEN UNCHANGED <<wire, result>>
     ELSE IF a \in dead
     THEN result' = [result EXCEPT ![next'] = "exited"] /\ UNCHANGED wire
     ELSE wire' = [wire EXCEPT ![a] = @ \cup {next'}] /\ UNCHANGED result
  /\ UNCHANGED <<quiet, started, providers, effect, real, inbox, dead, books>>

\* ActionPolicy.confirm: the operator reads the account of tool_account.
Confirm ==
  /\ at = "confirm" /\ told' = [told EXCEPT ![rid] = real]
  /\ \/ /\ at' = "wait" /\ agreed' = agreed \cup {rid}
        /\ IF account \in dead
           THEN result' = [result EXCEPT ![rid] = "exited"] /\ UNCHANGED wire
           ELSE wire' = [wire EXCEPT ![account] = @ \cup {rid}] /\ UNCHANGED result
     \/ /\ at' = "ready" /\ result' = [result EXCEPT ![rid] = "denied"]
        /\ UNCHANGED <<wire, agreed>>
  /\ UNCHANGED <<quiet, started, providers, effect, account, real, next, rid, inbox, dead, done>>

\* _send raises when the process has exited.
Refused == /\ at = "wait" /\ result[rid] = "exited" /\ at' = "ready"
           /\ UNCHANGED <<quiet, started, providers, effect, account, real, next, rid, wire,
                          inbox, dead, result, books>>

-----------------------------------------------------------------------------
\* What _request makes of the next line of the inbox.
\* Slip: the next reply is taken for the answer.
ReadAnswerAny(m) == IF m = Eof THEN "closed" ELSE IF m = rid THEN "answer"
                    ELSE IF m = Noise THEN "none" ELSE "late"
ReadAnswer(m) == IF m = Eof THEN "closed" ELSE IF m = rid THEN "answer" ELSE "none"

\* The waiting request takes a line: its own answer, an end of file, or
\* something that is not for it.
Receive ==
  /\ at = "wait" /\ result[rid] = "none" /\ inbox[account] # <<>>
  /\ inbox' = [inbox EXCEPT ![account] = Tail(@)]
  /\ LET m == ReadAnswer(Head(inbox[account])) IN
     /\ result' = [result EXCEPT ![rid] = m]
     /\ at' = IF m = "none" THEN "wait" ELSE "ready"
  /\ UNCHANGED <<quiet, started, providers, effect, account, real, next, rid, wire, dead, books>>

\* The deadline of the request, which is looked at before the inbox.
TimeOut ==
  /\ at = "wait" /\ result[rid] = "none"
  /\ result' = [result EXCEPT ![rid] = "timeout"] /\ at' = "ready"
  /\ UNCHANGED <<quiet, started, providers, effect, account, real, next, rid, wire, inbox,
                 dead, books>>

\* The server carries a request out and answers it, in its own time and order;
\* a notification or a banner line may come first.
Serve(a) ==
  /\ a \notin dead
  /\ \E r \in wire[a], noise \in BOOLEAN :
       /\ wire' = [wire EXCEPT ![a] = @ \ {r}] /\ done' = done \cup {<<a, r>>}
       /\ inbox' = [inbox EXCEPT ![a] = @ \o IF noise THEN <<Noise, r>> ELSE <<r>>]
  /\ UNCHANGED <<quiet, at, started, providers, effect, account, real, next, rid, dead, result,
                 agreed, told>>

\* The server dies: its reader thread ends with an end of file.
Die(a) ==
  /\ a \notin dead /\ a <= started /\ dead' = dead \cup {a}
  /\ inbox' = [inbox EXCEPT ![a] = Append(@, Eof)] /\ wire' = [wire EXCEPT ![a] = {}]
  /\ UNCHANGED <<quiet, at, started, providers, effect, account, real, next, rid, result, books>>

Next == \/ Enable \/ Enabled \/ Confirm \/ Refused \/ Receive \/ TimeOut
        \/ \E a \in Accounts : Call(a) \/ Serve(a) \/ Die(a)

Runner   == Enable \/ Enabled \/ Confirm \/ Refused \/ Receive \/ TimeOut
Spec     == Init /\ [][Next]_vars
FairSpec == Spec /\ WF_vars(Runner)

-----------------------------------------------------------------------------
\* What reaches a real account: nothing that changes it without the operator's
\* yes to that very request, nothing that transmits in draft mode, no change
\* at all in read-only mode, whatever the other accounts behind the same tool
\* declare.
NothingUnasked ==
  \A d \in done : kind[d[1]] # "read" =>
    /\ d[2] \in agreed /\ mode # "read_only"
    /\ kind[d[1]] = "transmit" => mode = "live"

\* An answer is the answer of its own request, and that request was carried
\* out: a late reply is never taken for a later request's.
OwnAnswer ==
  \A r \in Requests : /\ result[r] # "late"
                      /\ result[r] = "answer" => \E a \in Accounts : <<a, r>> \in done

\* No call waits for a server.  Again and again this is so: every call returns.
NoCallWaits == at # "wait"

\* "so the prompt can name the account it is about to touch" (runner.py:244):
\* the account the operator is told is the one the request goes to.
AccountNamed == \A d \in done : told[d[2]] \in {0, d[1]}
=============================================================================
