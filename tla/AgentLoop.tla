------------------------------ MODULE AgentLoop ------------------------------
(***************************************************************************)
(* One task given to the agent (harness/agent.py, guards.py, tools.py).    *)
(* Every turn costs one call of a fixed budget; plan, replan and verifier  *)
(* calls come out of the same budget.  A reply is parsed, validated,       *)
(* questioned by the guards, stopped when it repeats itself, confirmed by  *)
(* the operator when it reaches outside, and only then executed.           *)
(***************************************************************************)
EXTENDS Naturals, Sequences, FiniteSets

CONSTANTS
  MaxCalls,        \* RunConfig.max_calls
  VerifierRounds,  \* RunConfig.verifier_rounds
  StreakBreak,     \* Profile.invalid_streak_break, 0 for off
  RepeatLimit,     \* Profile.repeat_limit
  RepeatLimitWrite \* Profile.repeat_limit_write

Look  == [tool |-> "look",  date |-> "none"]
Open  == [tool |-> "open",  date |-> "none"]
Think == [tool |-> "think", date |-> "none"]
Note  == [tool |-> "note",  date |-> "task"]     \* a write on the day the task names
Slip  == [tool |-> "note",  date |-> "other"]    \* the same write on another day
Send  == [tool |-> "send",  date |-> "none"]
Calls == {Look, Open, Think, Note, Slip, Send}

Mutating  == {"note", "send"}          \* ActionPolicy.is_mutating
Outside   == {"send"}                  \* external_write and shell
WritesFile == {"note"}                 \* declared by the tool
IsWrite(c) == c.tool \in Mutating

Plans   == {<<>>, <<"note">>, <<"look", "note">>, <<"note", "look">>}
PlanSet(p)   == {p[i] : i \in DOMAIN p}
\* GuardState.first_read_planned: a read the plan puts before its first write.
ReadFirst(p) == \E i, j \in DOMAIN p : i < j /\ p[i] \notin Mutating /\ p[j] \in Mutating
                  /\ \A k \in 1 .. i : p[k] \notin Mutating

VARIABLES
  condition,  \* "raw" without any scaffolding, "harness", or "guarded": RunConfig.guards too
  at,         \* where the loop is
  calls,      \* _AttemptLLM.calls
  plan,       \* the plan the guards hold the run to
  call,       \* the call or done being judged
  streak,     \* invalid_streak
  verified,   \* verify_rounds
  version,    \* world_version
  seen,       \* seen[c]: world version, executions and outcome of call c
  guard,      \* GuardState: what was looked at, named, opened and asked
  log,        \* history: attempt.actions that reached the policy
  asked,      \* history: the questions put, as <<guard, call>>
  end         \* "running", or how the run ended

vars == <<condition, at, calls, plan, call, streak, verified, version, seen, guard,
          log, asked, end>>

Guards == {"wrong_date", "unplanned_write", "unread_file", "read_before_write"}
Entries == [call : Calls, ok : BOOLEAN, confirmed : BOOLEAN, planned : BOOLEAN]
NotSeen == [version |-> 0, repeats |-> 0, ok |-> TRUE, yet |-> FALSE]

Conditions == {"raw", "harness", "guarded"}

Init ==
  /\ condition \in Conditions
  /\ at \in IF condition = "raw" THEN {"top"} ELSE {"top", "plan"}   \* Profile.plan
  /\ calls = 0 /\ plan = <<>> /\ call = Think /\ streak = 0 /\ verified = 0
  /\ version = 0 /\ seen = [c \in Calls |-> NotSeen]
  /\ guard = [first |-> FALSE, looked |-> FALSE, nudged |-> FALSE, replanned |-> FALSE, writes |-> {},
              named |-> FALSE, opened |-> FALSE, file |-> FALSE, echo |-> FALSE]
  /\ log = <<>> /\ asked = <<>> /\ end = "running"

TypeOK ==
  /\ condition \in Conditions /\ calls \in 0 .. MaxCalls /\ plan \in Plans
  /\ at \in {"plan", "top", "done", "verify", "valid", "unplanned", "unread", "unlooked",
             "repeat", "policy", "run", "over"}
  /\ call \in Calls /\ streak \in 0 .. MaxCalls /\ verified \in 0 .. VerifierRounds
  /\ version \in 0 .. MaxCalls
  /\ seen \in [Calls -> [version : 0 .. MaxCalls, repeats : 0 .. MaxCalls,
                         ok : BOOLEAN, yet : BOOLEAN]]
  /\ guard \in [first : BOOLEAN, looked : BOOLEAN, nudged : BOOLEAN, replanned : BOOLEAN,
                writes : SUBSET Mutating, named : BOOLEAN, opened : BOOLEAN,
                file : BOOLEAN, echo : BOOLEAN]
  /\ log \in Seq(Entries) /\ asked \in Seq(Guards \X Calls) /\ Len(log) + Len(asked) <= MaxCalls
  /\ end \in {"running", "done", "stuck", "budget", "transport", "raised"}

-----------------------------------------------------------------------------
\* The loop ends in one way; only a normal end takes the snapshot.
Finish(how) == /\ at' = "over" /\ end' = how
               /\ UNCHANGED <<condition, plan, call, version, seen, log, asked>>

\* A model call that fails after the client's own retries raises out of run().
Transport == /\ at \in {"plan", "top"} /\ calls < MaxCalls
             /\ Finish("transport") /\ UNCHANGED <<calls, streak, verified, guard>>

\* plan_step before the loop.
MakePlan ==
  /\ at = "plan" /\ calls' = calls + 1 /\ plan' \in Plans /\ at' = "top"
  /\ guard' = [guard EXCEPT !.first = ReadFirst(plan')]
  /\ UNCHANGED <<condition, call, streak, verified, version, seen, log, asked, end>>

Stuck == condition # "raw" /\ StreakBreak > 0 /\ streak >= StreakBreak

\* The loop condition and the streak break, before the next driver call.
Leave ==
  /\ at = "top" /\ (calls >= MaxCalls \/ Stuck)
  /\ Finish(IF calls >= MaxCalls THEN "budget" ELSE "stuck")
  /\ UNCHANGED <<calls, streak, verified, guard>>

First == CASE condition = "raw" -> "policy" [] condition = "harness" -> "repeat"
           [] OTHER -> "valid"

\* The driver call; a reply that does not parse or names no valid call goes
\* back as feedback.  The raw condition hands an unknown tool to the registry,
\* which answers with an error.
Drive ==
  /\ at = "top" /\ calls < MaxCalls /\ ~Stuck
  /\ calls' = calls + 1 /\ streak' = streak + 1
  /\ \/ at' = "top" /\ UNCHANGED call                                  \* garbled or invalid
     \/ at' = "done" /\ UNCHANGED call
     \/ call' \in Calls /\ at' = First
  /\ UNCHANGED <<condition, plan, verified, version, seen, guard, log, asked, end>>

-----------------------------------------------------------------------------
\* done(): the verifier round if there is budget for it.
Verify ==
  /\ at = "done" /\ condition # "raw" /\ verified < VerifierRounds /\ calls < MaxCalls
  /\ verified' = verified + 1
  /\ \/ at' = "top" /\ calls' = calls + 1                     \* not complete
     \/ at' = "verify" /\ calls' \in {calls, calls + 1}       \* complete, or no usable verdict
  /\ UNCHANGED <<condition, plan, call, streak, version, seen, guard, log, asked, end>>

NoVerify == condition = "raw" \/ verified >= VerifierRounds \/ calls >= MaxCalls

\* guard_done_echo asks once, then the run is finished.
Done ==
  /\ at = "verify" \/ (at = "done" /\ NoVerify)
  /\ UNCHANGED <<calls, streak, verified>>
  /\ \/ Finish("done") /\ UNCHANGED guard
     \/ /\ condition = "guarded" /\ ~guard.echo
        /\ guard' = [guard EXCEPT !.echo = TRUE] /\ at' = "top"
        /\ UNCHANGED <<condition, plan, call, version, seen, log, asked, end>>

-----------------------------------------------------------------------------
\* A guard questions the call: feedback instead of execution.
Question(g) == /\ at' = "top" /\ call' = Think /\ asked' = Append(asked, <<g, call>>)
               /\ UNCHANGED <<condition, calls, streak, verified, version, seen, log, end>>
Pass(to)    == /\ at' = to
               /\ UNCHANGED <<condition, calls, streak, verified, version, seen, log, call,
                              asked, end>>

WrongDate ==
  /\ at = "valid" /\ UNCHANGED <<plan, guard>>
  /\ IF call.date = "other" THEN Question("wrong_date") ELSE Pass("unplanned")

Unplanned(p) == /\ PlanSet(p) # {} /\ IsWrite(call)
                /\ call.tool \notin PlanSet(p) \cup guard.writes

\* Slip: after the plan is rewritten the write is not held against it.
UnplannedReplanned ==
  /\ at = "unplanned"
  /\ IF ~Unplanned(plan) THEN Pass("unread") /\ UNCHANGED <<plan, guard>>
     ELSE IF guard.looked /\ ~guard.replanned
     THEN /\ calls < MaxCalls /\ calls' = calls + 1 /\ at' = "unread"
          /\ \E p \in Plans : plan' = IF p = <<>> THEN plan ELSE p
          /\ guard' = [guard EXCEPT !.replanned = TRUE]
          /\ UNCHANGED <<condition, streak, verified, version, seen, log, call, asked, end>>
     ELSE /\ Question("unplanned_write") /\ UNCHANGED plan
          /\ guard' = [guard EXCEPT !.writes = @ \cup {call.tool}]

\* An unplanned write is put beside the plan; once something was read the plan
\* is rewritten first, by a model call that only the meter bounds.
UnplannedWrite ==
  /\ at = "unplanned"
  /\ IF ~Unplanned(plan) THEN Pass("unread") /\ UNCHANGED <<plan, guard>>
     ELSE IF guard.looked /\ ~guard.replanned
     THEN IF calls >= MaxCalls
          THEN Finish("raised") /\ UNCHANGED <<calls, streak, verified, guard>>
          ELSE \/ Finish("transport") /\ UNCHANGED <<calls, streak, verified, guard>>
               \/ /\ calls' = calls + 1
                  /\ \E p \in Plans : plan' = IF p = <<>> THEN plan ELSE p
                  /\ guard' = [guard EXCEPT !.replanned = TRUE]
                  /\ UNCHANGED <<condition, at, streak, verified, version, seen, log, call, asked, end>>
     ELSE /\ Question("unplanned_write") /\ UNCHANGED plan
          /\ guard' = [guard EXCEPT !.writes = @ \cup {call.tool}]

UnreadFile ==
  /\ at = "unread" /\ UNCHANGED plan
  /\ IF call.tool \in WritesFile /\ guard.named /\ ~guard.opened /\ ~guard.file
     THEN Question("unread_file") /\ guard' = [guard EXCEPT !.file = TRUE]
     ELSE Pass("unlooked") /\ UNCHANGED guard

ReadBeforeWrite ==
  /\ at = "unlooked" /\ UNCHANGED plan
  /\ IF guard.first /\ ~guard.looked /\ ~guard.nudged /\ IsWrite(call)
     THEN Question("read_before_write") /\ guard' = [guard EXCEPT !.nudged = TRUE]
     ELSE Pass("repeat") /\ UNCHANGED guard

-----------------------------------------------------------------------------
\* A call may repeat up to its budget while the world is unchanged; one that
\* failed may not repeat at all.
Repeats(c) == IF seen[c].yet /\ seen[c].version = version THEN seen[c].repeats ELSE 0
\* Slip: a failure is allowed like a success.
LimitBlind(c) == IF IsWrite(c) THEN RepeatLimitWrite ELSE RepeatLimit
Limit(c)   == IF ~seen[c].ok THEN 1
              ELSE IF IsWrite(c) THEN RepeatLimitWrite ELSE RepeatLimit

Repeat ==
  /\ at = "repeat"
  /\ IF call # Think /\ Repeats(call) >= Limit(call)
     THEN at' = "top" /\ call' = Think ELSE at' = "policy" /\ UNCHANGED call
  /\ UNCHANGED <<condition, calls, plan, streak, verified, version, seen, guard, log, asked, end>>

\* The execution, or the refusal by the policy, and the loop's books.
Record(ok, yes) ==
  /\ log' = Append(log, [call |-> call, ok |-> ok, confirmed |-> yes,
                           planned |-> plan = <<>> \/ call.tool \in PlanSet(plan)])
  /\ at' = "top" /\ streak' = 0 /\ call' = Think
  /\ version' = IF ok /\ IsWrite(call) THEN version + 1 ELSE version
  /\ seen' = IF condition = "raw" THEN seen
             ELSE [seen EXCEPT ![call] = [version |-> version', repeats |-> Repeats(call) + 1,
                                          ok |-> ok, yet |-> TRUE]]
  /\ UNCHANGED <<condition, calls, plan, verified, asked, end>>

\* What a result tells the guards: a read was made, a file named or opened.
Learn(ok, named) ==
  guard' = IF ~ok THEN guard
           ELSE [guard EXCEPT !.looked = @ \/ call \in {Look, Open},
                              !.named  = @ \/ (call = Look /\ named),
                              !.opened = @ \/ call = Open]

\* _execute_with_policy: an effect outside needs an explicit yes.
Execute ==
  /\ at = "policy"
  /\ \/ /\ call.tool \in Outside /\ Record(FALSE, FALSE) /\ Learn(FALSE, FALSE)
     \/ \E ok, named \in BOOLEAN : /\ named => call = Look
                                   /\ Record(ok, call.tool \in Outside) /\ Learn(ok, named)

Next == \/ MakePlan \/ Transport \/ Leave \/ Drive \/ Verify \/ Done
        \/ WrongDate \/ UnplannedWrite \/ UnreadFile \/ ReadBeforeWrite
        \/ Repeat \/ Execute

Spec     == Init /\ [][Next]_vars
FairSpec == Spec /\ WF_vars(Next)

-----------------------------------------------------------------------------
\* Nothing is executed twice for nothing (agent.py:513): while no write has
\* succeeded since, a call is executed as often as its limit says, and never
\* again once it has failed.  A write's own success does not renew it.
Still(i, j) == ~\E k \in i + 1 .. j - 1 : log[k].ok /\ IsWrite(log[k].call) /\ log[k].call # log[j].call
Copies(j)   == {i \in 1 .. j : log[i].call = log[j].call /\ Still(i, j)}
Allowed(c)  == IF IsWrite(c) THEN RepeatLimitWrite ELSE RepeatLimit

NoFutileRepeat ==
  condition # "raw" =>
    \A j \in DOMAIN log : log[j].call # Think =>
      /\ Cardinality(Copies(j)) <= Allowed(log[j].call)
      /\ \A i \in Copies(j) \ {j} : log[i].ok

\* What the guards are for: in a guarded run a write the plan does not name,
\* or one made before the read the plan puts first, was questioned before it
\* ran, a write on a day the task does not name never runs, and a guard other
\* than the one for dates has at most one question per tool.
Questioned(g, tool) == \E i \in DOMAIN asked : asked[i][1] = g /\ asked[i][2].tool = tool
Reads(n)  == {i \in 1 .. n - 1 : log[i].ok /\ log[i].call \in {Look, Open}}

AskedFirst ==
  condition = "guarded" =>
    /\ \A n \in DOMAIN log :
         /\ log[n].call.date # "other"
         /\ IsWrite(log[n].call) /\ ~log[n].planned => Questioned("unplanned_write", log[n].call.tool)
         /\ IsWrite(log[n].call) /\ guard.first /\ Reads(n) = {} =>
              \E i \in DOMAIN asked : asked[i][1] = "read_before_write"
    /\ \A i, j \in DOMAIN asked :
         asked[i][1] = asked[j][1] /\ asked[i][1] # "wrong_date"
           /\ asked[i][2].tool = asked[j][2].tool => i = j

=============================================================================
