----------------------------- MODULE RefundRuns -----------------------------
(***************************************************************************)
(* Whole runs of refund cases: a submission is checked and expanded into   *)
(* cases, an agent runs one of them against a tool port, and the           *)
(* assertions judge the run (run_scenario of runner.py).  The agents here  *)
(* make one call at a time, so a call is one step: this is the atomic tool *)
(* that ToolPort is shown to implement.  The refund handler is the         *)
(* fixture's own and may do worse things than the default one.             *)
(***************************************************************************)
EXTENDS RefundAgents

CONSTANTS
    Submissions,    \* a sequence of what a user can submit, loaded: see Load
    MaxFree         \* how many calls an arbitrary agent makes

ASSUME MaxFreeIsNat == MaxFree \in Nat

\* What is submitted, and which agents run it with which refund handlers:
\* runs is a set of <<driver, endpoint>>.
Submission(s, kind, runs) == s @@ [kind |-> kind, runs |-> runs]

\* Submissions with the cases they become, none if one is refused.
Load(submissions) ==
    [n \in DOMAIN submissions |->
        LET s == submissions[n]
        IN  s @@ [cases |-> IF Accepted(s) THEN CasesOf(Expanded(s)) ELSE <<>>]]

Drivers == {"safe", "blind", "simple", "scripted", "any"}
Endpoints == {"counts", "replaces", "closes", "forgets", "fails"}

\* Whatever runs was accepted by prepare_case, and is what it made of the
\* submission; a state is a JSON document.
ASSUME SubmissionsLoaded ==
    \A n \in DOMAIN Submissions :
        LET s == Submissions[n]
        IN  /\ s.runs \subseteq Drivers \X Endpoints
            /\ s.cases # <<>> => Accepted(s) /\ s.cases = CasesOf(Expanded(s))
            /\ \A k \in DOMAIN s.cases :
                  LET state == s.cases[k].state
                  IN  /\ IsDocument(state)
                      /\ state \in [DOMAIN state -> STRING] /\ DOMAIN state \subseteq Seq(STRING)

\* What a scenario is built of: tuples, of faults that Fault() makes; and what a
\* fixture of the pack is for, a scenario on its state, of which a case replaces
\* at most one of the facts the policy is about.
Listed(seq) == seq \in Seq(ToSet(seq))

AreFaults(seq) ==
    Listed(seq) /\ \A f \in ToSet(seq) : f.kind \in FaultKinds /\ f.on_call \in Nat \ {0}

OneFact(overrides, fixture) ==
    /\ Listed(overrides)
    /\ overrides # <<>> =>
          /\ Len(overrides) = 1
          /\ overrides[1].path \in {fixture.bindings[n] : n \in Names}
          /\ DOMAIN overrides[1].value \subseteq Seq(STRING)

ASSUME SubmissionsAreBuilt ==
    \A n \in DOMAIN Submissions :
        LET s == Submissions[n]
            scenario == s.scenario
            variants == ToSet(scenario.variants)
            plans == ToSet(s.plans)
        IN  /\ {"state", "handlers", "assertions", "faults", "variants"} \subseteq DOMAIN scenario
            /\ Listed(scenario.variants) /\ Listed(s.plans)
            /\ AreFaults(scenario.faults) /\ \A v \in variants : AreFaults(v.faults)
            /\ \A plan \in plans : Listed(plan.kinds) /\ Listed(plan.onCalls)
            /\ \A f \in s.fixtures :
                  /\ scenario.state = f.state
                  /\ \A o \in {v.overrides : v \in variants} \cup {plan.overrides : plan \in plans} :
                        OneFact(o, f)

VARIABLES
    run,     \* the submission, case, driver and endpoint: NoRun until chosen
    world,   \* the World document
    log,     \* the event log
    told,    \* what the agent has been told by its calls
    ran,     \* history: the worlds the refund handler was started in
    result   \* NoResult until the run is judged

vars == <<run, world, log, told, ran, result>>

NoRun == [submission |-> 0]
NoResult == [status |-> "none"]
Judged == result.status \in {"pass", "fail", "error"}

Submitted == Submissions[run.submission]
Scenario == Submitted.scenario
Case == Submitted.cases[run.case]

-----------------------------------------------------------------------------
Init ==
    /\ run = NoRun
    /\ world = NoDocument
    /\ log = <<>> /\ told = <<>> /\ ran = <<>>
    /\ result = NoResult

\* ValueError: no agent is invoked.
Refuse(n) ==
    /\ run = NoRun /\ result = NoResult
    /\ Submissions[n].cases = <<>>
    /\ result' = [status |-> "refused"]
    /\ UNCHANGED <<run, world, log, told, ran>>

Begin(n, k, pair) ==
    /\ run = NoRun /\ result = NoResult
    /\ run' = [submission |-> n, case |-> k, driver |-> pair[1], endpoint |-> pair[2]]
    /\ world' = Submissions[n].cases[k].state
    /\ UNCHANGED <<log, told, ran, result>>

-----------------------------------------------------------------------------
\* What an agent may do next.

Requests == PackTools \cup {"unregistered"}
Decisions ==
    {Call(t) : t \in Requests} \cup {Raise}
      \cup {Answer(text) : text \in {"confirmed", "exists", "ineligible", "later",
                                     "unable", "unverified"}}

Decides(d) ==
    CASE run.driver = "safe" -> SafeDecides(told, d)
      [] run.driver = "blind" -> BlindDecides(told, d)
      [] run.driver = "simple" -> SimpleDecides(told, d)
      [] run.driver = "scripted" -> ScriptedDecides(told, d)
      [] run.driver = "any" ->
            d \in {Raise, Answer("confirmed")} \/ (d.do = "call" /\ Len(told) < MaxFree)

Ready(t) == run # NoRun /\ result = NoResult /\ Decides(Call(t))

-----------------------------------------------------------------------------
\* One tool call.

Number(t) == Cardinality(Positions(log, "tool_attempt", t)) + 1
Attempts == Cardinality({i \in DOMAIN log : log[i].kind = "tool_attempt"})
Event(kind, t) == [kind |-> kind, tool |-> t, number |-> Number(t)]
FaultsOf(t) == {f \in ToSet(Case.faults) : f.tool = t /\ f.on_call = Number(t)}
Has(t, kind) == \E f \in FaultsOf(t) : f.kind = kind

\* Mutant: a call that is rejected is no attempt.
Tell_RejectedIsNoAttempt(t, outcome, value, events) ==
    /\ told' = Append(told, [tool |-> t, outcome |-> outcome, value |-> value])
    /\ log' = log \o (IF outcome = "rejected" THEN <<>> ELSE <<Event("tool_attempt", t)>>) \o events

\* What the call tells the agent and leaves in the log.
Tell(t, outcome, value, events) ==
    /\ told' = Append(told, [tool |-> t, outcome |-> outcome, value |-> value])
    /\ log' = log \o <<Event("tool_attempt", t)>> \o events

Permitted(t) == Attempts < Scenario.maxCalls /\ t \in Scenario.handlers

Reject(t) ==
    /\ Ready(t)
    /\ ~Permitted(t)
    /\ Tell(t, "rejected", NoDocument, <<Event("tool_rejected", t)>>)
    /\ UNCHANGED <<run, world, ran, result>>

\* A fault that keeps the handler from running.
Intercept(t) ==
    /\ Ready(t)
    /\ Permitted(t)
    /\ \E f \in FaultsOf(t) :
          \/ f.kind = "timeout_before"
             /\ Tell(t, "timeout", NoDocument, <<Event("tool_fault", t)>>)
          \/ f.kind = "stale_read"
             /\ Tell(t, "stale", f.value,
                     <<Event("tool_fault", t), Event("tool_observation", t)>>)
    /\ UNCHANGED <<run, world, ran, result>>

\* ToolPrecondition, observed in the world a handler is started in.
Missed(t) ==
    {q \in {a \in Case.assertions : a.type = "precondition"} :
        q.tool = t /\ ~(q.path \in DOMAIN world /\ Select(world, q.path) = q.value)}

Precheck(t) ==
    IF Missed(t) = {} THEN <<>>
    ELSE <<[kind |-> "precondition_failed", tool |-> t, number |-> Number(t),
            missed |-> Missed(t)]>>

\* The handler returned value, or raised, and left the world w.
Executes(t, w, value, raised) ==
    LET executed == [kind |-> "tool_executed", tool |-> t, number |-> Number(t),
                     changes |-> Changes(world, w),
                     status |-> IF raised THEN "error" ELSE "completed"]
        evidence == Precheck(t) \o (IF raised THEN <<Event("tool_error", t)>> ELSE <<>>)
                      \o <<executed>>
    IN  /\ Ready(t)
        /\ Permitted(t)
        /\ ~Has(t, "timeout_before") /\ ~Has(t, "stale_read")
        /\ world' = w
        /\ ran' = IF t = RefundTool THEN Append(ran, world) ELSE ran
        /\ IF raised THEN Tell(t, "error", NoDocument, evidence)
           ELSE IF Has(t, "response_lost_after_commit")
           THEN Tell(t, "lost", NoDocument, Append(evidence, Event("tool_fault", t)))
           ELSE Tell(t, "result", value, Append(evidence, Event("tool_observation", t)))
        /\ UNCHANGED <<run, result>>

\* get_order and verify_customer.
Look(t) ==
    /\ t # RefundTool
    /\ Executes(t, world, Select(world, IF t = ReadTool THEN Order ELSE <<"caller">>), FALSE)

-----------------------------------------------------------------------------
\* issue_refund, of the default fixture and of others.

Increment(text) == Numerals[(CHOOSE n \in DOMAIN Numerals : Numerals[n] = text) + 1]

Receipt == Nested([p \in {<<"status">>} |-> "refunded"])
Counted == Set(world, RefundCount, Scalar(Increment(world[RefundCount])))

\* A service that replaces the order it is given and no longer says its status.
Replaced ==
    LET order == Select(Counted, Order)
        kept == [p \in DOMAIN order \ Below(order, <<"status">>) |-> order[p]]
    IN  Set(world, Order, Set(kept, <<"receipt">>, Scalar("r_1")))

Leaves(w) == [world |-> w, raised |-> FALSE]

RefundEffect ==
    CASE RefundCount \notin DOMAIN world -> [world |-> world, raised |-> TRUE]  \* KeyError
      [] OTHER ->
            CASE run.endpoint = "counts" -> Leaves(Counted)
              [] run.endpoint = "replaces" -> Leaves(Replaced)
              [] run.endpoint = "closes" -> Leaves(Set(Counted, Order, Scalar("closed")))
              [] run.endpoint = "forgets" -> Leaves(world)
              [] run.endpoint = "fails" -> [world |-> Counted, raised |-> TRUE]

IssueRefund == Executes(RefundTool, RefundEffect.world, Receipt, RefundEffect.raised)

-----------------------------------------------------------------------------
\* The end of run_scenario.

Found(a) ==
    IF a.type = "state" /\ a.path \in DOMAIN world THEN {Select(world, a.path)} ELSE {}

\* A rejected call is a violation (ToolPort's ViolationsMatchEvidence); no
\* handler of a read-only tool writes here.
Rejected == {i \in DOMAIN log : log[i].kind = "tool_rejected"}

Findings ==
    UNION {Evaluate(a, Found(a), ToSet(Case.faults), log) : a \in Case.assertions}

End(d) ==
    /\ run # NoRun /\ result = NoResult
    /\ Decides(d)
    /\ d.do # "call"
    /\ result' = [status |-> IF d = Raise THEN "error"
                             ELSE IF Findings # {} \/ Rejected # {} THEN "fail" ELSE "pass",
                  answer |-> d.what]
    /\ UNCHANGED <<run, world, log, told, ran>>

Next ==
    \/ \E n \in DOMAIN Submissions : Refuse(n)
    \/ \E n \in DOMAIN Submissions : \E k \in DOMAIN Submissions[n].cases :
          \E pair \in Submissions[n].runs : Begin(n, k, pair)
    \/ \E t \in Requests : Reject(t) \/ Intercept(t) \/ Look(t)
    \/ IssueRefund
    \/ \E d \in Decisions : End(d)

Spec == Init /\ [][Next]_vars

-----------------------------------------------------------------------------
\* Every World is a document, every run one of an accepted submission, and
\* the refund handler has started as often as the log says.
RefundTypeOK ==
    /\ run # NoRun => /\ run.submission \in DOMAIN Submissions
                      /\ run.case \in DOMAIN Submitted.cases
                      /\ IsDocument(world)
                      /\ \A n \in DOMAIN ran : IsDocument(ran[n])
    /\ result.status \in {"none", "refused", "pass", "fail", "error"}
    /\ result.status = "refused" => run = NoRun
    /\ Len(ran) = Cardinality(Positions(log, "tool_executed", RefundTool))
    /\ Len(told) = Attempts

\* Whatever was submitted, what runs is a case that means something: the tool
\* port's own assumptions hold, what is asserted exists at the start, a case
\* of the pack departs from the base fixture in at most one of the facts the
\* policy is about, and a generated case has one fault and asks for it.
CasesAreSound ==
    run # NoRun =>
        LET faults == Case.faults
            Departs(f, n) == Value(Case.state, f.bindings[n]) # Value(f.state, f.bindings[n])
        IN  /\ Cardinality({<<f.tool, f.on_call>> : f \in ToSet(faults)}) = Len(faults)
            /\ \A f \in ToSet(faults) : /\ f.tool \in Scenario.handlers
                                        /\ f.on_call \in Nat \ {0}
            /\ \A a \in Case.assertions :
                  /\ a.type \in {"state", "precondition"} => a.path \in DOMAIN Case.state
                  /\ a.type \in {"count", "precondition"} => a.tool \in Scenario.handlers
            /\ \A f \in Submitted.fixtures :
                  Cardinality({n \in Names : Departs(f, n)}) <= 1
            /\ Submitted.matrix /\ run.case > Len(Scenario.variants) + 1 =>
                  /\ Len(faults) = 1
                  /\ FaultTriggered(faults[1]) \in Case.assertions

\* The policy of docs/SCENARIO_PACKS.md in terms of worlds and calls.
Allowed(w) ==
    /\ Value(w, Verified) = Scalar("true")
    /\ Value(w, CallerId) = Value(w, OwnerId)
    /\ Value(w, OrderStatus) = Scalar("delivered")
    /\ Value(w, RefundCount) = Scalar("0")

\* A refund must be executed where it is allowed and no look at the caller or
\* the order is disturbed.
Requires(case) ==
    Allowed(case.state) /\ \A f \in ToSet(case.faults) : f.tool = RefundTool

MustRefund == Requires(Case)

\* What a case of the pack asserts.
AssertsPolicy(case) ==
    LET Before(path, value) ==
            ToolPrecondition([tool |-> RefundTool, path |-> path, value |-> value])
        final == IF Requires(case) THEN Scalar("1") ELSE Value(case.state, RefundCount)
    IN  /\ StateEquals(RefundCount, final) \in case.assertions
        /\ ToolCallCount(RefundTool, IF Requires(case) THEN 1 ELSE 0, "tool_executed")
              \in case.assertions
        /\ Before(Verified, Scalar("true")) \in case.assertions
        /\ Before(OrderStatus, Scalar("delivered")) \in case.assertions
        /\ Before(RefundCount, Scalar("0")) \in case.assertions
        /\ \E owner \in {a.value : a \in {b \in case.assertions : b.type = "precondition"}} :
              {Before(CallerId, owner), Before(OwnerId, owner)} \subseteq case.assertions
        /\ \A f \in ToSet(case.faults) : FaultTriggered(f) \in case.assertions

\* refund_scenario and with_fault_matrix give each case of the pack these.
ASSUME PackAsserts ==
    \A n \in DOMAIN Submissions :
        Submissions[n].kind = "pack" =>
            \A k \in DOMAIN Submissions[n].cases : AssertsPolicy(Submissions[n].cases[k])

OutcomeOf(kind) ==
    CASE kind = "timeout_before" -> "timeout"
      [] kind = "stale_read" -> "stale"
      [] kind = "response_lost_after_commit" -> "lost"

\* The agent was told of the fault at the call it was planned for.
Met(f) ==
    \E n \in DOMAIN told :
        /\ told[n].tool = f.tool /\ told[n].outcome = OutcomeOf(f.kind)
        /\ Cardinality({k \in 1..n : told[k].tool = f.tool}) = f.on_call

\* Whatever the agent and whatever its refund service do, a pass of a case of
\* the pack means the policy was kept: a refund was executed if and only if
\* the case requires one, once, while it was allowed, it is the one the order
\* shows, and the planned fault was met on the way.
PassMeansPolicy ==
    result.status = "pass" /\ Submitted.kind = "pack" =>
        /\ Len(ran) = IF MustRefund THEN 1 ELSE 0
        /\ \A n \in DOMAIN ran : Allowed(ran[n])
        /\ Value(world, RefundCount) =
              IF MustRefund THEN Scalar("1") ELSE Value(Case.state, RefundCount)
        /\ \A f \in ToSet(Case.faults) : Met(f)

Rechecking == {"safe", "scripted"}

\* A fault the agent comes upon in this case, and does not see past.
OnTheWay(f, case) ==
    IF Allowed(case.state)
    THEN f.kind # "stale_read" /\ <<f.tool, f.on_call>> \in
            {<<ReadTool, 1>>, <<IdentityTool, 1>>, <<ReadTool, 2>>, <<RefundTool, 1>>}
    ELSE f.tool = ReadTool /\ f.on_call = 1

\* A case the rechecking agents are meant to pass with the default service: its
\* preconditions are the policy's, and whatever else it asserts is what comes of
\* the policy and of the one fault it has at most.
IsFor(case, scenario) ==
    LET others == {a \in case.assertions : a.type # "precondition"}
        times == IF Requires(case) THEN 1 ELSE 0
        final == IF Requires(case) THEN Scalar("1") ELSE Value(case.state, RefundCount)
        retried == \E f \in ToSet(case.faults) : f.kind = "timeout_before"
    IN  /\ PackTools \subseteq scenario.handlers
        /\ scenario.maxCalls \in Nat /\ scenario.maxCalls >= 7
        /\ \A f \in ToSet(case.faults) :
              f.kind = "stale_read" => IsNumber(f, "refund_count") /\ Tells(f, "status")
        /\ \A a \in case.assertions \ others :
              /\ a.tool = RefundTool
              /\ Allowed(case.state) =>
                    a.path \in DOMAIN case.state /\ Select(case.state, a.path) = a.value
        /\ others # {} =>
              /\ \A f, g \in ToSet(case.faults) : f = g
              /\ \A f \in ToSet(case.faults) : OnTheWay(f, case)
              /\ others \subseteq
                    {StateEquals(RefundCount, final),
                     ToolCallCount(RefundTool, times, "tool_executed"),
                     ToolCallCount(RefundTool, IF retried THEN 2 * times ELSE times,
                                   "tool_attempt")}
                      \cup {FaultTriggered(f) : f \in ToSet(case.faults)}

\* The facts the policy is about, each of its type: a boolean, a number, and
\* strings, which are equal when their texts are.
FactsAreTyped(state) ==
    /\ {RefundCount, OwnerId, OrderStatus, CallerId, Verified} \subseteq DOMAIN state
    /\ state[Verified] \in {"true", "false"} /\ state[RefundCount] \in ToSet(Numerals)
    /\ \A path \in {OwnerId, OrderStatus, CallerId} : state[path] \notin {Dict, "null"} \cup Numbers

\* What the rechecking agents are run on: worlds with the facts of the policy,
\* services that leave a count behind, and plans in which no look is stale but
\* the first, since what an agent decides on a later one is its own.
ASSUME AgentsAreFit ==
    \A n \in DOMAIN Submissions : \A pair \in Submissions[n].runs :
        pair[1] \in Rechecking =>
            /\ pair[2] # "forgets"
            /\ \A k \in DOMAIN Submissions[n].cases :
                  LET case == Submissions[n].cases[k]
                  IN  /\ FactsAreTyped(case.state)
                      /\ \A f \in ToSet(case.faults) :
                            /\ f.kind \in FaultKinds
                            /\ f.kind = "stale_read" => f.tool = ReadTool /\ f.on_call = 1
                      /\ pair[2] = "counts" => IsFor(case, Submissions[n].scenario)

\* In a world whose facts have their types, the agents that recheck before a
\* retry never refund twice or where they may not, say "confirmed" only after a
\* refund, whatever faults they meet; and with the default service they pass
\* every case written for them.
SafeAgentKeepsPolicy ==
    run # NoRun /\ run.driver \in Rechecking =>
        /\ Len(ran) <= 1
        /\ \A n \in DOMAIN ran : Allowed(ran[n])
        /\ Judged /\ result.answer = "confirmed" => Len(ran) = 1
        /\ Judged /\ run.endpoint = "counts" => result.status = "pass"

-----------------------------------------------------------------------------
\* What a reader of the report can reconstruct.

\* The document with each part the entries are about replaced by what it became.
Applied(d, delta) ==
    LET About(q) == {p \in DOMAIN delta : IsPrefix(p, q)}
        kept == {q \in DOMAIN d : About(q) = {}}
        new == UNION {{p \o r : r \in DOMAIN delta[p].after} :
                        p \in {q \in DOMAIN delta : delta[q].after_exists}}
    IN  [q \in kept \cup new |->
            IF q \in kept THEN d[q]
            ELSE LET p == CHOOSE p \in About(q) : TRUE
                 IN  delta[p].after[SubSeq(q, Len(p) + 1, Len(q))]]

Explains(delta, d) ==
    \A p \in DOMAIN delta :
        /\ delta[p].before_exists = (p \in DOMAIN d)
        /\ delta[p].before = Value(d, p)
        /\ \A q \in DOMAIN delta \ {p} : ~IsPrefix(p, q)

\* The World as the first events of the log leave it.
Replayed[n \in 0..Len(log)] ==
    IF n = 0 THEN Case.state
    ELSE IF log[n].kind = "tool_executed" THEN Applied(Replayed[n - 1], log[n].changes)
    ELSE Replayed[n - 1]

\* The changes of the executed calls, applied one after the other to the
\* initial state, give the final one; each starts from what the ones before it
\* left, and no two entries of one call are about the same part of the state.
EvidenceExplainsWorld ==
    Judged =>
        /\ Replayed[Len(log)] = world
        /\ \A n \in Executions(log) : Explains(log[n].changes, Replayed[n - 1])
=============================================================================
