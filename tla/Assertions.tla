----------------------------- MODULE Assertions -----------------------------
(***************************************************************************)
(* The assertions of core.py and faults.py as pure operators: what each    *)
(* finds on a final state and an event log.  Failure names the event that  *)
(* is blamed by its position, 0 where none is.                             *)
(***************************************************************************)
EXTENDS Naturals, Sequences, FiniteSets

StateEquals(path, value) == [type |-> "state", path |-> path, value |-> value]
ToolCallCount(tool, count, kind) ==
    [type |-> "count", tool |-> tool, count |-> count, kind |-> kind]
ToolCallOrder(tools) == [type |-> "order", tools |-> tools]
ToolPrecondition(q) == [type |-> "precondition", tool |-> q.tool,
                        path |-> q.path, value |-> q.value]
FaultTriggered(f) == [type |-> "fault", fault |-> f]

Positions(log, kind, tool) ==
    {i \in DOMAIN log : log[i].kind = kind /\ log[i].tool = tool}

\* The position of the (n + 1)-th of a set of positions, 0 if there is none.
Nth(S, n) ==
    IF Cardinality(S) <= n THEN 0
    ELSE CHOOSE i \in S : Cardinality({j \in S : j < i}) = n

Executions(log) == {i \in DOMAIN log : log[i].kind = "tool_executed"}

Failure(a, seq) == {[assertion |-> a, seq |-> seq]}

\* The executions that changed the path from the expected value to another.
Departures(a, log) ==
    {i \in Executions(log) : /\ a.path \in DOMAIN log[i].changes
                             /\ log[i].changes[a.path].before = a.value
                             /\ log[i].changes[a.path].after # a.value}

\* Mutant: the transitions are searched from the first one on.
StateFinding_FirstDeparture(a, found, log) ==
    IF found = {a.value} THEN {}
    ELSE Failure(a, IF found = {} THEN 0 ELSE Nth(Departures(a, log), 0))

\* found holds the path's final value, nothing if the path does not exist.
\* The last transition away from the expected value is the one to blame.
StateFinding(a, found, log) ==
    LET leaving == Departures(a, log)
    IN  IF found = {a.value} THEN {}
        ELSE Failure(a, IF found = {} \/ leaving = {} THEN 0
                        ELSE Nth(leaving, Cardinality(leaving) - 1))

\* Mutant: more calls than expected are as good.
CountFinding_AtLeast(a, log) ==
    LET matching == Positions(log, a.kind, a.tool)
    IN  IF Cardinality(matching) >= a.count THEN {} ELSE Failure(a, 0)

CountFinding(a, log) ==
    LET matching == Positions(log, a.kind, a.tool)
    IN  IF Cardinality(matching) = a.count THEN {} ELSE Failure(a, Nth(matching, a.count))

\* Mutant: each tool is to be executed as often as it is listed, in any order.
OrderFinding_AnyOrder(a, log) ==
    LET listed(t) == {n \in DOMAIN a.tools : a.tools[n] = t}
        tools == {log[i].tool : i \in Executions(log)} \cup {a.tools[n] : n \in DOMAIN a.tools}
    IN  IF \A t \in tools : Cardinality(Positions(log, "tool_executed", t))
                               = Cardinality(listed(t))
        THEN {} ELSE Failure(a, 0)

\* The whole sequence of executed tools is expected: the first difference, or
\* the first call too many, is the one to blame.
OrderFinding(a, log) ==
    LET executed == [n \in 1..Cardinality(Executions(log)) |->
                        Nth(Executions(log), n - 1)]
        Agrees(n) == n \in DOMAIN a.tools /\ log[executed[n]].tool = a.tools[n]
        wrong == {n \in DOMAIN executed : ~Agrees(n)}
    IN  IF wrong = {} /\ Len(executed) = Len(a.tools) THEN {}
        ELSE Failure(a, IF wrong = {} THEN 0
                        ELSE executed[CHOOSE n \in wrong : \A k \in wrong : n <= k])

PreconditionFinding(a, log) ==
    LET failed == {i \in Positions(log, "precondition_failed", a.tool) :
                      \E q \in log[i].missed : q.path = a.path}
    IN  IF failed = {} THEN {} ELSE Failure(a, Nth(failed, 0))

\* The planned faults the log shows injected; a call has at most one, so its
\* kind need not be compared.
Injected(faults, log) ==
    {f \in faults : \E i \in Positions(log, "tool_fault", f.tool) :
                       log[i].number = f.on_call}

FaultFinding(a, faults, log) ==
    IF a.fault \in Injected(faults, log) THEN {} ELSE Failure(a, 0)

Evaluate(a, found, faults, log) ==
    CASE a.type = "state" -> StateFinding(a, found, log)
      [] a.type = "count" -> CountFinding(a, log)
      [] a.type = "order" -> OrderFinding(a, log)
      [] a.type = "precondition" -> PreconditionFinding(a, log)
      [] a.type = "fault" -> FaultFinding(a, faults, log)
=============================================================================
