------------------------------- MODULE Runner -------------------------------
(***************************************************************************)
(* run_scenario of runner.py: it drives the agent against the tool port    *)
(* under a deadline, seals the port, evaluates the assertions on the final *)
(* world and the event log, and builds the RunResult.  From the moment the *)
(* driver ends to the closing of the World there is no await, so each way  *)
(* of ending a run is one action, atomic for the calls still suspended.    *)
(***************************************************************************)
EXTENDS ToolPort, Assertions

CONSTANTS
    Detached,   \* the calls made from tasks the driver does not wait for
    Asserted    \* the assertions of the case, a sequence

ASSUME DetachedAreCalls == Detached \subseteq Calls

(***************************************************************************)
(* What validate_assertions guarantees of the assertions, and run_scenario *)
(* of the preconditions: the port observes each that is asserted.          *)
(***************************************************************************)
ASSUME AssertionsPrepared ==
    /\ Asserted \in Seq({Asserted[i] : i \in DOMAIN Asserted})
    /\ \A i \in DOMAIN Asserted :
          LET a == Asserted[i]
          IN  /\ a.type \in {"state", "count", "order", "precondition", "fault"}
              /\ a.type = "state" => a.path \in Paths
              /\ a.type = "count" => a.kind \in {"tool_executed", "tool_attempt"}
              /\ a.type = "order" => a.tools \in Seq(Handlers)
              /\ a.type = "precondition" =>
                    [tool |-> a.tool, path |-> a.path, value |-> a.value] \in Preconditions

VARIABLES
    driver,    \* "running", "ended" or, when a cancellation escaped, "aborted"
    expired,   \* the deadline of wait_for has passed and the driver is cancelled
    cancelled, \* the calls in flight that this cancellation was thrown into
    began,     \* history: the calls whose handlers were started, in their order
    report     \* the RunResult, NoReport until there is one

runVars == <<portVars, driver, expired, cancelled, began, report>>

NoReport == [status |-> "none"]

-----------------------------------------------------------------------------
Finding(a, log) ==
    Evaluate(a, IF a.type = "state" THEN {world[a.path]} ELSE {}, Faults, log)

Blame(v) == [assertion |-> [type |-> violations[v].rule], seq |-> violations[v].seq]

-----------------------------------------------------------------------------
RunInit ==
    /\ Init
    /\ driver = "running"
    /\ expired = FALSE
    /\ cancelled = {}
    /\ began = <<>>
    /\ report = NoReport

InFlight == {c \in Calls : pc[c] \in {"waiting", "running"}}

\* The calls the driver is suspended in.
Awaited == InFlight \ Detached

\* What a step of a call does to the runner: a started handler is noted, and a
\* call that has ended need not be cancelled any more.
RunnerSees ==
    /\ began' = began \o (IF \E c \in Calls : pc[c] = "waiting" /\ pc'[c] = "running"
                          THEN <<Head(waiters)>>
                          ELSE <<>>)
    /\ cancelled' = cancelled \cap InFlight'
    /\ UNCHANGED <<driver, expired, report>>

\* A step of a call.  The driver's own tasks call tools only while it runs;
\* tasks it left behind may still do so after the end.
PortStep ==
    /\ \E c \in Calls :
          /\ CallStep(c)
          /\ pc[c] = "idle" /\ c \notin Detached => driver = "running"
    /\ RunnerSees

\* The deadline passes: wait_for cancels the driver's task, once, at the awaits it
\* is suspended in, and then waits for it to end.
DeadlineExpires ==
    /\ driver = "running"
    /\ ~expired
    /\ expired' = TRUE
    /\ cancelled' = Awaited
    /\ UNCHANGED <<portVars, driver, began, report>>

\* Mutant: the calls the port refused do not count as findings.
Result_IgnoresViolations(status, log, k) ==
    LET findings == UNION {Finding(Asserted[i], log) :
                             i \in {j \in DOMAIN Asserted : j < k}}
    IN  [status |-> IF k <= Len(Asserted) THEN "error"
                    ELSE IF status = "pass" /\ findings # {} THEN "fail" ELSE status,
         findings |-> findings, events |-> log, final_state |-> world,
         triggered |-> Injected(Faults, log)]

\* Mutant: a planned fault counts as triggered when its call was attempted.
Result_TriggeredByAttempt(status, log, k) ==
    LET findings == {Blame(v) : v \in DOMAIN violations}
                      \cup UNION {Finding(Asserted[i], log) :
                                    i \in {j \in DOMAIN Asserted : j < k}}
    IN  [status |-> IF k <= Len(Asserted) THEN "error"
                    ELSE IF status = "pass" /\ findings # {} THEN "fail" ELSE status,
         findings |-> findings, events |-> log, final_state |-> world,
         triggered |-> {f \in Faults :
                          \E i \in Positions(log, "tool_attempt", f.tool) :
                              log[i].number = f.on_call}]

\* The status of a finished run: the evaluator raises at the k-th assertion,
\* or k is past the last and the findings decide.
Result(status, log, k) ==
    LET raised == k <= Len(Asserted)
        findings == {Blame(v) : v \in DOMAIN violations}
                      \cup UNION {Finding(Asserted[i], log) :
                                    i \in {j \in DOMAIN Asserted : j < k}}
    IN  [status |-> IF raised THEN "error"
                    ELSE IF status = "pass" /\ findings # {} THEN "fail" ELSE status,
         findings |-> findings,
         events |-> log,
         final_state |-> world,
         triggered |-> Injected(Faults, log)]

\* The driver is over with this status: record it, seal, judge, close.
Conclude(status) ==
    LET last == <<AgentEvent(IF status = "pass" THEN "agent_output" ELSE "agent_error")>>
    IN  /\ driver = "running"
        /\ Awaited = {}
        /\ driver' = "ended"
        /\ Seal(last)
        /\ \E k \in 1..Len(Asserted) + 1 : report' = Result(status, events \o last, k)
        /\ UNCHANGED <<expired, cancelled, began>>

\* The driver returns its answer, in time or after suppressing the
\* cancellation of an expired deadline.
DriverReturns == Conclude("pass")

\* It raises, or returns something else than an AgentResult.
DriverRaises == Conclude("error")

\* It ends cancelled after the deadline: wait_for raises TimeoutError.
DriverTimesOut == expired /\ Conclude("timeout")

\* A TimeoutError of its own, or of a tool's handler, is caught by the same
\* except clause as the deadline's.
DriverRaisesTimeoutError == Conclude("timeout")

\* Mutant: sealing is not in a finally block.
DriverCancelled_NotSealed ==
    /\ driver = "running"
    /\ Awaited = {}
    /\ driver' = "aborted"
    /\ UNCHANGED <<portVars, expired, cancelled, began, report>>

\* A cancellation from outside, or a CancelledError the driver lets out, is no
\* Exception: the finally block seals and closes, and there is no RunResult.
DriverCancelled ==
    /\ driver = "running"
    /\ Awaited = {}
    /\ driver' = "aborted"
    /\ Seal(<<>>)
    /\ UNCHANGED <<expired, cancelled, began, report>>

DriverEnds ==
    \/ DriverReturns
    \/ DriverRaises
    \/ DriverTimesOut
    \/ DriverRaisesTimeoutError
    \/ DriverCancelled

RunNext == PortStep \/ DeadlineExpires \/ DriverEnds

RunSpec == RunInit /\ [][RunNext]_runVars

-----------------------------------------------------------------------------
\* Fairness and termination.

\* The calls of the driver that its cancellation reached end cancelled, at the lock
\* or in the handler.
LetsGo(c) ==
    /\ c \in cancelled
    /\ CancelWaiting(c) \/ HandlerRaises(c, "cancelled")

\* asyncio wakes the first waiter of a free lock, fires the deadline and throws its
\* cancellation into the driver's own calls in flight; a driver that was cancelled
\* and has nothing left to wait for ends cancelled.  No handler is assumed to
\* return.  Handlers and drivers that swallow the cancellation for ever are left out.
RunFairness ==
    /\ \A c \in Calls : WF_runVars(Enter(c) /\ RunnerSees)
    /\ \A c \in Calls : WF_runVars(LetsGo(c) /\ RunnerSees)
    /\ WF_runVars(DeadlineExpires)
    /\ WF_runVars(DriverTimesOut)

FairRunSpec == RunSpec /\ RunFairness

\* A run ends, though no handler need ever return, its own or one left behind: only
\* a tool the driver calls after it was cancelled, which no deadline covers, can
\* keep it.  And whoever queues for the lock, before or after the run's end, waits
\* only for a handler that never returns: the lock is handed on when its holder
\* fails, is cancelled or is left behind, and a cancelled waiter does not block it.
RunEnds ==
    <>[](/\ driver = "running" => Awaited \ cancelled # {}
         /\ (\E c \in Calls : pc[c] = "waiting") => Running # {})

-----------------------------------------------------------------------------
\* Safety properties.

Reported == report # NoReport

\* Every variable of the runner has the shape the code gives it.
RunTypeOK ==
    /\ TypeOK
    /\ driver \in {"running", "ended", "aborted"}
    /\ expired \in BOOLEAN
    /\ cancelled \subseteq Awaited
    /\ began \in Seq(Calls)
    /\ sealed <=> driver # "running"
    /\ Reported <=> driver = "ended"
    /\ Reported => /\ report.status \in {"pass", "fail", "error", "timeout"}
                   /\ report.events \in Seq(LogEvents)
                   /\ report.final_state \in Worlds

\* Nothing that happens after the verdict contradicts it: tasks the agent left
\* behind may still run, but the reported final state stays the world's, no
\* execution is missing from the reported events, none changes, and no
\* violation is missing from the findings.
VerdictStands ==
    Reported =>
        /\ report.final_state = world
        /\ Executions(events) = Executions(report.events)
        /\ \A i \in Executions(events) : events[i] = report.events[i]
        /\ \A v \in DOMAIN violations : Blame(v) \in report.findings

\* The handler of call c started, told without the log: an admitted call that
\* was not refused, failed or answered before it.
HandlerRan(c) ==
    /\ number[c] > 0
    /\ \/ pc[c] \in {"running", "result", "lost", "error", "cancelled", "abandoned"}
       \/ \E v \in DOMAIN violations :
             violations[v].rule = "result_schema" /\ events[violations[v].seq].call = c

Ran(tool) == {c \in Calls : HandlerRan(c) /\ request[c].tool = tool}

\* The planned fault was met: the call it was planned for was told its lie.
FaultMet(f) ==
    \E c \in Calls :
        /\ request[c].tool = f.tool /\ number[c] = f.on_call
        /\ pc[c] = CASE f.kind = "timeout_before" -> "timeout"
                     [] f.kind = "stale_read" -> "stale"
                     [] f.kind = "response_lost_after_commit" -> "lost"

\* What an assertion says of the run itself rather than of its log.
Holds(a) ==
    CASE a.type = "state" -> report.final_state[a.path] = a.value
      [] a.type = "count" ->
            a.count = IF a.kind = "tool_executed" THEN Cardinality(Ran(a.tool))
                      ELSE Cardinality({c \in Calls : /\ number[c] > 0
                                                      /\ request[c].tool = a.tool})
      [] a.type = "order" ->
            [n \in DOMAIN began |-> request[began[n]].tool] = a.tools
      [] a.type = "precondition" ->
            \A c \in Ran(a.tool) : before[c][a.path] = a.value
      [] a.type = "fault" -> FaultMet(a.fault)

\* No task the driver left behind was inside a handler when the run ended.
NoHandlerLeft == \A c \in Calls : pc[c] \notin {"running", "abandoned"}

\* A passing run has earned it: what each assertion claims is true of what the
\* handlers really did, not only of what was logged: how often each ran, in what
\* order they were started, from and to what state.  And no call was refused and no
\* read-only tool changed the world, even if the agent swallowed the errors and
\* answered normally.  A handler left suspended at the end is the exception that
\* ReportedEventsExplainState is about.
PassIsEarned ==
    report.status = "pass" /\ NoHandlerLeft =>
        /\ \A i \in DOMAIN Asserted : Holds(Asserted[i])
        /\ \A c \in Calls : pc[c] # "rejected"
        /\ \A i \in Executions(report.events) :
              report.events[i].tool \in ReadOnly => DOMAIN report.events[i].changes = {}

\* The manifest's fault coverage is what happened: a planned fault is reported
\* as triggered exactly when some call was told its lie.
CoverageIsReal ==
    Reported => report.triggered = {f \in Faults : FaultMet(f)}

\* The state after the first i reported events: each path has the value the last
\* execution that changed it gave it.
StateAfter(i) ==
    LET log == report.events
        changed(p) == {j \in Executions(log) : j <= i /\ p \in DOMAIN log[j].changes}
        last(p) == CHOOSE j \in changed(p) : \A k \in changed(p) : k <= j
    IN  [p \in Paths |-> IF changed(p) = {} THEN InitialWorld[p]
                        ELSE log[last(p)].changes[p].after]

\* A wrong final value is blamed on the call that left the expected value for
\* good, whatever happened to the path before; with a handler left suspended at
\* the end the log cannot tell.
BlameIsFinalDeparture ==
    Reported /\ NoHandlerLeft => \A f \in report.findings :
        f.assertion.type = "state" =>
            LET Right(i) == StateAfter(i)[f.assertion.path] = f.assertion.value
            IN  /\ \A i \in f.seq .. Len(report.events) : ~Right(i)
                /\ f.seq # 0 => Right(f.seq - 1)

-----------------------------------------------------------------------------
\* What the documentation says and the code does not keep.

\* ARCHITECTURE.md:53: the event log records the physical effects.  Replaying
\* the reported events gives the reported final state.
ReportedEventsExplainState ==
    Reported => StateAfter(Len(report.events)) = report.final_state

\* ARCHITECTURE.md:125: a wrong final value is blamed on the first event that
\* changed it to the wrong value.
BlameIsFirstDeparture ==
    Reported => \A f \in report.findings :
        f.assertion.type = "state" =>
            \A i \in 1 .. f.seq - 1 :
                ~ /\ StateAfter(i - 1)[f.assertion.path] = f.assertion.value
                  /\ StateAfter(i)[f.assertion.path] # f.assertion.value

\* runner.py:71: a timeout is the run deadline exceeded.
TimeoutIsDeadline == Reported /\ report.status = "timeout" => expired
=============================================================================
