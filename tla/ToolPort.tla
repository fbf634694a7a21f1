------------------------------ MODULE ToolPort ------------------------------
(***************************************************************************)
(* The instrumented tool port of core.py: every tool call of the agent     *)
(* under evaluation goes through ToolPort.call, which serialises the calls *)
(* with an asyncio.Lock, injects the planned faults, runs the handler on   *)
(* the run-local World and appends the evidence to the event log.          *)
(*                                                                         *)
(* Calls are asyncio tasks of one event loop: what the code does between   *)
(* two awaits is one action.  A call awaits in two places only, the lock   *)
(* (pc = "waiting") and the handler (pc = "running"); while a handler is   *)
(* suspended every other task may run.                                     *)
(***************************************************************************)
EXTENDS Naturals, Sequences, FiniteSets

CONSTANTS
    Calls,          \* the tool-call tasks, each one invocation of call()
    Tools,          \* the tool names the agent uses, registered or not
    Handlers,       \* the registered ones
    ReadOnly,       \* the tools whose ToolSpec says read_only
    Paths, Values,  \* the state the handlers work on
    InitialWorld,
    Faults,         \* planned faults: [tool, on_call, kind]
    Preconditions,  \* [tool, path, value], observed before a handler runs
    MaxCalls,       \* max_tool_calls
    ArgumentKinds   \* which kinds of arguments the agent sends

FaultKinds == {"timeout_before", "stale_read", "response_lost_after_commit"}

(***************************************************************************)
(* What Scenario, Fault and prepare_case guarantee of a selected case.  A  *)
(* fault plan has at most one fault per call.                              *)
(***************************************************************************)
ASSUME CasePrepared ==
    /\ Handlers \subseteq Tools
    /\ ReadOnly \subseteq Handlers
    /\ InitialWorld \in [Paths -> Values]
    /\ Faults \subseteq [tool : Handlers, on_call : Nat \ {0}, kind : FaultKinds]
    /\ \A f, g \in Faults :
          f.tool = g.tool /\ f.on_call = g.on_call => f = g
    /\ Preconditions \subseteq [tool : Handlers, path : Paths, value : Values]
    /\ Tools # {}
    /\ MaxCalls \in Nat \ {0}
    /\ ArgumentKinds \subseteq {"valid", "off_schema", "not_json"}

VARIABLES
    pc,         \* where each call is: its await point, or how it ended
    request,    \* the tool and the kind of arguments of each issued call
    waiters,    \* the lock's FIFO queue of waiting calls
    counts,     \* _counts: attempts per tool
    number,     \* call_number of each admitted call (a local variable)
    events,     \* the event log
    violations, \* the findings the port itself records
    world,      \* the World document
    before,     \* the snapshot each call took before its handler (local)
    touched,    \* history: the paths the running handler has written
    sealed      \* the run has ended: port sealed, World sealed and closed

portVars == <<pc, request, waiters, counts, number, events, violations,
              world, before, touched, sealed>>

(***************************************************************************)
(* How a call can end.  "abandoned" is a handler that was still suspended  *)
(* when the run ended: reading the closed World in the finally block       *)
(* raises, whatever the handler did.                                       *)
(***************************************************************************)
Outcomes == {"result", "stale", "rejected", "bad_arguments", "timeout",
             "lost", "error", "cancelled", "sealed", "abandoned"}

Done(c) == pc[c] \in Outcomes
Running == {c \in Calls : pc[c] = "running"}

-----------------------------------------------------------------------------
\* The event log: Event.seq is the position in it.

Event(kind, c, n) ==
    [kind |-> kind, call |-> c, tool |-> request[c].tool, number |-> n]

ExecutedEvent(c, d, status) ==
    [kind |-> "tool_executed", call |-> c, tool |-> request[c].tool,
     number |-> number[c], changes |-> d, status |-> status]

PreconditionEvent(c, n, missed) ==
    [kind |-> "precondition_failed", call |-> c, tool |-> request[c].tool,
     number |-> n, missed |-> missed]

AgentEvent(kind) == [kind |-> kind]

\* changes(before, after): the paths that differ, with both values.
Changes(b, a) ==
    [p \in {q \in Paths : b[q] # a[q]} |-> [before |-> b[p], after |-> a[p]]]

Violation(rule, seq) == [rule |-> rule, seq |-> seq]

\* The observations of the state a call starts from: one event stands for
\* the events of all the preconditions of its tool that do not hold.
Missed(t) == {q \in Preconditions : q.tool = t /\ world[q.path] # q.value}

Precheck(c, n) ==
    LET m == Missed(request[c].tool)
    IN  IF m = {} THEN <<>> ELSE <<PreconditionEvent(c, n, m)>>

Planned(c, n, kind) ==
    [tool |-> request[c].tool, on_call |-> n, kind |-> kind] \in Faults

-----------------------------------------------------------------------------
\* The requests are read once a call is issued: their first value is arbitrary.
Init ==
    /\ pc = [c \in Calls |-> "idle"]
    /\ request = [c \in Calls |->
                    [tool |-> CHOOSE t \in Tools : TRUE, arguments |-> "valid"]]
    /\ waiters = <<>>
    /\ counts = [t \in Tools |-> 0]
    /\ number = [c \in Calls |-> 0]
    /\ events = <<>>
    /\ violations = <<>>
    /\ world = InitialWorld
    /\ before = [c \in Calls |-> InitialWorld]
    /\ touched = [c \in Calls |-> {}]
    /\ sealed = FALSE

-----------------------------------------------------------------------------
\* Reaching the lock.

\* The agent calls a tool: the task queues for the lock.
Issue(c, t, a) ==
    /\ pc[c] = "idle"
    /\ pc' = [pc EXCEPT ![c] = "waiting"]
    /\ request' = [request EXCEPT ![c] = [tool |-> t, arguments |-> a]]
    /\ waiters' = Append(waiters, c)
    /\ UNCHANGED <<counts, number, events, violations, world, before, touched,
                   sealed>>

\* Mutant: the cancelled task stays in the queue.
CancelWaiting_StaysQueued(c) ==
    /\ pc[c] = "waiting"
    /\ pc' = [pc EXCEPT ![c] = "cancelled"]
    /\ UNCHANGED <<request, waiters, counts, number, events, violations, world,
                   before, touched, sealed>>

\* The task is cancelled while it waits: it leaves the queue without a trace.
CancelWaiting(c) ==
    /\ pc[c] = "waiting"
    /\ \E i \in 1..Len(waiters) :
          /\ waiters[i] = c
          /\ waiters' = SubSeq(waiters, 1, i - 1)
                           \o SubSeq(waiters, i + 1, Len(waiters))
    /\ pc' = [pc EXCEPT ![c] = "cancelled"]
    /\ UNCHANGED <<request, counts, number, events, violations, world, before,
                   touched, sealed>>

\* Mutant: the lock does not cover the handler's awaits.
Acquire_HandlerUnlocked(c) ==
    /\ pc[c] = "waiting"
    /\ waiters # <<>> /\ Head(waiters) = c
    /\ waiters' = Tail(waiters)

\* The lock is free and c is the task it wakes: asyncio.Lock is first in,
\* first out, and a new caller never overtakes a waiting one.
Acquire(c) ==
    /\ pc[c] = "waiting"
    /\ waiters # <<>> /\ Head(waiters) = c
    /\ Running = {}
    /\ waiters' = Tail(waiters)

\* The run ended while c waited.
EnterSealed(c) ==
    /\ Acquire(c)
    /\ sealed
    /\ pc' = [pc EXCEPT ![c] = "sealed"]
    /\ UNCHANGED <<request, counts, number, events, violations, world, before,
                   touched, sealed>>

-----------------------------------------------------------------------------
\* _call_locked up to the handler: one step, there is no await in it.

\* Mutant: the number is read before the count is incremented.
CallNumber_NotIncremented(c) == counts[request[c].tool]

CallNumber(c) == counts[request[c].tool] + 1

Admit(c) ==
    /\ Acquire(c)
    /\ ~sealed
    /\ counts' = [counts EXCEPT ![request[c].tool] = @ + 1]
    /\ number' = [number EXCEPT ![c] = CallNumber(c)]
    /\ UNCHANGED <<request, world, sealed>>

Attempt(c) == Event("tool_attempt", c, CallNumber(c))

\* The attempts counted so far, each by its tool and number: there are
\* sum(_counts.values()) of them.
Counted == UNION {{t} \X (1..counts[t]) : t \in Tools}

\* Mutant: the attempt being made is not counted.
OverLimit_OffByOne == Cardinality(Counted) > MaxCalls

\* The refused attempt counts as well.
OverLimit == Cardinality(Counted) + 1 > MaxCalls

\* The checks of an attempt, in the order they are made.
Refusal(c) ==
    IF OverLimit THEN "limit_exceeded"
    ELSE IF request[c].tool \notin Handlers THEN "unknown_tool"
    ELSE IF request[c].arguments = "off_schema"
         THEN "argument_schema"
    ELSE "none"

Reject(c) ==
    /\ Admit(c)
    /\ Refusal(c) # "none"
    /\ events' = events
         \o <<Attempt(c), Event("tool_rejected", c, CallNumber(c))>>
    /\ violations' = Append(violations, Violation(Refusal(c), Len(events) + 2))
    /\ pc' = [pc EXCEPT ![c] = "rejected"]
    /\ UNCHANGED <<before, touched>>

\* Arguments json.dumps cannot encode: canonical raises after the attempt.
BadArguments(c) ==
    /\ Admit(c)
    /\ Refusal(c) = "none"
    /\ request[c].arguments = "not_json"
    /\ events' = Append(events, Attempt(c))
    /\ pc' = [pc EXCEPT ![c] = "bad_arguments"]
    /\ UNCHANGED <<violations, before, touched>>

\* The call passes its checks.
Permitted(c) ==
    /\ Admit(c)
    /\ Refusal(c) = "none"
    /\ request[c].arguments # "not_json"
    /\ UNCHANGED violations

TimeoutBefore(c) ==
    /\ Permitted(c)
    /\ Planned(c, CallNumber(c), "timeout_before")
    /\ events' = events
         \o <<Attempt(c), Event("tool_fault", c, CallNumber(c))>>
    /\ pc' = [pc EXCEPT ![c] = "timeout"]
    /\ UNCHANGED <<before, touched>>

StaleRead(c) ==
    /\ Permitted(c)
    /\ Planned(c, CallNumber(c), "stale_read")
    /\ events' = events
         \o <<Attempt(c), Event("tool_fault", c, CallNumber(c)),
              Event("tool_observation", c, CallNumber(c))>>
    /\ pc' = [pc EXCEPT ![c] = "stale"]
    /\ UNCHANGED <<before, touched>>

\* The preconditions are observed, the snapshot taken, the handler started.
Start(c) ==
    /\ Permitted(c)
    /\ ~Planned(c, CallNumber(c), "timeout_before")
    /\ ~Planned(c, CallNumber(c), "stale_read")
    /\ events' = Append(events, Attempt(c)) \o Precheck(c, CallNumber(c))
    /\ before' = [before EXCEPT ![c] = world]
    /\ touched' = [touched EXCEPT ![c] = {}]
    /\ pc' = [pc EXCEPT ![c] = "running"]

-----------------------------------------------------------------------------
\* The handler and the evidence of its execution.

\* Mutant: the World is not sealed with the port.
HandlerWrite_Unsealed(c, p, v) ==
    /\ pc[c] = "running"
    /\ world' = [world EXCEPT ![p] = v]
    /\ touched' = [touched EXCEPT ![c] = @ \cup {p}]
    /\ UNCHANGED <<pc, request, waiters, counts, number, events, violations,
                   before, sealed>>

\* World.set: refused once the run has ended.
HandlerWrite(c, p, v) ==
    /\ pc[c] = "running"
    /\ ~sealed
    /\ world' = [world EXCEPT ![p] = v]
    /\ touched' = [touched EXCEPT ![c] = @ \cup {p}]
    /\ UNCHANGED <<pc, request, waiters, counts, number, events, violations,
                   before, sealed>>

\* Mutant: the change is logged after the handler, not in a finally block.
Evidence_OnlyIfCompleted(c, status) ==
    IF status = "completed"
    THEN <<ExecutedEvent(c, Changes(before[c], world), status)>>
    ELSE <<Event("tool_error", c, number[c])>>

\* What the handler's call leaves in the log: an error event if it raised,
\* then the change of the world between the snapshot and now.
Evidence(c, status) ==
    LET executed == ExecutedEvent(c, Changes(before[c], world), status)
    IN  IF status = "completed"
        THEN <<executed>>
        ELSE <<Event("tool_error", c, number[c]), executed>>

\* The change of a tool that promised to change nothing is a violation.
ReadOnlyViolation(c, seq) ==
    IF request[c].tool \in ReadOnly /\ before[c] # world
    THEN <<Violation("read_only_changed", seq)>>
    ELSE <<>>

Finish(c, outcome) ==
    /\ pc[c] = "running"
    /\ pc' = [pc EXCEPT ![c] = outcome]
    /\ touched' = [touched EXCEPT ![c] = {}]
    /\ UNCHANGED <<request, waiters, counts, number, world, before, sealed>>

\* Mutant: the violation points at the error event.
HandlerRaises_WrongSeq(c, status) ==
    /\ ~sealed
    /\ Finish(c, status)
    /\ events' = events \o Evidence(c, status)
    /\ violations' = violations \o ReadOnlyViolation(c, Len(events) + 1)

\* The handler raises, is cancelled (status "cancelled"), or returns what
\* cannot be encoded.
HandlerRaises(c, status) ==
    /\ ~sealed
    /\ Finish(c, status)
    /\ events' = events \o Evidence(c, status)
    /\ violations' = violations \o ReadOnlyViolation(c, Len(events) + 2)

\* The handler returns a result its schema refuses: it has run all the same.
BadResult(c) ==
    /\ ~sealed
    /\ request[c].tool \in Handlers
    /\ Finish(c, "rejected")
    /\ events' = events \o Evidence(c, "completed")
         \o <<Event("tool_rejected", c, number[c])>>
    /\ violations' = violations \o ReadOnlyViolation(c, Len(events) + 1)
         \o <<Violation("result_schema", Len(events) + 2)>>

\* Mutant: the call ends with the name of the fault.
LoseResponse_WrongOutcome(c) ==
    /\ ~sealed
    /\ Planned(c, number[c], "response_lost_after_commit")
    /\ Finish(c, "response_lost_after_commit")
    /\ events' = events \o Evidence(c, "completed")
         \o <<Event("tool_fault", c, number[c])>>
    /\ violations' = violations \o ReadOnlyViolation(c, Len(events) + 1)

\* Mutant: the response is lost before the handler's change is recorded.
LoseResponse_BeforeCommit(c) ==
    /\ ~sealed
    /\ Planned(c, number[c], "response_lost_after_commit")
    /\ Finish(c, "lost")
    /\ events' = Append(events, Event("tool_fault", c, number[c]))
    /\ UNCHANGED violations

LoseResponse(c) ==
    /\ ~sealed
    /\ Planned(c, number[c], "response_lost_after_commit")
    /\ Finish(c, "lost")
    /\ events' = events \o Evidence(c, "completed")
         \o <<Event("tool_fault", c, number[c])>>
    /\ violations' = violations \o ReadOnlyViolation(c, Len(events) + 1)

Respond(c) ==
    /\ ~sealed
    /\ ~Planned(c, number[c], "response_lost_after_commit")
    /\ Finish(c, "result")
    /\ events' = events \o Evidence(c, "completed")
         \o <<Event("tool_observation", c, number[c])>>
    /\ violations' = violations \o ReadOnlyViolation(c, Len(events) + 1)

\* The handler ends after the run: the snapshot in its finally block raises
\* on the closed World, so nothing but an error it raised is recorded.
EndAbandoned(c) ==
    /\ sealed
    /\ Finish(c, "abandoned")
    /\ events' \in {events, Append(events, Event("tool_error", c, number[c]))}
    /\ UNCHANGED violations

-----------------------------------------------------------------------------
\* The end of the run, in one step of the runner: the agent's last event, if
\* the run is not aborted, then seal() and World.close().
Seal(last) ==
    /\ ~sealed
    /\ sealed' = TRUE
    /\ events' = events \o last
    /\ UNCHANGED <<pc, request, waiters, counts, number, violations, world,
                   before, touched>>

AgentEnds == {<<>>, <<AgentEvent("agent_output")>>, <<AgentEvent("agent_error")>>}

-----------------------------------------------------------------------------
Enter(c) ==
    \/ EnterSealed(c)
    \/ Reject(c)
    \/ BadArguments(c)
    \/ TimeoutBefore(c)
    \/ StaleRead(c)
    \/ Start(c)

EndHandler(c) ==
    \/ \E status \in {"error", "cancelled"} : HandlerRaises(c, status)
    \/ BadResult(c)
    \/ LoseResponse(c)
    \/ Respond(c)
    \/ EndAbandoned(c)

CallStep(c) ==
    \/ \E t \in Tools, a \in ArgumentKinds : Issue(c, t, a)
    \/ CancelWaiting(c)
    \/ Enter(c)
    \/ \E p \in Paths, v \in Values : HandlerWrite(c, p, v)
    \/ EndHandler(c)

PortNext ==
    \/ \E c \in Calls : CallStep(c)
    \/ \E last \in AgentEnds : Seal(last)

PortSpec == Init /\ [][PortNext]_portVars

-----------------------------------------------------------------------------
\* Properties.

EventKinds == {"tool_attempt", "tool_rejected", "tool_fault", "tool_error",
               "tool_observation"}
Worlds == [Paths -> Values]
ChangeSets ==
    UNION {[D -> [before : Values, after : Values]] : D \in SUBSET Paths}
LogEvents ==
    [kind : EventKinds, call : Calls, tool : Tools, number : Nat]
      \cup [kind : {"tool_executed"}, call : Calls, tool : Tools, number : Nat,
            changes : ChangeSets, status : {"completed", "error", "cancelled"}]
      \cup [kind : {"precondition_failed"}, call : Calls, tool : Tools,
            number : Nat, missed : SUBSET Preconditions]
      \cup [kind : {"agent_output", "agent_error"}]
Rules == {"limit_exceeded", "unknown_tool",
          "argument_schema", "result_schema",
          "read_only_changed"}
Findings == [rule : Rules, seq : Nat]

\* Every variable has the shape the code gives it.
TypeOK ==
    /\ pc \in [Calls -> {"idle", "waiting", "running"} \cup Outcomes]
    /\ request \in [Calls -> [tool : Tools,
                              arguments : {"valid", "off_schema", "not_json"}]]
    /\ waiters \in Seq(Calls)
    /\ counts \in [Tools -> Nat]
    /\ number \in [Calls -> Nat]
    /\ events \in Seq(LogEvents)
    /\ violations \in Seq(Findings)
    /\ world \in Worlds
    /\ before \in [Calls -> Worlds]
    /\ touched \in [Calls -> SUBSET Paths]
    /\ sealed \in BOOLEAN

\* The positions of call c's events of one kind.
At(kind) == {i \in DOMAIN events : events[i].kind = kind}
Of(kind, c) == {i \in At(kind) : events[i].call = c}

\* While a handler runs, nobody else changes the world under it, however the
\* other calls interleave with its awaits: what _call_locked will log as its
\* change is what it wrote itself, and no update between its reads and its
\* writes is lost.
Isolation ==
    /\ \A c, d \in Running : c = d
    /\ \A c \in Running, p \in Paths :
          world[p] # before[c][p] => p \in touched[c]

\* The world as the log leaves it: while a handler runs, and for ever once the
\* run has abandoned it, the state it started from.
Unlogged == {c \in Calls : pc[c] \in {"running", "abandoned"}}
LoggedWorld ==
    IF Unlogged = {} THEN world ELSE before[CHOOSE c \in Unlogged : TRUE]

\* The n-th attempt of a tool in the log is the one numbered n, so a planned
\* fault meets the call it was planned for, and each fault fires at most once;
\* and however many calls race, only the first max_tool_calls attempts get past
\* the limit: the later ones are refused, with nothing executed or injected.
AttemptsCounted ==
    /\ \A i \in At("tool_attempt") :
          events[i].number = Cardinality({j \in At("tool_attempt") :
                                j <= i /\ events[j].tool = events[i].tool})
    /\ \A i \in At("tool_fault") :
          /\ \E f \in Faults : f.tool = events[i].tool /\ f.on_call = events[i].number
          /\ \A j \in At("tool_fault") :
                events[j].tool = events[i].tool /\ events[j].number = events[i].number
                  => j = i
    /\ Cardinality({c \in Calls :
          /\ Of("tool_attempt", c) # {}
          /\ Of("tool_rejected", c) = {} \/ Of("tool_executed", c) # {}}) <= MaxCalls

\* What the agent was told of a call is true of it: a timeout before the call,
\* a stale answer, a refusal of the call and a sealed port mean that the
\* handler did not run; an answer, a lost response and a refused result mean
\* that it ran to its end, exactly once; and the answer itself is in the log
\* if and only if the agent received one.
AnswersAreTrue ==
    \A c \in Calls :
        LET runs == Of("tool_executed", c)
            ToldNotRun == \/ pc[c] \in {"timeout", "stale", "bad_arguments", "sealed"}
                          \/ pc[c] = "rejected" /\ \E v \in DOMAIN violations :
                                /\ violations[v].rule # "result_schema"
                                /\ violations[v].seq \in Of("tool_rejected", c)
            ToldRun == pc[c] \in {"result", "lost", "rejected"} /\ ~ToldNotRun
        IN  /\ Cardinality(runs) <= 1
            /\ ToldNotRun => runs = {}
            /\ ToldRun => \E i \in runs : events[i].status = "completed"
            /\ Of("tool_observation", c) # {} <=> pc[c] \in {"result", "stale"}

\* Refused calls stay on the record even when the agent swallows the error:
\* each rejection, and each change made by a read-only tool, has a violation
\* that points at its event, and nothing else has one.
ViolationsMatchEvidence ==
    LET rejections == {v \in DOMAIN violations :
                          violations[v].rule # "read_only_changed"}
        readOnlyChanges == {i \in At("tool_executed") :
                               /\ events[i].tool \in ReadOnly
                               /\ DOMAIN events[i].changes # {}}
    IN  /\ {violations[v].seq : v \in rejections} = At("tool_rejected")
        /\ {violations[v].seq : v \in DOMAIN violations \ rejections} = readOnlyChanges
        /\ Len(violations) = Cardinality(At("tool_rejected"))
                                + Cardinality(readOnlyChanges)

\* Once the run has ended no call changes the world, adds a violation or logs
\* an execution, though handlers may still be suspended in it.
NoEffectAfterSeal ==
    [][sealed => /\ UNCHANGED <<world, violations>>
                 /\ At("tool_executed")' = At("tool_executed")]_portVars

-----------------------------------------------------------------------------
\* The port implements SerialTools: the record is the executions in the log.
Recorded ==
    {[at |-> i, call |-> events[i].call, tool |-> events[i].tool,
      changes |-> events[i].changes] : i \in At("tool_executed")}

Serial == INSTANCE SerialTools
              WITH state <- LoggedWorld, effects <- Recorded, closed <- sealed

\* The port is a sequence of atomic, at most once executed tool calls.
ImplementsSerialTools == Serial!Spec
=============================================================================
