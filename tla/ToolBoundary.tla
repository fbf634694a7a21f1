---------------------------- MODULE ToolBoundary ----------------------------
(***************************************************************************)
(* ToolBoundary of boundary.py: the trace and the planned faults put       *)
(* around a program's own tool functions, sync or async.  Calls run on     *)
(* threads or tasks at the same time; the lock covers only the counters    *)
(* and each append to the trace, never a callable.  A step is what one     *)
(* call does from one hold of the lock to the next.                        *)
(***************************************************************************)
EXTENDS Naturals, Sequences, FiniteSets, SequencesExt

CONSTANTS
    Calls,   \* the invocations
    Tools,   \* the names of the wrapped functions
    Inputs,  \* arguments that have a fingerprint
    Opaque,  \* stands for arguments that have none
    Programs, \* which tool and input each call may be made with
    Faults,  \* planned: [tool, on_call, kind]
    Stuck    \* the calls whose callable need not return

\* wrap() and __init__ refuse what is not so.
ASSUME BoundaryPrepared ==
    /\ Opaque \notin Inputs
    /\ Programs \subseteq [Calls -> [tool : Tools, input : Inputs \cup {Opaque}]]
    /\ Stuck \subseteq Calls
    /\ Faults \subseteq
         [tool : Tools, on_call : Nat \ {0},
          kind : {"timeout_before", "stale_read", "response_lost_after_commit"}]
    /\ \A f, g \in Faults : f.tool = g.tool /\ f.on_call = g.on_call => f = g

VARIABLES
    pc,       \* what each call does next, or how it ended
    request,  \* its tool and input
    context,  \* its call_id and call_number
    status,   \* how its callable ended, NotRun before
    runs,     \* history: how often its callable has run
    counts,   \* _counts: calls per tool
    calls,    \* _calls: all calls
    previous, \* _previous: the last call with each tool and fingerprint, or 0
    trace     \* _events

boundaryVars == <<pc, request, context, status, runs, counts, calls, previous, trace>>

NotRun == "not_run"
Raised == {"error", "cancelled"}
Told == {"result", "stale", "timeout", "raised"}

Event(kind, c, detail) ==
    [kind |-> kind, tool |-> request[c].tool, call_id |-> context[c].call_id,
     number |-> context[c].number, detail |-> detail]

BoundaryInit ==
    /\ pc = [c \in Calls |-> "idle"]
    /\ request \in Programs
    /\ context = [c \in Calls |-> [call_id |-> 0, number |-> 0]]
    /\ status = [c \in Calls |-> NotRun]
    /\ runs = [c \in Calls |-> 0]
    /\ counts = [t \in Tools |-> 0]
    /\ calls = 0
    /\ previous = [k \in Tools \X Inputs |-> 0]
    /\ trace = <<>>

-----------------------------------------------------------------------------
\* The schedule entry of a call, "none" if it has no fault.
Scheduled(tool, number) ==
    IF \E f \in Faults : f.tool = tool /\ f.on_call = number
    THEN (CHOOSE f \in Faults : f.tool = tool /\ f.on_call = number).kind
    ELSE "none"

\* Mutant: the schedule counts the calls of all tools.
Fault_ByCallId(c) == Scheduled(request[c].tool, context[c].call_id)

Fault(c) == Scheduled(request[c].tool, context[c].number)

Key(c) == <<request[c].tool, request[c].input>>

\* Mutant: the first call with an input is the one the others refer to.
Remember_FirstOnly(c) ==
    previous' = IF request[c].input = Opaque \/ previous[Key(c)] # 0 THEN previous
                ELSE [previous EXCEPT ![Key(c)] = calls + 1]

Remember(c) ==
    previous' = IF request[c].input = Opaque THEN previous
                ELSE [previous EXCEPT ![Key(c)] = calls + 1]

\* Mutant: the call is numbered before the tool's counter is incremented.
Number_BeforeIncrement(c) == counts[request[c].tool]

Number(c) == counts[request[c].tool] + 1

\* Mutant: the lock is held while a callable runs.
MayStart_Serialised(c) == pc[c] = "idle" /\ \A d \in Calls : pc[d] # "execute"

\* Nothing but the lock's short sections keeps a call from starting.
MayStart(c) == pc[c] = "idle"

\* _start, one hold of the lock: number the call, append its attempt, and look
\* up its fault.  same_input_as is 0 when it is left out.
Start(c) ==
    LET tool == request[c].tool
    IN  /\ MayStart(c)
        /\ counts' = [counts EXCEPT ![tool] = @ + 1]
        /\ calls' = calls + 1
        /\ context' = [context EXCEPT ![c] = [call_id |-> calls + 1, number |-> Number(c)]]
        /\ Remember(c)
        /\ trace' = Append(trace,
              [kind |-> "tool_attempt", tool |-> tool, call_id |-> calls + 1,
               number |-> Number(c),
               detail |-> IF request[c].input = Opaque THEN 0 ELSE previous[Key(c)]])
        /\ pc' = [pc EXCEPT ![c] =
              IF Scheduled(tool, Number(c)) \in {"timeout_before", "stale_read"}
              THEN "fault" ELSE "execute"]
        /\ UNCHANGED <<request, status, runs>>

\* The callable, outside any lock: it returns, returns an error result, raises
\* or is cancelled.
Execute(c, s) ==
    /\ pc[c] = "execute"
    /\ status' = [status EXCEPT ![c] = s]
    /\ runs' = [runs EXCEPT ![c] = @ + 1]
    /\ pc' = [pc EXCEPT ![c] = "executed"]
    /\ UNCHANGED <<request, context, counts, calls, previous, trace>>

\* _record: one event of the call, and the step after it.
Step(c, from, event, to) ==
    /\ pc[c] = from
    /\ trace' = Append(trace, event)
    /\ pc' = [pc EXCEPT ![c] = to]
    /\ UNCHANGED <<request, context, status, runs, counts, calls, previous>>

\* Only what the callable returned, and not as an error, can be lost.
Loses(c) == Fault(c) = "response_lost_after_commit" /\ status[c] = "returned"

\* Mutant: a callable that was cancelled leaves no execution in the trace.
RecordExecuted_NotCancelled(c) ==
    IF status[c] = "cancelled"
    THEN Step(c, "executed", Event("tool_error", c, status[c]), "observe")
    ELSE Step(c, "executed", Event("tool_executed", c, status[c]),
              IF Loses(c) THEN "fault"
              ELSE IF status[c] \in Raised THEN "error" ELSE "observe")

\* _raised and _returned begin with the execution.
RecordExecuted(c) ==
    Step(c, "executed", Event("tool_executed", c, status[c]),
         IF Loses(c) THEN "fault"
         ELSE IF status[c] \in Raised THEN "error" ELSE "observe")

RecordError(c) == Step(c, "error", Event("tool_error", c, status[c]), "observe")

RecordFault(c) == Step(c, "fault", Event("tool_fault", c, Fault(c)), "told")

\* Mutant: the observation repeats how the callable ended.
Observed_CallableStatus(c) == status[c]

\* What is observed: the public TimeoutError for both timeouts, the stale value,
\* what was raised, or what was returned.
Observed(c) ==
    IF pc[c] = "told"
    THEN IF Fault(c) = "stale_read" THEN "returned" ELSE "error"
    ELSE IF status[c] \in Raised THEN status[c] ELSE "returned"

Observe(c) ==
    \/ Step(c, "told", Event("tool_observation", c, Observed(c)),
            IF Fault(c) = "stale_read" THEN "stale" ELSE "timeout")
    \/ Step(c, "observe", Event("tool_observation", c, Observed(c)),
            IF status[c] \in Raised THEN "raised" ELSE "result")

Call(c) ==
    \/ Start(c)
    \/ \E s \in {"returned", "error_result", "error", "cancelled"} : Execute(c, s)
    \/ RecordExecuted(c)
    \/ RecordError(c)
    \/ RecordFault(c)
    \/ Observe(c)

BoundaryNext == \E c \in Calls : Call(c)
BoundarySpec == BoundaryInit /\ [][BoundaryNext]_boundaryVars

\* The scheduler runs every thread that is not in a callable, and the callables
\* return, except the stuck ones.
BoundaryFairness ==
    \A c \in Calls :
        /\ WF_boundaryVars(Call(c) /\ pc[c] # "execute")
        /\ c \notin Stuck => WF_boundaryVars(Call(c) /\ pc[c] = "execute")

FairBoundarySpec == BoundarySpec /\ BoundaryFairness

-----------------------------------------------------------------------------
\* Properties.

Statuses == {"returned", "error_result"} \cup Raised
TraceEvents ==
    [kind : {"tool_attempt"}, tool : Tools, call_id : Nat, number : Nat, detail : Nat]
      \cup [kind : {"tool_executed", "tool_error", "tool_fault", "tool_observation"},
            tool : Tools, call_id : Nat, number : Nat,
            detail : Statuses \cup {"timeout_before", "stale_read",
                                    "response_lost_after_commit"}]

\* Every variable has the shape the code gives it.
BoundaryTypeOK ==
    /\ pc \in [Calls -> {"idle", "execute", "executed", "error", "fault", "told",
                         "observe"} \cup Told]
    /\ request \in [Calls -> [tool : Tools, input : Inputs \cup {Opaque}]]
    /\ context \in [Calls -> [call_id : Nat, number : Nat]]
    /\ status \in [Calls -> {NotRun} \cup Statuses]
    /\ runs \in [Calls -> Nat]
    /\ counts \in [Tools -> Nat]
    /\ calls \in Nat
    /\ previous \in [Tools \X Inputs -> Nat]
    /\ trace \in Seq(TraceEvents)

Attempts == {i \in DOMAIN trace : trace[i].kind = "tool_attempt"}
CallAt(i) == CHOOSE c \in Calls : context[c].call_id = trace[i].call_id

\* Attempts enter the trace in the order of their numbers, however the threads
\* race: the k-th attempt is call k, and the n-th of its tool has call_number n,
\* the number its fault is planned for.
AttemptsInOrder ==
    \A i \in Attempts :
        LET earlier == {j \in Attempts : j <= i}
        IN  /\ trace[i].call_id = Cardinality(earlier)
            /\ trace[i].number
                  = Cardinality({j \in earlier : trace[j].tool = trace[i].tool})

\* same_input_as names the latest earlier call of the same tool with the same
\* input, and is left out only if there is none or the input has no fingerprint.
RepeatsAreReal ==
    \A i \in Attempts :
        LET same == {j \in Attempts : j < i /\ Key(CallAt(j)) = Key(CallAt(i))}
        IN  trace[i].detail =
              IF request[CallAt(i)].input = Opaque \/ same = {} THEN 0
              ELSE trace[Max(same)].call_id

\* Where the trace holds a call's events.
EventsOf(c) == {i \in DOMAIN trace : trace[i].call_id = context[c].call_id}

\* The kinds of events a call leaves, from what its caller was told and whether
\* its callable ran.
Shape(c) ==
    <<"tool_attempt">>
      \o (IF runs[c] = 0 THEN <<>> ELSE <<"tool_executed">>)
      \o (CASE pc[c] = "raised" -> <<"tool_error">>
            [] pc[c] \in {"timeout", "stale"} -> <<"tool_fault">>
            [] OTHER -> <<>>)
      \o <<"tool_observation">>

\* Whatever the other threads append in between, a finished call has left its
\* own events in order, an execution if and only if its callable ran, once, a
\* fault if and only if the caller was lied to, and the observation is what
\* the caller was told: the same for a timeout before and after the callable.
TraceIsTrue ==
    \A c \in Calls :
        LET mine == EventsOf(c)
        IN  pc[c] \in Told =>
                /\ Cardinality(mine) = Len(Shape(c))
                /\ \A i \in mine :
                      trace[i].kind = Shape(c)[Cardinality({j \in mine : j <= i})]
                /\ runs[c] <= 1
                /\ pc[c] \in {"result", "raised"} => runs[c] = 1
                /\ pc[c] = "stale" => runs[c] = 0
                /\ \A i \in mine : trace[i].kind = "tool_observation" =>
                      trace[i].detail = CASE pc[c] = "timeout" -> "error"
                                          [] pc[c] = "raised" -> status[c]
                                          [] OTHER -> "returned"

Triggered(f) ==
    \E i \in DOMAIN trace : /\ trace[i].kind = "tool_fault"
                            /\ trace[i].tool = f.tool /\ trace[i].number = f.on_call

\* A report taken at any moment has real coverage: a fault it calls triggered is
\* never answered with the truth, and one it does not call triggered once its
\* call is over was spared only because the callable failed by itself.
CoverageIsTrue ==
    \A f \in Faults, c \in Calls :
        request[c].tool = f.tool /\ context[c].number = f.on_call =>
            /\ Triggered(f) => pc[c] \notin {"result", "raised"}
            /\ pc[c] \in Told /\ ~Triggered(f) =>
                  status[c] \in Raised \cup {"error_result"}

\* Concurrent calls remain concurrent: a callable that never returns keeps no
\* other call from its end.
OthersEnd == <>(\A c \in Calls \ Stuck : pc[c] \in Told)
=============================================================================
