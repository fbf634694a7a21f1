---------------------------- MODULE RunnerProofs ----------------------------
(***************************************************************************)
(* Theorems about run_scenario, for every agent, case and set of calls.    *)
(* The runner's steps are steps of the tool port, so what is proved of the *)
(* port holds of every run; a verdict, once given, stands; the fault       *)
(* coverage it reports is what the calls were told; of a passing run, what *)
(* each assertion claims is true of what the handlers did; and in a        *)
(* failing one, the call blamed for a final state is the last to have      *)
(* changed it.  The evaluator reads the log only, so the proofs relate the *)
(* log of a call to what became of the call, and the effects in the log,   *)
(* one after the other, to the world.                                      *)
(***************************************************************************)
EXTENDS Runner, ToolPortProofs

-----------------------------------------------------------------------------
\* A run is a behaviour of the port.

\* What run_scenario does to the port, a port may do.
LEMMA RunStepIsPortStep == [RunNext]_runVars => [PortNext]_portVars
<1>1. ASSUME NEW status \in {"pass", "error", "timeout"}, Conclude(status)
      PROVE  PortNext
  BY <1>1 DEF Conclude, PortNext, AgentEnds
<1>2. DriverCancelled => PortNext
  BY DEF DriverCancelled, PortNext, AgentEnds
<1>3. PortStep => PortNext
  BY DEF PortStep, PortNext
<1>4. DeadlineExpires => UNCHANGED portVars
  BY DEF DeadlineExpires
<1>5. UNCHANGED runVars => UNCHANGED portVars
  BY DEF runVars
<1> QED
  BY <1>1, <1>2, <1>3, <1>4, <1>5
     DEF RunNext, DriverEnds, DriverReturns, DriverRaises, DriverTimesOut,
         DriverRaisesTimeoutError

\* Whatever run_scenario does, the port it drives behaves as PortSpec says.
THEOREM RunDrivesPort == RunSpec => PortSpec
<1>1. RunInit => Init
  BY DEF RunInit
<1> QED
  BY <1>1, RunStepIsPortStep, PTL DEF RunSpec, PortSpec

\* In a run too, no handler's awaits let another call into its world.
THEOREM RunCallsAreIsolated == RunSpec => []Isolation
  BY RunDrivesPort, CallsAreIsolated, PTL

-----------------------------------------------------------------------------
\* The shape of a run.  A step of a call ends no run, so the port is sealed by the
\* driver's end and by nothing else.

\* The runner's own part of the type invariant.
RunShape ==
    /\ driver \in {"running", "ended", "aborted"}
    /\ expired \in BOOLEAN
    /\ cancelled \subseteq Awaited
    /\ began \in Seq(Calls)
    /\ sealed <=> driver # "running"
    /\ Reported <=> driver = "ended"
    /\ Reported => /\ report.status \in {"pass", "fail", "error", "timeout"}
                   /\ report.events \in Seq(LogEvents)
                   /\ report.final_state \in Worlds

\* A step of a call leaves the port open or sealed as it is.
LEMMA CallStepSeals == \A c \in Calls : CallStep(c) => sealed' = sealed
  BY DEF CallStep, Issue, CancelWaiting, Enter, EnterSealed, Reject, BadArguments,
         TimeoutBefore, StaleRead, Start, Permitted, Admit, HandlerWrite, EndHandler,
         HandlerRaises, BadResult, LoseResponse, Respond, EndAbandoned, Finish

\* Of a call's steps the runner notes its start, and no other.
LEMMA OnlyStartsAreSeen ==
    ASSUME TypeOK, began \in Seq(Calls), NEW c \in Calls, CallStep(c), RunnerSees
    PROVE  /\ Start(c) => began' = Append(began, c)
           /\ ~Start(c) => began' = began
<1>1. CASE Start(c)
  <2>1. pc[c] = "waiting" /\ pc'[c] = "running" /\ Head(waiters) = c
    BY <1>1 DEF Start, Permitted, Admit, Acquire, TypeOK
  <2>2. began' = began \o <<c>>
    BY <2>1 DEF RunnerSees
  <2> QED
    BY <1>1, <2>2, AppendIsConcat
<1>2. CASE ~Start(c)
  <2>1. \A d \in Calls : ~(pc[d] = "waiting" /\ pc'[d] = "running")
    BY <1>2 DEF CallStep, Enter, EndHandler, HandlerWrite, Reject, BadArguments,
                TimeoutBefore, StaleRead, Issue, CancelWaiting, EnterSealed, HandlerRaises,
                BadResult, LoseResponse, Respond, EndAbandoned, Finish, TypeOK
  <2>2. began' = began \o <<>>
    BY <2>1 DEF RunnerSees
  <2> QED
    BY <1>2, <2>2
<1> QED
  BY <1>1, <1>2

\* The verdict has the shape of a RunResult.
LEMMA ConcludeShape ==
    ASSUME TypeOK, RunShape, NEW status \in {"pass", "error", "timeout"}, Conclude(status)
    PROVE  RunShape'
<1> DEFINE e == AgentEvent(IF status = "pass" THEN "agent_output" ELSE "agent_error")
           log == events \o <<e>>
<1>1. /\ driver' = "ended" /\ sealed' = TRUE /\ expired' = expired /\ world' = world
      /\ UNCHANGED <<pc, cancelled, began>>
  BY DEF Conclude, Seal
<1>2. PICK k \in 1..Len(Asserted) + 1 : report' = Result(status, log, k)
  BY DEF Conclude
<1>3. e \in LogEvents
  BY DEF AgentEvent, LogEvents
<1>4. log \in Seq(LogEvents)
  <2>1. events \in Seq(LogEvents) /\ <<e>> \in Seq(LogEvents)
    BY <1>3 DEF TypeOK
  <2> QED
    BY <2>1
<1> HIDE DEF log
<1>5. /\ report'.status \in {"pass", "fail", "error", "timeout"}
      /\ report'.events = log /\ report'.final_state = world
  BY <1>2 DEF Result
<1>6. report' # NoReport
  BY <1>5, <1>2 DEF Result, NoReport
<1> QED
  BY <1>1, <1>4, <1>5, <1>6 DEF RunShape, Reported, TypeOK, Awaited, InFlight

\* Every step of a run keeps its shape.
LEMMA NextRunShape ==
    ASSUME TypeOK, RunShape, [RunNext]_runVars
    PROVE  RunShape'
<1>1. CASE \E status \in {"pass", "error", "timeout"} : Conclude(status)
  BY <1>1, ConcludeShape
<1>2. CASE PortStep
  <2>1. PICK c \in Calls : CallStep(c)
    BY <1>2 DEF PortStep
  <2>2. RunnerSees /\ sealed' = sealed
    BY <1>2, <2>1, CallStepSeals DEF PortStep
  <2>3. began' \in Seq(Calls)
    <3>1. began \in Seq(Calls)
      BY DEF RunShape
    <3>2. began' = began \/ began' = Append(began, c)
      BY <2>1, <2>2, <3>1, OnlyStartsAreSeen
    <3> QED
      BY <3>1, <3>2
  <2>4. cancelled' \subseteq Awaited'
    BY <2>2 DEF RunShape, RunnerSees, Awaited
  <2> QED
    BY <2>2, <2>3, <2>4 DEF RunShape, RunnerSees, Reported
<1>3. CASE DeadlineExpires
  BY <1>3 DEF DeadlineExpires, portVars, RunShape, Reported, Awaited, InFlight
<1>4. CASE DriverCancelled
  BY <1>4 DEF DriverCancelled, Seal, RunShape, Reported, Awaited, InFlight
<1>5. CASE UNCHANGED runVars
  BY <1>5 DEF runVars, portVars, RunShape, Reported, Awaited, InFlight
<1> QED
  BY <1>1, <1>2, <1>3, <1>4, <1>5
     DEF RunNext, DriverEnds, DriverReturns, DriverRaises, DriverTimesOut,
         DriverRaisesTimeoutError

\* The runner's variables keep the shape the code gives them: there is a RunResult
\* exactly when the driver ended, and the port is sealed once it no longer runs.
THEOREM RunTypeCorrect == RunSpec => []RunTypeOK
<1>1. RunInit => RunShape
  <2> SUFFICES ASSUME RunInit
               PROVE  RunShape
    OBVIOUS
  <2>1. began \in Seq(Calls) /\ cancelled \subseteq Awaited
    BY DEF RunInit
  <2> QED
    BY <2>1 DEF RunInit, Init, RunShape, Reported
<1>2. TypeOK /\ RunShape => RunTypeOK
  BY DEF RunShape, RunTypeOK
<1>3. RunSpec => []TypeOK
  BY RunDrivesPort, TypeCorrect, PTL
<1> QED
  BY <1>1, <1>2, <1>3, NextRunShape, PTL DEF RunSpec

-----------------------------------------------------------------------------
\* After the seal.

\* What a step can still do once the port is sealed: append events that are no
\* executions.
LEMMA SealedStep ==
    ASSUME TypeOK, PortInv, [PortNext]_portVars, sealed
    PROVE  /\ UNCHANGED <<world, violations, sealed>>
           /\ At("tool_executed")' = At("tool_executed")
           /\ \A i \in At("tool_executed") : events'[i] = events[i]
<1>1. ASSUME NEW c \in Calls, EndHandler(c)
      PROVE  /\ UNCHANGED <<world, violations, sealed>>
             /\ \E s \in Seq(LogEvents) : Quiet(s) /\ events' = events \o s
  <2>1. EndAbandoned(c)
    BY <1>1 DEF EndHandler, HandlerRaises, BadResult, LoseResponse, Respond
  <2>2. \E s \in Seq(LogEvents) : Quiet(s) /\ events' = events \o s
    BY <1>1, EndHandlerLog
  <2> QED
    BY <2>1, <2>2 DEF EndAbandoned, Finish
<1>2. ASSUME NEW c \in Calls, CallStep(c), ~EndHandler(c)
      PROVE  UNCHANGED <<world, violations, sealed, events>>
  BY <1>2 DEF CallStep, Enter, HandlerWrite, Reject, BadArguments, TimeoutBefore,
              StaleRead, Start, Permitted, Admit, Issue, CancelWaiting, EnterSealed
<1>3. ~ \E last \in AgentEnds : Seal(last)
  BY DEF Seal
<1>4. \/ \E c \in Calls : CallStep(c)
      \/ UNCHANGED portVars
  BY <1>3 DEF PortNext
<1>5. CASE UNCHANGED <<world, violations, sealed, events>>
  BY <1>5 DEF At
<1>6. CASE UNCHANGED portVars
  BY <1>5, <1>6 DEF portVars
<1>7. CASE \E c \in Calls : EndHandler(c)
  BY <1>1, <1>7, QuietLog
<1> QED
  BY <1>2, <1>4, <1>5, <1>6, <1>7

-----------------------------------------------------------------------------
\* The verdict.  That it stands is inductive only together with the seal: a
\* report exists only after the run's end, which sealed the port.

ReportedIsSealed ==
    /\ driver = "running" => report = NoReport
    /\ Reported => sealed

RunInv == ReportedIsSealed /\ VerdictStands

\* A run starts without a verdict.
LEMMA InitRunInv == RunInit => RunInv
  BY DEF RunInit, RunInv, ReportedIsSealed, VerdictStands, Reported

\* The step that gives the verdict gives a true one.
LEMMA ConcludeRunInv ==
    ASSUME NEW status, Conclude(status)
    PROVE  RunInv'
<1> DEFINE last == <<AgentEvent(IF status = "pass" THEN "agent_output" ELSE "agent_error")>>
<1>1. /\ driver' = "ended" /\ sealed'
      /\ events' = events \o last
      /\ UNCHANGED <<world, violations>>
  BY DEF Conclude, Seal
<1>2. PICK k \in 1..Len(Asserted) + 1 : report' = Result(status, events \o last, k)
  BY DEF Conclude
<1>3. /\ report'.final_state = world
      /\ report'.events = events'
      /\ \A v \in DOMAIN violations : Blame(v) \in report'.findings
  BY <1>1, <1>2 DEF Result
<1>4. \A v \in DOMAIN violations' : Blame(v)' = Blame(v)
  BY <1>1 DEF Blame
<1> QED
  BY <1>1, <1>3, <1>4 DEF RunInv, ReportedIsSealed, VerdictStands

\* No other step takes it back.
LEMMA OtherRunInv ==
    ASSUME TypeOK, PortInv, RunInv, [PortNext]_portVars,
           UNCHANGED report, driver' = "running" => driver = "running"
    PROVE  RunInv'
<1>1. CASE ~Reported
  BY <1>1 DEF RunInv, ReportedIsSealed, VerdictStands, Reported
<1>2. CASE Reported
  <2>1. sealed
    BY <1>2 DEF RunInv, ReportedIsSealed
  <2>2. /\ UNCHANGED <<world, violations, sealed>>
        /\ At("tool_executed")' = At("tool_executed")
        /\ \A i \in At("tool_executed") : events'[i] = events[i]
    BY <2>1, SealedStep
  <2>3. /\ Executions(events) = At("tool_executed")
        /\ Executions(events') = At("tool_executed")'
    BY DEF Executions, At
  <2>4. \A v \in DOMAIN violations : Blame(v)' = Blame(v)
    BY <2>2 DEF Blame
  <2>5. VerdictStands'
    BY <1>2, <2>2, <2>3, <2>4 DEF RunInv, VerdictStands
  <2> QED
    BY <1>2, <2>1, <2>2, <2>5 DEF RunInv, ReportedIsSealed, Reported
<1> QED
  BY <1>1, <1>2

\* Every step of a run keeps what its verdict was given on.
LEMMA NextRunInv ==
    ASSUME TypeOK, PortInv, RunInv, [RunNext]_runVars
    PROVE  RunInv'
<1>1. [PortNext]_portVars
  BY RunStepIsPortStep
<1>2. CASE \E status \in {"pass", "error", "timeout"} : Conclude(status)
  BY <1>2, ConcludeRunInv
<1>3. CASE PortStep \/ DeadlineExpires \/ DriverCancelled \/ UNCHANGED runVars
  <2>1. UNCHANGED report /\ (driver' = "running" => driver = "running")
    BY <1>3 DEF PortStep, RunnerSees, DeadlineExpires, DriverCancelled, runVars
  <2> QED
    BY <1>1, <2>1, OtherRunInv
<1> QED
  BY <1>2, <1>3 DEF RunNext, DriverEnds, DriverReturns, DriverRaises,
                    DriverTimesOut, DriverRaisesTimeoutError

\* Nothing the tasks an agent left behind do contradicts the run's verdict.
THEOREM VerdictIsFinal == RunSpec => []VerdictStands
<1>1. RunSpec => [](TypeOK /\ PortInv)
  BY RunDrivesPort, Invariance, PTL
<1>2. RunInv => VerdictStands
  BY DEF RunInv
<1> QED
  BY <1>1, <1>2, InitRunInv, NextRunInv, PTL DEF RunSpec

-----------------------------------------------------------------------------
\* Fault coverage: the log's fault events are those of the calls that were told a
\* lie, each the lie planned for it.

\* The outcomes of a call whose fault was met.
LiedTo == {"timeout", "stale", "lost"}

\* Tool and number of each fault event of a log.
FaultsIn(q) == {i \in DOMAIN q : q[i].kind = "tool_fault"}
Logged(q) == {<<q[i].tool, q[i].number>> : i \in FaultsIn(q)}

\* A call told a lie was planned to be told that one.
Deserved(c) ==
    /\ pc[c] = "timeout" => Planned(c, number[c], "timeout_before")
    /\ pc[c] = "stale" => Planned(c, number[c], "stale_read")
    /\ pc[c] = "lost" => Planned(c, number[c], "response_lost_after_commit")

\* Tool and number of each call that was told a lie.
Lies == {<<request[c].tool, number[c]>> : c \in {d \in Calls : pc[d] \in LiedTo}}

FaultInv ==
    /\ Logged(events) = Lies
    /\ \A c \in Calls : Deserved(c)

-----------------------------------------------------------------------------
\* The faults of a log that grows.

\* Those of two pieces are those of the whole.
LEMMA LoggedConcat ==
    ASSUME NEW q \in Seq(LogEvents), NEW s \in Seq(LogEvents)
    PROVE  q \o s \in Seq(LogEvents) /\ Logged(q \o s) = Logged(q) \cup Logged(s)
<1> DEFINE r == q \o s
<1>1. /\ r \in Seq(LogEvents) /\ Len(r) = Len(q) + Len(s)
      /\ \A i \in 1..Len(r) : r[i] = IF i <= Len(q) THEN q[i] ELSE s[i - Len(q)]
      /\ DOMAIN q = 1..Len(q) /\ DOMAIN s = 1..Len(s) /\ DOMAIN r = 1..Len(r)
      /\ Len(q) \in Nat /\ Len(s) \in Nat
  OBVIOUS
<1> HIDE DEF r
<1>2. \A i \in DOMAIN q : i \in DOMAIN r /\ r[i] = q[i]
  BY <1>1
<1>3. \A j \in DOMAIN s : Len(q) + j \in DOMAIN r /\ r[Len(q) + j] = s[j]
  BY <1>1
<1>4. \A i \in DOMAIN r \ DOMAIN q : i - Len(q) \in DOMAIN s /\ r[i] = s[i - Len(q)]
  BY <1>1
<1>5. Logged(r) \subseteq Logged(q) \cup Logged(s)
  BY <1>2, <1>4 DEF Logged, FaultsIn
<1>6. Logged(q) \subseteq Logged(r)
  BY <1>2 DEF Logged, FaultsIn
<1>7. Logged(s) \subseteq Logged(r)
  BY <1>3 DEF Logged, FaultsIn
<1> QED
  BY <1>1, <1>5, <1>6, <1>7 DEF r

\* A piece without fault events adds none.
LEMMA LoggedNone ==
    ASSUME NEW s, \A j \in DOMAIN s : s[j].kind # "tool_fault"
    PROVE  Logged(s) = {}
  BY DEF Logged, FaultsIn

\* Such a piece leaves the faults of a log as they are.
LEMMA LoggedQuiet ==
    ASSUME NEW q \in Seq(LogEvents), NEW s \in Seq(LogEvents), Logged(s) = {}
    PROVE  q \o s \in Seq(LogEvents) /\ Logged(q \o s) = Logged(q)
<1>1. q \o s \in Seq(LogEvents) /\ Logged(q \o s) = Logged(q) \cup Logged(s)
  BY LoggedConcat
<1>2. \A S : S \cup {} = S
  OBVIOUS
<1> QED
  BY <1>1, <1>2

\* A single event adds itself if it is a fault.
LEMMA LoggedOne ==
    ASSUME NEW q \in Seq(LogEvents), NEW e \in LogEvents
    PROVE  /\ Append(q, e) = q \o <<e>>
           /\ q \o <<e>> \in Seq(LogEvents)
           /\ Logged(q \o <<e>>) = Logged(q) \cup
                 (IF e.kind = "tool_fault" THEN {<<e.tool, e.number>>} ELSE {})
<1>1. Append(q, e) = q \o <<e>>
  BY AppendIsConcat
<1> DEFINE s == <<e>>
<1>2. s \in Seq(LogEvents) /\ DOMAIN s = {1} /\ s[1] = e
  OBVIOUS
<1> HIDE DEF s
<1>3. Logged(s) = IF e.kind = "tool_fault" THEN {<<e.tool, e.number>>} ELSE {}
  BY <1>2 DEF Logged, FaultsIn
<1>4. q \o s \in Seq(LogEvents) /\ Logged(q \o s) = Logged(q) \cup Logged(s)
  BY <1>2, LoggedConcat
<1> QED
  BY <1>1, <1>3, <1>4 DEF s

\* A call's event is a log event with the call's tool and number.
LEMMA EventIs ==
    ASSUME TypeOK, NEW c \in Calls, NEW kind \in EventKinds, NEW n \in Nat
    PROVE  /\ Event(kind, c, n) \in LogEvents
           /\ Event(kind, c, n).kind = kind
           /\ Event(kind, c, n).tool = request[c].tool
           /\ Event(kind, c, n).number = n
  BY EventType DEF Event

\* The evidence of a handler holds no fault.
LEMMA EvidenceIsFaultless ==
    ASSUME TypeOK, NEW c \in Calls, NEW status \in {"completed", "error", "cancelled"}
    PROVE  /\ Evidence(c, status) \in Seq(LogEvents)
           /\ Logged(Evidence(c, status)) = {}
<1> DEFINE x == ExecutedEvent(c, Changes(before[c], world), status)
           e == Event("tool_error", c, number[c])
<1>1. x.kind = "tool_executed" /\ e.kind = "tool_error"
  BY DEF ExecutedEvent, Event
<1>2. Evidence(c, status) = <<x>> \/ Evidence(c, status) = <<e, x>>
  BY DEF Evidence
<1> HIDE DEF x, e
<1>3. \A j \in DOMAIN <<x>> : <<x>>[j].kind # "tool_fault"
  BY <1>1
<1>4. \A j \in DOMAIN <<e, x>> : <<e, x>>[j].kind # "tool_fault"
  BY <1>1
<1>5. Logged(<<x>>) = {} /\ Logged(<<e, x>>) = {}
  BY <1>3, <1>4, LoggedNone
<1> QED
  BY <1>2, <1>5, EvidenceType

-----------------------------------------------------------------------------
\* What one call's step does to the faults.

\* The log gains the call's fault exactly when the call is told its lie, the one
\* planned for it, and never after the seal.
CallLies(c) ==
    /\ pc[c] \notin LiedTo
    /\ Logged(events') = Logged(events) \cup
          (IF pc'[c] \in LiedTo THEN {<<request'[c].tool, number'[c]>>} ELSE {})
    /\ \A d \in Calls : d # c => /\ pc'[d] = pc[d] /\ request'[d] = request[d]
                                 /\ number'[d] = number[d]
    /\ Deserved(c)'
    /\ sealed => pc'[c] \notin LiedTo

\* A call that reaches the lock is lied to only by a fault of its number.
LEMMA EnterLies ==
    ASSUME TypeOK, NEW c \in Calls, Enter(c)
    PROVE  CallLies(c)
<1> DEFINE n == CallNumber(c)
           a == Attempt(c)
           e(kind) == Event(kind, c, n)
<1>1. events \in Seq(LogEvents) /\ DOMAIN pc = Calls /\ DOMAIN number = Calls
  BY DEF TypeOK
<1>2. /\ pc[c] = "waiting"
      /\ request' = request /\ sealed' = sealed
  BY DEF Enter, EnterSealed, Reject, BadArguments, TimeoutBefore, StaleRead, Start,
         Permitted, Admit, Acquire
<1>3. ASSUME Admit(c)
      PROVE  /\ n \in Nat /\ ~sealed /\ number' = [number EXCEPT ![c] = n]
             /\ a = e("tool_attempt")
             /\ \A kind \in EventKinds :
                   /\ e(kind) \in LogEvents /\ e(kind).kind = kind
                   /\ e(kind).tool = request[c].tool /\ e(kind).number = n
  <2>1. n \in Nat
    BY <1>3, AdmitType
  <2>2. a = e("tool_attempt")
    BY DEF Attempt
  <2>3. ~sealed /\ number' = [number EXCEPT ![c] = n]
    BY <1>3 DEF Admit
  <2>4. \A kind \in EventKinds :
           /\ e(kind) \in LogEvents /\ e(kind).kind = kind
           /\ e(kind).tool = request[c].tool /\ e(kind).number = n
    BY <2>1, EventIs
  <2> QED
    BY <2>1, <2>2, <2>3, <2>4
<1>4. ASSUME Admit(c), NEW kind \in EventKinds
      PROVE  /\ Append(events, a) \in Seq(LogEvents)
             /\ Logged(Append(events, a)) = Logged(events)
             /\ events \o <<a, e(kind)>> = Append(events, a) \o <<e(kind)>>
             /\ events \o <<a, e(kind)>> \in Seq(LogEvents)
             /\ Logged(events \o <<a, e(kind)>>) = Logged(events) \cup
                   (IF kind = "tool_fault" THEN {<<request[c].tool, n>>} ELSE {})
  <2>1. /\ a \in LogEvents /\ a.kind = "tool_attempt"
        /\ e(kind) \in LogEvents /\ e(kind).kind = kind
        /\ e(kind).tool = request[c].tool /\ e(kind).number = n
    BY <1>3, <1>4 DEF EventKinds
  <2> HIDE DEF a, e, n
  <2>2. /\ Append(events, a) = events \o <<a>>
        /\ events \o <<a>> \in Seq(LogEvents)
        /\ Logged(events \o <<a>>) = Logged(events)
    BY <1>1, <2>1, LoggedOne
  <2>3. Logged(events \o <<a>> \o <<e(kind)>>) = Logged(events \o <<a>>) \cup
           (IF kind = "tool_fault" THEN {<<request[c].tool, n>>} ELSE {})
        /\ events \o <<a>> \o <<e(kind)>> \in Seq(LogEvents)
    BY <2>1, <2>2, LoggedOne
  <2>4. events \o <<a>> \o <<e(kind)>> = events \o <<a, e(kind)>>
    BY <1>1, <2>1, TwoMore
  <2> QED
    BY <2>2, <2>3, <2>4
<1>5. ASSUME NEW o, o \notin LiedTo, pc' = [pc EXCEPT ![c] = o],
             Logged(events') = Logged(events),
             \A d \in Calls : d # c => number'[d] = number[d]
      PROVE  CallLies(c)
  BY <1>1, <1>2, <1>5 DEF CallLies, Deserved, LiedTo
<1>6. CASE EnterSealed(c)
  BY <1>5, <1>6 DEF EnterSealed, LiedTo
<1>7. CASE Reject(c)
  <2>1. Admit(c) /\ events' = events \o <<a, e("tool_rejected")>>
        /\ pc' = [pc EXCEPT ![c] = "rejected"]
    BY <1>7 DEF Reject
  <2>2. Logged(events') = Logged(events)
    BY <2>1, <1>4 DEF EventKinds
  <2> QED
    BY <1>1, <1>3, <1>5, <2>1, <2>2 DEF LiedTo
<1>8. CASE BadArguments(c)
  <2>1. Admit(c) /\ events' = Append(events, a) /\ pc' = [pc EXCEPT ![c] = "bad_arguments"]
    BY <1>8 DEF BadArguments
  <2>2. Logged(events') = Logged(events)
    BY <2>1, <1>4 DEF EventKinds
  <2> QED
    BY <1>1, <1>3, <1>5, <2>1, <2>2 DEF LiedTo
<1>9. CASE TimeoutBefore(c)
  <2>1. /\ Admit(c) /\ events' = events \o <<a, e("tool_fault")>>
        /\ pc' = [pc EXCEPT ![c] = "timeout"]
        /\ Planned(c, n, "timeout_before")
    BY <1>9 DEF TimeoutBefore, Permitted
  <2>2. Logged(events') = Logged(events) \cup {<<request[c].tool, n>>}
    BY <2>1, <1>4 DEF EventKinds
  <2>3. number'[c] = n /\ ~sealed /\ \A d \in Calls : d # c => number'[d] = number[d]
    BY <1>1, <1>3, <2>1
  <2> HIDE DEF n
  <2>4. Deserved(c)'
    BY <1>1, <1>2, <2>1, <2>3 DEF Deserved, Planned
  <2> QED
    BY <1>1, <1>2, <2>1, <2>2, <2>3, <2>4 DEF CallLies, LiedTo
<1>10. CASE StaleRead(c)
  <2>1. /\ Admit(c)
        /\ events' = events \o <<a, e("tool_fault"), e("tool_observation")>>
        /\ pc' = [pc EXCEPT ![c] = "stale"]
        /\ Planned(c, n, "stale_read")
    BY <1>10 DEF StaleRead, Permitted
  <2>2. /\ a \in LogEvents /\ a.kind = "tool_attempt"
        /\ e("tool_fault") \in LogEvents /\ e("tool_fault").kind = "tool_fault"
        /\ e("tool_fault").tool = request[c].tool /\ e("tool_fault").number = n
        /\ e("tool_observation") \in LogEvents
        /\ e("tool_observation").kind = "tool_observation"
    BY <1>3, <2>1 DEF EventKinds
  <2>3. number'[c] = n /\ ~sealed /\ \A d \in Calls : d # c => number'[d] = number[d]
    BY <1>1, <1>3, <2>1
  <2>4. Logged(events') = Logged(events) \cup {<<request[c].tool, n>>}
    <3> DEFINE f == e("tool_fault")
               o == e("tool_observation")
               s == <<a, f, o>>
    <3> HIDE DEF a, e, n, f, o
    <3>1. /\ s \in Seq(LogEvents) /\ DOMAIN s = {1, 2, 3}
          /\ s[1] = a /\ s[2] = f /\ s[3] = o
      BY <2>2 DEF f, o
    <3> HIDE DEF s
    <3>2. FaultsIn(s) = {2}
      BY <3>1, <2>2 DEF FaultsIn, f, o
    <3>3. Logged(s) = {<<request[c].tool, n>>}
      BY <3>1, <3>2, <2>2 DEF Logged, f
    <3>4. events' = events \o s
      BY <2>1 DEF s, f, o
    <3> QED
      BY <1>1, <3>1, <3>3, <3>4, LoggedConcat
  <2> HIDE DEF n
  <2>5. Deserved(c)'
    BY <1>1, <1>2, <2>1, <2>3 DEF Deserved, Planned
  <2> QED
    BY <1>1, <1>2, <2>1, <2>3, <2>4, <2>5 DEF CallLies, LiedTo
<1>11. CASE Start(c)
  <2>1. /\ Admit(c) /\ events' = Append(events, a) \o Precheck(c, n)
        /\ pc' = [pc EXCEPT ![c] = "running"]
    BY <1>11 DEF Start, Permitted
  <2>2. Precheck(c, n) \in Seq(LogEvents) /\ Logged(Precheck(c, n)) = {}
    <3> DEFINE p == PreconditionEvent(c, n, Missed(request[c].tool))
    <3>1. Precheck(c, n) \in Seq(LogEvents)
      BY <1>3, <2>1, PrecheckType
    <3>2. p.kind = "precondition_failed"
      BY DEF PreconditionEvent
    <3>3. Precheck(c, n) = <<>> \/ Precheck(c, n) = <<p>>
      BY DEF Precheck
    <3> HIDE DEF p
    <3>4. \A j \in DOMAIN <<p>> : <<p>>[j].kind # "tool_fault"
      BY <3>2
    <3>5. \A j \in DOMAIN <<>> : <<>>[j].kind # "tool_fault"
      OBVIOUS
    <3>6. Logged(<<p>>) = {} /\ Logged(<<>>) = {}
      BY <3>4, <3>5, LoggedNone
    <3> QED
      BY <3>1, <3>3, <3>6
  <2>3. Append(events, a) \in Seq(LogEvents) /\ Logged(Append(events, a)) = Logged(events)
    BY <2>1, <1>4 DEF EventKinds
  <2>4. Logged(events') = Logged(events)
    <3> DEFINE q == Append(events, a)
               s == Precheck(c, n)
    <3>1. q \in Seq(LogEvents) /\ s \in Seq(LogEvents) /\ events' = q \o s
      BY <2>1, <2>2, <2>3
    <3>2. Logged(q) = Logged(events) /\ Logged(s) = {}
      BY <2>2, <2>3
    <3> HIDE DEF q, s
    <3> QED
      BY <3>1, <3>2, LoggedQuiet
  <2>5. \A d \in Calls : d # c => number'[d] = number[d]
    BY <1>1, <1>3, <2>1
  <2> QED
    BY <1>5, <2>1, <2>4, <2>5 DEF LiedTo
<1> QED
  BY <1>6, <1>7, <1>8, <1>9, <1>10, <1>11 DEF Enter

\* A handler's end lies only by the loss planned for its number.
LEMMA EndHandlerLies ==
    ASSUME TypeOK, NEW c \in Calls, EndHandler(c)
    PROVE  CallLies(c)
<1> DEFINE e(kind) == Event(kind, c, number[c])
<1>1. events \in Seq(LogEvents) /\ DOMAIN pc = Calls /\ number[c] \in Nat
  BY DEF TypeOK
<1>2. pc[c] = "running" /\ UNCHANGED <<request, number, sealed>>
  BY DEF EndHandler, HandlerRaises, BadResult, LoseResponse, Respond, EndAbandoned, Finish
<1>3. \A kind \in EventKinds :
         /\ e(kind) \in LogEvents /\ e(kind).kind = kind
         /\ e(kind).tool = request[c].tool /\ e(kind).number = number[c]
  BY <1>1, EventIs
<1>4. \A status \in {"completed", "error", "cancelled"} :
         /\ events \o Evidence(c, status) \in Seq(LogEvents)
         /\ Logged(events \o Evidence(c, status)) = Logged(events)
  <2>1. TAKE status \in {"completed", "error", "cancelled"}
  <2> DEFINE s == Evidence(c, status)
  <2>2. s \in Seq(LogEvents) /\ Logged(s) = {}
    BY EvidenceIsFaultless
  <2> HIDE DEF s
  <2>3. events \o s \in Seq(LogEvents) /\ Logged(events \o s) = Logged(events)
    BY <1>1, <2>2, LoggedQuiet
  <2> QED
    BY <2>3 DEF s
<1>5. ASSUME NEW kind \in EventKinds,
             events' = events \o Evidence(c, "completed") \o <<e(kind)>>
      PROVE  Logged(events') = Logged(events) \cup
                (IF kind = "tool_fault" THEN {<<request[c].tool, number[c]>>} ELSE {})
  <2>1. /\ e(kind) \in LogEvents /\ e(kind).kind = kind
        /\ e(kind).tool = request[c].tool /\ e(kind).number = number[c]
    BY <1>3
  <2> HIDE DEF e
  <2> QED
    BY <1>4, <1>5, <2>1, LoggedOne
<1>6. ASSUME NEW o, o \notin LiedTo, Finish(c, o), Logged(events') = Logged(events)
      PROVE  CallLies(c)
  <2>1. pc' = [pc EXCEPT ![c] = o]
    BY <1>6 DEF Finish
  <2> QED
    BY <1>1, <1>2, <1>6, <2>1 DEF CallLies, Deserved, LiedTo
<1>7. CASE \E status \in {"error", "cancelled"} : HandlerRaises(c, status)
  BY <1>4, <1>6, <1>7 DEF HandlerRaises, LiedTo
<1>8. CASE BadResult(c)
  BY <1>5, <1>6, <1>8 DEF BadResult, LiedTo, EventKinds
<1>9. CASE Respond(c)
  BY <1>5, <1>6, <1>9 DEF Respond, LiedTo, EventKinds
<1>10. CASE EndAbandoned(c)
  <2>1. e("tool_error") \in LogEvents /\ e("tool_error").kind = "tool_error"
    BY <1>3 DEF EventKinds
  <2>2. events' = events \/ events' = Append(events, e("tool_error"))
    BY <1>10 DEF EndAbandoned
  <2> HIDE DEF e
  <2>3. Logged(events') = Logged(events)
    BY <1>1, <2>1, <2>2, LoggedOne
  <2> QED
    BY <1>6, <1>10, <2>3 DEF EndAbandoned, LiedTo
<1>11. CASE LoseResponse(c)
  <2>1. /\ ~sealed /\ pc' = [pc EXCEPT ![c] = "lost"]
        /\ Planned(c, number[c], "response_lost_after_commit")
        /\ events' = events \o Evidence(c, "completed") \o <<e("tool_fault")>>
    BY <1>11 DEF LoseResponse, Finish
  <2>2. Logged(events') = Logged(events) \cup {<<request[c].tool, number[c]>>}
    BY <1>5, <2>1 DEF EventKinds
  <2>3. Deserved(c)'
    BY <1>1, <1>2, <2>1 DEF Deserved, Planned
  <2> QED
    BY <1>1, <1>2, <2>1, <2>2, <2>3 DEF CallLies, LiedTo
<1> QED
  BY <1>7, <1>8, <1>9, <1>10, <1>11 DEF EndHandler

\* So with every step of a call.
LEMMA CallStepLies ==
    ASSUME TypeOK, NEW c \in Calls, CallStep(c)
    PROVE  CallLies(c)
<1>1. DOMAIN pc = Calls /\ DOMAIN request = Calls
  BY DEF TypeOK
<1>2. CASE \E t \in Tools, a \in ArgumentKinds : Issue(c, t, a)
  BY <1>1, <1>2 DEF Issue, CallLies, Deserved, LiedTo
<1>3. CASE CancelWaiting(c)
  BY <1>1, <1>3 DEF CancelWaiting, CallLies, Deserved, LiedTo
<1>4. CASE \E p \in Paths, v \in Values : HandlerWrite(c, p, v)
  BY <1>1, <1>4 DEF HandlerWrite, CallLies, Deserved, LiedTo
<1> QED
  BY <1>2, <1>3, <1>4, EnterLies, EndHandlerLies DEF CallStep

-----------------------------------------------------------------------------
\* The log's faults are the lies told.

\* At first there are none.
LEMMA InitFaultInv == Init => FaultInv
<1> SUFFICES ASSUME Init PROVE FaultInv
  OBVIOUS
<1>1. events = <<>> /\ \A c \in Calls : pc[c] = "idle"
  BY DEF Init
<1>2. Logged(events) = {}
  BY <1>1 DEF Logged, FaultsIn
<1>3. Lies = {} /\ \A c \in Calls : Deserved(c)
  BY <1>1 DEF Lies, LiedTo, Deserved
<1> QED
  BY <1>2, <1>3 DEF FaultInv

\* The run's end logs none.
LEMMA SealIsFaultless ==
    ASSUME TypeOK, NEW last \in AgentEnds
    PROVE  Logged(events \o last) = Logged(events)
<1>1. /\ AgentEvent("agent_output") \in LogEvents
      /\ AgentEvent("agent_output").kind = "agent_output"
      /\ AgentEvent("agent_error") \in LogEvents
      /\ AgentEvent("agent_error").kind = "agent_error"
  BY DEF AgentEvent, LogEvents
<1>2. events \in Seq(LogEvents)
  BY DEF TypeOK
<1>3. CASE last = <<>>
  BY <1>2, <1>3
<1>4. ASSUME NEW kind \in {"agent_output", "agent_error"}, last = <<AgentEvent(kind)>>
      PROVE  Logged(events \o last) = Logged(events)
  <2>1. AgentEvent(kind) \in LogEvents /\ AgentEvent(kind).kind # "tool_fault"
    BY <1>1
  <2> QED
    BY <1>2, <1>4, <2>1, LoggedOne
<1> QED
  BY <1>3, <1>4 DEF AgentEnds

\* Every step of the port adds as many to the one as to the other.
LEMMA NextFaultInv ==
    ASSUME TypeOK, FaultInv, [PortNext]_portVars
    PROVE  FaultInv'
<1>1. ASSUME NEW c \in Calls, CallStep(c)
      PROVE  FaultInv'
  <2>1. CallLies(c)
    BY <1>1, CallStepLies
  <2>2. Lies' = Lies \cup
           (IF pc'[c] \in LiedTo THEN {<<request'[c].tool, number'[c]>>} ELSE {})
    BY <2>1 DEF CallLies, Lies
  <2>3. \A d \in Calls : d # c => Deserved(d)'
    BY <2>1 DEF CallLies, FaultInv, Deserved, Planned
  <2> QED
    BY <2>1, <2>2, <2>3 DEF CallLies, FaultInv
<1>2. ASSUME NEW last \in AgentEnds, Seal(last)
      PROVE  FaultInv'
  <2>1. events' = events \o last /\ UNCHANGED <<pc, request, number>>
    BY <1>2 DEF Seal
  <2>2. Logged(events') = Logged(events)
    BY <2>1, SealIsFaultless
  <2> QED
    BY <2>1, <2>2 DEF FaultInv, Lies, Deserved, Planned
<1>3. CASE UNCHANGED portVars
  BY <1>3 DEF portVars, FaultInv, Lies, Deserved, Planned
<1> QED
  BY <1>1, <1>2, <1>3 DEF PortNext

-----------------------------------------------------------------------------
\* The coverage of a run.

\* A fault was met exactly when the log shows it.
LEMMA MetIsLogged ==
    ASSUME TypeOK, FaultInv, NEW f \in Faults
    PROVE  FaultMet(f) <=> <<f.tool, f.on_call>> \in Logged(events)
<1>1. f \in [tool : Handlers, on_call : Nat \ {0}, kind : FaultKinds]
  BY CasePrepared
<1>2. ASSUME FaultMet(f) PROVE <<f.tool, f.on_call>> \in Lies
  BY <1>1, <1>2 DEF FaultMet, Lies, LiedTo, FaultKinds
<1>3. ASSUME <<f.tool, f.on_call>> \in Lies PROVE FaultMet(f)
  <2>1. PICK c \in Calls : /\ pc[c] \in LiedTo
                           /\ request[c].tool = f.tool /\ number[c] = f.on_call
    BY <1>3 DEF Lies
  <2> DEFINE kind == CASE pc[c] = "timeout" -> "timeout_before"
                       [] pc[c] = "stale" -> "stale_read"
                       [] pc[c] = "lost" -> "response_lost_after_commit"
             g == [tool |-> request[c].tool, on_call |-> number[c], kind |-> kind]
  <2>2. g \in Faults
    BY <2>1 DEF FaultInv, Deserved, Planned, LiedTo
  <2>3. g.tool = f.tool /\ g.on_call = f.on_call /\ g.kind = kind
    BY <2>1
  <2> HIDE DEF g
  <2>4. g = f
    BY <2>2, <2>3, CasePrepared
  <2>5. f.kind = kind
    BY <2>3, <2>4
  <2> QED
    BY <2>1, <2>5 DEF FaultMet, LiedTo
<1> QED
  BY <1>2, <1>3 DEF FaultInv

\* After the seal no further fault is met, and none is unmet.
LEMMA SealedMet ==
    ASSUME TypeOK, sealed, [PortNext]_portVars, NEW f \in Faults
    PROVE  FaultMet(f)' <=> FaultMet(f)
<1>1. ASSUME NEW c \in Calls, CallStep(c)
      PROVE  FaultMet(f)' <=> FaultMet(f)
  <2>1. CallLies(c)
    BY <1>1, CallStepLies
  <2>2. pc[c] \notin LiedTo /\ pc'[c] \notin LiedTo
    BY <2>1 DEF CallLies
  <2>3. f.kind \in FaultKinds
    BY CasePrepared
  <2> QED
    BY <2>1, <2>2, <2>3 DEF CallLies, FaultMet, LiedTo, FaultKinds
<1>2. ~\E last \in AgentEnds : Seal(last)
  BY DEF Seal
<1>3. CASE UNCHANGED portVars
  BY <1>3 DEF portVars, FaultMet
<1> QED
  BY <1>1, <1>2, <1>3 DEF PortNext

\* The step that gives the verdict reports the faults met, and no other changes it.
LEMMA NextCoverage ==
    ASSUME TypeOK, FaultInv, RunInv, CoverageIsReal, [RunNext]_runVars
    PROVE  CoverageIsReal'
<1>1. CASE \E status \in {"pass", "error", "timeout"} : Conclude(status)
  <2>1. PICK status \in {"pass", "error", "timeout"} : Conclude(status)
    BY <1>1
  <2> DEFINE last == <<AgentEvent(IF status = "pass" THEN "agent_output" ELSE "agent_error")>>
             log == events \o last
  <2>2. last \in AgentEnds /\ UNCHANGED <<pc, request, number>>
    BY <2>1 DEF AgentEnds, Conclude, Seal
  <2>3. report'.triggered = Injected(Faults, log)
    BY <2>1 DEF Conclude, Result
  <2>4. Logged(log) = Logged(events)
    BY <2>2, SealIsFaultless
  <2> HIDE DEF log
  <2>5. \A f \in Faults :
           f \in Injected(Faults, log) <=> <<f.tool, f.on_call>> \in Logged(log)
    BY DEF Injected, Positions, Logged, FaultsIn
  <2>6. \A f \in Faults : FaultMet(f)' <=> FaultMet(f)
    BY <2>2 DEF FaultMet
  <2>7. Injected(Faults, log) \subseteq Faults
    BY DEF Injected
  <2>8. Injected(Faults, log) = {f \in Faults : FaultMet(f)'}
    BY <2>4, <2>5, <2>6, <2>7, MetIsLogged
  <2> QED
    BY <2>3, <2>8 DEF CoverageIsReal
<1>2. CASE PortStep \/ DeadlineExpires \/ DriverCancelled \/ UNCHANGED runVars
  <2>1. UNCHANGED report
    BY <1>2 DEF PortStep, RunnerSees, DeadlineExpires, DriverCancelled, runVars
  <2>2. CASE Reported
    <3>1. sealed
      BY <2>2 DEF RunInv, ReportedIsSealed
    <3>2. \A f \in Faults : FaultMet(f)' <=> FaultMet(f)
      BY <3>1, RunStepIsPortStep, SealedMet
    <3> QED
      BY <2>1, <2>2, <3>2 DEF CoverageIsReal
  <2>3. CASE ~Reported
    BY <2>1, <2>3 DEF CoverageIsReal, Reported
  <2> QED
    BY <2>2, <2>3
<1> QED
  BY <1>1, <1>2 DEF RunNext, DriverEnds, DriverReturns, DriverRaises,
                    DriverTimesOut, DriverRaisesTimeoutError

\* The faults a run reports as triggered are those whose call was told its lie,
\* whatever the agent, the schedule and the tasks it leaves behind.
THEOREM FaultCoverageHolds == RunSpec => []CoverageIsReal
<1>1. RunSpec => [](TypeOK /\ PortInv)
  BY RunDrivesPort, Invariance, PTL
<1>2. RunInit => FaultInv /\ RunInv /\ CoverageIsReal
  BY InitFaultInv, InitRunInv DEF RunInit, CoverageIsReal, Reported
<1>3. TypeOK /\ PortInv /\ FaultInv /\ RunInv /\ CoverageIsReal /\ [RunNext]_runVars
        => (FaultInv /\ RunInv /\ CoverageIsReal)'
  BY RunStepIsPortStep, NextFaultInv, NextRunInv, NextCoverage
<1> QED
  BY <1>1, <1>2, <1>3, PTL DEF RunSpec

-----------------------------------------------------------------------------
\* The log of a call and its local variables.

Noted(q, d) == Where(q, Own("precondition_failed", d))

\* The preconditions of the tool t that the world b does not meet.
MissedIn(b, t) == {p \in Preconditions : p.tool = t /\ b[p.path] # p.value}

\* What the log q says of a call d that is or ended as o, and that called the tool
\* t as its n-th attempt, with b for its snapshot.
Story(q, d, o, t, n, b) ==
    /\ n = 0 => Tried(q, d) = {} /\ Executed(q, d) = {} /\ Noted(q, d) = {}
    /\ n # 0 => Tried(q, d) # {}
    /\ \A i, j \in Tried(q, d) : i = j
    /\ \A i \in Tried(q, d) \cup Executed(q, d) \cup Noted(q, d) : q[i].tool = t
    /\ o = "rejected" => Refused(q, d) # {}
    /\ o = "error" => Executed(q, d) # {}
    /\ o = "cancelled" /\ n # 0 => Executed(q, d) # {}
    /\ (o = "running" \/ Executed(q, d) # {}) /\ MissedIn(b, t) # {} =>
          \E i \in Noted(q, d) : q[i].missed = MissedIn(b, t)

StoryTold ==
    \A d \in Calls :
        Story(events, d, pc[d], request[d].tool, number[d], before[d])

\* What is kept of a call's events keeps its story.
LEMMA OwnKeptStory ==
    ASSUME NEW q, NEW r, NEW d, OwnKept(q, r, d), NEW o, NEW t, NEW n, NEW b,
           Story(q, d, o, t, n, b)
    PROVE  Story(r, d, o, t, n, b)
<1>1. \A k \in {"tool_attempt", "tool_executed", "tool_rejected", "precondition_failed"} :
         k \in CallKinds
  BY DEF CallKinds, EventKinds
<1>2. /\ Tried(r, d) = Tried(q, d) /\ Executed(r, d) = Executed(q, d)
      /\ Refused(r, d) = Refused(q, d) /\ Noted(r, d) = Noted(q, d)
      /\ \A i \in Tried(q, d) \cup Executed(q, d) \cup Noted(q, d) : r[i] = q[i]
  BY <1>1 DEF OwnKept, Tried, Executed, Refused, Noted
<1> QED
  BY <1>2 DEF Story

\* A call's own event is one more of its kind and of no other.
LEMMA MineStory ==
    ASSUME NEW q \in Seq(LogEvents), NEW vs \in Seq(Findings), NEW e, NEW rule,
           NEW r, NEW ws, Adds(e, rule, q, vs, r, ws), NEW c, NEW kind,
           Mine(kind, c, e)
    PROVE  /\ r \in Seq(LogEvents) /\ ws \in Seq(Findings)
           /\ Tried(r, c) = Tried(q, c) \cup (IF kind = "tool_attempt" THEN {Len(r)} ELSE {})
           /\ Executed(r, c) = Executed(q, c)
                                 \cup (IF kind = "tool_executed" THEN {Len(r)} ELSE {})
           /\ Refused(r, c) = Refused(q, c)
                                \cup (IF kind = "tool_rejected" THEN {Len(r)} ELSE {})
           /\ Noted(r, c) = Noted(q, c)
                              \cup (IF kind = "precondition_failed" THEN {Len(r)} ELSE {})
           /\ \A i \in DOMAIN q : r[i] = q[i]
           /\ r[Len(r)] = e /\ e.tool = request[c].tool
<1>1. /\ r \in Seq(LogEvents) /\ ws \in Seq(Findings)
      /\ \A E : Where(r, E) = Where(q, E) \cup (IF e \in E THEN {Len(r)} ELSE {})
      /\ \A i \in DOMAIN q : r[i] = q[i]
      /\ r[Len(r)] = e
  BY AddsOne
<1>2. \A k : e \in Own(k, c) <=> k = kind
  BY DEF Mine, Own, Kind
<1>3. /\ Tried(r, c) = Tried(q, c) \cup (IF kind = "tool_attempt" THEN {Len(r)} ELSE {})
      /\ Executed(r, c) = Executed(q, c)
                            \cup (IF kind = "tool_executed" THEN {Len(r)} ELSE {})
      /\ Refused(r, c) = Refused(q, c)
                           \cup (IF kind = "tool_rejected" THEN {Len(r)} ELSE {})
      /\ Noted(r, c) = Noted(q, c)
                         \cup (IF kind = "precondition_failed" THEN {Len(r)} ELSE {})
  BY <1>1, <1>2 DEF Tried, Executed, Refused, Noted
<1> QED
  BY <1>1, <1>3 DEF Mine

\* The positions of a call's events are positions of the log.
LEMMA OwnInLog ==
    \A q, d : Tried(q, d) \cup Executed(q, d) \cup Refused(q, d) \cup Noted(q, d) \subseteq DOMAIN q
  BY DEF Tried, Executed, Refused, Noted, Where

\* A call that has not been admitted has no events.
Untold(q, d) ==
    Tried(q, d) = {} /\ Executed(q, d) = {} /\ Refused(q, d) = {} /\ Noted(q, d) = {}

\* A call that leaves the queue of an open port but is not started has its attempt
\* logged, and no execution.
LEMMA EnterStory ==
    ASSUME TypeOK, NEW c \in Calls, Enter(c), ~EnterSealed(c), Untold(events, c)
    PROVE  Story(events', c, pc'[c], request[c].tool, number'[c], before'[c])
<1> DEFINE t == request[c].tool
           n == number'[c]
<1>1. events \in Seq(LogEvents) /\ violations \in Seq(Findings)
  BY DEF TypeOK
<1>2. PICK a, q : /\ Mine("tool_attempt", c, a)
                  /\ Adds(a, "none", events, violations, q, violations)
                  /\ AfterAttempt(c, q)
  BY EnterLogs
<1>3. pc[c] = "waiting" /\ Admit(c)
  BY EnterLogs
<1>4. n # 0 /\ request' = request
  BY <1>3, AdmitAdds DEF CallNumber, TypeOK, Admit
<1>5. /\ q \in Seq(LogEvents) /\ Tried(q, c) = {Len(q)} /\ Executed(q, c) = {}
      /\ Refused(q, c) = {} /\ Noted(q, c) = {} /\ q[Len(q)].tool = t
  BY <1>1, <1>2, MineStory, SMTT(30) DEF Untold
<1> HIDE DEF n, t
<1>6. Len(q) \in DOMAIN q
  BY <1>5, OwnInLog
<1>7. ASSUME NEW r, Tried(r, c) = {Len(q)}, Executed(r, c) = {}, Noted(r, c) = {},
             r[Len(q)].tool = t, NEW b,
             NEW o \in {"rejected", "bad_arguments", "timeout", "stale"},
             o = "rejected" => Refused(r, c) # {}
      PROVE  Story(r, c, o, t, n, b)
  BY <1>4, <1>7 DEF Story
<1>8. CASE pc'[c] = "rejected"
  <2>1. PICK e : /\ Mine("tool_rejected", c, e)
                 /\ Adds(e, Refusal(c), q, violations, events', violations')
    BY <1>2, <1>8 DEF AfterAttempt
  <2>2. /\ Tried(events', c) = {Len(q)} /\ Executed(events', c) = {}
        /\ Noted(events', c) = {} /\ Refused(events', c) # {}
        /\ events'[Len(q)] = q[Len(q)]
    BY <1>1, <1>5, <1>6, <2>1, MineStory, SMTT(30)
  <2> QED
    BY <1>4, <1>5, <1>7, <1>8, <2>2 DEF t, n
<1>9. CASE pc'[c] = "bad_arguments"
  <2>1. events' = q
    BY <1>2, <1>9 DEF AfterAttempt
  <2> QED
    BY <1>4, <1>5, <1>7, <1>9, <2>1 DEF t, n
<1>10. CASE pc'[c] = "timeout"
  <2>1. PICK e : /\ Mine("tool_fault", c, e)
                 /\ Adds(e, "none", q, violations, events', violations')
    BY <1>2, <1>10 DEF AfterAttempt
  <2>2. /\ Tried(events', c) = {Len(q)} /\ Executed(events', c) = {}
        /\ Noted(events', c) = {} /\ events'[Len(q)] = q[Len(q)]
    BY <1>1, <1>5, <1>6, <2>1, MineStory, SMTT(30)
  <2> QED
    BY <1>4, <1>5, <1>7, <1>10, <2>2 DEF t, n
<1>11. CASE pc'[c] = "stale"
  <2>1. PICK e, r, o :
           /\ Mine("tool_fault", c, e)
           /\ Adds(e, "none", q, violations, r, violations)
           /\ Mine("tool_observation", c, o)
           /\ Adds(o, "none", r, violations, events', violations')
    BY <1>2, <1>11 DEF AfterAttempt
  <2>2. /\ r \in Seq(LogEvents) /\ Tried(r, c) = {Len(q)} /\ Executed(r, c) = {}
        /\ Noted(r, c) = {} /\ r[Len(q)] = q[Len(q)]
    BY <1>1, <1>5, <1>6, <2>1, MineStory, SMTT(60)
  <2>3. Len(q) \in DOMAIN r
    BY <2>2, OwnInLog
  <2>4. /\ Tried(events', c) = {Len(q)} /\ Executed(events', c) = {}
        /\ Noted(events', c) = {} /\ events'[Len(q)] = r[Len(q)]
    BY <1>1, <2>1, <2>2, <2>3, MineStory, SMTT(30)
  <2> QED
    BY <1>4, <1>5, <1>7, <1>11, <2>2, <2>4 DEF t, n
<1>12. CASE pc'[c] = "running"
  <2>1. before'[c] = world /\ MissedIn(world, t) = Missed(t)
    BY <1>2, <1>12 DEF AfterAttempt, MissedIn, Missed
  <2>2. CASE Missed(t) = {} /\ events' = q
    <3>1. Story(q, c, "running", t, n, world)
      BY <1>4, <1>5, <2>1, <2>2 DEF Story
    <3> QED
      BY <1>12, <2>1, <2>2, <3>1 DEF t, n
  <2>3. ASSUME NEW e, Mine("precondition_failed", c, e), e.missed = Missed(t),
               Adds(e, "none", q, violations, events', violations')
        PROVE  Story(events', c, "running", t, n, world)
    <3>1. /\ Tried(events', c) = {Len(q)} /\ Executed(events', c) = {}
          /\ Noted(events', c) = {Len(events')} /\ events'[Len(q)] = q[Len(q)]
      BY <1>1, <1>5, <1>6, <2>3, MineStory, SMTT(30)
    <3>2. events'[Len(events')] = e /\ e.tool = t
      BY <1>1, <1>5, <2>3, MineStory, SMTT(30) DEF t
    <3> QED
      BY <1>4, <1>5, <2>1, <2>3, <3>1, <3>2 DEF Story
  <2> QED
    BY <1>2, <1>12, <2>1, <2>2, <2>3 DEF AfterAttempt, t, n
<1> QED
  BY <1>2, <1>8, <1>9, <1>10, <1>11, <1>12 DEF AfterAttempt

\* Its later events add to the story of a call that runs.
LEMMA MineKeepsStory ==
    ASSUME NEW q \in Seq(LogEvents), NEW vs \in Seq(Findings), NEW e, NEW rule,
           NEW r, NEW ws, Adds(e, rule, q, vs, r, ws), NEW c, NEW kind,
           Mine(kind, c, e), kind \notin {"tool_attempt", "precondition_failed"},
           NEW n, NEW b, n # 0, Story(q, c, "running", request[c].tool, n, b)
    PROVE  /\ r \in Seq(LogEvents) /\ ws \in Seq(Findings)
           /\ Story(r, c, "running", request[c].tool, n, b)
           /\ kind = "tool_executed" => Executed(r, c) # {}
           /\ kind = "tool_rejected" => Refused(r, c) # {}
           /\ Executed(q, c) \subseteq Executed(r, c)
<1> DEFINE t == request[c].tool
<1>1. /\ r \in Seq(LogEvents) /\ ws \in Seq(Findings)
      /\ Tried(r, c) = Tried(q, c) /\ Noted(r, c) = Noted(q, c)
      /\ kind # "tool_executed" => Executed(r, c) = Executed(q, c)
      /\ kind = "tool_executed" => Executed(r, c) = Executed(q, c) \cup {Len(r)}
      /\ kind = "tool_rejected" => Len(r) \in Refused(r, c)
  <2>1. /\ r \in Seq(LogEvents) /\ ws \in Seq(Findings)
        /\ \A E : Where(r, E) = Where(q, E) \cup (IF e \in E THEN {Len(r)} ELSE {})
    BY AddsOne
  <2>2. \A k : e \in Own(k, c) <=> k = kind
    BY DEF Mine, Own, Kind
  <2> QED
    BY <2>1, <2>2 DEF Tried, Noted, Executed, Refused
<1>2. (\A i \in DOMAIN q : r[i] = q[i]) /\ r[Len(r)].tool = t
  BY MineStory, SMTT(30)
<1> HIDE DEF t
<1>3. Story(q, c, "running", t, n, b)
  BY DEF t
<1>4. Tried(q, c) \cup Executed(q, c) \cup Noted(q, c) \subseteq DOMAIN q
  BY OwnInLog
<1>5. \A i \in Tried(r, c) \cup Executed(r, c) \cup Noted(r, c) : r[i].tool = t
  BY <1>1, <1>2, <1>3, <1>4 DEF Story
<1>6. MissedIn(b, t) # {} => \E i \in Noted(r, c) : r[i].missed = MissedIn(b, t)
  BY <1>1, <1>2, <1>3, <1>4 DEF Story
<1>7. Story(r, c, "running", t, n, b)
  BY <1>1, <1>3, <1>5, <1>6 DEF Story
<1> QED
  BY <1>1, <1>7 DEF t

\* A call that ends with its execution or its refusal in the log, if it should.
LEMMA StoryEnds ==
    ASSUME NEW q, NEW c, NEW o, NEW t, NEW n, NEW b, Story(q, c, "running", t, n, b),
           o = "rejected" => Refused(q, c) # {},
           o \in {"error", "cancelled"} => Executed(q, c) # {}
    PROVE  Story(q, c, o, t, n, b)
  BY DEF Story

\* The end of a handler.
LEMMA EndHandlerStory ==
    ASSUME TypeOK, NEW c \in Calls, EndHandler(c), number[c] # 0,
           Story(events, c, pc[c], request[c].tool, number[c], before[c])
    PROVE  Story(events', c, pc'[c], request[c].tool, number[c], before[c])
<1> DEFINE n == number[c]
           b == before[c]
           t == request[c].tool
<1>1. events \in Seq(LogEvents) /\ violations \in Seq(Findings)
  BY DEF TypeOK
<1>2. pc[c] = "running" /\ AfterHandler(c)
  BY EndHandlerLogs
<1>3. n # 0 /\ Story(events, c, "running", t, n, b)
  BY <1>2
<1> HIDE DEF n, b
<1>4. CASE pc'[c] = "abandoned"
  <2>1. CASE events' = events
    BY <1>3, <1>4, <2>1, StoryEnds DEF n, b
  <2>2. CASE events' # events
    <3>1. PICK e : /\ Mine("tool_error", c, e)
                   /\ Adds(e, "none", events, violations, events', violations')
      BY <1>2, <1>4, <2>2 DEF AfterHandler, Verdicts
    <3>2. Story(events', c, "running", t, n, b)
      BY <1>1, <1>3, <3>1, MineKeepsStory, SMTT(30)
    <3> QED
      BY <1>4, <3>2, StoryEnds DEF n, b
  <2> QED
    BY <2>1, <2>2
<1>5. CASE pc'[c] \in {"error", "cancelled"}
  <2>1. PICK e, q, x, rule :
             /\ Mine("tool_error", c, e)
             /\ Adds(e, "none", events, violations, q, violations)
             /\ Mine("tool_executed", c, x)
             /\ Adds(x, rule, q, violations, events', violations')
    BY <1>2, <1>5 DEF AfterHandler, Verdicts
  <2>2. q \in Seq(LogEvents) /\ Story(q, c, "running", t, n, b)
    <3>1. "tool_error" \notin {"tool_attempt", "precondition_failed"}
      OBVIOUS
    <3> QED
      BY <1>1, <1>3, <2>1, <3>1, MineKeepsStory, Zenon
  <2>3. Story(events', c, "running", t, n, b) /\ Executed(events', c) # {}
    BY <1>1, <1>3, <2>1, <2>2, MineKeepsStory, SMTT(30)
  <2> QED
    BY <1>5, <2>3, StoryEnds DEF n, b
<1>6. ASSUME NEW v \in Verdicts, pc'[c] = v[1]
      PROVE  Story(events', c, pc'[c], t, n, b)
  <2>1. PICK x, q, vs, e, rule :
             /\ Mine("tool_executed", c, x)
             /\ Adds(x, rule, events, violations, q, vs)
             /\ Mine(v[2], c, e)
             /\ Adds(e, v[3], q, vs, events', violations')
    BY <1>2, <1>6 DEF AfterHandler, Verdicts
  <2>2. /\ q \in Seq(LogEvents) /\ vs \in Seq(Findings)
        /\ Story(q, c, "running", t, n, b)
    <3>1. "tool_executed" \notin {"tool_attempt", "precondition_failed"}
      OBVIOUS
    <3> QED
      BY <1>1, <1>3, <2>1, <3>1, MineKeepsStory, Zenon
  <2>3. v[2] \notin {"tool_attempt", "precondition_failed"}
    BY DEF Verdicts
  <2>4. /\ Story(events', c, "running", t, n, b)
        /\ v[2] = "tool_rejected" => Refused(events', c) # {}
    BY <1>3, <2>1, <2>2, <2>3, MineKeepsStory, SMTT(30)
  <2>5. /\ pc'[c] = "rejected" => v[2] = "tool_rejected"
        /\ pc'[c] \notin {"error", "cancelled"}
    BY <1>6 DEF Verdicts
  <2> QED
    BY <2>4, <2>5, StoryEnds
<1> QED
  BY <1>2, <1>4, <1>5, <1>6 DEF AfterHandler, n, b

\* What a step of one call leaves to the others.
LEMMA OthersKept ==
    ASSUME TypeOK, NEW c \in Calls, CallStep(c), NEW d \in Calls \ {c}
    PROVE  /\ pc'[d] = pc[d] /\ request'[d] = request[d]
           /\ number'[d] = number[d] /\ before'[d] = before[d]
  BY DEF CallStep, Issue, CancelWaiting, Enter, EnterSealed, Reject, Admit, Permitted,
         BadArguments, TimeoutBefore, StaleRead, Start, HandlerWrite, EndHandler,
         HandlerRaises, BadResult, LoseResponse, Respond, EndAbandoned, Finish, TypeOK

\* Every step of the port keeps every call's story.
LEMMA NextStory ==
    ASSUME TypeOK, Accounted, OnRecord, StoryTold, [PortNext]_portVars
    PROVE  StoryTold'
<1>1. ASSUME NEW c \in Calls, CallStep(c)
      PROVE  StoryTold'
  <2>1. StepOf(c)
    BY <1>1, CallStepAdds
  <2>2. ASSUME NEW d \in Calls \ {c}
        PROVE  Story(events', d, pc'[d], request'[d].tool, number'[d], before'[d])
    <3>1. OwnKept(events, events', d)
      BY <2>1, StepKeepsOwn
    <3>2. Story(events', d, pc[d], request[d].tool, number[d], before[d])
      BY <3>1, OwnKeptStory DEF StoryTold
    <3> QED
      BY <1>1, <3>2, OthersKept
  <2>3. Story(events', c, pc'[c], request'[c].tool, number'[c], before'[c])
    <3>1. Story(events, c, pc[c], request[c].tool, number[c], before[c])
      BY DEF StoryTold
    <3>2. pc[c] \in {"idle", "waiting"} => number[c] = 0 /\ Untold(events, c)
      <4>1. Account(events, violations, c, pc[c])
        BY DEF Accounted
      <4>2. Record(events, c, pc[c], request[c].tool, number[c])
        BY DEF OnRecord
      <4> QED
        BY <3>1, <4>1, <4>2 DEF Account, Record, Story, Untold
    <3>3. CASE \/ \E t \in Tools, a \in ArgumentKinds : Issue(c, t, a)
               \/ CancelWaiting(c) \/ EnterSealed(c)
      <4>1. /\ pc[c] \in {"idle", "waiting"} /\ pc'[c] \in {"waiting", "cancelled", "sealed"}
            /\ events' = events /\ number' = number
        BY <3>3 DEF Issue, CancelWaiting, EnterSealed, Acquire, TypeOK
      <4> QED
        BY <3>2, <4>1 DEF Story, Untold
    <3>4. CASE \E p \in Paths, v \in Values : HandlerWrite(c, p, v)
      BY <3>1, <3>4 DEF HandlerWrite
    <3>5. CASE Enter(c) /\ ~EnterSealed(c)
      <4>1. pc[c] = "waiting" /\ request' = request
        BY <3>5, EnterLogs DEF Admit
      <4> QED
        BY <3>2, <3>5, <4>1, EnterStory
    <3>6. CASE EndHandler(c)
      <4>1. pc[c] = "running" /\ UNCHANGED <<request, number>>
        BY <3>6, EndHandlerLogs
      <4>2. UNCHANGED before
        BY <3>6 DEF EndHandler, HandlerRaises, BadResult, LoseResponse, Respond,
                    EndAbandoned, Finish
      <4>3. number[c] # 0
        BY <4>1 DEF OnRecord, Record
      <4> QED
        BY <3>1, <3>6, <4>1, <4>2, <4>3, EndHandlerStory
    <3> QED
      BY <1>1, <3>3, <3>4, <3>5, <3>6 DEF CallStep, Enter
  <2> QED
    BY <2>2, <2>3 DEF StoryTold
<1>2. ASSUME NEW last \in AgentEnds, Seal(last)
      PROVE  StoryTold'
  <2>1. UNCHANGED <<pc, request, number, before>>
    BY <1>2 DEF Seal
  <2>2. ASSUME NEW d \in Calls
        PROVE  Story(events', d, pc[d], request[d].tool, number[d], before[d])
    <3>1. PICK c : c # d
      <4>1. d # {d} \/ d # {}
        OBVIOUS
      <4> QED
        BY <4>1
    <3>2. OwnKept(events, events', d)
      BY <1>2, <3>1, SealAdds, StepKeepsOwn
    <3> QED
      BY <3>2, OwnKeptStory DEF StoryTold
  <2> QED
    BY <2>1, <2>2 DEF StoryTold
<1>3. CASE UNCHANGED portVars
  BY <1>3 DEF portVars, StoryTold
<1> QED
  BY <1>1, <1>2, <1>3 DEF PortNext

\* At first there is nothing to tell.
LEMMA InitStory == Init => StoryTold
<1> SUFFICES ASSUME Init, NEW d \in Calls
             PROVE  Story(events, d, pc[d], request[d].tool, number[d], before[d])
  BY DEF StoryTold
<1>1. events = <<>> /\ number[d] = 0 /\ pc[d] = "idle"
  BY DEF Init
<1>2. Tried(events, d) = {} /\ Executed(events, d) = {} /\ Noted(events, d) = {}
  BY <1>1 DEF Tried, Executed, Noted, Where
<1> QED
  BY <1>1, <1>2 DEF Story

\* The log tells of every call what became of it, always.
LEMMA StoryInvariance ==
    PortSpec => [](TypeOK /\ Matched(events, violations) /\ Accounted /\ StoryTold)
<1>1. Init => OnRecord
  BY InitAttempts
<1>2. TypeOK /\ OnRecord /\ [PortNext]_portVars => OnRecord'
  BY NextOnRecord
<1>3. TypeOK /\ Accounted /\ OnRecord /\ StoryTold /\ [PortNext]_portVars => StoryTold'
  BY NextStory
<1> QED
  BY <1>1, <1>2, <1>3, InitStory, EvidenceInvariance, PTL DEF PortSpec

-----------------------------------------------------------------------------
\* Counting.

\* A one-to-one map onto a set shows that it has as many elements.
LEMMA SameCount ==
    ASSUME NEW S, NEW T, IsFiniteSet(S), NEW f \in [S -> T],
           \A x, y \in S : f[x] = f[y] => x = y, \A z \in T : \E x \in S : f[x] = z
    PROVE  IsFiniteSet(T) /\ Cardinality(T) = Cardinality(S)
<1>1. f \in Bijection(S, T)
  BY DEF Bijection, Injection, Surjection, IsInjective
<1>2. ExistsBijection(S, T)
  BY <1>1 DEF ExistsBijection
<1> QED
  BY <1>2, FS_Bijection

\* The rank of the position i among the positions S, from 1 on.
Rank(S, i) == Cardinality({j \in S : j < i}) + 1

\* The ranks of finitely many positions are the numbers up to their number, one
\* for each, in their order.
LEMMA Ranks ==
    ASSUME NEW S \in SUBSET Nat, IsFiniteSet(S)
    PROVE  /\ Cardinality(S) \in Nat
           /\ \A i \in S : Rank(S, i) \in 1..Cardinality(S)
           /\ \A i, k \in S : Rank(S, i) = Rank(S, k) => i = k
           /\ \A n \in 1..Cardinality(S) : \E i \in S : Rank(S, i) = n
<1> DEFINE K == Cardinality(S)
           Before(i) == {j \in S : j < i}
<1>1. K \in Nat
  BY FS_CardinalityType
<1>2. \A i \in S : IsFiniteSet(Before(i)) /\ Cardinality(Before(i)) \in Nat
  <2>1. TAKE i \in S
  <2>2. Before(i) \in SUBSET S
    OBVIOUS
  <2>3. IsFiniteSet(Before(i))
    BY <2>2, FS_Subset
  <2> QED
    BY <2>3, FS_CardinalityType
<1>3. ASSUME NEW i \in S, NEW T \in SUBSET S, Before(i) \cup {i} \subseteq T
      PROVE  Rank(S, i) <= Cardinality(T)
  <2>1. i \notin Before(i)
    OBVIOUS
  <2>2. Cardinality(Before(i) \cup {i}) = Cardinality(Before(i)) + 1
    BY <1>2, <2>1, FS_AddElement
  <2>3. IsFiniteSet(T)
    BY FS_Subset
  <2>4. Cardinality(Before(i) \cup {i}) <= Cardinality(T)
    BY <1>3, <2>3, FS_Subset
  <2> QED
    BY <2>2, <2>4 DEF Rank
<1>4. \A i \in S : Rank(S, i) \in 1..K
  <2>1. TAKE i \in S
  <2>2. Rank(S, i) <= K
    BY <1>3
  <2> QED
    BY <1>1, <1>2, <2>2 DEF Rank
<1>5. ASSUME NEW i \in S, NEW k \in S, i < k
      PROVE  Rank(S, i) < Rank(S, k)
  <2>1. Before(i) \cup {i} \subseteq Before(k)
    <3>1. \A j \in S : j \in Nat
      OBVIOUS
    <3>2. \A j \in S : j < i => j < k
      BY <1>5, <3>1
    <3> QED
      BY <1>5, <3>2
  <2>2. Rank(S, i) <= Cardinality(Before(k))
    BY <1>3, <2>1
  <2> QED
    BY <1>2, <1>4, <2>2 DEF Rank
<1>6. \A i, k \in S : Rank(S, i) = Rank(S, k) => i = k
  <2>1. TAKE i \in S, k \in S
  <2>2. CASE i < k
    BY <1>4, <1>5, <2>2
  <2>3. CASE k < i
    BY <1>4, <1>5, <2>3
  <2> QED
    BY <2>2, <2>3
<1> DEFINE rank == [i \in S |-> Rank(S, i)]
<1>7. rank \in Injection(S, 1..K)
  BY <1>4, <1>6 DEF Injection, IsInjective
<1>8. IsFiniteSet(1..K) /\ Cardinality(1..K) = K
  <2>1. 1 \in Int /\ K \in Int
    BY <1>1
  <2>2. /\ IsFiniteSet(1..K)
        /\ Cardinality(1..K) = IF 1 > K THEN 0 ELSE K - 1 + 1
    BY ONLY <2>1, FS_Interval
  <2> QED
    BY <1>1, <2>2
<1>9. rank \in Surjection(S, 1..K)
  BY <1>7, <1>8, FS_Injection
<1>10. \A n \in 1..K : \E i \in S : rank[i] = n
  BY <1>9 DEF Surjection
<1> QED
  BY <1>1, <1>4, <1>6, <1>10

\* The position at a rank is the one that has it.
LEMMA NthIs ==
    ASSUME NEW S \in SUBSET Nat, IsFiniteSet(S), NEW i \in S
    PROVE  Nth(S, Rank(S, i) - 1) = i
<1>1. /\ Cardinality(S) \in Nat
      /\ \A k \in S : Rank(S, k) \in 1..Cardinality(S)
      /\ \A k, l \in S : Rank(S, k) = Rank(S, l) => k = l
  BY Ranks
<1>2. \A k \in S : Cardinality({j \in S : j < k}) \in Nat
  <2>1. TAKE k \in S
  <2>2. {j \in S : j < k} \in SUBSET S
    OBVIOUS
  <2> QED
    BY <2>2, FS_Subset, FS_CardinalityType
<1>3. \A k \in S : Cardinality({j \in S : j < k}) = Rank(S, k) - 1
  BY <1>2 DEF Rank
<1>4. \A k \in S : Cardinality({j \in S : j < k}) = Rank(S, i) - 1 <=> k = i
  BY <1>1, <1>3
<1> HIDE DEF Rank
<1>5. ~(Cardinality(S) <= Rank(S, i) - 1)
  BY <1>1
<1> QED
  BY <1>4, <1>5 DEF Nth

\* An order that is found in a log lists the tool of each execution at its rank, and
\* nothing else.
LEMMA OrderIsFound ==
    ASSUME NEW q \in Seq(LogEvents), NEW a, a.tools \in Seq(Handlers),
           OrderFinding(a, q) = {}
    PROVE  LET S == Executions(q)
           IN  /\ DOMAIN a.tools = 1..Cardinality(S)
               /\ \A n \in 1..Cardinality(S) : \E i \in S : Rank(S, i) = n
               /\ \A i \in S : a.tools[Rank(S, i)] = q[i].tool
<1> DEFINE S == Executions(q)
           K == Cardinality(S)
           executed == [n \in 1..K |-> Nth(S, n - 1)]
<1>1. S \in SUBSET Nat /\ IsFiniteSet(S)
  <2>1. DOMAIN q = 1..Len(q) /\ Len(q) \in Nat
    OBVIOUS
  <2>2. IsFiniteSet(1..Len(q))
    <3>1. 1 \in Int /\ Len(q) \in Int
      BY <2>1
    <3> QED
      BY ONLY <3>1, FS_Interval
  <2>3. S \in SUBSET (1..Len(q))
    BY <2>1 DEF Executions
  <2> QED
    BY <2>1, <2>2, <2>3, FS_Subset
<1> HIDE DEF S
<1>2. /\ K \in Nat
      /\ \A i \in S : Rank(S, i) \in 1..K
      /\ \A i, k \in S : Rank(S, i) = Rank(S, k) => i = k
      /\ \A n \in 1..K : \E i \in S : Rank(S, i) = n
  BY <1>1, Ranks
<1>3. \A i \in S : executed[Rank(S, i)] = i
  BY <1>1, <1>2, NthIs
<1>4. /\ \A n \in DOMAIN executed : n \in DOMAIN a.tools /\ q[executed[n]].tool = a.tools[n]
      /\ Len(executed) = Len(a.tools)
  <2>1. \A x, y : Failure(x, y) # {}
    BY DEF Failure
  <2> QED
    BY <2>1 DEF OrderFinding, S
<1>5. DOMAIN a.tools = 1..K
  <2>1. executed \in Seq({Nth(S, n - 1) : n \in 1..K})
    BY <1>2
  <2>2. DOMAIN executed = 1..K
    OBVIOUS
  <2> HIDE DEF executed
  <2>3. DOMAIN executed = 1..Len(executed) /\ Len(executed) \in Nat
    BY <2>1
  <2>4. DOMAIN a.tools = 1..Len(a.tools)
    OBVIOUS
  <2> QED
    BY <1>4, <2>2, <2>3, <2>4
<1>6. \A i \in S : a.tools[Rank(S, i)] = q[i].tool
  BY <1>2, <1>3, <1>4
<1> QED
  BY <1>2, <1>5, <1>6 DEF S

\* One position more, after all the others, leaves them their ranks and has the last.
LEMMA RankAppend ==
    ASSUME NEW S \in SUBSET Nat, IsFiniteSet(S), NEW k \in Nat, \A i \in S : i < k
    PROVE  /\ \A i \in S : Rank(S \cup {k}, i) = Rank(S, i)
           /\ Rank(S \cup {k}, k) = Cardinality(S) + 1
           /\ Cardinality(S \cup {k}) = Cardinality(S) + 1
<1>1. k \notin S
  OBVIOUS
<1>2. Cardinality(S \cup {k}) = Cardinality(S) + 1
  BY <1>1, FS_AddElement
<1>3. {j \in S \cup {k} : j < k} = S
  <2>1. ~(k < k)
    OBVIOUS
  <2> QED
    BY <2>1
<1>4. ASSUME NEW i \in S
      PROVE  {j \in S \cup {k} : j < i} = {j \in S : j < i}
  <2>1. i \in Nat /\ i < k
    OBVIOUS
  <2> QED
    BY <2>1
<1> QED
  BY <1>2, <1>3, <1>4 DEF Rank

-----------------------------------------------------------------------------
\* What a log counts and what happened.

\* A log has one attempt of each call that was admitted, and one execution of each
\* whose handler was run to an end.
LEMMA CountByCall ==
    ASSUME TypeOK, Accounted, StoryTold, NEW k \in {"tool_attempt", "tool_executed"}, NEW t
    PROVE  Cardinality(Positions(events, k, t))
              = Cardinality({c \in Calls : /\ request[c].tool = t
                                           /\ Where(events, Own(k, c)) # {}})
<1> DEFINE A == Positions(events, k, t)
           B == {c \in Calls : request[c].tool = t /\ Where(events, Own(k, c)) # {}}
           f == [i \in A |-> events[i].call]
<1>1. \A i \in DOMAIN events : events[i] \in LogEvents
  <2>1. events \in Seq(LogEvents)
    BY DEF TypeOK
  <2> QED
    BY <2>1
<1>2. \A e \in LogEvents : e.kind = k => e.call \in Calls
  BY DEF LogEvents
<1>3. \A i \in A : /\ events[i].call \in Calls
                   /\ i \in Where(events, Own(k, events[i].call))
  BY <1>1, <1>2 DEF Positions, Where, Own, Kind
<1>4. \A c \in Calls : /\ \A i, j \in Where(events, Own(k, c)) : i = j
                       /\ \A i \in Where(events, Own(k, c)) : events[i].tool = request[c].tool
  <2>1. TAKE c \in Calls
  <2>2. /\ Account(events, violations, c, pc[c])
        /\ Story(events, c, pc[c], request[c].tool, number[c], before[c])
    BY DEF Accounted, StoryTold
  <2>3. CASE k = "tool_attempt"
    BY <2>2, <2>3 DEF Story, Tried
  <2>4. CASE k = "tool_executed"
    <3>1. \A i, j \in Executed(events, c) : i = j
      BY <2>2 DEF Account
    <3>2. \A i \in Executed(events, c) : events[i].tool = request[c].tool
      BY <2>2 DEF Story
    <3> QED
      BY <2>4, <3>1, <3>2 DEF Executed
  <2> QED
    BY <2>3, <2>4
<1>5. \A c \in Calls : \A i \in Where(events, Own(k, c)) :
         /\ i \in DOMAIN events /\ events[i].kind = k /\ events[i].call = c
  BY DEF Where, Own, Kind
<1>6. f \in [A -> B]
  <2>1. \A i \in A : events[i].tool = t
    BY DEF Positions
  <2> QED
    BY <1>3, <1>4, <2>1
<1>7. \A x, y \in A : f[x] = f[y] => x = y
  BY <1>3, <1>4
<1>8. \A z \in B : \E x \in A : f[x] = z
  BY <1>4, <1>5 DEF Positions
<1>9. IsFiniteSet(A)
  <2>1. events \in Seq(LogEvents)
    BY DEF TypeOK
  <2>2. A = Where(events, {e \in LogEvents : e.kind = k /\ e.tool = t})
    BY <1>1 DEF Positions, Where
  <2> QED
    BY <2>1, <2>2, WhereIsFinite
<1> HIDE DEF A, B, f
<1>10. Cardinality(B) = Cardinality(A)
  BY <1>6, <1>7, <1>8, <1>9, SameCount
<1> QED
  BY <1>10 DEF A, B

\* In a run without a violation and without a handler left behind, the calls whose
\* handler ran are those with an execution in the log.
LEMMA RanIsExecuted ==
    ASSUME TypeOK, Matched(events, violations), Accounted, StoryTold,
           violations = <<>>, NoHandlerLeft, NEW c \in Calls
    PROVE  /\ pc[c] # "rejected"
           /\ HandlerRan(c) <=> Executed(events, c) # {}
           /\ number[c] > 0 <=> Tried(events, c) # {}
<1>1. /\ Account(events, violations, c, pc[c])
      /\ Story(events, c, pc[c], request[c].tool, number[c], before[c])
  BY DEF Accounted, StoryTold
<1>2. number[c] \in Nat /\ pc[c] \notin {"running", "abandoned"}
  BY DEF TypeOK, NoHandlerLeft
<1>3. pc[c] # "rejected"
  <2>1. Marks(violations, Refusals) = {}
    BY DEF Marks
  <2>2. Where(events, Kind("tool_rejected")) = {}
    BY <2>1 DEF Matched
  <2>3. Refused(events, c) \subseteq Where(events, Kind("tool_rejected"))
    BY DEF Refused, Where, Own
  <2> QED
    BY <1>1, <2>2, <2>3 DEF Story
<1>4. HandlerRan(c) <=> /\ number[c] > 0
                        /\ pc[c] \in {"result", "lost", "error", "cancelled"}
  <2>1. DOMAIN violations = {}
    OBVIOUS
  <2> QED
    BY <1>2, <2>1 DEF HandlerRan
<1>5. number[c] > 0 <=> Tried(events, c) # {}
  BY <1>1, <1>2 DEF Story
<1>6. Executed(events, c) # {} => HandlerRan(c)
  BY <1>1, <1>2, <1>3, <1>4 DEF Account, Story
<1>7. HandlerRan(c) => Executed(events, c) # {}
  BY <1>1, <1>2, <1>4 DEF Account, Story
<1> QED
  BY <1>3, <1>5, <1>6, <1>7

\* The log q is the later log r without some errors of handlers left behind.
UpToErrors(q, r) ==
    /\ \A i \in DOMAIN q : i \in DOMAIN r /\ r[i] = q[i]
    /\ \A i \in DOMAIN r \ DOMAIN q : r[i].kind = "tool_error"

\* Such a log has the same events of every other kind.
LEMMA SamePositions ==
    ASSUME NEW q, NEW r, UpToErrors(q, r), NEW k, k # "tool_error", NEW t
    PROVE  /\ Positions(q, k, t) = Positions(r, k, t)
           /\ \A i \in Positions(r, k, t) : q[i] = r[i]
  BY DEF UpToErrors, Positions

\* Its executions are the same as well.
LEMMA SameExecutions ==
    ASSUME NEW q, NEW r, UpToErrors(q, r)
    PROVE  /\ Executions(q) = Executions(r)
           /\ \A i \in Executions(r) : q[i] = r[i]
  BY DEF UpToErrors, Executions

-----------------------------------------------------------------------------
\* What the report of a passing run says when it is made, and still says later.

ReportStands ==
    Reported => /\ UpToErrors(report.events, events)
                /\ report.final_state = world
                /\ report.triggered = Injected(Faults, report.events)
                /\ report.status = "pass" =>
                      /\ violations = <<>>
                      /\ \A i \in DOMAIN Asserted : Finding(Asserted[i], report.events) = {}

\* It says so when it is made.
LEMMA ConcludeStands ==
    ASSUME TypeOK, NEW status \in {"pass", "error", "timeout"}, Conclude(status)
    PROVE  ReportStands'
<1> DEFINE last == <<AgentEvent(IF status = "pass" THEN "agent_output" ELSE "agent_error")>>
           log == events \o last
<1>1. events' = log /\ violations' = violations /\ world' = world
  BY DEF Conclude, Seal
<1>2. PICK k \in 1..Len(Asserted) + 1 : report' = Result(status, log, k)
  BY DEF Conclude
<1> HIDE DEF log
<1>3. /\ report'.events = log /\ report'.final_state = world
      /\ report'.triggered = Injected(Faults, log)
  BY <1>2 DEF Result
<1>4. UpToErrors(report'.events, events')
  BY <1>1, <1>3 DEF UpToErrors
<1>5. ASSUME report'.status = "pass"
      PROVE  violations = <<>> /\ \A i \in DOMAIN Asserted : Finding(Asserted[i], log) = {}
  <2> DEFINE findings == {Blame(v) : v \in DOMAIN violations}
                            \cup UNION {Finding(Asserted[i], log) :
                                          i \in {j \in DOMAIN Asserted : j < k}}
  <2>1. ~(k <= Len(Asserted)) /\ findings = {}
    BY <1>2, <1>5 DEF Result
  <2>2. DOMAIN Asserted = 1..Len(Asserted) /\ Len(Asserted) \in Nat
    BY AssertionsPrepared
  <2>3. \A i \in DOMAIN Asserted : i < k
    BY <2>1, <2>2
  <2>4. \A i \in DOMAIN Asserted : Finding(Asserted[i], log) = {}
    BY <2>1, <2>3
  <2>5. \A v \in DOMAIN violations : Blame(v) \in findings
    OBVIOUS
  <2>6. violations = <<>>
    <3>1. violations \in Seq(Findings) /\ DOMAIN violations = {}
      BY <2>1, <2>5 DEF TypeOK
    <3> QED
      BY <3>1
  <2> QED
    BY <2>4, <2>6
<1> QED
  BY <1>1, <1>3, <1>4, <1>5 DEF ReportStands, Finding

\* After the seal only the errors of handlers left behind are logged.
LEMMA SealedLog ==
    ASSUME TypeOK, sealed, [PortNext]_portVars
    PROVE  \/ events' = events
           \/ \E e \in LogEvents : e.kind = "tool_error" /\ events' = Append(events, e)
<1>1. ASSUME NEW c \in Calls, EndHandler(c)
      PROVE  \/ events' = events
             \/ \E e \in LogEvents : e.kind = "tool_error" /\ events' = Append(events, e)
  <2>1. events' \in {events, Append(events, Event("tool_error", c, number[c]))}
    BY <1>1 DEF EndHandler, HandlerRaises, BadResult, LoseResponse, Respond, EndAbandoned
  <2>2. Event("tool_error", c, number[c]) \in LogEvents
    BY EventType DEF EventKinds, TypeOK
  <2>3. Event("tool_error", c, number[c]).kind = "tool_error"
    BY DEF Event
  <2> QED
    BY <2>1, <2>2, <2>3
<1>2. ASSUME NEW c \in Calls, CallStep(c), ~EndHandler(c)
      PROVE  events' = events
  BY <1>2 DEF CallStep, Enter, HandlerWrite, Reject, BadArguments, TimeoutBefore,
              StaleRead, Start, Permitted, Admit, Issue, CancelWaiting, EnterSealed
<1>3. ~ \E last \in AgentEnds : Seal(last)
  BY DEF Seal
<1> QED
  BY <1>1, <1>2, <1>3 DEF PortNext, portVars

\* No later step takes back what it says.
LEMMA OtherStands ==
    ASSUME TypeOK, PortInv, ReportStands, Reported, sealed, [PortNext]_portVars,
           UNCHANGED report
    PROVE  ReportStands'
<1>1. UNCHANGED <<world, violations>>
  BY SealedStep
<1>2. UpToErrors(report.events, events')
  <2>1. UpToErrors(report.events, events)
    BY DEF ReportStands
  <2>2. CASE events' = events
    BY <2>1, <2>2
  <2>3. ASSUME NEW e \in LogEvents, e.kind = "tool_error", events' = Append(events, e)
        PROVE  UpToErrors(report.events, events')
    <3>1. /\ \A i \in DOMAIN events : i \in DOMAIN events' /\ events'[i] = events[i]
          /\ \A i \in DOMAIN events' \ DOMAIN events : events'[i] = e
      <4>1. events \in Seq(LogEvents)
        BY DEF TypeOK
      <4> QED
        BY <2>3, <4>1
    <3> QED
      BY <2>1, <2>3, <3>1 DEF UpToErrors
  <2> QED
    BY <2>2, <2>3, SealedLog
<1> QED
  BY <1>1, <1>2 DEF ReportStands, Finding, Reported

\* Every step of a run keeps what its report says.
LEMMA NextStands ==
    ASSUME TypeOK, PortInv, RunInv, ReportStands, [RunNext]_runVars
    PROVE  ReportStands'
<1>1. [PortNext]_portVars
  BY RunStepIsPortStep
<1>2. CASE \E status \in {"pass", "error", "timeout"} : Conclude(status)
  BY <1>2, ConcludeStands
<1>3. CASE PortStep \/ DeadlineExpires \/ DriverCancelled \/ UNCHANGED runVars
  <2>1. UNCHANGED report
    BY <1>3 DEF PortStep, RunnerSees, DeadlineExpires, DriverCancelled, runVars
  <2>2. CASE Reported
    BY <1>1, <2>1, <2>2, OtherStands DEF RunInv, ReportedIsSealed
  <2>3. CASE ~Reported
    BY <2>1, <2>3 DEF ReportStands, Reported
  <2> QED
    BY <2>2, <2>3
<1> QED
  BY <1>2, <1>3 DEF RunNext, DriverEnds, DriverReturns, DriverRaises,
                    DriverTimesOut, DriverRaisesTimeoutError

-----------------------------------------------------------------------------
\* The order in which the handlers were started.

\* Handlers are serial, so the executions stand in the log in the order in which
\* their handlers were started; a handler not yet or never logged is the last.
InOrder ==
    LET X == Executions(events)
    IN  /\ \A i \in X : /\ Rank(X, i) \in DOMAIN began
                         /\ began[Rank(X, i)] = events[i].call
        /\ Unlogged = {} => Len(began) = Cardinality(X)
        /\ \A c \in Unlogged : Len(began) = Cardinality(X) + 1 /\ began[Len(began)] = c

\* The executions in a log are finitely many positions.
LEMMA ExecutionsAreFinite ==
    ASSUME TypeOK
    PROVE  /\ Executions(events) \in SUBSET Nat
           /\ IsFiniteSet(Executions(events))
           /\ Cardinality(Executions(events)) \in Nat
           /\ Executions(events) = At("tool_executed")
           /\ \A i \in Executions(events) : i <= Len(events)
<1>1. DOMAIN events = 1..Len(events) /\ Len(events) \in Nat
  BY DEF TypeOK
<1>2. IsFiniteSet(1..Len(events))
  <2>1. 1 \in Int /\ Len(events) \in Int
    BY <1>1
  <2> QED
    BY ONLY <2>1, FS_Interval
<1>3. Executions(events) \in SUBSET (1..Len(events))
  BY <1>1 DEF Executions
<1>4. IsFiniteSet(Executions(events))
  BY <1>2, <1>3, FS_Subset
<1>5. \A i \in 1..Len(events) : i \in Nat /\ i <= Len(events)
  BY <1>1
<1> QED
  BY <1>3, <1>4, <1>5, FS_CardinalityType DEF Executions, At

\* A step that logs no execution, starts no handler and ends none keeps the order.
LEMMA QuietInOrder ==
    ASSUME TypeOK, InOrder, NEW s \in Seq(LogEvents), Quiet(s), events' = events \o s,
           began' = began, Unlogged' = Unlogged
    PROVE  InOrder'
<1>1. /\ At("tool_executed")' = At("tool_executed")
      /\ \A i \in At("tool_executed") : events'[i] = events[i]
  BY QuietLog
<1>2. /\ Executions(events') = Executions(events)
      /\ \A i \in Executions(events) : events'[i] = events[i]
  BY <1>1 DEF At, Executions
<1> QED
  BY <1>2 DEF InOrder

\* Every step of a call keeps it.
LEMMA CallInOrder ==
    ASSUME TypeOK, PortInv, began \in Seq(Calls), InOrder,
           NEW c \in Calls, CallStep(c), RunnerSees
    PROVE  InOrder'
<1> DEFINE X == Executions(events)
<1>1. /\ X \in SUBSET Nat /\ IsFiniteSet(X) /\ Cardinality(X) \in Nat
      /\ X = At("tool_executed") /\ \A i \in X : i <= Len(events)
  BY ExecutionsAreFinite
<1>2. events \in Seq(LogEvents) /\ pc \in [Calls -> {"idle", "waiting", "running"} \cup Outcomes]
  BY DEF TypeOK
<1>3. CASE Start(c)
  <2>1. PICK s \in Seq(LogEvents) : Quiet(s) /\ events' = events \o s
    BY <1>3, StartLog
  <2>2. pc' = [pc EXCEPT ![c] = "running"] /\ began' = Append(began, c)
    BY <1>3, OnlyStartsAreSeen DEF Start
  <2>3. Unlogged = {}
    BY <1>3, StartLog DEF PortInv, AbandonedBySeal, Unlogged, Running
  <2>4. \A d \in Unlogged' : d = c
    BY <1>2, <2>2, <2>3 DEF Unlogged
  <2>5. c \in Unlogged'
    BY <1>2, <2>2 DEF Unlogged
  <2>6. /\ Executions(events') = X
        /\ \A i \in X : events'[i] = events[i]
    <3>1. /\ At("tool_executed")' = At("tool_executed")
          /\ \A i \in At("tool_executed") : events'[i] = events[i]
      BY <2>1, QuietLog
    <3> QED
      BY <1>1, <3>1 DEF At, Executions
  <2>7. Len(began) = Cardinality(X)
    BY <2>3 DEF InOrder
  <2>8. /\ Len(began') = Cardinality(X) + 1 /\ began'[Len(began')] = c
        /\ \A i \in DOMAIN began : i \in DOMAIN began' /\ began'[i] = began[i]
    BY <2>2, <2>7
  <2>9. \A i \in X : Rank(X, i) \in DOMAIN began /\ began[Rank(X, i)] = events[i].call
    BY DEF InOrder
  <2>10. \A i \in X : Rank(X, i) \in DOMAIN began' /\ began'[Rank(X, i)] = events'[i].call
    BY <2>6, <2>8, <2>9
  <2> HIDE DEF X
  <2> QED
    BY <2>4, <2>5, <2>6, <2>8, <2>10 DEF InOrder
<1>4. CASE EndHandler(c) /\ ~sealed
  <2>1. began' = began /\ pc[c] = "running"
    BY <1>4, OnlyStartsAreSeen
       DEF EndHandler, HandlerRaises, BadResult, LoseResponse, Respond, EndAbandoned,
           Finish, Start, Permitted, Admit, Acquire
  <2>2. PICK o \in Outcomes \ {"abandoned"} : pc' = [pc EXCEPT ![c] = o]
    BY <1>4 DEF EndHandler, HandlerRaises, BadResult, LoseResponse, Respond,
                EndAbandoned, Finish, Outcomes
  <2>3. PICK s \in Seq(LogEvents), k \in Nat :
           /\ events' = events \o s
           /\ k \in DOMAIN s
           /\ s[k].kind = "tool_executed"
           /\ s[k].call = c
           /\ s[k].tool = request[c].tool
           /\ s[k].changes = Changes(before[c], world)
           /\ \A j \in DOMAIN s \ {k} : s[j].kind # "tool_executed"
    <3>1. EndHandler(c) /\ ~sealed
      BY <1>4
    <3> QED
      BY <3>1, EndHandlerLog, Zenon
  <2>4. c \in Unlogged /\ \A d \in Unlogged : d = c
    BY <2>1 DEF Unlogged, PortInv, OneUnlogged
  <2>5. Unlogged' = {}
    BY <1>2, <2>2, <2>4 DEF Unlogged, Outcomes
  <2> DEFINE l == Len(events) + k
  <2>6. /\ At("tool_executed")' = At("tool_executed") \cup {l}
        /\ \A i \in At("tool_executed") : events'[i] = events[i]
        /\ events'[l] = s[k] /\ l \in Nat
    BY <2>3, ExecutionLog
  <2>7. \A i \in X : i < l
    <3>1. k > 0 /\ Len(events) \in Nat
      BY <1>2, <2>3
    <3> QED
      BY <1>1, <3>1
  <2> HIDE DEF l
  <2>8. Executions(events') = X \cup {l}
    BY <1>1, <2>6 DEF At, Executions
  <2> HIDE DEF X
  <2>9. /\ \A i \in X : Rank(X \cup {l}, i) = Rank(X, i)
        /\ Rank(X \cup {l}, l) = Cardinality(X) + 1
        /\ Cardinality(X \cup {l}) = Cardinality(X) + 1
    BY <1>1, <2>6, <2>7, RankAppend
  <2>10. Len(began) = Cardinality(X) + 1 /\ began[Len(began)] = c
    BY <2>4 DEF InOrder, X
  <2>11. \A i \in X : Rank(X, i) \in DOMAIN began /\ began[Rank(X, i)] = events[i].call
    BY DEF InOrder, X
  <2>12. Len(began) \in DOMAIN began
    BY <1>1, <2>10
  <2>13. \A i \in X \cup {l} : /\ Rank(X \cup {l}, i) \in DOMAIN began
                               /\ began[Rank(X \cup {l}, i)] = events'[i].call
    BY <1>1, <2>3, <2>6, <2>9, <2>10, <2>11, <2>12
  <2> QED
    BY <2>1, <2>5, <2>8, <2>9, <2>10, <2>13 DEF InOrder
<1>5. CASE EndHandler(c) /\ sealed
  <2>1. began' = began /\ pc[c] = "running" /\ pc' = [pc EXCEPT ![c] = "abandoned"]
    BY <1>5, OnlyStartsAreSeen
       DEF EndHandler, HandlerRaises, BadResult, LoseResponse, Respond, EndAbandoned,
           Finish, Start, Permitted, Admit, Acquire
  <2>2. Unlogged' = Unlogged
    BY <1>2, <2>1 DEF Unlogged
  <2> QED
    BY <1>5, <2>1, <2>2, EndHandlerLog, QuietInOrder
<1>6. CASE \E p \in Paths, v \in Values : HandlerWrite(c, p, v)
  <2>1. events' = events /\ pc' = pc /\ began' = began
    BY <1>6, OnlyStartsAreSeen DEF HandlerWrite, Start, Permitted, Admit, Acquire
  <2> QED
    BY <2>1 DEF InOrder, Unlogged
<1>7. CASE /\ \/ \E t \in Tools, a \in ArgumentKinds : Issue(c, t, a)
              \/ CancelWaiting(c)
              \/ EnterSealed(c) \/ Reject(c) \/ BadArguments(c)
              \/ TimeoutBefore(c) \/ StaleRead(c)
           /\ ~Start(c)
  <2>1. /\ \E s \in Seq(LogEvents) : Quiet(s) /\ events' = events \o s
        /\ pc[c] \in {"idle", "waiting"}
        /\ \E o \in {"waiting", "cancelled", "sealed", "rejected",
                     "bad_arguments", "timeout", "stale"} : pc' = [pc EXCEPT ![c] = o]
    BY <1>7, QuietStep
  <2>2. Unlogged' = Unlogged
    BY <1>2, <2>1 DEF Unlogged
  <2>3. began' = began
    BY <1>7, OnlyStartsAreSeen
  <2> QED
    BY <2>1, <2>2, <2>3, QuietInOrder
<1> QED
  BY <1>3, <1>4, <1>5, <1>6, <1>7 DEF CallStep, Enter

\* Every step of a run keeps it.
LEMMA NextInOrder ==
    ASSUME TypeOK, PortInv, RunShape, InOrder, [RunNext]_runVars
    PROVE  InOrder'
<1>1. CASE PortStep
  BY <1>1, CallInOrder DEF PortStep, RunShape
<1>2. ASSUME NEW last \in AgentEnds, Seal(last), began' = began
      PROVE  InOrder'
  <2>1. PICK s \in Seq(LogEvents) : Quiet(s) /\ events' = events \o s
    BY <1>2, SealLog
  <2>2. Unlogged' = Unlogged
    BY <1>2 DEF Seal, Unlogged
  <2> QED
    BY <1>2, <2>1, <2>2, QuietInOrder
<1>3. CASE \E status \in {"pass", "error", "timeout"} : Conclude(status)
  BY <1>2, <1>3 DEF Conclude, AgentEnds
<1>4. CASE DriverCancelled
  BY <1>2, <1>4 DEF DriverCancelled, AgentEnds
<1>5. CASE DeadlineExpires \/ UNCHANGED runVars
  <2>1. UNCHANGED <<events, pc, began>>
    BY <1>5 DEF DeadlineExpires, runVars, portVars
  <2> QED
    BY <2>1 DEF InOrder, Unlogged
<1> QED
  BY <1>1, <1>3, <1>4, <1>5
     DEF RunNext, DriverEnds, DriverReturns, DriverRaises, DriverTimesOut,
         DriverRaisesTimeoutError

\* Nothing has begun before the first call.
LEMMA InitInOrder == RunInit => InOrder
<1> SUFFICES ASSUME RunInit
             PROVE  InOrder
  OBVIOUS
<1>1. events = <<>> /\ began = <<>> /\ Unlogged = {}
  BY DEF RunInit, Init, Unlogged
<1>2. Executions(events) = {}
  BY <1>1 DEF Executions
<1> QED
  BY <1>1, <1>2, FS_EmptySet DEF InOrder

\* With no handler left behind, the order found in the log is the one in which the
\* handlers were started.
LEMMA OrderIsTrue ==
    ASSUME TypeOK, began \in Seq(Calls), InOrder, StoryTold, NoHandlerLeft,
           NEW q \in Seq(LogEvents), UpToErrors(q, events),
           NEW a, a.tools \in Seq(Handlers), OrderFinding(a, q) = {}
    PROVE  [n \in DOMAIN began |-> request[began[n]].tool] = a.tools
<1> DEFINE X == Executions(events)
<1>1. Executions(q) = X /\ \A i \in X : q[i] = events[i]
  BY SameExecutions
<1>2. /\ DOMAIN a.tools = 1..Cardinality(X)
      /\ \A n \in 1..Cardinality(X) : \E i \in X : Rank(X, i) = n
      /\ \A i \in X : a.tools[Rank(X, i)] = events[i].tool
  BY <1>1, OrderIsFound
<1>3. Unlogged = {}
  BY DEF NoHandlerLeft, Unlogged
<1>4. \A i \in X : events[i].tool = request[events[i].call].tool
  <2>1. TAKE i \in X
  <2>2. /\ events[i] \in LogEvents /\ events[i].kind = "tool_executed" /\ i \in DOMAIN events
    BY DEF TypeOK, Executions
  <2>3. events[i].call \in Calls
    BY <2>2 DEF LogEvents, EventKinds
  <2>4. i \in Executed(events, events[i].call)
    BY <2>2 DEF Executed, Where, Own, Kind
  <2> QED
    BY <2>3, <2>4 DEF StoryTold, Story
<1>5. DOMAIN began = 1..Cardinality(X)
  BY <1>3 DEF InOrder
<1>6. \A i \in X : began[Rank(X, i)] = events[i].call
  BY DEF InOrder
<1> HIDE DEF X
<1>7. \A n \in DOMAIN began : request[began[n]].tool = a.tools[n]
  BY <1>2, <1>4, <1>5, <1>6
<1>8. a.tools = [n \in DOMAIN a.tools |-> a.tools[n]]
  OBVIOUS
<1> QED
  BY <1>2, <1>5, <1>7, <1>8

-----------------------------------------------------------------------------
\* A pass.

\* Of a log with no finding, what each assertion claims is true of the run.
LEMMA FoundIsTrue ==
    ASSUME TypeOK, Matched(events, violations), Accounted, StoryTold, NoHandlerLeft,
           ReportStands, CoverageIsReal, RunTypeOK, InOrder, report.status = "pass",
           Reported, NEW i \in DOMAIN Asserted
    PROVE  Holds(Asserted[i])
<1> DEFINE a == Asserted[i]
           q == report.events
<1>1. /\ UpToErrors(q, events) /\ report.final_state = world /\ violations = <<>>
      /\ Finding(a, q) = {}
  BY DEF ReportStands
<1>2. /\ a.type \in {"state", "count", "order", "precondition", "fault"}
      /\ a.type = "count" => a.kind \in {"tool_executed", "tool_attempt"}
      /\ a.type = "order" => a.tools \in Seq(Handlers)
      /\ a.type = "precondition" =>
            [tool |-> a.tool, path |-> a.path, value |-> a.value] \in Preconditions
  BY AssertionsPrepared
<1>3. \A c \in Calls : /\ HandlerRan(c) <=> Executed(events, c) # {}
                       /\ number[c] > 0 <=> Tried(events, c) # {}
  BY <1>1, RanIsExecuted
<1>4. \A t : Cardinality(Positions(events, "tool_executed", t)) = Cardinality(Ran(t))
  <2>1. TAKE t
  <2>2. Ran(t) = {c \in Calls : /\ request[c].tool = t
                                /\ Where(events, Own("tool_executed", c)) # {}}
    BY <1>3 DEF Ran, Executed
  <2> QED
    BY <2>2, CountByCall
<1>5. \A t : Cardinality(Positions(events, "tool_attempt", t))
                = Cardinality({c \in Calls : number[c] > 0 /\ request[c].tool = t})
  <2>1. TAKE t
  <2>2. {c \in Calls : number[c] > 0 /\ request[c].tool = t} =
           {c \in Calls : /\ request[c].tool = t
                          /\ Where(events, Own("tool_attempt", c)) # {}}
    BY <1>3 DEF Tried
  <2> QED
    BY <2>2, CountByCall
<1>6. \A x, y : Failure(x, y) # {}
  BY DEF Failure
<1> HIDE DEF a
<1>7. CASE a.type = "state"
  <2>1. StateFinding(a, {world[a.path]}, q) = {}
    BY <1>1, <1>7 DEF Finding, Evaluate
  <2>2. {world[a.path]} = {a.value}
    BY <1>6, <2>1 DEF StateFinding
  <2>3. world[a.path] = a.value
    BY <2>2
  <2> QED
    BY <1>1, <1>7, <2>3 DEF Holds, a
<1>8. CASE a.type = "count"
  <2>1. CountFinding(a, q) = {}
    BY <1>1, <1>8 DEF Finding, Evaluate
  <2>2. Cardinality(Positions(q, a.kind, a.tool)) = a.count
    BY <1>6, <2>1 DEF CountFinding
  <2>3. Positions(q, a.kind, a.tool) = Positions(events, a.kind, a.tool)
    <3>1. UpToErrors(q, events)
      BY <1>1
    <3>2. a.kind # "tool_error"
      BY <1>2, <1>8
    <3> HIDE DEF q
    <3> QED
      BY <3>1, <3>2, SamePositions
  <2>4. CASE a.kind = "tool_executed"
    BY <1>4, <1>8, <2>2, <2>3, <2>4 DEF Holds, a
  <2>5. CASE a.kind = "tool_attempt"
    BY <1>5, <1>8, <2>2, <2>3, <2>5 DEF Holds, a
  <2> QED
    BY <1>2, <1>8, <2>4, <2>5
<1>9. CASE a.type = "order"
  <2>1. OrderFinding(a, q) = {}
    BY <1>1, <1>9 DEF Finding, Evaluate
  <2>2. q \in Seq(LogEvents)
    BY DEF RunTypeOK
  <2>3. a.tools \in Seq(Handlers) /\ began \in Seq(Calls)
    BY <1>2, <1>9 DEF RunTypeOK
  <2>4. [n \in DOMAIN began |-> request[began[n]].tool] = a.tools
    BY <1>1, <2>1, <2>2, <2>3, OrderIsTrue
  <2> QED
    BY <1>9, <2>4 DEF Holds, a
<1>10. CASE a.type = "precondition"
  <2>1. PreconditionFinding(a, q) = {}
    BY <1>1, <1>10 DEF Finding, Evaluate
  <2>2. ASSUME NEW c \in Ran(a.tool), before[c][a.path] # a.value
        PROVE  FALSE
    <3> DEFINE p == [tool |-> a.tool, path |-> a.path, value |-> a.value]
    <3>1. c \in Calls /\ request[c].tool = a.tool /\ Executed(events, c) # {}
      BY <1>3 DEF Ran
    <3>2. p \in MissedIn(before[c], a.tool)
      BY <1>2, <1>10, <2>2 DEF MissedIn
    <3>3. Story(events, c, pc[c], a.tool, number[c], before[c])
      BY <3>1 DEF StoryTold
    <3>4. PICK j \in Noted(events, c) : events[j].missed = MissedIn(before[c], a.tool)
      BY <3>1, <3>2, <3>3 DEF Story
    <3>5. j \in Positions(events, "precondition_failed", a.tool)
      BY <3>3, <3>4 DEF Story, Noted, Where, Own, Kind, Positions
    <3>6. j \in Positions(q, "precondition_failed", a.tool) /\ q[j] = events[j]
      <4>1. UpToErrors(q, events) /\ "precondition_failed" # "tool_error"
        BY <1>1
      <4> HIDE DEF q
      <4> QED
        BY <3>5, <4>1, SamePositions
    <3>7. \E x \in q[j].missed : x.path = a.path
      BY <3>2, <3>4, <3>6
    <3> QED
      BY <1>6, <2>1, <3>6, <3>7 DEF PreconditionFinding
  <2> QED
    BY <1>10, <2>2 DEF Holds, a
<1>11. CASE a.type = "fault"
  <2>1. FaultFinding(a, Faults, q) = {}
    BY <1>1, <1>11 DEF Finding, Evaluate
  <2>2. a.fault \in Injected(Faults, q)
    BY <1>6, <2>1 DEF FaultFinding
  <2>3. FaultMet(a.fault)
    BY <2>2 DEF ReportStands, CoverageIsReal
  <2> QED
    BY <1>11, <2>3 DEF Holds, a
<1> QED
  BY <1>2, <1>7, <1>8, <1>9, <1>10, <1>11 DEF a

\* A read-only tool that changed nothing called for no violation, and one that did
\* called for one.
LEMMA NoReadOnlyChange ==
    ASSUME TypeOK, Matched(events, violations), violations = <<>>,
           NEW i \in Executions(events), events[i].tool \in ReadOnly
    PROVE  DOMAIN events[i].changes = {}
<1>1. events[i] \in LogEvents /\ i \in DOMAIN events /\ events[i].kind = "tool_executed"
  <2>1. events \in Seq(LogEvents) /\ i \in DOMAIN events
    BY DEF TypeOK, Executions
  <2> QED
    BY <2>1 DEF Executions
<1>2. Marks(violations, {"read_only_changed"}) = {}
  BY DEF Marks
<1>3. Where(events, ReadOnlyChanges) = {}
  BY <1>2 DEF Matched
<1> QED
  BY <1>1, <1>3 DEF Where, ReadOnlyChanges, Kind

\* A pass is earned: for every agent and every schedule, what a passing run's
\* assertions claim is true of what the handlers did, and it hides no refused call
\* and no change by a read-only tool.
THEOREM PassesAreEarned == RunSpec => []PassIsEarned
<1>1. RunSpec => [](TypeOK /\ PortInv)
  BY RunDrivesPort, Invariance, PTL
<1>2. RunSpec => [](Matched(events, violations) /\ Accounted /\ StoryTold)
  BY RunDrivesPort, StoryInvariance, PTL
<1>3. RunInit => ReportStands
  BY DEF RunInit, ReportStands, Reported
<1>4. TypeOK /\ PortInv /\ RunInv /\ ReportStands /\ [RunNext]_runVars => ReportStands'
  BY NextStands
<1>5. TypeOK /\ PortInv /\ RunInv /\ [RunNext]_runVars => RunInv'
  BY NextRunInv
<1>6. RunTypeOK => RunShape
  BY DEF RunTypeOK, RunShape
<1>7. TypeOK /\ PortInv /\ RunShape /\ InOrder /\ [RunNext]_runVars => InOrder'
  BY NextInOrder
<1>8. ASSUME TypeOK, Matched(events, violations), Accounted, StoryTold, ReportStands,
             CoverageIsReal, RunTypeOK, InOrder
      PROVE  PassIsEarned
  <2> SUFFICES ASSUME report.status = "pass", NoHandlerLeft
               PROVE  /\ \A i \in DOMAIN Asserted : Holds(Asserted[i])
                      /\ \A c \in Calls : pc[c] # "rejected"
                      /\ \A i \in Executions(report.events) :
                            report.events[i].tool \in ReadOnly =>
                               DOMAIN report.events[i].changes = {}
    BY DEF PassIsEarned
  <2>1. Reported
    BY DEF Reported, NoReport
  <2>2. \A i \in DOMAIN Asserted : Holds(Asserted[i])
    BY <1>8, <2>1, FoundIsTrue
  <2>3. violations = <<>> /\ UpToErrors(report.events, events)
    BY <1>8, <2>1 DEF ReportStands
  <2>4. \A c \in Calls : pc[c] # "rejected"
    BY <1>8, <2>3, RanIsExecuted
  <2>5. ASSUME NEW i \in Executions(report.events), report.events[i].tool \in ReadOnly
        PROVE  DOMAIN report.events[i].changes = {}
    <3>1. i \in Executions(events) /\ report.events[i] = events[i]
      BY <2>3, SameExecutions
    <3> QED
      BY <1>8, <2>3, <2>5, <3>1, NoReadOnlyChange
  <2> QED
    BY <2>2, <2>4, <2>5
<1> QED
  BY <1>1, <1>2, <1>3, <1>4, <1>5, <1>6, <1>7, <1>8, InitRunInv, InitInOrder,
     FaultCoverageHolds, RunTypeCorrect, PTL DEF RunSpec

-----------------------------------------------------------------------------
\* How the recorded effects explain the state.

\* The effects R that changed the path p.
ChangedIn(R, p) == {r \in R : p \in DOMAIN r.changes}

\* For each path, the changes in the record R make one chain from the initial
\* world to the world w: each starts from the value the one before it left.
Chained(R, w) ==
    /\ \A r \in R : r.at \in Nat
    /\ \A p \in Paths :
          /\ \A r \in ChangedIn(R, p) : r.changes[p].before # r.changes[p].after
          /\ ChangedIn(R, p) = {} => w[p] = InitialWorld[p]
          /\ \A r \in ChangedIn(R, p) :
                /\ (\A s \in ChangedIn(R, p) : s.at <= r.at) => r.changes[p].after = w[p]
                /\ (\A s \in ChangedIn(R, p) : r.at <= s.at) =>
                      r.changes[p].before = InitialWorld[p]
          /\ \A r, s \in ChangedIn(R, p) :
                r.at < s.at /\ (\A t \in ChangedIn(R, p) : t.at <= r.at \/ s.at <= t.at)
                  => s.changes[p].before = r.changes[p].after

\* An effect that is recorded with its differences, later than all others,
\* prolongs each chain.
LEMMA ExecuteChains ==
    ASSUME NEW R, NEW w, NEW v, Chained(R, w), NEW e, e.at \in Nat,
           \A r \in R : r.at < e.at,
           e.changes = Serial!Differences(w, v)
    PROVE  Chained(R \cup {e}, v)
<1>1. \A r \in R \cup {e} : r.at \in Nat
  BY DEF Chained
<1>2. ASSUME NEW p \in Paths
      PROVE  /\ \A r \in ChangedIn(R \cup {e}, p) :
                   r.changes[p].before # r.changes[p].after
             /\ ChangedIn(R \cup {e}, p) = {} => v[p] = InitialWorld[p]
             /\ \A r \in ChangedIn(R \cup {e}, p) :
                   /\ (\A s \in ChangedIn(R \cup {e}, p) : s.at <= r.at) =>
                         r.changes[p].after = v[p]
                   /\ (\A s \in ChangedIn(R \cup {e}, p) : r.at <= s.at) =>
                         r.changes[p].before = InitialWorld[p]
             /\ \A r, s \in ChangedIn(R \cup {e}, p) :
                   /\ r.at < s.at
                   /\ \A t \in ChangedIn(R \cup {e}, p) : t.at <= r.at \/ s.at <= t.at
                   => s.changes[p].before = r.changes[p].after
  <2> DEFINE S == ChangedIn(R, p)
             T == ChangedIn(R \cup {e}, p)
  <2>1. /\ \A r \in S : r.changes[p].before # r.changes[p].after
        /\ S = {} => w[p] = InitialWorld[p]
        /\ \A r \in S :
              /\ (\A s \in S : s.at <= r.at) => r.changes[p].after = w[p]
              /\ (\A s \in S : r.at <= s.at) => r.changes[p].before = InitialWorld[p]
        /\ \A r, s \in S :
              r.at < s.at /\ (\A t \in S : t.at <= r.at \/ s.at <= t.at)
                => s.changes[p].before = r.changes[p].after
    BY DEF Chained
  <2>2. \A r \in S : r.at \in Nat /\ r.at < e.at
    BY DEF Chained, ChangedIn
  <2>3. CASE w[p] = v[p]
    <3>1. p \notin DOMAIN e.changes
      BY <2>3 DEF Serial!Differences
    <3>2. T = S
      BY <3>1 DEF ChangedIn
    <3> QED
      BY <2>1, <2>3, <3>2
  <2>4. CASE w[p] # v[p]
    <3>1. /\ p \in DOMAIN e.changes
          /\ e.changes[p].before = w[p] /\ e.changes[p].after = v[p]
      BY <2>4 DEF Serial!Differences
    <3>2. T = S \cup {e}
      BY <3>1 DEF ChangedIn
    <3> HIDE DEF S, T
    <3>3. T # {} /\ \A r \in T : r.changes[p].before # r.changes[p].after
      BY <2>1, <2>4, <3>1, <3>2
    <3>4. ASSUME NEW r \in T, \A s \in T : s.at <= r.at
          PROVE  r.changes[p].after = v[p]
      <4>1. r = e
        BY <2>2, <3>2, <3>4
      <4> QED
        BY <3>1, <4>1
    <3>5. ASSUME NEW r \in T, \A s \in T : r.at <= s.at
          PROVE  r.changes[p].before = InitialWorld[p]
      <4>1. CASE r = e
        <5>1. S = {}
          BY <2>2, <3>2, <3>5, <4>1
        <5> QED
          BY <2>1, <3>1, <4>1, <5>1
      <4>2. CASE r \in S
        BY <2>1, <3>2, <3>5, <4>2
      <4> QED
        BY <3>2, <4>1, <4>2
    <3>6. ASSUME NEW r \in T, NEW s \in T, r.at < s.at,
                 \A t \in T : t.at <= r.at \/ s.at <= t.at
          PROVE  s.changes[p].before = r.changes[p].after
      <4>1. r \in S
        BY <2>2, <3>2, <3>6
      <4>2. CASE s \in S
        BY <2>1, <3>2, <3>6, <4>1, <4>2
      <4>3. CASE s = e
        <5>1. \A t \in S : t.at <= r.at
          BY <2>2, <3>2, <3>6, <4>3
        <5> QED
          BY <2>1, <3>1, <4>1, <4>3, <5>1
      <4> QED
        BY <3>2, <4>2, <4>3
    <3> QED
      BY <3>3, <3>4, <3>5, <3>6 DEF T
  <2> QED
    BY <2>3, <2>4
<1> QED
  BY <1>1, <1>2 DEF Chained

\* It is so of every service of serial tools, so of the port that implements one.
LEMMA EffectsChain == PortSpec => []Chained(Recorded, LoggedWorld)
<1>1. Serial!Init => Chained(Recorded, LoggedWorld)
  BY DEF Serial!Init, Chained, ChangedIn
<1>2. ASSUME Chained(Recorded, LoggedWorld), [Serial!Next]_(Serial!vars)
      PROVE  Chained(Recorded', LoggedWorld')
  <2>1. CASE Serial!Close \/ UNCHANGED Serial!vars
    BY <1>2, <2>1 DEF Serial!Close, Serial!vars
  <2>2. ASSUME NEW e \in Recorded' \ Recorded, Serial!Execute(e)
        PROVE  Chained(Recorded', LoggedWorld')
    BY <1>2, <2>2, ExecuteChains DEF Serial!Execute
  <2> QED
    BY <1>2, <2>1, <2>2 DEF Serial!Next
<1>3. Chained(Recorded, LoggedWorld) /\ [Serial!Next]_(Serial!vars)
        => Chained(Recorded, LoggedWorld)'
  BY <1>2
<1> QED
  BY <1>1, <1>3, PortImplementsSerialTools, PTL
     DEF ImplementsSerialTools, Serial!Spec

-----------------------------------------------------------------------------
\* What that says of the positions of the log.

\* The executions of the log q that changed the path p.
Changing(q, p) == {i \in Executions(q) : p \in DOMAIN q[i].changes}

\* The changes of the path p in the log q make one chain from its first value to v.
Traced(q, p, v) ==
    LET S == Changing(q, p)
    IN  /\ \A i \in S : q[i].changes[p].before # q[i].changes[p].after
        /\ S = {} => v = InitialWorld[p]
        /\ \A i \in S :
              /\ (\A j \in S : j <= i) => q[i].changes[p].after = v
              /\ (\A j \in S : i <= j) => q[i].changes[p].before = InitialWorld[p]
        /\ \A i, j \in S :
              i < j /\ (\A k \in S : k <= i \/ j <= k)
                => q[j].changes[p].before = q[i].changes[p].after

\* The value of the path p after the first i events of the log q.
ValueAfter(q, p, i) ==
    LET S == {j \in Changing(q, p) : j <= i}
    IN  IF S = {} THEN InitialWorld[p]
        ELSE q[CHOOSE j \in S : \A k \in S : k <= j].changes[p].after

\* The record is the executions of the log.
LEMMA ChainIsTraced ==
    ASSUME Chained(Recorded, LoggedWorld), NEW p \in Paths
    PROVE  Traced(events, p, LoggedWorld[p])
<1> DEFINE S == Changing(events, p)
           record(i) == [at |-> i, call |-> events[i].call, tool |-> events[i].tool,
                         changes |-> events[i].changes]
           R == ChangedIn(Recorded, p)
<1>1. At("tool_executed") = Executions(events)
  BY DEF At, Executions
<1>2. Recorded = {record(i) : i \in Executions(events)}
  BY <1>1 DEF Recorded
<1>3. R = {record(i) : i \in S}
  BY <1>2 DEF ChangedIn, Changing
<1>4. \A i : record(i).at = i /\ record(i).changes = events[i].changes
  OBVIOUS
<1>5. /\ \A r \in R : r.changes[p].before # r.changes[p].after
      /\ R = {} => LoggedWorld[p] = InitialWorld[p]
      /\ \A r \in R :
            /\ (\A s \in R : s.at <= r.at) => r.changes[p].after = LoggedWorld[p]
            /\ (\A s \in R : r.at <= s.at) => r.changes[p].before = InitialWorld[p]
      /\ \A r, s \in R :
            r.at < s.at /\ (\A t \in R : t.at <= r.at \/ s.at <= t.at)
              => s.changes[p].before = r.changes[p].after
  BY DEF Chained
<1> HIDE DEF R, S, record
<1>6. S = {} => LoggedWorld[p] = InitialWorld[p]
  BY <1>3, <1>5
<1>7. \A i \in S : events[i].changes[p].before # events[i].changes[p].after
  BY <1>3, <1>4, <1>5
<1>8. ASSUME NEW i \in S
      PROVE  /\ (\A j \in S : j <= i) => events[i].changes[p].after = LoggedWorld[p]
             /\ (\A j \in S : i <= j) => events[i].changes[p].before = InitialWorld[p]
  BY <1>3, <1>4, <1>5
<1>9. ASSUME NEW i \in S, NEW j \in S, i < j, \A k \in S : k <= i \/ j <= k
      PROVE  events[j].changes[p].before = events[i].changes[p].after
  <2>1. record(i) \in R /\ record(j) \in R
    BY <1>3
  <2>2. \A t \in R : t.at <= record(i).at \/ record(j).at <= t.at
    BY <1>3, <1>4, <1>9
  <2> QED
    BY <1>4, <1>5, <1>9, <2>1, <2>2
<1> QED
  BY <1>6, <1>7, <1>8, <1>9 DEF Traced, S

\* The positions of the least and of the greatest rank.
LEMMA Extremes ==
    ASSUME NEW S \in SUBSET Nat, IsFiniteSet(S), S # {}
    PROVE  /\ \E i \in S : \A j \in S : i <= j
           /\ /\ Nth(S, Cardinality(S) - 1) \in S
              /\ \A j \in S : j <= Nth(S, Cardinality(S) - 1)
<1> DEFINE K == Cardinality(S)
           Before(i) == {j \in S : j < i}
<1>1. /\ K \in Nat
      /\ \A n \in 1..K : \E i \in S : Rank(S, i) = n
  BY Ranks
<1>2. K # 0
  BY FS_EmptySet
<1>3. \A i \in S : /\ Before(i) \in SUBSET S /\ IsFiniteSet(Before(i))
                   /\ Cardinality(Before(i)) \in Nat
                   /\ Rank(S, i) = Cardinality(Before(i)) + 1
  <2>1. TAKE i \in S
  <2>2. Before(i) \in SUBSET S
    OBVIOUS
  <2>3. IsFiniteSet(Before(i))
    BY <2>2, FS_Subset
  <2> QED
    BY <2>2, <2>3, FS_CardinalityType DEF Rank
<1>4. \E i \in S : \A j \in S : i <= j
  <2>1. PICK i \in S : Rank(S, i) = 1
    BY <1>1, <1>2
  <2>2. Cardinality(Before(i)) = 0
    BY <1>3, <2>1
  <2>3. Before(i) = {}
    BY <1>3, <2>2, FS_EmptySet
  <2>4. \A j \in S : i <= j
    BY <2>3
  <2> QED
    BY <2>4
<1>5. PICK i \in S : Rank(S, i) = K
  BY <1>1, <1>2
<1>6. Nth(S, K - 1) = i
  BY <1>5, NthIs
<1>7. \A j \in S : j <= i
  <2>1. i \notin Before(i)
    OBVIOUS
  <2>2. Cardinality(Before(i) \cup {i}) = K
    BY <1>3, <1>5, <2>1, FS_AddElement
  <2>3. Before(i) \cup {i} \in SUBSET S
    OBVIOUS
  <2>4. Before(i) \cup {i} = S
    BY <2>2, <2>3, FS_Subset
  <2>5. ASSUME NEW j \in S
        PROVE  j <= i
    <3>1. j \in Before(i) \cup {i}
      BY <2>4
    <3> QED
      BY <3>1
  <2> QED
    BY <2>5
<1> QED
  BY <1>4, <1>6, <1>7

\* There are finitely many positions.
LEMMA ChangingFinite ==
    ASSUME NEW q \in Seq(LogEvents), NEW p
    PROVE  /\ IsFiniteSet(Changing(q, p))
           /\ Changing(q, p) \in SUBSET (1..Len(q))
           /\ Changing(q, p) \in SUBSET Nat
<1>1. Changing(q, p) \in SUBSET (1..Len(q)) /\ Len(q) \in Nat
  BY DEF Changing, Executions
<1>2. 1 \in Int /\ Len(q) \in Int
  BY <1>1
<1>3. IsFiniteSet(1..Len(q))
  BY ONLY <1>2, FS_Interval
<1>4. IsFiniteSet(Changing(q, p))
  BY <1>1, <1>3, FS_Subset
<1> QED
  BY <1>1, <1>4

\* The value after i events is the one the next change of the path starts from, and
\* the last one if there is no next change.
LEMMA ValueBefore ==
    ASSUME NEW q \in Seq(LogEvents), NEW p, NEW v, Traced(q, p, v), NEW i \in Nat
    PROVE  /\ (\A j \in Changing(q, p) : j <= i) => ValueAfter(q, p, i) = v
           /\ \A j \in Changing(q, p) :
                 i < j /\ (\A k \in Changing(q, p) : k <= i \/ j <= k)
                   => q[j].changes[p].before = ValueAfter(q, p, i)
<1> DEFINE S == Changing(q, p)
           T == {j \in S : j <= i}
<1>1. S \in SUBSET Nat /\ IsFiniteSet(S)
  BY ChangingFinite
<1>2. /\ S = {} => v = InitialWorld[p]
      /\ \A l \in S :
            /\ (\A j \in S : j <= l) => q[l].changes[p].after = v
            /\ (\A j \in S : l <= j) => q[l].changes[p].before = InitialWorld[p]
      /\ \A l, j \in S :
            l < j /\ (\A k \in S : k <= l \/ j <= k)
              => q[j].changes[p].before = q[l].changes[p].after
  BY DEF Traced
<1>3. ValueAfter(q, p, i) = IF T = {} THEN InitialWorld[p]
                            ELSE q[CHOOSE j \in T : \A k \in T : k <= j].changes[p].after
  BY DEF ValueAfter
<1> HIDE DEF S
<1>4. CASE T = {}
  <2>1. (\A j \in S : j <= i) => S = {}
    BY <1>4
  <2>2. \A j \in S : (\A k \in S : k <= i \/ j <= k) => \A k \in S : j <= k
    BY <1>4
  <2> QED
    BY <1>2, <1>3, <1>4, <2>1, <2>2 DEF S
<1>5. CASE T # {}
  <2>1. T \in SUBSET Nat /\ IsFiniteSet(T)
    BY <1>1, FS_Subset
  <2>2. \E l \in T : \A k \in T : k <= l
    BY <1>5, <2>1, Extremes
  <2> DEFINE l == CHOOSE j \in T : \A k \in T : k <= j
  <2>3. l \in T /\ \A k \in T : k <= l
    BY <2>2
  <2> HIDE DEF l
  <2>4. l \in S /\ l \in Nat /\ l <= i /\ \A k \in S : k <= i => k <= l
    BY <1>1, <2>3
  <2>5. ValueAfter(q, p, i) = q[l].changes[p].after
    BY <1>3, <1>5 DEF l
  <2>6. (\A j \in S : j <= i) => q[l].changes[p].after = v
    BY <1>2, <2>4
  <2>7. ASSUME NEW j \in S, i < j, \A k \in S : k <= i \/ j <= k
        PROVE  q[j].changes[p].before = q[l].changes[p].after
    <3>1. l < j /\ \A k \in S : k <= l \/ j <= k
      BY <1>1, <2>4, <2>7
    <3> QED
      BY <1>2, <2>4, <2>7, <3>1
  <2> QED
    BY <2>5, <2>6, <2>7 DEF S
<1> QED
  BY <1>4, <1>5

\* From the event a wrong final value is blamed on, the path never has the expected
\* value again, and it had it before.
LEMMA BlamedIsFinal ==
    ASSUME NEW q \in Seq(LogEvents), NEW a, NEW v, Traced(q, a.path, v),
           NEW f \in StateFinding(a, {v}, q)
    PROVE  /\ f.seq \in 0..Len(q)
           /\ \A i \in f.seq .. Len(q) : ValueAfter(q, a.path, i) # a.value
           /\ f.seq # 0 => ValueAfter(q, a.path, f.seq - 1) = a.value
<1> DEFINE p == a.path
           S == Changing(q, p)
           L == Departures(a, q)
<1>1. v # a.value
  <2>1. {v} # {a.value}
    BY DEF StateFinding
  <2> QED
    BY <2>1
<1>2. f = [assertion |-> a, seq |-> IF L = {} THEN 0 ELSE Nth(L, Cardinality(L) - 1)]
  BY <1>1 DEF StateFinding, Failure
<1>3. f.seq = IF L = {} THEN 0 ELSE Nth(L, Cardinality(L) - 1)
  BY <1>2
<1>4. /\ S \in SUBSET (1..Len(q)) /\ S \in SUBSET Nat /\ IsFiniteSet(S)
      /\ Len(q) \in Nat
  BY ChangingFinite
<1>5. L = {i \in S : /\ q[i].changes[p].before = a.value
                     /\ q[i].changes[p].after # a.value}
  BY DEF Departures, Changing
<1>6. \A i \in S : q[i].changes[p].before # q[i].changes[p].after
  BY DEF Traced
<1> HIDE DEF S, L, p
<1>7. /\ L \in SUBSET S /\ L \in SUBSET Nat
      /\ \A i \in S : q[i].changes[p].before = a.value => i \in L
  BY <1>4, <1>5, <1>6
<1>8. IsFiniteSet(L)
  BY <1>4, <1>7, FS_Subset
<1>9. /\ f.seq \in 0..Len(q)
      /\ \A j \in L : j <= f.seq
      /\ f.seq # 0 => f.seq \in L
  <2>1. CASE L = {}
    BY <1>3, <1>4, <2>1
  <2>2. CASE L # {}
    <3>1. f.seq \in L /\ \A j \in L : j <= f.seq
      BY <1>3, <1>7, <1>8, <2>2, Extremes
    <3>2. f.seq \in 1..Len(q)
      BY <1>4, <1>7, <3>1
    <3> QED
      BY <3>1, <3>2
  <2> QED
    BY <2>1, <2>2
<1>10. ASSUME NEW i \in f.seq .. Len(q), ValueAfter(q, p, i) = a.value
       PROVE  FALSE
  <2>1. i \in Nat /\ f.seq <= i
    BY <1>4, <1>9
  <2>2. PICK k \in S : ~(k <= i)
    BY <1>1, <1>10, <2>1, ValueBefore DEF S, p
  <2> DEFINE U == {j \in S : i < j}
  <2>3. k \in U /\ U \in SUBSET S /\ U \in SUBSET Nat
    <3>1. k \in Nat
      BY <1>4, <2>2
    <3>2. i < k
      BY <2>1, <2>2, <3>1
    <3> QED
      BY <1>4, <2>2, <3>2
  <2>4. IsFiniteSet(U)
    BY <1>4, <2>3, FS_Subset
  <2>5. PICK j \in U : \A l \in U : j <= l
    BY <2>3, <2>4, Extremes
  <2>6. j \in S /\ i < j /\ \A l \in S : l <= i \/ j <= l
    BY <1>4, <2>1, <2>5
  <2>7. q[j].changes[p].before = a.value
    BY <1>10, <2>1, <2>6, ValueBefore DEF S, p
  <2>8. j <= f.seq
    BY <1>7, <1>9, <2>6, <2>7
  <2> QED
    BY <1>4, <1>9, <2>1, <2>6, <2>8
<1>11. ASSUME f.seq # 0
       PROVE  ValueAfter(q, p, f.seq - 1) = a.value
  <2>1. /\ f.seq \in S /\ f.seq - 1 \in Nat
        /\ q[f.seq].changes[p].before = a.value
    BY <1>4, <1>5, <1>7, <1>9, <1>11
  <2>2. f.seq - 1 < f.seq /\ \A k \in S : k <= f.seq - 1 \/ f.seq <= k
    <3>1. f.seq \in Nat /\ \A k \in S : k \in Nat
      BY <1>4, <2>1
    <3>2. \A k \in Nat : k <= f.seq - 1 \/ f.seq <= k
      BY <3>1
    <3> QED
      BY <3>1, <3>2
  <2>3. q[f.seq].changes[p].before = ValueAfter(q, p, f.seq - 1)
    BY <2>1, <2>2, ValueBefore DEF S, p
  <2> QED
    BY <2>1, <2>3
<1> QED
  BY <1>9, <1>10, <1>11 DEF p

-----------------------------------------------------------------------------
\* The findings of a report.

\* A finding on the final state is the evaluator's, on the reported events.
FindingsStand ==
    Reported => \A f \in report.findings :
        f.assertion.type = "state" =>
            /\ f.assertion.path \in Paths
            /\ f \in StateFinding(f.assertion, {report.final_state[f.assertion.path]},
                                  report.events)

\* It is so when the report is made.
LEMMA ConcludeFinds ==
    ASSUME TypeOK, NEW status \in {"pass", "error", "timeout"}, Conclude(status)
    PROVE  FindingsStand'
<1> DEFINE last == <<AgentEvent(IF status = "pass" THEN "agent_output" ELSE "agent_error")>>
           log == events \o last
<1>1. PICK k \in 1..Len(Asserted) + 1 : report' = Result(status, log, k)
  BY DEF Conclude
<1> HIDE DEF log
<1>2. /\ report'.events = log /\ report'.final_state = world
      /\ report'.findings = {Blame(v) : v \in DOMAIN violations}
                              \cup UNION {Finding(Asserted[i], log) :
                                            i \in {j \in DOMAIN Asserted : j < k}}
  BY <1>1 DEF Result
<1>3. ASSUME NEW f \in report'.findings, f.assertion.type = "state"
      PROVE  /\ f.assertion.path \in Paths
             /\ f \in StateFinding(f.assertion, {world[f.assertion.path]}, log)
  <2>1. ASSUME NEW v \in DOMAIN violations, f = Blame(v)
        PROVE  FALSE
    <3>1. violations[v].rule \in Rules
      <4>1. violations[v] \in Findings
        BY DEF TypeOK
      <4> QED
        BY <4>1 DEF Findings
    <3>2. f.assertion.type = violations[v].rule
      BY <2>1 DEF Blame
    <3> QED
      BY <1>3, <3>1, <3>2 DEF Rules
  <2>2. PICK i \in DOMAIN Asserted : f \in Finding(Asserted[i], log)
    BY <1>2, <2>1
  <2>3. f.assertion = Asserted[i]
    <3>1. Asserted[i].type \in {"state", "count", "order", "precondition", "fault"}
      BY AssertionsPrepared
    <3>2. \A a, n : \A x \in Failure(a, n) : x.assertion = a
      BY DEF Failure
    <3> QED
      BY <2>2, <3>1, <3>2 DEF Finding, Evaluate, StateFinding, CountFinding, OrderFinding,
                        PreconditionFinding, FaultFinding
  <2>4. f.assertion.path \in Paths
    BY <1>3, <2>3, AssertionsPrepared
  <2>5. f \in StateFinding(f.assertion, {world[f.assertion.path]}, log)
    BY <1>3, <2>2, <2>3 DEF Finding, Evaluate
  <2> QED
    BY <2>4, <2>5
<1> QED
  BY <1>2, <1>3 DEF FindingsStand

\* A report never changes.
LEMMA NextFindings ==
    ASSUME TypeOK, RunInv, FindingsStand, [RunNext]_runVars
    PROVE  FindingsStand'
<1>1. CASE \E status \in {"pass", "error", "timeout"} : Conclude(status)
  BY <1>1, ConcludeFinds
<1>2. CASE PortStep \/ DeadlineExpires \/ DriverCancelled \/ UNCHANGED runVars
  <2>1. UNCHANGED report
    BY <1>2 DEF PortStep, RunnerSees, DeadlineExpires, DriverCancelled, runVars
  <2> QED
    BY <2>1 DEF FindingsStand, Reported
<1> QED
  BY <1>1, <1>2 DEF RunNext, DriverEnds, DriverReturns, DriverRaises,
                    DriverTimesOut, DriverRaisesTimeoutError

\* The log the report holds traces the reported final state.
LEMMA ReportTraced ==
    ASSUME Chained(Recorded, LoggedWorld), ReportStands, Reported, NoHandlerLeft,
           NEW p \in Paths
    PROVE  Traced(report.events, p, report.final_state[p])
<1>1. UpToErrors(report.events, events) /\ report.final_state = world
  BY DEF ReportStands
<1>2. LoggedWorld = world
  BY DEF NoHandlerLeft, LoggedWorld, Unlogged
<1>3. Traced(events, p, world[p])
  BY <1>2, ChainIsTraced
<1>4. /\ Executions(report.events) = Executions(events)
      /\ \A i \in Executions(events) : report.events[i] = events[i]
  BY <1>1, SameExecutions
<1>5. /\ Changing(report.events, p) = Changing(events, p)
      /\ \A i \in Changing(events, p) : report.events[i] = events[i]
  BY <1>4 DEF Changing
<1> QED
  BY <1>1, <1>3, <1>5 DEF Traced

\* The state after the first i reported events, path by path.
LEMMA StateByPath ==
    ASSUME NEW p \in Paths, NEW i
    PROVE  StateAfter(i)[p] = ValueAfter(report.events, p, i)
<1> DEFINE A == {j \in Executions(report.events) :
                    j <= i /\ p \in DOMAIN report.events[j].changes}
           B == {j \in Changing(report.events, p) : j <= i}
<1>1. StateAfter(i)[p] =
         IF A = {} THEN InitialWorld[p]
         ELSE report.events[CHOOSE j \in A : \A k \in A : k <= j].changes[p].after
  BY DEF StateAfter
<1>2. ValueAfter(report.events, p, i) =
         IF B = {} THEN InitialWorld[p]
         ELSE report.events[CHOOSE j \in B : \A k \in B : k <= j].changes[p].after
  BY DEF ValueAfter
<1>3. A = B
  BY DEF Changing
<1> HIDE DEF A, B
<1> QED
  BY <1>1, <1>2, <1>3

\* A wrong final value is blamed on the call that left the expected value for good:
\* for every agent and every schedule, the reported path never has the expected
\* value again from the blamed event on, and it had it just before.
THEOREM BlameIsFinal == RunSpec => []BlameIsFinalDeparture
<1>1. RunSpec => [](TypeOK /\ PortInv)
  BY RunDrivesPort, Invariance, PTL
<1>2. RunSpec => []Chained(Recorded, LoggedWorld)
  BY RunDrivesPort, EffectsChain, PTL
<1>3. RunInit => ReportStands /\ FindingsStand
  BY DEF RunInit, ReportStands, FindingsStand, Reported
<1>4. TypeOK /\ PortInv /\ RunInv /\ ReportStands /\ FindingsStand /\ [RunNext]_runVars
        => (ReportStands /\ FindingsStand)'
  BY NextStands, NextFindings
<1>5. TypeOK /\ PortInv /\ RunInv /\ [RunNext]_runVars => RunInv'
  BY NextRunInv
<1>6. ASSUME Chained(Recorded, LoggedWorld), ReportStands, FindingsStand, RunTypeOK
      PROVE  BlameIsFinalDeparture
  <2> SUFFICES ASSUME Reported, NoHandlerLeft, NEW f \in report.findings,
                      f.assertion.type = "state"
               PROVE  LET Right(i) == StateAfter(i)[f.assertion.path] = f.assertion.value
                      IN  /\ \A i \in f.seq .. Len(report.events) : ~Right(i)
                          /\ f.seq # 0 => Right(f.seq - 1)
    BY DEF BlameIsFinalDeparture
  <2> DEFINE p == f.assertion.path
  <2>1. /\ p \in Paths
        /\ f \in StateFinding(f.assertion, {report.final_state[p]}, report.events)
    BY <1>6 DEF FindingsStand
  <2>2. report.events \in Seq(LogEvents)
    BY <1>6 DEF RunTypeOK
  <2>3. Traced(report.events, p, report.final_state[p])
    BY <1>6, <2>1, ReportTraced
  <2>4. /\ \A i \in f.seq .. Len(report.events) :
              ValueAfter(report.events, p, i) # f.assertion.value
        /\ f.seq # 0 => ValueAfter(report.events, p, f.seq - 1) = f.assertion.value
    BY <2>1, <2>2, <2>3, BlamedIsFinal
  <2> QED
    BY <2>1, <2>4, StateByPath
<1> QED
  BY <1>1, <1>2, <1>3, <1>4, <1>5, <1>6, InitRunInv, RunTypeCorrect, PTL DEF RunSpec
=============================================================================
