--------------------------- MODULE ToolPortProofs ---------------------------
(***************************************************************************)
(* Theorems about the tool port, for every number of concurrent calls,     *)
(* every set of tools, paths and values, every fault plan and every limit: *)
(* first what holds of its calls and of the World, then what its evidence  *)
(* proves.  Its violations are those its events show, what it told the     *)
(* agent of a call is what its log says of the call, and its attempts are  *)
(* numbered one by one.                                                    *)
(***************************************************************************)
EXTENDS ToolPort, FiniteSetTheorems, SequenceTheorems, TLAPS

-----------------------------------------------------------------------------
\* What the constructors of the log build.

\* An event of the plain kinds is a log event.
LEMMA EventType ==
    ASSUME TypeOK, NEW c \in Calls, NEW kind \in EventKinds, NEW n \in Nat
    PROVE  Event(kind, c, n) \in LogEvents
<1>1. request[c].tool \in Tools
  BY DEF TypeOK
<1>2. Event(kind, c, n) \in
        [kind : EventKinds, call : Calls, tool : Tools, number : Nat]
  BY <1>1 DEF Event
<1> QED
  BY <1>2 DEF LogEvents

\* changes() of two worlds is a set of changes.
LEMMA ChangesType ==
    ASSUME NEW b \in Worlds, NEW a \in Worlds
    PROVE  Changes(b, a) \in ChangeSets
<1> DEFINE D == {q \in Paths : b[q] # a[q]}
<1> DEFINE change(p) == [before |-> b[p], after |-> a[p]]
<1>0. \A p \in D : change(p) \in [before : Values, after : Values]
  BY DEF Worlds
<1>1. Changes(b, a) \in [D -> [before : Values, after : Values]]
  BY <1>0 DEF Changes
<1>2. D \in SUBSET Paths
  OBVIOUS
<1> QED
  BY <1>1, <1>2 DEF ChangeSets

\* The evidence of a handler that ended, however it ended, extends the log.
LEMMA EvidenceType ==
    ASSUME TypeOK, NEW c \in Calls,
           NEW status \in {"completed", "error", "cancelled"}
    PROVE  Evidence(c, status) \in Seq(LogEvents)
<1> DEFINE e == ExecutedEvent(c, Changes(before[c], world), status)
<1>1. Changes(before[c], world) \in ChangeSets
  BY ChangesType DEF TypeOK
<1>2. request[c].tool \in Tools /\ number[c] \in Nat
  BY DEF TypeOK
<1>3. e \in [kind : {"tool_executed"}, call : Calls, tool : Tools, number : Nat,
             changes : ChangeSets, status : {"completed", "error", "cancelled"}]
  BY <1>1, <1>2 DEF ExecutedEvent
<1>4. e \in LogEvents
  BY <1>3 DEF LogEvents
<1>5. Event("tool_error", c, number[c]) \in LogEvents
  BY <1>2, EventType DEF EventKinds
<1> QED
  BY <1>4, <1>5 DEF Evidence

\* So do the preconditions observed before it.
LEMMA PrecheckType ==
    ASSUME TypeOK, NEW c \in Calls, NEW n \in Nat
    PROVE  Precheck(c, n) \in Seq(LogEvents)
<1> DEFINE e == PreconditionEvent(c, n, Missed(request[c].tool))
<1>1. request[c].tool \in Tools
  BY DEF TypeOK
<1>2. e \in [kind : {"precondition_failed"}, call : Calls, tool : Tools,
             number : Nat, missed : SUBSET Preconditions]
  BY <1>1 DEF PreconditionEvent, Missed
<1>3. e \in LogEvents
  BY <1>2 DEF LogEvents
<1> QED
  BY <1>3 DEF Precheck

\* A read-only violation extends the violations.
LEMMA ReadOnlyViolationType ==
    ASSUME NEW c \in Calls, NEW seq \in Nat
    PROVE  ReadOnlyViolation(c, seq) \in Seq(Findings)
<1>1. Violation("read_only_changed", seq) \in Findings
  BY DEF Violation, Rules, Findings
<1>2. <<Violation("read_only_changed", seq)>> \in Seq(Findings)
  BY <1>1
<1>3. <<>> \in Seq(Findings)
  OBVIOUS
<1> QED
  BY <1>2, <1>3 DEF ReadOnlyViolation

-----------------------------------------------------------------------------
\* Type correctness.

\* A port that has just been made is well typed.
LEMMA InitTypeOK == Init => TypeOK
<1> SUFFICES ASSUME Init PROVE TypeOK
  OBVIOUS
<1>1. (CHOOSE t \in Tools : TRUE) \in Tools
  BY CasePrepared
<1>2. request \in [Calls -> [tool : Tools,
                             arguments : {"valid", "off_schema", "not_json"}]]
  BY <1>1 DEF Init
<1>3. world \in Worlds /\ before \in [Calls -> Worlds]
  BY CasePrepared DEF Init, Worlds
<1>4. /\ waiters \in Seq(Calls)
      /\ events \in Seq(LogEvents)
      /\ violations \in Seq(Findings)
  BY DEF Init
<1> QED
  BY <1>2, <1>3, <1>4 DEF Init, TypeOK

\* Admission to _call_locked keeps the counters and the queue well typed.
LEMMA AdmitType ==
    ASSUME TypeOK, NEW c \in Calls, Admit(c)
    PROVE  /\ waiters' \in Seq(Calls)
           /\ counts' \in [Tools -> Nat]
           /\ number' \in [Calls -> Nat]
           /\ CallNumber(c) \in Nat
           /\ Attempt(c) \in LogEvents
           /\ UNCHANGED <<request, world, sealed>>
<1>1. request[c].tool \in Tools
  BY DEF TypeOK
<1>2. CallNumber(c) \in Nat
  BY <1>1 DEF TypeOK, CallNumber
<1>3. Attempt(c) \in LogEvents
  BY <1>2, EventType DEF Attempt, EventKinds
<1>4. waiters' \in Seq(Calls)
  BY DEF Admit, Acquire, TypeOK
<1> QED
  BY <1>1, <1>2, <1>3, <1>4 DEF Admit, TypeOK

\* Every step of a call or of the run keeps the port well typed.
LEMMA NextTypeOK == TypeOK /\ [PortNext]_portVars => TypeOK'
<1> SUFFICES ASSUME TypeOK, [PortNext]_portVars PROVE TypeOK'
  OBVIOUS
<1>1. ASSUME NEW c \in Calls, NEW t \in Tools, NEW a \in ArgumentKinds, Issue(c, t, a)
      PROVE  TypeOK'
  <2>1. a \in {"valid", "off_schema", "not_json"}
    BY CasePrepared
  <2>2. waiters' \in Seq(Calls)
    BY <1>1 DEF Issue, TypeOK
  <2>3. request' \in [Calls -> [tool : Tools,
                                arguments : {"valid", "off_schema", "not_json"}]]
    BY <1>1, <2>1 DEF Issue, TypeOK
  <2> QED
    BY <1>1, <2>2, <2>3 DEF Issue, TypeOK
<1>2. ASSUME NEW c \in Calls, CancelWaiting(c)
      PROVE  TypeOK'
  <2>1. waiters' \in Seq(Calls)
    BY <1>2 DEF CancelWaiting, TypeOK
  <2> QED
    BY <1>2, <2>1 DEF CancelWaiting, TypeOK, Outcomes
<1>3. ASSUME NEW c \in Calls, EnterSealed(c)
      PROVE  TypeOK'
  <2>1. waiters' \in Seq(Calls)
    BY <1>3 DEF EnterSealed, Acquire, TypeOK
  <2> QED
    BY <1>3, <2>1 DEF EnterSealed, TypeOK, Outcomes
<1>4. ASSUME NEW c \in Calls, Reject(c)
      PROVE  TypeOK'
  <2>1. Admit(c)
    BY <1>4 DEF Reject
  <2>2. events' \in Seq(LogEvents)
    <3>1. Event("tool_rejected", c, CallNumber(c)) \in LogEvents
      BY <2>1, AdmitType, EventType DEF EventKinds
    <3> QED
      BY <1>4, <2>1, <3>1, AdmitType DEF Reject, TypeOK
  <2>3. violations' \in Seq(Findings)
    <3>1. Refusal(c) \in Rules
      BY <1>4 DEF Reject, Refusal, Rules
    <3>2. Violation(Refusal(c), Len(events) + 2) \in Findings
      BY <3>1 DEF Violation, Findings, TypeOK
    <3> QED
      BY <1>4, <3>2 DEF Reject, TypeOK
  <2>4. pc' \in [Calls -> {"idle", "waiting", "running"} \cup Outcomes]
    BY <1>4 DEF Reject, TypeOK, Outcomes
  <2> QED
    BY <1>4, <2>1, <2>2, <2>3, <2>4, AdmitType DEF Reject, TypeOK
<1>5. ASSUME NEW c \in Calls, BadArguments(c)
      PROVE  TypeOK'
  <2>1. Admit(c)
    BY <1>5 DEF BadArguments
  <2>2. events' \in Seq(LogEvents)
    BY <1>5, <2>1, AdmitType DEF BadArguments, TypeOK
  <2>3. pc' \in [Calls -> {"idle", "waiting", "running"} \cup Outcomes]
    BY <1>5 DEF BadArguments, TypeOK, Outcomes
  <2> QED
    BY <1>5, <2>1, <2>2, <2>3, AdmitType DEF BadArguments, TypeOK
<1>6. ASSUME NEW c \in Calls, TimeoutBefore(c)
      PROVE  TypeOK'
  <2>1. Admit(c) /\ UNCHANGED violations
    BY <1>6 DEF TimeoutBefore, Permitted
  <2>2. events' \in Seq(LogEvents)
    <3>1. Event("tool_fault", c, CallNumber(c)) \in LogEvents
      BY <2>1, AdmitType, EventType DEF EventKinds
    <3> QED
      BY <1>6, <2>1, <3>1, AdmitType DEF TimeoutBefore, TypeOK
  <2>3. pc' \in [Calls -> {"idle", "waiting", "running"} \cup Outcomes]
    BY <1>6 DEF TimeoutBefore, TypeOK, Outcomes
  <2> QED
    BY <1>6, <2>1, <2>2, <2>3, AdmitType DEF TimeoutBefore, TypeOK
<1>7. ASSUME NEW c \in Calls, StaleRead(c)
      PROVE  TypeOK'
  <2>1. Admit(c) /\ UNCHANGED violations
    BY <1>7 DEF StaleRead, Permitted
  <2>2. events' \in Seq(LogEvents)
    <3>1. /\ Event("tool_fault", c, CallNumber(c)) \in LogEvents
          /\ Event("tool_observation", c, CallNumber(c)) \in LogEvents
      BY <2>1, AdmitType, EventType DEF EventKinds
    <3> QED
      BY <1>7, <2>1, <3>1, AdmitType DEF StaleRead, TypeOK
  <2>3. pc' \in [Calls -> {"idle", "waiting", "running"} \cup Outcomes]
    BY <1>7 DEF StaleRead, TypeOK, Outcomes
  <2> QED
    BY <1>7, <2>1, <2>2, <2>3, AdmitType DEF StaleRead, TypeOK
<1>8. ASSUME NEW c \in Calls, Start(c)
      PROVE  TypeOK'
  <2>1. Admit(c) /\ UNCHANGED violations
    BY <1>8 DEF Start, Permitted
  <2>2. events' \in Seq(LogEvents)
    <3>1. Precheck(c, CallNumber(c)) \in Seq(LogEvents)
      BY <2>1, AdmitType, PrecheckType
    <3>2. Append(events, Attempt(c)) \in Seq(LogEvents)
      BY <2>1, AdmitType DEF TypeOK
    <3> QED
      BY <1>8, <3>1, <3>2 DEF Start
  <2>3. before' \in [Calls -> Worlds] /\ touched' \in [Calls -> SUBSET Paths]
    BY <1>8 DEF Start, TypeOK
  <2>4. pc' \in [Calls -> {"idle", "waiting", "running"} \cup Outcomes]
    BY <1>8 DEF Start, TypeOK, Outcomes
  <2> QED
    BY <2>1, <2>2, <2>3, <2>4, AdmitType DEF TypeOK
<1>9. ASSUME NEW c \in Calls, NEW p \in Paths, NEW v \in Values, HandlerWrite(c, p, v)
      PROVE  TypeOK'
  <2>1. world' \in Worlds
    BY <1>9 DEF HandlerWrite, TypeOK, Worlds
  <2>2. touched' \in [Calls -> SUBSET Paths]
    BY <1>9 DEF HandlerWrite, TypeOK
  <2> QED
    BY <1>9, <2>1, <2>2 DEF HandlerWrite, TypeOK
<1>10. ASSUME NEW c \in Calls, EndHandler(c)
       PROVE  TypeOK'
  <2>1. PICK outcome \in Outcomes : Finish(c, outcome)
    BY <1>10 DEF EndHandler, HandlerRaises, BadResult, LoseResponse, Respond,
                 EndAbandoned, Outcomes
  <2>2. events' \in Seq(LogEvents)
    <3>1. number[c] \in Nat
      BY DEF TypeOK
    <3>2. \A kind \in EventKinds : Event(kind, c, number[c]) \in LogEvents
      BY <3>1, EventType
    <3>3. /\ Evidence(c, "completed") \in Seq(LogEvents)
          /\ Evidence(c, "error") \in Seq(LogEvents)
          /\ Evidence(c, "cancelled") \in Seq(LogEvents)
      BY EvidenceType
    <3>4. CASE \E status \in {"error", "cancelled"} : HandlerRaises(c, status)
      BY <3>3, <3>4 DEF HandlerRaises, TypeOK
    <3>5. CASE BadResult(c)
      <4>1. Event("tool_rejected", c, number[c]) \in LogEvents
        BY <3>2 DEF EventKinds
      <4>2. <<Event("tool_rejected", c, number[c])>> \in Seq(LogEvents)
        BY <4>1
      <4>3. events \o Evidence(c, "completed") \in Seq(LogEvents)
        BY <3>3 DEF TypeOK
      <4> QED
        BY <3>5, <4>2, <4>3 DEF BadResult
    <3>6. CASE LoseResponse(c)
      <4>1. Event("tool_fault", c, number[c]) \in LogEvents
        BY <3>2 DEF EventKinds
      <4> QED
        BY <3>3, <3>6, <4>1 DEF LoseResponse, TypeOK
    <3>7. CASE Respond(c)
      <4>1. Event("tool_observation", c, number[c]) \in LogEvents
        BY <3>2 DEF EventKinds
      <4> QED
        BY <3>3, <3>7, <4>1 DEF Respond, TypeOK
    <3>8. CASE EndAbandoned(c)
      <4>1. Event("tool_error", c, number[c]) \in LogEvents
        BY <3>2 DEF EventKinds
      <4>2. events \in Seq(LogEvents)
        BY DEF TypeOK
      <4>3. Append(events, Event("tool_error", c, number[c])) \in Seq(LogEvents)
        BY <4>1, <4>2
      <4>4. events' = events \/ events' = Append(events, Event("tool_error", c, number[c]))
        BY <3>8 DEF EndAbandoned
      <4> QED
        BY <4>2, <4>3, <4>4
    <3> QED
      BY <1>10, <3>4, <3>5, <3>6, <3>7, <3>8 DEF EndHandler
  <2>3. violations' \in Seq(Findings)
    <3>1. /\ ReadOnlyViolation(c, Len(events) + 1) \in Seq(Findings)
          /\ ReadOnlyViolation(c, Len(events) + 2) \in Seq(Findings)
      <4>1. Len(events) + 1 \in Nat /\ Len(events) + 2 \in Nat
        BY DEF TypeOK
      <4> QED
        BY <4>1, ReadOnlyViolationType
    <3>2. Violation("result_schema", Len(events) + 2) \in Findings
      <4>1. Len(events) + 2 \in Nat
        BY DEF TypeOK
      <4> QED
        BY <4>1 DEF Violation, Rules, Findings
    <3>3. violations \in Seq(Findings)
      BY DEF TypeOK
    <3>4. CASE BadResult(c)
      <4>1. violations' = violations \o ReadOnlyViolation(c, Len(events) + 1)
              \o <<Violation("result_schema", Len(events) + 2)>>
        BY <3>4 DEF BadResult
      <4>2. violations \o ReadOnlyViolation(c, Len(events) + 1) \in Seq(Findings)
        BY <3>1, <3>3
      <4>3. <<Violation("result_schema", Len(events) + 2)>>
              \in Seq(Findings)
        BY <3>2
      <4> QED
        BY <4>1, <4>2, <4>3
    <3>5. CASE ~BadResult(c)
      <4>1. \/ violations' = violations
            \/ violations' = violations \o ReadOnlyViolation(c, Len(events) + 1)
            \/ violations' = violations \o ReadOnlyViolation(c, Len(events) + 2)
        BY <1>10, <3>5 DEF EndHandler, HandlerRaises, LoseResponse, Respond,
                           EndAbandoned
      <4>2. /\ violations \o ReadOnlyViolation(c, Len(events) + 1) \in Seq(Findings)
            /\ violations \o ReadOnlyViolation(c, Len(events) + 2) \in Seq(Findings)
        BY <3>1, <3>3
      <4> QED
        BY <3>3, <4>1, <4>2
    <3> QED
      BY <3>4, <3>5
  <2> QED
    BY <2>1, <2>2, <2>3 DEF Finish, TypeOK
<1>11. ASSUME NEW last \in AgentEnds, Seal(last)
       PROVE  TypeOK'
  <2>1. /\ AgentEvent("agent_output") \in LogEvents
        /\ AgentEvent("agent_error") \in LogEvents
    BY DEF AgentEvent, LogEvents
  <2>2. last \in Seq(LogEvents)
    <3>1. <<>> \in Seq(LogEvents)
      OBVIOUS
    <3>2. /\ <<AgentEvent("agent_output")>> \in Seq(LogEvents)
          /\ <<AgentEvent("agent_error")>> \in Seq(LogEvents)
      BY <2>1
    <3> QED
      BY <3>1, <3>2 DEF AgentEnds
  <2>3. events' \in Seq(LogEvents)
    BY <1>11, <2>2 DEF Seal, TypeOK
  <2> QED
    BY <1>11, <2>3 DEF Seal, TypeOK
<1>12. CASE UNCHANGED portVars
  BY <1>12 DEF portVars, TypeOK
<1> QED
  BY <1>1, <1>2, <1>3, <1>4, <1>5, <1>6, <1>7, <1>8, <1>9, <1>10, <1>11, <1>12
     DEF PortNext, CallStep, Enter

\* Every reachable state of the port is well typed.
THEOREM TypeCorrect == PortSpec => []TypeOK
<1> QED
  BY InitTypeOK, NextTypeOK, PTL DEF PortSpec

-----------------------------------------------------------------------------
\* How a step extends the log.

Quiet(s) == \A j \in DOMAIN s : s[j].kind # "tool_executed"

\* The log grows at its end only.
LEMMA LogGrows ==
    ASSUME TypeOK, NEW s \in Seq(LogEvents), events' = events \o s
    PROVE  /\ DOMAIN events \subseteq DOMAIN events'
           /\ \A i \in DOMAIN events : events'[i] = events[i]
           /\ \A j \in DOMAIN s : /\ Len(events) + j \in DOMAIN events'
                                  /\ events'[Len(events) + j] = s[j]
           /\ \A i \in DOMAIN events' \ DOMAIN events :
                 \E j \in DOMAIN s : i = Len(events) + j /\ events'[i] = s[j]
<1>1. events \in Seq(LogEvents)
  BY DEF TypeOK
<1>2. /\ Len(events') = Len(events) + Len(s)
      /\ events' \in Seq(LogEvents)
      /\ \A i \in 1..Len(events') :
            events'[i] = IF i <= Len(events) THEN events[i] ELSE s[i - Len(events)]
  BY <1>1
<1>3. DOMAIN events = 1..Len(events) /\ DOMAIN s = 1..Len(s)
      /\ DOMAIN events' = 1..Len(events') /\ Len(events) \in Nat /\ Len(s) \in Nat
  BY <1>1, <1>2
<1>4. ASSUME NEW j \in DOMAIN s
      PROVE  Len(events) + j \in DOMAIN events' /\ events'[Len(events) + j] = s[j]
  BY <1>2, <1>3
<1>5. ASSUME NEW i \in DOMAIN events' \ DOMAIN events
      PROVE  \E j \in DOMAIN s : i = Len(events) + j /\ events'[i] = s[j]
  <2>1. i - Len(events) \in DOMAIN s /\ i = Len(events) + (i - Len(events))
    BY <1>2, <1>3
  <2> QED
    BY <2>1, <1>4
<1> QED
  BY <1>2, <1>3, <1>4, <1>5

\* Events of other kinds leave the record of executions as it is.
LEMMA QuietLog ==
    ASSUME TypeOK, NEW s \in Seq(LogEvents), Quiet(s), events' = events \o s
    PROVE  /\ At("tool_executed")' = At("tool_executed")
           /\ Recorded' = Recorded
           /\ \A i \in At("tool_executed") : events'[i] = events[i]
<1>1. At("tool_executed")' = At("tool_executed")
  BY LogGrows DEF At, Quiet
<1>2. \A i \in At("tool_executed") : events'[i] = events[i]
  BY LogGrows DEF At
<1> QED
  BY <1>1, <1>2 DEF Recorded

\* An execution adds itself to it, later than everything before it.
LEMMA ExecutionLog ==
    ASSUME TypeOK, NEW s \in Seq(LogEvents), events' = events \o s,
           NEW k \in DOMAIN s, s[k].kind = "tool_executed",
           \A j \in DOMAIN s \ {k} : s[j].kind # "tool_executed"
    PROVE  /\ At("tool_executed")' = At("tool_executed") \cup {Len(events) + k}
           /\ Recorded' = Recorded \cup
                {[at |-> Len(events) + k, call |-> s[k].call, tool |-> s[k].tool,
                  changes |-> s[k].changes]}
           /\ \A i \in At("tool_executed") : events'[i] = events[i]
           /\ events'[Len(events) + k] = s[k]
           /\ Len(events) + k \in Nat
           /\ \A r \in Recorded : r.at < Len(events) + k
<1>1. At("tool_executed")' = At("tool_executed") \cup {Len(events) + k}
  BY LogGrows DEF At
<1>2. \A i \in At("tool_executed") : events'[i] = events[i]
  BY LogGrows DEF At
<1>3. events'[Len(events) + k] = s[k]
  BY LogGrows
<1>4. k \in Nat /\ k > 0 /\ Len(events) \in Nat /\ DOMAIN events = 1..Len(events)
  BY DEF TypeOK
<1>5. \A r \in Recorded : r.at < Len(events) + k
  BY <1>4 DEF Recorded, At
<1> DEFINE old(i) == [at |-> i, call |-> events[i].call, tool |-> events[i].tool,
                      changes |-> events[i].changes]
           now(i) == [at |-> i, call |-> events'[i].call, tool |-> events'[i].tool,
                      changes |-> events'[i].changes]
<1>6. Recorded = {old(i) : i \in At("tool_executed")}
  BY DEF Recorded
<1>7. Recorded' = {now(i) : i \in At("tool_executed")'}
  BY DEF Recorded
<1>8. \A i \in At("tool_executed") : now(i) = old(i)
  BY <1>2
<1>9. now(Len(events) + k) = [at |-> Len(events) + k, call |-> s[k].call,
                              tool |-> s[k].tool, changes |-> s[k].changes]
  BY <1>3
<1> HIDE DEF old, now
<1>10. Recorded' = Recorded \cup {now(Len(events) + k)}
  BY <1>1, <1>6, <1>7, <1>8
<1>11. Len(events) + k \in Nat
  BY <1>4
<1>12. Recorded' = Recorded \cup
         {[at |-> Len(events) + k, call |-> s[k].call, tool |-> s[k].tool,
           changes |-> s[k].changes]}
  BY <1>9, <1>10, Zenon
<1> QED
  BY <1>1, <1>2, <1>3, <1>5, <1>11, <1>12, Zenon

-----------------------------------------------------------------------------
\* The inductive invariant.  Isolation alone is not inductive: that no handler
\* starts beside an abandoned one needs the seal, and that no call is recorded
\* twice needs every recorded call to be over.

OneUnlogged == \A c, d \in Unlogged : c = d
AbandonedBySeal == \A c \in Calls : pc[c] = "abandoned" => sealed
OwnChangesOnly ==
    \A c \in Running, p \in Paths : world[p] # before[c][p] => p \in touched[c]
RecordedAreDone ==
    \A i \in At("tool_executed") :
        events[i].call \in Calls /\ pc[events[i].call] \in Outcomes

PortInv == OneUnlogged /\ AbandonedBySeal /\ OwnChangesOnly /\ RecordedAreDone

\* Before the first call nobody holds the lock and nothing is logged.
LEMMA InitPortInv == Init => PortInv
  BY DEF Init, PortInv, OneUnlogged, AbandonedBySeal, OwnChangesOnly, RecordedAreDone,
         Unlogged, Running, At

\* Appending two events one by one or together is the same.
LEMMA TwoMore ==
    ASSUME NEW S, NEW q \in Seq(S), NEW a \in S, NEW b \in S
    PROVE  q \o <<a>> \o <<b>> = q \o <<a, b>>
<1> DEFINE l == q \o <<a>> \o <<b>>
           r == q \o <<a, b>>
<1>1. l \in Seq(S) /\ r \in Seq(S)
  OBVIOUS
<1>2. Len(l) = Len(q) + 2 /\ Len(r) = Len(q) + 2 /\ Len(q) \in Nat
  OBVIOUS
<1>3. \A i \in 1..Len(q) + 2 : l[i] = r[i]
  OBVIOUS
<1> HIDE DEF l, r
<1>4. \A i \in 1..Len(l) : l[i] = r[i]
  BY <1>2, <1>3
<1>5. l = r
  BY <1>1, <1>2, <1>4, SeqEqual
<1> QED
  BY <1>5 DEF l, r

\* Every step but the logging end of a handler extends the log quietly; such
\* an end adds one execution, of the call it ends.
LEMMA EndHandlerLog ==
    ASSUME TypeOK, NEW c \in Calls, EndHandler(c)
    PROVE  \/ /\ sealed
              /\ \E s \in Seq(LogEvents) : Quiet(s) /\ events' = events \o s
           \/ /\ ~sealed
              /\ \E s \in Seq(LogEvents), k \in Nat :
                    /\ events' = events \o s
                    /\ k \in DOMAIN s
                    /\ s[k].kind = "tool_executed"
                    /\ s[k].call = c
                    /\ s[k].tool = request[c].tool
                    /\ s[k].changes = Changes(before[c], world)
                    /\ \A j \in DOMAIN s \ {k} : s[j].kind # "tool_executed"
<1> DEFINE x == ExecutedEvent(c, Changes(before[c], world), "completed")
           y(status) == ExecutedEvent(c, Changes(before[c], world), status)
           e(kind) == Event(kind, c, number[c])
<1>1. /\ events \in Seq(LogEvents) /\ Evidence(c, "completed") \in Seq(LogEvents)
      /\ number[c] \in Nat
  BY EvidenceType DEF TypeOK
<1>2. \A kind \in EventKinds : e(kind) \in LogEvents /\ e(kind).kind = kind
  BY <1>1, EventType DEF Event
<1>3. \A status : /\ y(status).kind = "tool_executed" /\ y(status).call = c
                  /\ y(status).tool = request[c].tool
                  /\ y(status).changes = Changes(before[c], world)
  BY DEF ExecutedEvent
<1>4. Evidence(c, "completed") = <<x>> /\ x \in LogEvents
  <2>1. Evidence(c, "completed") = <<x>>
    BY DEF Evidence
  <2>2. <<x>> \in Seq(LogEvents)
    BY <1>1, <2>1
  <2>3. <<x>>[1] = x /\ 1 \in DOMAIN <<x>>
    OBVIOUS
  <2> QED
    BY <2>1, <2>2, <2>3
<1>5. CASE \E status \in {"error", "cancelled"} : HandlerRaises(c, status)
  <2>1. PICK status \in {"error", "cancelled"} : HandlerRaises(c, status)
    BY <1>5
  <2> DEFINE s == Evidence(c, status)
  <2>2. s \in Seq(LogEvents)
    BY EvidenceType
  <2>3. s = <<e("tool_error"), y(status)>>
    BY DEF Evidence
  <2>4. e("tool_error").kind = "tool_error"
    BY <1>2 DEF EventKinds
  <2> HIDE DEF s, y, e
  <2>5. DOMAIN s = {1, 2} /\ s[1] = e("tool_error") /\ s[2] = y(status)
    BY <2>3
  <2>6. ~sealed /\ events' = events \o s
    BY <2>1 DEF HandlerRaises, s
  <2>7. \A j \in DOMAIN s \ {2} : s[j].kind # "tool_executed"
    BY <2>4, <2>5
  <2>8. /\ s[2].kind = "tool_executed" /\ s[2].call = c
        /\ s[2].tool = request[c].tool
        /\ s[2].changes = Changes(before[c], world)
    BY <1>3, <2>5
  <2> QED
    BY <2>2, <2>5, <2>6, <2>7, <2>8
<1>6. ASSUME NEW kind \in EventKinds, ~sealed,
             events' = events \o Evidence(c, "completed") \o <<e(kind)>>
      PROVE  \E s \in Seq(LogEvents), k \in Nat :
                /\ events' = events \o s
                /\ k \in DOMAIN s
                /\ s[k].kind = "tool_executed"
                /\ s[k].call = c
                /\ s[k].tool = request[c].tool
                /\ s[k].changes = Changes(before[c], world)
                /\ \A j \in DOMAIN s \ {k} : s[j].kind # "tool_executed"
  <2>1. e(kind) \in LogEvents /\ e(kind).kind # "tool_executed"
    BY <1>2 DEF EventKinds
  <2> HIDE DEF x, e
  <2> DEFINE s == <<x, e(kind)>>
  <2>2. events' = events \o <<x>> \o <<e(kind)>>
    BY <1>4, <1>6
  <2>3. s \in Seq(LogEvents)
    BY <1>4, <2>1
  <2>7. events' = events \o s
    <3>1. x \in LogEvents
      BY <1>4
    <3> QED
      BY <1>1, <2>1, <2>2, <3>1, TwoMore
  <2>4. DOMAIN s = {1, 2} /\ s[1] = x /\ s[2] = e(kind)
    OBVIOUS
  <2>5. /\ x.kind = "tool_executed" /\ x.call = c /\ x.tool = request[c].tool
        /\ x.changes = Changes(before[c], world)
    BY <1>3 DEF x
  <2> HIDE DEF s
  <2>6. \A j \in DOMAIN s \ {1} : s[j].kind # "tool_executed"
    BY <2>1, <2>4
  <2> QED
    BY <2>3, <2>7, <2>4, <2>5, <2>6
<1>7. CASE BadResult(c)
  BY <1>6, <1>7 DEF BadResult, EventKinds
<1>8. CASE LoseResponse(c)
  BY <1>6, <1>8 DEF LoseResponse, EventKinds
<1>9. CASE Respond(c)
  BY <1>6, <1>9 DEF Respond, EventKinds
<1>10. CASE EndAbandoned(c)
  <2>1. CASE events' = events
    <3> DEFINE s == <<>>
    <3>1. s \in Seq(LogEvents) /\ Quiet(s) /\ events' = events \o s
      BY <1>1, <2>1 DEF Quiet
    <3> QED
      BY <1>10, <3>1 DEF EndAbandoned
  <2>2. CASE events' = Append(events, e("tool_error"))
    <3>1. e("tool_error") \in LogEvents /\ e("tool_error").kind = "tool_error"
      BY <1>2 DEF EventKinds
    <3> HIDE DEF e
    <3> DEFINE s == <<e("tool_error")>>
    <3>2. s \in Seq(LogEvents) /\ Quiet(s) /\ events' = events \o s
      BY <1>1, <2>2, <3>1 DEF Quiet
    <3> QED
      BY <1>10, <3>2 DEF EndAbandoned
  <2> QED
    BY <1>10, <2>1, <2>2 DEF EndAbandoned
<1> QED
  BY <1>5, <1>7, <1>8, <1>9, <1>10 DEF EndHandler

\* A call that queues, leaves the queue or is answered without its handler.
LEMMA QuietStep ==
    ASSUME TypeOK, NEW c \in Calls,
           \/ \E t \in Tools, a \in ArgumentKinds : Issue(c, t, a)
           \/ CancelWaiting(c)
           \/ EnterSealed(c) \/ Reject(c) \/ BadArguments(c)
           \/ TimeoutBefore(c) \/ StaleRead(c)
    PROVE  /\ \E s \in Seq(LogEvents) : Quiet(s) /\ events' = events \o s
           /\ pc[c] \in {"idle", "waiting"}
           /\ \E o \in {"waiting", "cancelled", "sealed", "rejected",
                        "bad_arguments", "timeout", "stale"} :
                 pc' = [pc EXCEPT ![c] = o]
           /\ UNCHANGED <<world, before, touched, sealed>>
<1>1. events \in Seq(LogEvents)
  BY DEF TypeOK
<1>2. ASSUME events' = events
      PROVE  \E s \in Seq(LogEvents) : Quiet(s) /\ events' = events \o s
  <2> DEFINE s == <<>>
  <2>1. s \in Seq(LogEvents) /\ Quiet(s) /\ events' = events \o s
    BY <1>1, <1>2 DEF Quiet
  <2> QED
    BY <2>1
<1>3. ASSUME Admit(c)
      PROVE  /\ \A kind \in EventKinds :
                   /\ Event(kind, c, CallNumber(c)) \in LogEvents
                   /\ Event(kind, c, CallNumber(c)).kind = kind
             /\ Attempt(c) = Event("tool_attempt", c, CallNumber(c))
             /\ UNCHANGED <<world, sealed>>
             /\ pc[c] = "waiting"
  BY <1>3, AdmitType, EventType DEF Event, Attempt, Admit, Acquire
<1>4. CASE \E t \in Tools, a \in ArgumentKinds : Issue(c, t, a)
  BY <1>2, <1>4 DEF Issue
<1>5. CASE CancelWaiting(c)
  BY <1>2, <1>5 DEF CancelWaiting
<1>6. CASE EnterSealed(c)
  BY <1>2, <1>6 DEF EnterSealed, Acquire
<1>7. ASSUME Admit(c), NEW kind \in EventKinds,
             events' = events \o <<Attempt(c), Event(kind, c, CallNumber(c))>>
      PROVE  \E s \in Seq(LogEvents) : Quiet(s) /\ events' = events \o s
  <2> DEFINE e == Event(kind, c, CallNumber(c))
             s == <<Attempt(c), e>>
  <2>1. /\ Attempt(c) \in LogEvents /\ Attempt(c).kind = "tool_attempt"
        /\ e \in LogEvents /\ e.kind # "tool_executed"
    BY <1>3, <1>7 DEF EventKinds
  <2> HIDE DEF e
  <2>2. s \in Seq(LogEvents) /\ Quiet(s)
    BY <2>1 DEF Quiet
  <2>3. events' = events \o s
    BY <1>7 DEF e
  <2> QED
    BY <2>2, <2>3
<1>8. CASE Reject(c)
  BY <1>3, <1>7, <1>8 DEF Reject, EventKinds
<1>9. CASE BadArguments(c)
  <2>1. Admit(c) /\ events' = Append(events, Attempt(c))
    BY <1>9 DEF BadArguments
  <2>2. Attempt(c) \in LogEvents /\ Attempt(c).kind = "tool_attempt"
    BY <1>3, <2>1 DEF EventKinds
  <2> DEFINE s == <<Attempt(c)>>
  <2>3. s \in Seq(LogEvents) /\ Quiet(s)
    BY <2>2 DEF Quiet
  <2>4. events' = events \o s
    BY <1>1, <2>1, <2>2, AppendIsConcat
  <2> QED
    BY <1>3, <1>9, <2>1, <2>3, <2>4 DEF BadArguments
<1>10. CASE TimeoutBefore(c)
  BY <1>3, <1>7, <1>10 DEF TimeoutBefore, Permitted, EventKinds
<1>11. CASE StaleRead(c)
  <2>1. Admit(c) /\ UNCHANGED <<before, touched>> /\ pc' = [pc EXCEPT ![c] = "stale"]
    BY <1>11 DEF StaleRead, Permitted
  <2> DEFINE f == Event("tool_fault", c, CallNumber(c))
             o == Event("tool_observation", c, CallNumber(c))
             s == <<Attempt(c), f, o>>
  <2>2. /\ Attempt(c) \in LogEvents /\ Attempt(c).kind = "tool_attempt"
        /\ f \in LogEvents /\ f.kind = "tool_fault"
        /\ o \in LogEvents /\ o.kind = "tool_observation"
    BY <1>3, <2>1 DEF EventKinds
  <2>3. events' = events \o s
    BY <1>11 DEF StaleRead
  <2> HIDE DEF f, o
  <2>4. s \in Seq(LogEvents) /\ Quiet(s)
    BY <2>2 DEF Quiet
  <2> QED
    BY <1>3, <2>1, <2>3, <2>4
<1> QED
  BY <1>4, <1>5, <1>6, <1>8, <1>9, <1>10, <1>11

\* Starting a handler logs no execution.
LEMMA StartLog ==
    ASSUME TypeOK, NEW c \in Calls, Start(c)
    PROVE  /\ \E s \in Seq(LogEvents) : Quiet(s) /\ events' = events \o s
           /\ pc[c] = "waiting" /\ Running = {} /\ ~sealed
           /\ UNCHANGED <<world, sealed>>
<1>1. Admit(c) /\ pc[c] = "waiting" /\ Running = {} /\ ~sealed
      /\ UNCHANGED <<world, sealed>>
  BY DEF Start, Permitted, Admit, Acquire
<1>2. /\ events \in Seq(LogEvents)
      /\ Attempt(c) \in LogEvents /\ Attempt(c).kind = "tool_attempt"
      /\ CallNumber(c) \in Nat
  BY <1>1, AdmitType DEF TypeOK, Attempt, Event
<1> DEFINE n == CallNumber(c)
           e == PreconditionEvent(c, n, Missed(request[c].tool))
<1>3. CASE Precheck(c, n) = <<>>
  <2> DEFINE s == <<Attempt(c)>>
  <2>1. s \in Seq(LogEvents) /\ Quiet(s)
    BY <1>2 DEF Quiet
  <2>2. Append(events, Attempt(c)) = events \o s
    BY <1>2, AppendIsConcat
  <2>3. events \o s \in Seq(LogEvents)
    BY <1>2, <2>1
  <2>4. (events \o s) \o <<>> = events \o s
    BY <2>3, ConcatEmptySeq
  <2>5. events' = events \o s
    BY <1>3, <2>2, <2>4 DEF Start
  <2> QED
    BY <1>1, <2>1, <2>5
<1>4. CASE Precheck(c, n) = <<e>>
  <2>1. e.kind = "precondition_failed"
    BY DEF PreconditionEvent
  <2>2. <<e>> \in Seq(LogEvents)
    BY <1>2, <1>4, PrecheckType
  <2>3. e \in LogEvents
    <3>1. <<e>>[1] = e /\ 1 \in 1..Len(<<e>>)
      OBVIOUS
    <3> QED
      BY <2>2, <3>1, ElementOfSeq
  <2> HIDE DEF e
  <2> DEFINE s == <<Attempt(c), e>>
  <2>4. s \in Seq(LogEvents) /\ Quiet(s)
    BY <1>2, <2>1, <2>3 DEF Quiet
  <2>5. Append(events, Attempt(c)) = events \o <<Attempt(c)>>
    BY <1>2, AppendIsConcat
  <2>6. events' = events \o s
    BY <1>2, <1>4, <2>3, <2>5, TwoMore DEF Start
  <2> QED
    BY <1>1, <2>4, <2>6
<1>5. Precheck(c, n) = <<>> \/ Precheck(c, n) = <<e>>
  BY DEF Precheck
<1> QED
  BY <1>3, <1>4, <1>5

\* The run's end logs at most one event of the agent.
LEMMA SealLog ==
    ASSUME NEW last \in AgentEnds, Seal(last)
    PROVE  \E s \in Seq(LogEvents) : Quiet(s) /\ events' = events \o s
<1>1. /\ AgentEvent("agent_output") \in LogEvents
      /\ AgentEvent("agent_output").kind = "agent_output"
      /\ AgentEvent("agent_error") \in LogEvents
      /\ AgentEvent("agent_error").kind = "agent_error"
  BY DEF AgentEvent, LogEvents
<1>2. <<>> \in Seq(LogEvents) /\ Quiet(<<>>)
  BY DEF Quiet
<1>3. /\ <<AgentEvent("agent_output")>> \in Seq(LogEvents)
      /\ Quiet(<<AgentEvent("agent_output")>>)
  BY <1>1 DEF Quiet
<1>4. /\ <<AgentEvent("agent_error")>> \in Seq(LogEvents)
      /\ Quiet(<<AgentEvent("agent_error")>>)
  BY <1>1 DEF Quiet
<1>5. last \in Seq(LogEvents) /\ Quiet(last)
  BY <1>2, <1>3, <1>4 DEF AgentEnds
<1> QED
  BY <1>5 DEF Seal

\* The record of executions stays about calls that are over when no recorded
\* call goes on.
LEMMA RecordedStaysDone ==
    ASSUME TypeOK, PortInv, NEW c \in Calls, ~Done(c),
           NEW o, pc' = [pc EXCEPT ![c] = o],
           NEW s \in Seq(LogEvents), Quiet(s), events' = events \o s
    PROVE  RecordedAreDone'
<1>1. /\ At("tool_executed")' = At("tool_executed")
      /\ \A i \in At("tool_executed") : events'[i] = events[i]
  BY QuietLog
<1>2. \A d \in Calls : pc[d] \in Outcomes => pc'[d] \in Outcomes
  BY DEF TypeOK, Done
<1> QED
  BY <1>1, <1>2 DEF PortInv, RecordedAreDone

\* Every step of a call or of the run keeps the port's invariant.
LEMMA NextPortInv ==
    ASSUME TypeOK, TypeOK', PortInv, [PortNext]_portVars
    PROVE  PortInv'
<1>1. ASSUME NEW c \in Calls,
             \/ \E t \in Tools, a \in ArgumentKinds : Issue(c, t, a)
             \/ CancelWaiting(c)
             \/ EnterSealed(c) \/ Reject(c) \/ BadArguments(c)
             \/ TimeoutBefore(c) \/ StaleRead(c)
      PROVE  PortInv'
  <2>1. PICK s \in Seq(LogEvents) : Quiet(s) /\ events' = events \o s
    BY <1>1, QuietStep
  <2>2. PICK o \in {"waiting", "cancelled", "sealed", "rejected", "bad_arguments",
                    "timeout", "stale"} : pc' = [pc EXCEPT ![c] = o]
    BY <1>1, QuietStep
  <2>3. pc[c] \in {"idle", "waiting"} /\ UNCHANGED <<world, before, touched, sealed>>
    BY <1>1, QuietStep
  <2>4. ~Done(c)
    BY <2>3 DEF Done, Outcomes
  <2>5. Running' = Running /\ Unlogged' = Unlogged
    BY <2>2, <2>3 DEF Running, Unlogged, TypeOK
  <2>6. RecordedAreDone'
    BY <2>1, <2>2, <2>4, RecordedStaysDone
  <2>7. AbandonedBySeal'
    BY <2>2, <2>3 DEF PortInv, AbandonedBySeal, TypeOK
  <2>8. OneUnlogged' /\ OwnChangesOnly'
    BY <2>3, <2>5 DEF PortInv, OneUnlogged, OwnChangesOnly
  <2> QED
    BY <2>6, <2>7, <2>8 DEF PortInv
<1>2. ASSUME NEW c \in Calls, Start(c)
      PROVE  PortInv'
  <2>1. PICK s \in Seq(LogEvents) : Quiet(s) /\ events' = events \o s
    BY <1>2, StartLog
  <2>2. /\ pc[c] = "waiting" /\ Running = {} /\ ~sealed
        /\ UNCHANGED <<world, sealed>>
        /\ pc' = [pc EXCEPT ![c] = "running"]
        /\ before' = [before EXCEPT ![c] = world]
    BY <1>2, StartLog DEF Start
  <2>3. ~Done(c)
    BY <2>2 DEF Done, Outcomes
  <2>4. Unlogged = {}
    BY <2>2 DEF PortInv, AbandonedBySeal, Running, Unlogged
  <2>5. Running' = {c} /\ Unlogged' = {c}
    BY <2>2, <2>4 DEF Running, Unlogged, TypeOK
  <2>6. before'[c] = world'
    BY <2>2 DEF TypeOK
  <2>7. RecordedAreDone'
    BY <2>1, <2>2, <2>3, RecordedStaysDone
  <2>8. AbandonedBySeal'
    BY <2>2, <2>4 DEF AbandonedBySeal, Unlogged, TypeOK
  <2>9. OneUnlogged' /\ OwnChangesOnly'
    BY <2>5, <2>6 DEF OneUnlogged, OwnChangesOnly
  <2> QED
    BY <2>7, <2>8, <2>9 DEF PortInv
<1>3. ASSUME NEW c \in Calls, NEW p \in Paths, NEW v \in Values, HandlerWrite(c, p, v)
      PROVE  PortInv'
  <2>1. /\ pc[c] = "running"
        /\ world' = [world EXCEPT ![p] = v]
        /\ touched' = [touched EXCEPT ![c] = @ \cup {p}]
        /\ UNCHANGED <<pc, events, before, sealed>>
    BY <1>3 DEF HandlerWrite
  <2>2. Running' = Running /\ Unlogged' = Unlogged
    BY <2>1 DEF Running, Unlogged
  <2>3. \A d \in Running : d = c
    BY <2>1 DEF PortInv, OneUnlogged, Running, Unlogged
  <2>4. OwnChangesOnly'
    BY <2>1, <2>2, <2>3 DEF PortInv, OwnChangesOnly, TypeOK, Worlds
  <2>5. At("tool_executed")' = At("tool_executed")
    BY <2>1 DEF At
  <2>6. OneUnlogged' /\ AbandonedBySeal' /\ RecordedAreDone'
    BY <2>1, <2>2, <2>5
       DEF PortInv, OneUnlogged, AbandonedBySeal, RecordedAreDone
  <2> QED
    BY <2>4, <2>6 DEF PortInv
<1>4. ASSUME NEW c \in Calls, EndHandler(c)
      PROVE  PortInv'
  <2>1. PICK outcome \in Outcomes : /\ Finish(c, outcome)
                                    /\ outcome = "abandoned" => sealed
    BY <1>4 DEF EndHandler, HandlerRaises, BadResult, LoseResponse, Respond,
                 EndAbandoned, Outcomes
  <2>2. /\ pc[c] = "running"
        /\ pc' = [pc EXCEPT ![c] = outcome]
        /\ touched' = [touched EXCEPT ![c] = {}]
        /\ UNCHANGED <<world, before, sealed>>
    BY <2>1 DEF Finish
  <2>3. ~Done(c)
    BY <2>2 DEF Done, Outcomes
  <2>4. Unlogged = {c} /\ Running = {c}
    BY <2>2 DEF PortInv, OneUnlogged, Unlogged, Running
  <2>5. Running' = {} /\ Unlogged' \subseteq {c}
    BY <2>2, <2>4 DEF Running, Unlogged, Outcomes, TypeOK
  <2>6. \A d \in Calls : pc[d] \in Outcomes => pc'[d] \in Outcomes
    BY <2>2 DEF TypeOK
  <2>7. pc'[c] \in Outcomes
    BY <2>2 DEF TypeOK
  <2>8. RecordedAreDone'
    <3>1. CASE \E s \in Seq(LogEvents) : Quiet(s) /\ events' = events \o s
      BY <2>2, <2>3, <3>1, RecordedStaysDone
    <3>2. CASE \E s \in Seq(LogEvents), k \in Nat :
                  /\ events' = events \o s
                  /\ k \in DOMAIN s
                  /\ s[k].kind = "tool_executed"
                  /\ s[k].call = c
                  /\ s[k].tool = request[c].tool
                  /\ s[k].changes = Changes(before[c], world)
                  /\ \A j \in DOMAIN s \ {k} : s[j].kind # "tool_executed"
      <4>1. PICK s \in Seq(LogEvents), k \in Nat :
                  /\ events' = events \o s
                  /\ k \in DOMAIN s
                  /\ s[k].kind = "tool_executed"
                  /\ s[k].call = c
                  /\ s[k].tool = request[c].tool
                  /\ s[k].changes = Changes(before[c], world)
                  /\ \A j \in DOMAIN s \ {k} : s[j].kind # "tool_executed"
        BY <3>2
      <4>2. /\ At("tool_executed")' = At("tool_executed") \cup {Len(events) + k}
            /\ \A i \in At("tool_executed") : events'[i] = events[i]
            /\ events'[Len(events) + k].call = c
        BY <4>1, ExecutionLog
      <4> QED
        BY <2>6, <2>7, <4>2 DEF PortInv, RecordedAreDone
    <3> QED
      BY <1>4, <3>1, <3>2, EndHandlerLog
  <2>9. AbandonedBySeal'
    BY <2>1, <2>2 DEF PortInv, AbandonedBySeal, TypeOK
  <2>10. OneUnlogged' /\ OwnChangesOnly'
    BY <2>5 DEF OneUnlogged, OwnChangesOnly
  <2> QED
    BY <2>8, <2>9, <2>10 DEF PortInv
<1>5. ASSUME NEW last \in AgentEnds, Seal(last)
      PROVE  PortInv'
  <2>1. PICK s \in Seq(LogEvents) : Quiet(s) /\ events' = events \o s
    BY <1>5, SealLog
  <2>2. sealed' = TRUE /\ UNCHANGED <<pc, world, before, touched>>
    BY <1>5 DEF Seal
  <2>3. /\ At("tool_executed")' = At("tool_executed")
        /\ \A i \in At("tool_executed") : events'[i] = events[i]
    BY <2>1, QuietLog
  <2>4. Running' = Running /\ Unlogged' = Unlogged
    BY <2>2 DEF Running, Unlogged
  <2> QED
    BY <2>2, <2>3, <2>4 DEF PortInv, OneUnlogged, AbandonedBySeal,
                            OwnChangesOnly, RecordedAreDone
<1>6. CASE UNCHANGED portVars
  BY <1>6 DEF portVars, PortInv, OneUnlogged, AbandonedBySeal, OwnChangesOnly,
              RecordedAreDone, Unlogged, Running, At
<1> QED
  BY <1>1, <1>2, <1>3, <1>4, <1>5, <1>6 DEF PortNext, CallStep, Enter

\* Both hold in every reachable state.
LEMMA Invariance == PortSpec => [](TypeOK /\ PortInv)
<1>1. Init => TypeOK /\ PortInv
  BY InitTypeOK, InitPortInv
<1>2. TypeOK /\ PortInv /\ [PortNext]_portVars => (TypeOK /\ PortInv)'
  BY NextTypeOK, NextPortInv
<1> QED
  BY <1>1, <1>2, PTL DEF PortSpec

-----------------------------------------------------------------------------
\* What follows from it.

\* No handler's awaits let another call into the world it works on.
THEOREM CallsAreIsolated == PortSpec => []Isolation
<1>1. PortInv => Isolation
  BY DEF PortInv, OneUnlogged, OwnChangesOnly, Isolation, Running, Unlogged
<1> QED
  BY <1>1, Invariance, PTL

\* Nothing is executed, changed or blamed after the run's end.
THEOREM SealIsFinal == PortSpec => NoEffectAfterSeal
<1>1. ASSUME TypeOK, PortInv, [PortNext]_portVars, sealed
      PROVE  /\ UNCHANGED <<world, violations>>
             /\ At("tool_executed")' = At("tool_executed")
  <2>1. ASSUME NEW c \in Calls, CallStep(c)
        PROVE  /\ UNCHANGED <<world, violations>>
               /\ At("tool_executed")' = At("tool_executed")
    <3>1. CASE EndHandler(c)
      <4>1. EndAbandoned(c)
        BY <1>1, <3>1 DEF EndHandler, HandlerRaises, BadResult, LoseResponse, Respond
      <4>2. PICK s \in Seq(LogEvents) : Quiet(s) /\ events' = events \o s
        BY <1>1, <3>1, EndHandlerLog
      <4> QED
        BY <1>1, <4>1, <4>2, QuietLog DEF EndAbandoned, Finish
    <3>2. CASE CancelWaiting(c) \/ EnterSealed(c)
                 \/ \E t \in Tools, a \in ArgumentKinds : Issue(c, t, a)
      BY <3>2 DEF Issue, CancelWaiting, EnterSealed, At
    <3> QED
      BY <1>1, <2>1, <3>1, <3>2
         DEF CallStep, Enter, HandlerWrite, Reject, BadArguments, TimeoutBefore,
             StaleRead, Start, Permitted, Admit
  <2>2. CASE UNCHANGED portVars
    BY <2>2 DEF portVars, At
  <2>3. \A last \in AgentEnds : ~Seal(last)
    BY <1>1 DEF Seal
  <2> QED
    BY <1>1, <2>1, <2>2, <2>3 DEF PortNext
<1>2. TypeOK /\ PortInv /\ [PortNext]_portVars =>
        [sealed => /\ UNCHANGED <<world, violations>>
                   /\ At("tool_executed")' = At("tool_executed")]_portVars
  BY <1>1
<1> QED
  BY <1>2, Invariance, PTL DEF PortSpec, NoEffectAfterSeal

\* Every step of the port is a step of SerialTools or leaves it alone: its
\* calls are atomic, recorded once and in order, whatever the tasks interleave.
THEOREM PortImplementsSerialTools == PortSpec => ImplementsSerialTools
<1>1. Init => Serial!Init
  BY DEF Init, Serial!Init, LoggedWorld, Unlogged, Recorded, At
<1>2. ASSUME TypeOK, TypeOK', PortInv, PortInv', [PortNext]_portVars
      PROVE  [Serial!Next]_(Serial!vars)
  <2>1. ASSUME NEW c \in Calls,
               \/ \E t \in Tools, a \in ArgumentKinds : Issue(c, t, a)
               \/ CancelWaiting(c)
               \/ EnterSealed(c) \/ Reject(c) \/ BadArguments(c)
               \/ TimeoutBefore(c) \/ StaleRead(c)
        PROVE  UNCHANGED Serial!vars
    <3>1. Recorded' = Recorded
      BY <1>2, <2>1, QuietStep, QuietLog
    <3>2. LoggedWorld' = LoggedWorld /\ sealed' = sealed
      <4>1. PICK o \in {"waiting", "cancelled", "sealed", "rejected", "bad_arguments",
                        "timeout", "stale"} : pc' = [pc EXCEPT ![c] = o]
        BY <1>2, <2>1, QuietStep
      <4>2. pc[c] \in {"idle", "waiting"} /\ UNCHANGED <<world, before, sealed>>
        BY <1>2, <2>1, QuietStep
      <4>3. Unlogged' = Unlogged
        BY <1>2, <4>1, <4>2 DEF Unlogged, TypeOK
      <4> QED
        BY <4>2, <4>3 DEF LoggedWorld
    <3> QED
      BY <3>1, <3>2 DEF Serial!vars
  <2>2. ASSUME NEW c \in Calls, Start(c)
        PROVE  UNCHANGED Serial!vars
    <3>1. Recorded' = Recorded /\ sealed' = sealed
      BY <1>2, <2>2, StartLog, QuietLog
    <3>2. Unlogged = {}
      BY <1>2, <2>2, StartLog DEF PortInv, AbandonedBySeal, Running, Unlogged
    <3>3. Unlogged' = {c} /\ before'[c] = world
      BY <1>2, <2>2, <3>2 DEF Start, Unlogged, TypeOK
    <3>4. LoggedWorld' = LoggedWorld
      BY <3>2, <3>3 DEF LoggedWorld
    <3> QED
      BY <3>1, <3>4 DEF Serial!vars
  <2>3. ASSUME NEW c \in Calls, NEW p \in Paths, NEW v \in Values, HandlerWrite(c, p, v)
        PROVE  UNCHANGED Serial!vars
    <3>1. /\ pc[c] = "running"
          /\ UNCHANGED <<pc, events, before, sealed>>
      BY <2>3 DEF HandlerWrite
    <3>2. Unlogged' = Unlogged /\ Unlogged # {}
      BY <3>1 DEF Unlogged
    <3>3. LoggedWorld' = LoggedWorld /\ Recorded' = Recorded
      BY <3>1, <3>2 DEF LoggedWorld, Recorded, At
    <3> QED
      BY <3>1, <3>3 DEF Serial!vars
  <2>4. ASSUME NEW c \in Calls, EndHandler(c)
        PROVE  [Serial!Next]_(Serial!vars)
    <3>1. PICK outcome \in Outcomes : /\ Finish(c, outcome)
                                      /\ outcome = "abandoned" <=> sealed
      BY <2>4 DEF EndHandler, HandlerRaises, BadResult, LoseResponse, Respond,
                  EndAbandoned, Outcomes
    <3>2. /\ pc[c] = "running"
          /\ pc' = [pc EXCEPT ![c] = outcome]
          /\ UNCHANGED <<request, world, before, sealed>>
      BY <3>1 DEF Finish
    <3>3. Unlogged = {c}
      BY <1>2, <3>2 DEF PortInv, OneUnlogged, Unlogged
    <3>4. LoggedWorld = before[c]
      BY <3>3 DEF LoggedWorld
    <3>5. CASE sealed
      <4>1. Recorded' = Recorded
        BY <1>2, <2>4, <3>5, EndHandlerLog, QuietLog
      <4>2. Unlogged' = {c}
        BY <1>2, <3>1, <3>2, <3>3, <3>5 DEF Unlogged, TypeOK
      <4>3. LoggedWorld' = LoggedWorld
        BY <3>2, <3>4, <4>2 DEF LoggedWorld
      <4> QED
        BY <3>2, <4>1, <4>3 DEF Serial!vars
    <3>6. CASE ~sealed
      <4>1. PICK s \in Seq(LogEvents), k \in Nat :
                /\ events' = events \o s
                /\ k \in DOMAIN s
                /\ s[k].kind = "tool_executed"
                /\ s[k].call = c
                /\ s[k].tool = request[c].tool
                /\ s[k].changes = Changes(before[c], world)
                /\ \A j \in DOMAIN s \ {k} : s[j].kind # "tool_executed"
        BY <1>2, <2>4, <3>6, EndHandlerLog
      <4> DEFINE e == [at |-> Len(events) + k, call |-> s[k].call, tool |-> s[k].tool,
                       changes |-> s[k].changes]
      <4>2. /\ Recorded' = Recorded \cup {e}
            /\ Len(events) + k \in Nat
            /\ \A r \in Recorded : r.at < Len(events) + k
        BY <1>2, <4>1, ExecutionLog
      <4>3. Unlogged' = {}
        BY <1>2, <3>1, <3>2, <3>3, <3>6 DEF Unlogged, Outcomes, TypeOK
      <4>4. LoggedWorld' = world
        BY <3>2, <4>3 DEF LoggedWorld
      <4>5. /\ e.at = Len(events) + k /\ e.call = c /\ e.tool = request[c].tool
            /\ e.changes = Changes(before[c], world)
        BY <4>1
      <4>6. \A r \in Recorded : r.call # c
        <5>1. pc[c] \notin Outcomes
          BY <3>2 DEF Outcomes
        <5> QED
          BY <1>2, <5>1 DEF PortInv, RecordedAreDone, Recorded
      <4>7. Changes(before[c], world) = Serial!Differences(LoggedWorld, LoggedWorld')
        BY <3>4, <4>4 DEF Changes, Serial!Differences
      <4>8. LoggedWorld' \in [Paths -> Values] /\ request[c].tool \in Tools
        BY <1>2, <4>4 DEF TypeOK, Worlds
      <4> HIDE DEF e
      <4>9. e \in Recorded' \ Recorded
        BY <4>2, <4>5, <4>6
      <4>10. Serial!Execute(e)
        BY <3>2, <3>6, <4>2, <4>5, <4>6, <4>7, <4>8 DEF Serial!Execute
      <4> QED
        BY <4>9, <4>10 DEF Serial!Next
    <3> QED
      BY <3>5, <3>6
  <2>5. ASSUME NEW last \in AgentEnds, Seal(last)
        PROVE  Serial!Close
    <3>1. Recorded' = Recorded
      BY <1>2, <2>5, SealLog, QuietLog
    <3>2. ~sealed /\ sealed' = TRUE /\ UNCHANGED <<pc, world, before>>
      BY <2>5 DEF Seal
    <3>3. LoggedWorld' = LoggedWorld
      BY <3>2 DEF LoggedWorld, Unlogged
    <3> QED
      BY <3>1, <3>2, <3>3 DEF Serial!Close
  <2>6. CASE UNCHANGED portVars
    BY <2>6 DEF portVars, Serial!vars, LoggedWorld, Unlogged, Recorded, At
  <2> QED
    BY <1>2, <2>1, <2>2, <2>3, <2>4, <2>5, <2>6
       DEF PortNext, CallStep, Enter, Serial!Next
<1>3. TypeOK /\ PortInv /\ (TypeOK /\ PortInv)' /\ [PortNext]_portVars
        => [Serial!Next]_(Serial!vars)
  BY <1>2
<1> QED
  BY <1>1, <1>3, Invariance, PTL DEF PortSpec, ImplementsSerialTools, Serial!Spec

-----------------------------------------------------------------------------
\* A log read as sets of positions.

\* The positions of the log q at which one of the events E is.
Where(q, E) == {i \in DOMAIN q : q[i] \in E}

\* The events of one kind, and those of one call among them.
Kind(kind) == {e \in LogEvents : e.kind = kind}
Own(kind, c) == {e \in Kind(kind) : e.call = c}

\* The executions in which a read-only tool changed something.
ReadOnlyChanges ==
    {e \in Kind("tool_executed") : e.tool \in ReadOnly /\ DOMAIN e.changes # {}}

\* The events the violations vs with one of the rules R point at.
Marks(vs, R) == {vs[v].seq : v \in {w \in DOMAIN vs : vs[w].rule \in R}}

\* The rules of a refusal, and those of one made before the handler.
Refusals == Rules \ {"read_only_changed"}
Early == Rules \ {"result_schema"}

\* The violation an event calls for.
FindingsFor(e) ==
    IF e.kind = "tool_rejected" THEN Refusals
    ELSE IF e \in ReadOnlyChanges THEN {"read_only_changed"}
    ELSE {"none"}

\* The log q and the violations vs become r and ws: by one event, and by the
\* violation it calls for.
Adds(e, rule, q, vs, r, ws) ==
    /\ e \in LogEvents
    /\ rule \in FindingsFor(e)
    /\ r = Append(q, e)
    /\ ws = IF rule = "none" THEN vs ELSE Append(vs, Violation(rule, Len(r)))

\* An appended event adds its own position, and no other, to those of its kind.
LEMMA WhereAppend ==
    ASSUME NEW S, NEW q \in Seq(S), NEW e \in S
    PROVE  /\ Append(q, e) \in Seq(S) /\ Len(Append(q, e)) = Len(q) + 1
           /\ DOMAIN q = 1..Len(q) /\ DOMAIN Append(q, e) = 1..Len(Append(q, e))
           /\ \A i \in DOMAIN q : i \in DOMAIN Append(q, e) /\ Append(q, e)[i] = q[i]
           /\ Len(q) + 1 \notin DOMAIN q
           /\ Append(q, e)[Len(q) + 1] = e
           /\ \A E : Where(Append(q, e), E) =
                    Where(q, E) \cup (IF e \in E THEN {Len(q) + 1} ELSE {})
<1> DEFINE r == Append(q, e)
<1>1. /\ r \in Seq(S) /\ Len(r) = Len(q) + 1
      /\ \A i \in 1..Len(q) : r[i] = q[i]
      /\ r[Len(q) + 1] = e
  BY AppendProperties
<1> HIDE DEF r
<1>2. /\ DOMAIN q = 1..Len(q) /\ DOMAIN r = 1..Len(r)
      /\ Len(q) \in Nat /\ Len(r) \in Nat
  BY <1>1
<1>3. DOMAIN r = DOMAIN q \cup {Len(r)} /\ Len(r) \notin DOMAIN q
  BY <1>1, <1>2
<1>4. \A E : Where(r, E) = Where(q, E) \cup (IF e \in E THEN {Len(r)} ELSE {})
  <2>1. TAKE E
  <2>2. Where(r, E) = {i \in DOMAIN q \cup {Len(r)} : r[i] \in E}
    BY <1>3 DEF Where
  <2>3. (\A i \in DOMAIN q : r[i] = q[i]) /\ r[Len(r)] = e
    BY <1>1, <1>2
  <2> QED
    BY <2>2, <2>3, <1>3 DEF Where
<1> QED
  BY <1>1, <1>2, <1>3, <1>4 DEF r

\* The positions of some events of a log are finitely many.
LEMMA WhereIsFinite ==
    ASSUME NEW S, NEW q \in Seq(S), NEW E
    PROVE  IsFiniteSet(Where(q, E)) /\ Cardinality(Where(q, E)) \in Nat
<1>1. DOMAIN q = 1..Len(q) /\ Len(q) \in Nat
  OBVIOUS
<1>2. IsFiniteSet(1..Len(q))
  <2>1. 1 \in Int /\ Len(q) \in Int
    BY <1>1
  <2> QED
    BY ONLY <2>1, FS_Interval
<1>3. Where(q, E) \in SUBSET (1..Len(q))
  BY <1>1 DEF Where
<1>4. IsFiniteSet(Where(q, E))
  BY <1>2, <1>3, FS_Subset
<1> QED
  BY <1>4, FS_CardinalityType

\* An appended event counts as one more of its kind.
LEMMA CountAppend ==
    ASSUME NEW S, NEW q \in Seq(S), NEW e \in S, NEW E
    PROVE  Cardinality(Where(Append(q, e), E)) =
              Cardinality(Where(q, E)) + (IF e \in E THEN 1 ELSE 0)
<1> DEFINE r == Append(q, e)
<1>1. /\ Where(r, E) = Where(q, E) \cup (IF e \in E THEN {Len(r)} ELSE {})
      /\ Len(r) \notin DOMAIN q
  BY WhereAppend
<1> HIDE DEF r
<1>2. IsFiniteSet(Where(q, E)) /\ Cardinality(Where(q, E)) \in Nat
  BY WhereIsFinite
<1>3. Len(r) \notin Where(q, E)
  BY <1>1 DEF Where
<1>4. CASE e \in E
  <2>1. Where(r, E) = Where(q, E) \cup {Len(r)}
    BY <1>1, <1>4
  <2>2. Cardinality(Where(q, E) \cup {Len(r)}) = Cardinality(Where(q, E)) + 1
    BY <1>2, <1>3, FS_AddElement
  <2> QED
    BY <1>4, <2>1, <2>2 DEF r
<1>5. CASE e \notin E
  <2>1. Where(r, E) = Where(q, E)
    BY <1>1, <1>5
  <2> QED
    BY <1>2, <1>5, <2>1 DEF r
<1> QED
  BY <1>4, <1>5

\* What an event with its violation does to the log and the violations.
LEMMA AddsOne ==
    ASSUME NEW q \in Seq(LogEvents), NEW vs \in Seq(Findings), NEW e, NEW rule,
           NEW r, NEW ws, Adds(e, rule, q, vs, r, ws)
    PROVE  /\ r \in Seq(LogEvents) /\ ws \in Seq(Findings)
           /\ \A E : Where(r, E) = Where(q, E) \cup (IF e \in E THEN {Len(r)} ELSE {})
           /\ \A E : Where(q, E) \subseteq DOMAIN q
           /\ \A i \in DOMAIN q : i \in DOMAIN r /\ r[i] = q[i]
           /\ Len(r) \notin DOMAIN q /\ r[Len(r)] = e
           /\ \A R \in SUBSET Rules :
                 Marks(ws, R) = Marks(vs, R) \cup (IF rule \in R THEN {Len(r)} ELSE {})
           /\ Len(ws) = Len(vs) + (IF rule = "none" THEN 0 ELSE 1)
<1>1. e \in LogEvents /\ r = Append(q, e) /\ rule \in Rules \cup {"none"}
  BY DEF Adds, FindingsFor, Refusals, Rules
<1>2. /\ r \in Seq(LogEvents) /\ Len(r) \in Nat
      /\ \A E : Where(r, E) = Where(q, E) \cup (IF e \in E THEN {Len(r)} ELSE {})
      /\ \A i \in DOMAIN q : i \in DOMAIN r /\ r[i] = q[i]
      /\ Len(r) \notin DOMAIN q /\ r[Len(r)] = e
  BY <1>1, WhereAppend
<1>3. "none" \notin Rules
  BY DEF Rules
<1>4. CASE rule = "none"
  <2>1. ws = vs
    BY <1>4 DEF Adds
  <2> QED
    BY <1>2, <1>3, <1>4, <2>1 DEF Where
<1>5. CASE rule # "none"
  <2> DEFINE w == Violation(rule, Len(r))
  <2>1. w \in Findings /\ w.rule = rule /\ w.seq = Len(r)
    BY <1>1, <1>2, <1>5 DEF Violation, Findings
  <2>2. ws = Append(vs, w)
    BY <1>5 DEF Adds
  <2> HIDE DEF w
  <2>3. /\ ws \in Seq(Findings) /\ Len(ws) = Len(vs) + 1
        /\ \A v \in 1..Len(vs) : ws[v] = vs[v]
        /\ ws[Len(vs) + 1] = w
    BY <2>1, <2>2, AppendProperties
  <2>4. DOMAIN vs = 1..Len(vs) /\ DOMAIN ws = DOMAIN vs \cup {Len(vs) + 1}
    BY <2>3
  <2>5. ASSUME NEW R \in SUBSET Rules
        PROVE  Marks(ws, R) = Marks(vs, R) \cup (IF rule \in R THEN {Len(r)} ELSE {})
    <3>1. {v \in DOMAIN ws : ws[v].rule \in R} =
             {v \in DOMAIN vs : vs[v].rule \in R}
                \cup (IF rule \in R THEN {Len(vs) + 1} ELSE {})
      BY <2>1, <2>3, <2>4
    <3>2. \A v \in DOMAIN vs : ws[v].seq = vs[v].seq
      BY <2>3, <2>4
    <3>3. ws[Len(vs) + 1].seq = Len(r)
      BY <2>1, <2>3
    <3> QED
      BY <3>1, <3>2, <3>3 DEF Marks
  <2> QED
    BY <1>2, <1>5, <2>3, <2>5 DEF Where
<1> QED
  BY <1>4, <1>5

-----------------------------------------------------------------------------
\* What each step of a call adds.

\* Events appended together are appended one by one.
LEMMA AppendMore ==
    ASSUME NEW S, NEW q \in Seq(S), NEW a \in S, NEW b \in S, NEW d \in S
    PROVE  /\ q \o <<a, b>> = Append(Append(q, a), b)
           /\ q \o <<a, b, d>> = Append(Append(Append(q, a), b), d)
<1>1. /\ Append(q, a) = q \o <<a>> /\ q \o <<a>> \in Seq(S)
  BY AppendIsConcat
<1>2. Append(q \o <<a>>, b) = q \o <<a>> \o <<b>> /\ q \o <<a>> \o <<b>> \in Seq(S)
  BY <1>1, AppendIsConcat
<1>3. q \o <<a>> \o <<b>> = q \o <<a, b>>
  BY TwoMore
<1>4. Append(q \o <<a, b>>, d) = q \o <<a, b>> \o <<d>>
  BY <1>2, <1>3, AppendIsConcat
<1>5. q \o <<a, b>> \o <<d>> = q \o <<a, b, d>>
  <2> DEFINE l == q \o <<a, b>> \o <<d>>
             r == q \o <<a, b, d>>
  <2>1. l \in Seq(S) /\ r \in Seq(S)
    OBVIOUS
  <2>2. Len(l) = Len(q) + 3 /\ Len(r) = Len(q) + 3 /\ Len(q) \in Nat
    OBVIOUS
  <2>3. \A i \in 1..Len(q) + 3 : l[i] = r[i]
    OBVIOUS
  <2> HIDE DEF l, r
  <2>4. \A i \in 1..Len(l) : l[i] = r[i]
    BY <2>2, <2>3
  <2>5. l = r
    BY <2>1, <2>2, <2>4, SeqEqual
  <2> QED
    BY <2>5 DEF l, r
<1> QED
  BY <1>1, <1>2, <1>3, <1>4, <1>5

\* An event of the call c, with the tool and the number of its attempt.
Mine(kind, c, e) ==
    e \in Own(kind, c) /\ e.tool = request[c].tool /\ e.number = number'[c]

\* An event that is no refusal and no execution calls for no violation.
LEMMA PlainAdds ==
    ASSUME NEW e \in LogEvents, e.kind \notin {"tool_rejected", "tool_executed"},
           NEW q, NEW vs
    PROVE  Adds(e, "none", q, vs, Append(q, e), vs)
  BY DEF Adds, FindingsFor, ReadOnlyChanges, Kind

\* The events of an admitted call are its own, and its attempt is logged first.
LEMMA AdmitAdds ==
    ASSUME TypeOK, NEW c \in Calls, Admit(c)
    PROVE  /\ number'[c] = CallNumber(c) /\ CallNumber(c) \in Nat
           /\ \A kind \in EventKinds : Mine(kind, c, Event(kind, c, CallNumber(c)))
           /\ Mine("tool_attempt", c, Attempt(c))
           /\ Adds(Attempt(c), "none", events, violations,
                   Append(events, Attempt(c)), violations)
<1>1. number'[c] = CallNumber(c) /\ CallNumber(c) \in Nat
  BY AdmitType DEF Admit, TypeOK
<1>2. \A kind \in EventKinds : Event(kind, c, CallNumber(c)) \in LogEvents
  BY <1>1, EventType
<1>3. \A kind \in EventKinds : Mine(kind, c, Event(kind, c, CallNumber(c)))
  BY <1>1, <1>2 DEF Mine, Own, Kind, Event
<1>4. Mine("tool_attempt", c, Attempt(c))
  BY <1>3 DEF Attempt, EventKinds
<1>5. Attempt(c) \in LogEvents /\ Attempt(c).kind = "tool_attempt"
  BY <1>4 DEF Mine, Own, Kind
<1>6. Adds(Attempt(c), "none", events, violations, Append(events, Attempt(c)), violations)
  BY <1>5, PlainAdds
<1> QED
  BY <1>1, <1>3, <1>4, <1>6

\* What an admitted call logs after its attempt, by the way it goes on.
AfterAttempt(c, q) ==
    \/ /\ pc'[c] = "rejected"
       /\ \E e : /\ Mine("tool_rejected", c, e)
                 /\ Refusal(c) \in Early
                 /\ Adds(e, Refusal(c), q, violations, events', violations')
    \/ /\ pc'[c] = "bad_arguments"
       /\ events' = q /\ violations' = violations
    \/ /\ pc'[c] = "timeout"
       /\ Planned(c, number'[c], "timeout_before")
       /\ \E e : /\ Mine("tool_fault", c, e)
                 /\ Adds(e, "none", q, violations, events', violations')
    \/ /\ pc'[c] = "stale"
       /\ Planned(c, number'[c], "stale_read")
       /\ \E e, r, o :
             /\ Mine("tool_fault", c, e)
             /\ Adds(e, "none", q, violations, r, violations)
             /\ Mine("tool_observation", c, o)
             /\ Adds(o, "none", r, violations, events', violations')
    \/ /\ pc'[c] = "running" /\ before'[c] = world
       /\ \/ /\ Missed(request[c].tool) = {}
             /\ events' = q /\ violations' = violations
          \/ \E e : /\ Mine("precondition_failed", c, e)
                    /\ e.missed = Missed(request[c].tool)
                    /\ Adds(e, "none", q, violations, events', violations')

\* A call that leaves the queue of an open port logs its attempt, and then that.
LEMMA EnterLogs ==
    ASSUME TypeOK, NEW c \in Calls, Enter(c), ~EnterSealed(c)
    PROVE  /\ Admit(c)
           /\ pc[c] = "waiting" /\ pc' = [pc EXCEPT ![c] = pc'[c]]
           /\ \E a, q : /\ Mine("tool_attempt", c, a)
                        /\ Adds(a, "none", events, violations, q, violations)
                        /\ AfterAttempt(c, q)
<1> DEFINE n == CallNumber(c)
           a == Attempt(c)
           e(kind) == Event(kind, c, n)
           q == Append(events, a)
<1>1. Admit(c) /\ pc[c] = "waiting"
  BY DEF Enter, Reject, BadArguments, TimeoutBefore, StaleRead, Start, Permitted,
         Admit, Acquire
<1>2. /\ number'[c] = n /\ n \in Nat
      /\ \A kind \in EventKinds : Mine(kind, c, e(kind))
      /\ Mine("tool_attempt", c, a)
      /\ Adds(a, "none", events, violations, q, violations)
  BY <1>1, AdmitAdds
<1>3. \A kind \in EventKinds : e(kind) \in LogEvents /\ e(kind).kind = kind
  BY <1>2 DEF Mine, Own, Kind
<1>4. /\ events \in Seq(LogEvents) /\ a \in LogEvents /\ q \in Seq(LogEvents)
      /\ DOMAIN pc = Calls /\ Len(q) = Len(events) + 1
  BY <1>2, AppendProperties DEF Adds, TypeOK
<1>5. CASE Reject(c)
  <2> DEFINE x == e("tool_rejected")
  <2>1. Mine("tool_rejected", c, x) /\ x \in LogEvents /\ x.kind = "tool_rejected"
    BY <1>2, <1>3 DEF EventKinds
  <2>2. /\ events' = events \o <<a, x>> /\ pc' = [pc EXCEPT ![c] = "rejected"]
        /\ violations' = Append(violations, Violation(Refusal(c), Len(events) + 2))
        /\ Refusal(c) # "none"
    BY <1>5 DEF Reject
  <2>3. Refusal(c) \in Early /\ Refusal(c) \in Refusals
    BY <2>2 DEF Refusal, Early, Refusals, Rules
  <2> HIDE DEF a, q, x, n
  <2>4. events' = Append(Append(events, a), x)
    BY <1>4, <2>1, <2>2, AppendMore
  <2>5. events' = Append(q, x)
    BY <2>4 DEF q
  <2>6. Len(events') = Len(events) + 2
    BY <1>4, <2>1, <2>5, AppendProperties DEF TypeOK
  <2>7. Adds(x, Refusal(c), q, violations, events', violations')
    BY <2>1, <2>2, <2>3, <2>5, <2>6 DEF Adds, FindingsFor
  <2>8. AfterAttempt(c, q)
    BY <1>4, <2>1, <2>2, <2>3, <2>7 DEF AfterAttempt
  <2> QED
    BY <1>1, <1>2, <1>4, <2>2, <2>8
<1>6. CASE BadArguments(c)
  <2>1. AfterAttempt(c, q)
    BY <1>4, <1>6 DEF BadArguments, AfterAttempt
  <2> QED
    BY <1>1, <1>2, <1>4, <1>6, <2>1 DEF BadArguments
<1>7. CASE TimeoutBefore(c)
  <2> DEFINE x == e("tool_fault")
  <2>1. Mine("tool_fault", c, x) /\ x \in LogEvents /\ x.kind = "tool_fault"
    BY <1>2, <1>3 DEF EventKinds
  <2>2. /\ events' = events \o <<a, x>> /\ pc' = [pc EXCEPT ![c] = "timeout"]
        /\ violations' = violations /\ Planned(c, n, "timeout_before")
    BY <1>7 DEF TimeoutBefore, Permitted
  <2> HIDE DEF a, q, x, n
  <2>3. events' = Append(Append(events, a), x)
    BY <1>4, <2>1, <2>2, AppendMore
  <2>4. Adds(x, "none", q, violations, events', violations')
    BY <2>1, <2>2, <2>3, PlainAdds DEF q
  <2>5. AfterAttempt(c, q)
    BY <1>2, <1>4, <2>1, <2>2, <2>4 DEF AfterAttempt
  <2> QED
    BY <1>1, <1>2, <1>4, <2>2, <2>5
<1>8. CASE StaleRead(c)
  <2> DEFINE x == e("tool_fault")
             o == e("tool_observation")
             r == Append(q, x)
  <2>1. /\ Mine("tool_fault", c, x) /\ x \in LogEvents /\ x.kind = "tool_fault"
        /\ Mine("tool_observation", c, o) /\ o \in LogEvents
        /\ o.kind = "tool_observation"
    BY <1>2, <1>3 DEF EventKinds
  <2>2. /\ events' = events \o <<a, x, o>> /\ pc' = [pc EXCEPT ![c] = "stale"]
        /\ violations' = violations /\ Planned(c, n, "stale_read")
    BY <1>8 DEF StaleRead, Permitted
  <2> HIDE DEF a, q, x, o, n
  <2>3. events' = Append(Append(Append(events, a), x), o)
    BY <1>4, <2>1, <2>2, AppendMore
  <2>4. Adds(x, "none", q, violations, r, violations)
    BY <2>1, PlainAdds
  <2>5. events' = Append(r, o)
    BY <2>3 DEF q
  <2>6. Adds(o, "none", r, violations, events', violations')
    BY <2>1, <2>2, <2>5, PlainAdds
  <2> HIDE DEF r
  <2>7. AfterAttempt(c, q)
    BY <1>2, <1>4, <2>1, <2>2, <2>4, <2>6 DEF AfterAttempt
  <2> QED
    BY <1>1, <1>2, <1>4, <2>2, <2>7
<1>9. CASE Start(c)
  <2> DEFINE x == PreconditionEvent(c, n, Missed(request[c].tool))
  <2>1. /\ events' = q \o Precheck(c, n) /\ pc' = [pc EXCEPT ![c] = "running"]
        /\ violations' = violations /\ before'[c] = world
    BY <1>9 DEF Start, Permitted, TypeOK
  <2>2. x.kind = "precondition_failed" /\ x.call = c /\ x.tool = request[c].tool
        /\ x.number = n /\ x.missed = Missed(request[c].tool)
    BY DEF PreconditionEvent
  <2>3. Precheck(c, n) \in Seq(LogEvents)
    BY <1>2, PrecheckType
  <2>4. CASE Precheck(c, n) = <<>>
    <3>1. events' = q
      BY <1>4, <2>1, <2>4
    <3>2. Missed(request[c].tool) = {}
      BY <2>4 DEF Precheck
    <3>3. AfterAttempt(c, q)
      BY <1>4, <2>1, <3>1, <3>2 DEF AfterAttempt
    <3> QED
      BY <1>1, <1>2, <1>4, <2>1, <3>3
  <2>5. CASE Precheck(c, n) = <<x>>
    <3> HIDE DEF a, q, x, n
    <3>1. x \in LogEvents
      <4>1. <<x>>[1] = x /\ 1 \in DOMAIN <<x>>
        OBVIOUS
      <4> QED
        BY <2>3, <2>5, <4>1
    <3>2. events' = Append(q, x)
      BY <1>4, <2>1, <2>5, <3>1, AppendIsConcat
    <3>3. Mine("precondition_failed", c, x)
      BY <1>2, <2>2, <3>1 DEF Mine, Own, Kind
    <3>4. Adds(x, "none", q, violations, events', violations')
      BY <2>1, <2>2, <3>1, <3>2, PlainAdds
    <3>5. AfterAttempt(c, q)
      BY <1>4, <2>1, <2>2, <3>3, <3>4 DEF AfterAttempt
    <3> QED
      BY <1>1, <1>2, <1>4, <2>1, <3>5
  <2> QED
    BY <2>4, <2>5 DEF Precheck
<1> QED
  BY <1>5, <1>6, <1>7, <1>8, <1>9 DEF Enter

\* The record of an execution calls for a violation exactly when a read-only tool
\* changed the world, and the port adds that one.
LEMMA ExecutionAdds ==
    ASSUME TypeOK, NEW c \in Calls, NEW status \in {"completed", "error", "cancelled"},
           pc[c] = "running", UNCHANGED <<number, request>>,
           NEW q \in Seq(LogEvents), NEW vs \in Seq(Findings), NEW x,
           x = ExecutedEvent(c, Changes(before[c], world), status)
    PROVE  /\ Mine("tool_executed", c, x) /\ x.status = status
           /\ \E rule \in {"none", "read_only_changed"} :
                 Adds(x, rule, q, vs, Append(q, x), vs \o ReadOnlyViolation(c, Len(q) + 1))
<1> DEFINE d == Changes(before[c], world)
<1>1. request[c].tool \in Tools /\ number[c] \in Nat /\ d \in ChangeSets
  BY ChangesType DEF TypeOK
<1>2. /\ x \in LogEvents /\ x.kind = "tool_executed" /\ x.call = c /\ x.status = status
      /\ x.tool = request[c].tool /\ x.number = number[c] /\ x.changes = d
  <2>1. x \in [kind : {"tool_executed"}, call : Calls, tool : Tools, number : Nat,
               changes : ChangeSets, status : {"completed", "error", "cancelled"}]
    BY <1>1 DEF ExecutedEvent
  <2> QED
    BY <2>1 DEF ExecutedEvent, LogEvents
<1>3. Mine("tool_executed", c, x)
  BY <1>2 DEF Mine, Own, Kind
<1>4. DOMAIN d = {} <=> before[c] = world
  <2>1. before[c] \in [Paths -> Values] /\ world \in [Paths -> Values]
    BY DEF TypeOK, Worlds
  <2>2. DOMAIN d = {p \in Paths : before[c][p] # world[p]}
    BY DEF Changes
  <2> HIDE DEF d
  <2> QED
    BY <2>1, <2>2
<1>5. x \in ReadOnlyChanges <=> request[c].tool \in ReadOnly /\ before[c] # world
  BY <1>2, <1>4 DEF ReadOnlyChanges, Kind
<1>6. Len(Append(q, x)) = Len(q) + 1
  BY <1>2, AppendProperties
<1>7. CASE request[c].tool \in ReadOnly /\ before[c] # world
  <2> DEFINE w == Violation("read_only_changed", Len(q) + 1)
  <2>1. ReadOnlyViolation(c, Len(q) + 1) = <<w>>
    BY <1>7 DEF ReadOnlyViolation
  <2>2. w \in Findings
    BY DEF Violation, Findings, Rules
  <2> HIDE DEF w
  <2>3. vs \o ReadOnlyViolation(c, Len(q) + 1) = Append(vs, w)
    BY <2>1, <2>2, AppendIsConcat
  <2>4. Adds(x, "read_only_changed", q, vs, Append(q, x),
             vs \o ReadOnlyViolation(c, Len(q) + 1))
    BY <1>2, <1>5, <1>6, <1>7, <2>3 DEF Adds, FindingsFor, w
  <2> QED
    BY <1>2, <1>3, <2>4
<1>8. CASE ~(request[c].tool \in ReadOnly /\ before[c] # world)
  <2>1. vs \o ReadOnlyViolation(c, Len(q) + 1) = vs
    BY <1>8 DEF ReadOnlyViolation
  <2>2. Adds(x, "none", q, vs, Append(q, x), vs \o ReadOnlyViolation(c, Len(q) + 1))
    BY <1>2, <1>5, <1>8, <2>1 DEF Adds, FindingsFor
  <2> QED
    BY <1>2, <1>3, <2>2
<1> QED
  BY <1>7, <1>8

\* How the port tells the agent that the handler ran to its end, and the rule it
\* records with that.
Verdicts == {<<"rejected", "tool_rejected", "result_schema">>,
             <<"lost", "tool_fault", "none">>,
             <<"result", "tool_observation", "none">>}

\* What the end of a handler logs, by the way it ended.
AfterHandler(c) ==
    \/ /\ pc'[c] = "abandoned" /\ violations' = violations
       /\ \/ events' = events
          \/ \E e : /\ Mine("tool_error", c, e)
                    /\ Adds(e, "none", events, violations, events', violations')
    \/ /\ pc'[c] \in {"error", "cancelled"}
       /\ \E e, q, x : \E rule \in {"none", "read_only_changed"} :
             /\ Mine("tool_error", c, e)
             /\ Adds(e, "none", events, violations, q, violations)
             /\ Mine("tool_executed", c, x)
             /\ Adds(x, rule, q, violations, events', violations')
    \/ \E t \in Verdicts :
          /\ pc'[c] = t[1]
          /\ t[1] = "lost" => Planned(c, number'[c], "response_lost_after_commit")
          /\ \E x, q, vs, e : \E rule \in {"none", "read_only_changed"} :
                /\ Mine("tool_executed", c, x) /\ x.status = "completed"
                /\ Adds(x, rule, events, violations, q, vs)
                /\ Mine(t[2], c, e)
                /\ Adds(e, t[3], q, vs, events', violations')

\* A handler that ends logs that.
LEMMA EndHandlerLogs ==
    ASSUME TypeOK, NEW c \in Calls, EndHandler(c)
    PROVE  /\ pc[c] = "running" /\ pc' = [pc EXCEPT ![c] = pc'[c]]
           /\ UNCHANGED <<request, counts, number>>
           /\ AfterHandler(c)
<1> DEFINE y(status) == ExecutedEvent(c, Changes(before[c], world), status)
           e(kind) == Event(kind, c, number[c])
<1>1. /\ pc[c] = "running" /\ UNCHANGED <<request, counts, number>>
      /\ \E o : pc' = [pc EXCEPT ![c] = o]
  BY DEF EndHandler, HandlerRaises, BadResult, LoseResponse, Respond, EndAbandoned, Finish
<1>2. DOMAIN pc = Calls /\ events \in Seq(LogEvents) /\ violations \in Seq(Findings)
      /\ number[c] \in Nat /\ Len(events) \in Nat
  BY DEF TypeOK
<1>3. pc' = [pc EXCEPT ![c] = pc'[c]]
  BY <1>1, <1>2
<1>4. \A kind \in EventKinds :
         /\ e(kind) \in LogEvents /\ e(kind).kind = kind /\ Mine(kind, c, e(kind))
  BY <1>1, <1>2, EventType DEF Event, Mine, Own, Kind
<1>5. CASE \E status \in {"error", "cancelled"} : HandlerRaises(c, status)
  <2>1. PICK status \in {"error", "cancelled"} : HandlerRaises(c, status)
    BY <1>5
  <2> DEFINE a == e("tool_error")
             x == y(status)
             q == Append(events, a)
  <2>2. /\ events' = events \o <<a, x>> /\ pc'[c] = status
        /\ violations' = violations \o ReadOnlyViolation(c, Len(events) + 2)
    BY <1>2, <2>1 DEF HandlerRaises, Evidence, Finish
  <2>3. a \in LogEvents /\ a.kind = "tool_error" /\ Mine("tool_error", c, a)
    BY <1>4 DEF EventKinds
  <2>4. x = ExecutedEvent(c, Changes(before[c], world), status)
    OBVIOUS
  <2> HIDE DEF a, x, e, y
  <2>5. q \in Seq(LogEvents) /\ Len(q) = Len(events) + 1
    BY <1>2, <2>3, AppendProperties
  <2>6. Adds(a, "none", events, violations, q, violations)
    BY <2>3, PlainAdds
  <2> HIDE DEF q
  <2>7. /\ Mine("tool_executed", c, x)
        /\ \E rule \in {"none", "read_only_changed"} :
              Adds(x, rule, q, violations, Append(q, x),
                   violations \o ReadOnlyViolation(c, Len(q) + 1))
    BY <1>1, <1>2, <2>4, <2>5, ExecutionAdds
  <2>8. events' = Append(q, x)
    <3>1. x \in LogEvents
      BY <2>7 DEF Mine, Own, Kind
    <3> QED
      BY <1>2, <2>2, <2>3, <3>1, AppendMore DEF q
  <2>9. Len(q) + 1 = Len(events) + 2
    BY <1>2, <2>5
  <2>10. \E rule \in {"none", "read_only_changed"} :
            Adds(x, rule, q, violations, events', violations')
    BY <2>2, <2>7, <2>8, <2>9
  <2>11. AfterHandler(c)
    BY <2>2, <2>3, <2>6, <2>7, <2>10 DEF AfterHandler
  <2> QED
    BY <1>1, <1>3, <2>11
<1>6. ASSUME NEW t \in Verdicts, pc'[c] = t[1],
             t[1] = "lost" => Planned(c, number'[c], "response_lost_after_commit"),
             events' = events \o Evidence(c, "completed") \o <<e(t[2])>>,
             violations' = violations \o ReadOnlyViolation(c, Len(events) + 1)
                \o (IF t[1] = "rejected"
                    THEN <<Violation("result_schema", Len(events) + 2)>> ELSE <<>>)
      PROVE  AfterHandler(c)
  <2> DEFINE a == e(t[2])
             x == y("completed")
             q == Append(events, x)
             vs == violations \o ReadOnlyViolation(c, Len(events) + 1)
  <2>1. /\ t[2] \in EventKinds /\ t[2] # "tool_executed"
        /\ t[2] = "tool_rejected" <=> t[1] = "rejected"
        /\ t[3] = IF t[1] = "rejected" THEN "result_schema" ELSE "none"
    BY DEF Verdicts, EventKinds
  <2>2. a \in LogEvents /\ a.kind = t[2] /\ Mine(t[2], c, a)
    BY <1>4, <2>1
  <2>3. /\ Mine("tool_executed", c, x) /\ x.status = "completed"
        /\ \E rule \in {"none", "read_only_changed"} :
              Adds(x, rule, events, violations, q, vs)
    BY <1>1, <1>2, ExecutionAdds
  <2>4. Evidence(c, "completed") = <<x>>
    BY DEF Evidence
  <2>5. vs \in Seq(Findings)
    <3>1. ReadOnlyViolation(c, Len(events) + 1) \in Seq(Findings)
      BY <1>2, ReadOnlyViolationType
    <3> QED
      BY <1>2, <3>1
  <2>6. events' = events \o <<x>> \o <<a>>
    BY <1>6, <2>4
  <2>7. violations' = vs \o (IF t[1] = "rejected"
                             THEN <<Violation("result_schema", Len(events) + 2)>> ELSE <<>>)
    BY <1>6
  <2>8. x \in LogEvents
    BY <2>3 DEF Mine, Own, Kind
  <2> HIDE DEF a, x, e, y, vs
  <2>9. q \in Seq(LogEvents) /\ q = events \o <<x>> /\ Len(q) = Len(events) + 1
    BY <1>2, <2>8, AppendIsConcat, AppendProperties
  <2> HIDE DEF q
  <2>10. events' = Append(q, a) /\ Len(events') = Len(events) + 2
    <3>1. events' = Append(q, a)
      BY <2>2, <2>6, <2>9, AppendIsConcat
    <3> QED
      BY <1>2, <2>2, <2>9, <3>1, AppendProperties
  <2>11. Adds(a, t[3], q, vs, events', violations')
    <3>1. CASE t[1] = "rejected"
      <4> DEFINE w == Violation("result_schema", Len(events) + 2)
      <4>1. w \in Findings
        BY <1>2 DEF Violation, Findings, Rules
      <4>2. violations' = vs \o <<w>>
        BY <2>7, <3>1
      <4> HIDE DEF w
      <4>3. violations' = Append(vs, w)
        BY <2>5, <4>1, <4>2, AppendIsConcat
      <4>4. t[3] = "result_schema" /\ t[3] \in FindingsFor(a)
        BY <2>1, <2>2, <3>1 DEF FindingsFor, Refusals, Rules
      <4> QED
        BY <2>2, <2>10, <4>3, <4>4 DEF Adds, w
    <3>2. CASE t[1] # "rejected"
      <4>1. violations' = vs
        BY <2>5, <2>7, <3>2
      <4>2. a.kind \notin {"tool_rejected", "tool_executed"} /\ t[3] = "none"
        BY <2>1, <2>2, <3>2
      <4> QED
        BY <2>2, <2>10, <4>1, <4>2, PlainAdds
    <3> QED
      BY <3>1, <3>2
  <2> QED
    BY <1>6, <2>2, <2>3, <2>11 DEF AfterHandler
<1>7. CASE BadResult(c)
  <2> DEFINE t == <<"rejected", "tool_rejected", "result_schema">>
  <2>1. t \in Verdicts
    BY DEF Verdicts
  <2>2. /\ pc'[c] = "rejected"
        /\ events' = events \o Evidence(c, "completed") \o <<e("tool_rejected")>>
        /\ violations' = violations \o ReadOnlyViolation(c, Len(events) + 1)
              \o <<Violation("result_schema", Len(events) + 2)>>
    BY <1>2, <1>7 DEF BadResult, Finish
  <2>3. AfterHandler(c)
    BY <1>6, <2>1, <2>2
  <2> QED
    BY <1>1, <1>3, <2>3
<1>8. violations \o ReadOnlyViolation(c, Len(events) + 1) \o <<>>
         = violations \o ReadOnlyViolation(c, Len(events) + 1)
  <2>1. ReadOnlyViolation(c, Len(events) + 1) \in Seq(Findings)
    BY <1>2, ReadOnlyViolationType
  <2>2. violations \o ReadOnlyViolation(c, Len(events) + 1) \in Seq(Findings)
    BY <1>2, <2>1
  <2> QED
    BY <2>2
<1>9. CASE LoseResponse(c)
  <2> DEFINE t == <<"lost", "tool_fault", "none">>
  <2>1. t \in Verdicts
    BY DEF Verdicts
  <2>2. /\ pc'[c] = "lost"
        /\ events' = events \o Evidence(c, "completed") \o <<e("tool_fault")>>
        /\ violations' = violations \o ReadOnlyViolation(c, Len(events) + 1)
    BY <1>2, <1>9 DEF LoseResponse, Finish
  <2>3. Planned(c, number'[c], "response_lost_after_commit")
    BY <1>1, <1>9 DEF LoseResponse
  <2>4. AfterHandler(c)
    BY <1>6, <1>8, <2>1, <2>2, <2>3
  <2> QED
    BY <1>1, <1>3, <2>4
<1>10. CASE Respond(c)
  <2> DEFINE t == <<"result", "tool_observation", "none">>
  <2>1. t \in Verdicts
    BY DEF Verdicts
  <2>2. /\ pc'[c] = "result"
        /\ events' = events \o Evidence(c, "completed") \o <<e("tool_observation")>>
        /\ violations' = violations \o ReadOnlyViolation(c, Len(events) + 1)
    BY <1>2, <1>10 DEF Respond, Finish
  <2>3. AfterHandler(c)
    BY <1>6, <1>8, <2>1, <2>2
  <2> QED
    BY <1>1, <1>3, <2>3
<1>11. CASE EndAbandoned(c)
  <2>1. /\ pc'[c] = "abandoned" /\ violations' = violations
        /\ events' = events \/ events' = Append(events, e("tool_error"))
    BY <1>2, <1>11 DEF EndAbandoned, Finish
  <2>2. /\ e("tool_error") \in LogEvents /\ e("tool_error").kind = "tool_error"
        /\ Mine("tool_error", c, e("tool_error"))
    BY <1>4 DEF EventKinds
  <2>3. Adds(e("tool_error"), "none", events, violations,
             Append(events, e("tool_error")), violations)
    BY <2>2, PlainAdds
  <2> HIDE DEF e
  <2>4. AfterHandler(c)
    BY <2>1, <2>2, <2>3 DEF AfterHandler
  <2> QED
    BY <1>1, <1>3, <2>4
<1> QED
  BY <1>5, <1>7, <1>9, <1>10, <1>11 DEF EndHandler

-----------------------------------------------------------------------------
\* Every step adds at most three events to the log, all of one call.

\* The event e is of no call but c.
CallKinds == EventKinds \cup {"tool_executed", "precondition_failed"}
OfNoOther(c, e) == \A kind \in CallKinds, d \in Calls \ {c} : e \notin Own(kind, d)

\* At most one event, of no call but c, with the violation it calls for.
AtMostOne(c, q, vs, r, ws) ==
    \/ r = q /\ ws = vs
    \/ \E e, rule : Adds(e, rule, q, vs, r, ws) /\ OfNoOther(c, e)

\* The log and the violations before and after a step, and what is between.
StepOf(c) ==
    \E q1 \in Seq(LogEvents), q2 \in Seq(LogEvents),
       v1 \in Seq(Findings), v2 \in Seq(Findings) :
          /\ AtMostOne(c, events, violations, q1, v1)
          /\ AtMostOne(c, q1, v1, q2, v2)
          /\ AtMostOne(c, q2, v2, events', violations')

\* A call's own event is of no other call.
LEMMA MineIsOfNoOther ==
    ASSUME NEW c, NEW kind, NEW e, Mine(kind, c, e)
    PROVE  OfNoOther(c, e)
  BY DEF Mine, Own, OfNoOther

\* A call's step is such a step.
LEMMA CallStepAdds ==
    ASSUME TypeOK, NEW c \in Calls, CallStep(c)
    PROVE  StepOf(c)
<1>1. events \in Seq(LogEvents) /\ violations \in Seq(Findings)
  BY DEF TypeOK
<1>2. CASE UNCHANGED <<events, violations>>
  BY <1>1, <1>2 DEF StepOf, AtMostOne
<1>3. ASSUME NEW q \in Seq(LogEvents), NEW vs \in Seq(Findings),
             AtMostOne(c, events, violations, q, vs),
             AtMostOne(c, q, vs, events', violations')
      PROVE  StepOf(c)
  <2>1. AtMostOne(c, events, violations, events, violations)
    BY DEF AtMostOne
  <2> QED
    BY <1>1, <1>3, <2>1 DEF StepOf
<1>4. CASE Enter(c) /\ ~EnterSealed(c)
  <2>1. PICK a, q : /\ Mine("tool_attempt", c, a)
                    /\ Adds(a, "none", events, violations, q, violations)
                    /\ AfterAttempt(c, q)
    BY <1>4, EnterLogs
  <2>2. /\ AtMostOne(c, events, violations, q, violations) /\ q \in Seq(LogEvents)
    BY <1>1, <2>1, MineIsOfNoOther, AddsOne DEF AtMostOne
  <2>3. CASE pc'[c] # "stale"
    <3>1. AtMostOne(c, q, violations, events', violations')
      BY <2>1, <2>3, MineIsOfNoOther DEF AfterAttempt, AtMostOne
    <3> QED
      BY <1>1, <1>3, <2>2, <3>1
  <2>4. CASE pc'[c] = "stale"
    <3>1. PICK e, r, o :
             /\ Mine("tool_fault", c, e)
             /\ Adds(e, "none", q, violations, r, violations)
             /\ Mine("tool_observation", c, o)
             /\ Adds(o, "none", r, violations, events', violations')
      BY <2>1, <2>4 DEF AfterAttempt
    <3>2. /\ AtMostOne(c, q, violations, r, violations) /\ r \in Seq(LogEvents)
      BY <1>1, <2>2, <3>1, MineIsOfNoOther, AddsOne DEF AtMostOne
    <3>3. AtMostOne(c, r, violations, events', violations')
      BY <3>1, MineIsOfNoOther DEF AtMostOne
    <3> QED
      BY <1>1, <2>2, <3>2, <3>3 DEF StepOf
  <2> QED
    BY <2>3, <2>4
<1>5. CASE EndHandler(c)
  <2>1. AfterHandler(c)
    BY <1>5, EndHandlerLogs
  <2>2. CASE pc'[c] = "abandoned" /\ violations' = violations
             /\ \/ events' = events
                \/ \E e : /\ Mine("tool_error", c, e)
                          /\ Adds(e, "none", events, violations, events', violations')
    <3>1. AtMostOne(c, events, violations, events', violations')
      BY <2>2, MineIsOfNoOther DEF AtMostOne
    <3>2. AtMostOne(c, events, violations, events, violations)
      BY DEF AtMostOne
    <3> QED
      BY <1>1, <1>3, <3>1, <3>2
  <2>3. ASSUME NEW x, NEW q, NEW vs, NEW e, NEW k1, NEW k2, NEW r1, NEW r2,
               Mine(k1, c, x), Adds(x, r1, events, violations, q, vs),
               Mine(k2, c, e), Adds(e, r2, q, vs, events', violations')
        PROVE  StepOf(c)
    <3>1. /\ AtMostOne(c, events, violations, q, vs)
          /\ q \in Seq(LogEvents) /\ vs \in Seq(Findings)
      BY <1>1, <2>3, MineIsOfNoOther, AddsOne DEF AtMostOne
    <3>2. AtMostOne(c, q, vs, events', violations')
      BY <2>3, MineIsOfNoOther DEF AtMostOne
    <3> QED
      BY <1>3, <3>1, <3>2
  <2> QED
    BY <2>1, <2>2, <2>3 DEF AfterHandler
<1> QED
  BY <1>2, <1>4, <1>5 DEF CallStep, Issue, CancelWaiting, Enter, EnterSealed, HandlerWrite

\* So is the end of the run, for any call.
LEMMA SealAdds ==
    ASSUME TypeOK, NEW c, NEW last \in AgentEnds, Seal(last)
    PROVE  StepOf(c)
<1>1. events \in Seq(LogEvents) /\ violations \in Seq(Findings)
  BY DEF TypeOK
<1>2. AtMostOne(c, events, violations, events, violations)
  BY DEF AtMostOne
<1>3. events' = events \o last /\ violations' = violations
  BY DEF Seal
<1>4. CASE last = <<>>
  BY <1>1, <1>2, <1>3, <1>4 DEF StepOf, AtMostOne
<1>5. ASSUME NEW kind \in {"agent_output", "agent_error"}, last = <<AgentEvent(kind)>>
      PROVE  StepOf(c)
  <2> DEFINE e == AgentEvent(kind)
  <2>1. e \in LogEvents /\ e.kind = kind
    BY DEF AgentEvent, LogEvents
  <2>2. /\ e.kind \notin {"tool_rejected", "tool_executed"}
    BY <2>1
  <2>3. OfNoOther(c, e)
    BY <2>1 DEF OfNoOther, CallKinds, EventKinds, Own, Kind
  <2> HIDE DEF e
  <2>4. Adds(e, "none", events, violations, events', violations')
    <3>1. events' = Append(events, e)
      BY <1>1, <1>3, <1>5, <2>1, AppendIsConcat DEF e
    <3> QED
      BY <1>3, <2>1, <2>2, <3>1, PlainAdds
  <2> QED
    BY <1>1, <1>2, <2>3, <2>4 DEF StepOf, AtMostOne
<1> QED
  BY <1>4, <1>5 DEF AgentEnds

-----------------------------------------------------------------------------
\* The violations are those of the log.

\* Every refusal of the log, and every change by a read-only tool, has one
\* violation that points at it.
Matched(q, vs) ==
    /\ Marks(vs, Refusals) = Where(q, Kind("tool_rejected"))
    /\ Marks(vs, {"read_only_changed"}) = Where(q, ReadOnlyChanges)
    /\ Len(vs) = Cardinality(Where(q, Kind("tool_rejected")))
                    + Cardinality(Where(q, ReadOnlyChanges))

\* It stays so when an event is added with the violation it calls for.
LEMMA AddsKeepMatched ==
    ASSUME NEW q \in Seq(LogEvents), NEW vs \in Seq(Findings), NEW e, NEW rule,
           NEW r, NEW ws, Adds(e, rule, q, vs, r, ws), Matched(q, vs)
    PROVE  Matched(r, ws)
<1>1. e \in LogEvents /\ r = Append(q, e) /\ rule \in FindingsFor(e)
  BY DEF Adds
<1>2. e \in Kind("tool_rejected") <=> rule \in Refusals
  BY <1>1 DEF FindingsFor, Kind, Refusals, Rules, ReadOnlyChanges
<1>3. e \in ReadOnlyChanges <=> rule \in {"read_only_changed"}
  BY <1>1 DEF FindingsFor, Kind, Refusals, Rules, ReadOnlyChanges
<1>4. rule = "none" <=> rule \notin Refusals /\ rule \notin {"read_only_changed"}
  BY <1>1 DEF FindingsFor, Refusals, Rules
<1>5. Refusals \in SUBSET Rules /\ {"read_only_changed"} \in SUBSET Rules
      /\ "read_only_changed" \notin Refusals
  BY DEF Refusals, Rules
<1>6. /\ Marks(ws, Refusals) = Where(r, Kind("tool_rejected"))
      /\ Marks(ws, {"read_only_changed"}) = Where(r, ReadOnlyChanges)
  <2>1. /\ \A E : Where(r, E) = Where(q, E) \cup (IF e \in E THEN {Len(r)} ELSE {})
        /\ \A R \in SUBSET Rules :
              Marks(ws, R) = Marks(vs, R) \cup (IF rule \in R THEN {Len(r)} ELSE {})
    BY AddsOne
  <2>2. /\ Marks(ws, Refusals) =
              Marks(vs, Refusals) \cup (IF rule \in Refusals THEN {Len(r)} ELSE {})
        /\ Where(r, Kind("tool_rejected")) = Where(q, Kind("tool_rejected"))
              \cup (IF e \in Kind("tool_rejected") THEN {Len(r)} ELSE {})
    BY <1>5, <2>1
  <2>3. /\ Marks(ws, {"read_only_changed"}) = Marks(vs, {"read_only_changed"})
              \cup (IF rule \in {"read_only_changed"} THEN {Len(r)} ELSE {})
        /\ Where(r, ReadOnlyChanges) = Where(q, ReadOnlyChanges)
              \cup (IF e \in ReadOnlyChanges THEN {Len(r)} ELSE {})
    BY <1>5, <2>1
  <2> QED
    BY <1>2, <1>3, <2>2, <2>3 DEF Matched
<1>7. /\ Cardinality(Where(r, Kind("tool_rejected"))) =
            Cardinality(Where(q, Kind("tool_rejected")))
               + (IF e \in Kind("tool_rejected") THEN 1 ELSE 0)
      /\ Cardinality(Where(r, ReadOnlyChanges)) =
            Cardinality(Where(q, ReadOnlyChanges))
               + (IF e \in ReadOnlyChanges THEN 1 ELSE 0)
  BY <1>1, CountAppend
<1>8. Len(ws) = Len(vs) + (IF rule = "none" THEN 0 ELSE 1)
  BY AddsOne
<1>9. /\ Cardinality(Where(q, Kind("tool_rejected"))) \in Nat
      /\ Cardinality(Where(q, ReadOnlyChanges)) \in Nat
      /\ Len(vs) \in Nat
  BY WhereIsFinite
<1>10. Len(ws) = Cardinality(Where(r, Kind("tool_rejected")))
                    + Cardinality(Where(r, ReadOnlyChanges))
  BY <1>2, <1>3, <1>4, <1>5, <1>7, <1>8, <1>9 DEF Matched
<1> QED
  BY <1>6, <1>10 DEF Matched

\* So with at most one.
LEMMA AtMostOneKeepsMatched ==
    ASSUME NEW c, NEW q \in Seq(LogEvents), NEW vs \in Seq(Findings),
           NEW r, NEW ws, AtMostOne(c, q, vs, r, ws), Matched(q, vs)
    PROVE  Matched(r, ws)
  BY AddsKeepMatched DEF AtMostOne

\* And with every step of the port.
LEMMA NextMatched ==
    ASSUME TypeOK, Matched(events, violations), [PortNext]_portVars
    PROVE  Matched(events, violations)'
<1>1. events \in Seq(LogEvents) /\ violations \in Seq(Findings)
  BY DEF TypeOK
<1>2. ASSUME NEW c, StepOf(c)
      PROVE  Matched(events', violations')
  <2>1. PICK q1 \in Seq(LogEvents), q2 \in Seq(LogEvents),
             v1 \in Seq(Findings), v2 \in Seq(Findings) :
                /\ AtMostOne(c, events, violations, q1, v1)
                /\ AtMostOne(c, q1, v1, q2, v2)
                /\ AtMostOne(c, q2, v2, events', violations')
    BY <1>2 DEF StepOf
  <2>2. Matched(q1, v1)
    BY <1>1, <2>1, AtMostOneKeepsMatched
  <2>3. Matched(q2, v2)
    BY <2>1, <2>2, AtMostOneKeepsMatched
  <2> QED
    BY <2>1, <2>3, AtMostOneKeepsMatched
<1>3. CASE UNCHANGED portVars
  BY <1>3 DEF portVars
<1> QED
  BY <1>2, <1>3, CallStepAdds, SealAdds DEF PortNext

\* Nothing is recorded at first.
LEMMA InitMatched == Init => Matched(events, violations)
<1> SUFFICES ASSUME Init PROVE Matched(events, violations)
  OBVIOUS
<1>1. events = <<>> /\ violations = <<>>
  BY DEF Init
<1>2. \A E : Where(events, E) = {}
  BY <1>1 DEF Where
<1>3. \A R : Marks(violations, R) = {}
  BY <1>1 DEF Marks
<1>4. Cardinality({}) = 0
  BY FS_EmptySet
<1>5. Len(violations) = 0
  BY <1>1
<1>6. Len(violations) = Cardinality(Where(events, Kind("tool_rejected")))
                           + Cardinality(Where(events, ReadOnlyChanges))
  <2>1. /\ Cardinality(Where(events, Kind("tool_rejected"))) = 0
        /\ Cardinality(Where(events, ReadOnlyChanges)) = 0
    BY <1>2, <1>4, Zenon
  <2> QED
    BY <1>5, <2>1
<1> QED
  BY <1>2, <1>3, <1>6 DEF Matched

\* Refused calls stay on the record even when the agent swallows the error: each
\* refusal, and each change by a read-only tool, has its own violation, and
\* nothing else has one.
THEOREM ViolationsAreExact == PortSpec => []ViolationsMatchEvidence
<1>1. Init => Matched(events, violations)
  BY InitMatched
<1>2. TypeOK /\ Matched(events, violations) /\ [PortNext]_portVars
        => Matched(events, violations)'
  BY NextMatched
<1>3. TypeOK /\ Matched(events, violations) => ViolationsMatchEvidence
  <2> SUFFICES ASSUME TypeOK, Matched(events, violations) PROVE ViolationsMatchEvidence
    OBVIOUS
  <2> DEFINE rejections == {v \in DOMAIN violations :
                               violations[v].rule # "read_only_changed"}
             readOnlyChanges == {i \in At("tool_executed") :
                                    /\ events[i].tool \in ReadOnly
                                    /\ DOMAIN events[i].changes # {}}
  <2>1. /\ \A i \in DOMAIN events : events[i] \in LogEvents
        /\ \A v \in DOMAIN violations : violations[v].rule \in Rules
    <3>1. events \in Seq(LogEvents) /\ violations \in Seq(Findings)
      BY DEF TypeOK
    <3>2. \A v \in DOMAIN violations : violations[v] \in Findings
      BY <3>1
    <3> QED
      BY <3>1, <3>2 DEF Findings
  <2>2. rejections = {v \in DOMAIN violations : violations[v].rule \in Refusals}
    BY <2>1 DEF Refusals
  <2>3. DOMAIN violations \ rejections =
           {v \in DOMAIN violations : violations[v].rule \in {"read_only_changed"}}
    OBVIOUS
  <2>4. Where(events, Kind("tool_rejected")) = At("tool_rejected")
    BY <2>1 DEF Where, Kind, At
  <2>5. Where(events, ReadOnlyChanges) = readOnlyChanges
    BY <2>1 DEF Where, ReadOnlyChanges, Kind, At
  <2>6. {violations[v].seq : v \in rejections} = Marks(violations, Refusals)
    BY <2>2 DEF Marks
  <2>7. {violations[v].seq : v \in DOMAIN violations \ rejections}
           = Marks(violations, {"read_only_changed"})
    BY <2>3 DEF Marks
  <2> HIDE DEF rejections, readOnlyChanges
  <2>8. /\ {violations[v].seq : v \in rejections} = At("tool_rejected")
        /\ {violations[v].seq : v \in DOMAIN violations \ rejections} = readOnlyChanges
        /\ Len(violations) = Cardinality(At("tool_rejected"))
                                + Cardinality(readOnlyChanges)
    BY <2>4, <2>5, <2>6, <2>7 DEF Matched
  <2> QED
    BY <2>8 DEF ViolationsMatchEvidence, rejections, readOnlyChanges
<1> QED
  BY <1>1, <1>2, <1>3, Invariance, PTL DEF PortSpec

-----------------------------------------------------------------------------
\* What the agent was told of a call is what the log says of it.

Executed(q, d) == Where(q, Own("tool_executed", d))
Refused(q, d) == Where(q, Own("tool_rejected", d))
Answered(q, d) == Where(q, Own("tool_observation", d))

\* Nothing has come of the call d yet.
Fresh(q, d) == Executed(q, d) = {} /\ Refused(q, d) = {} /\ Answered(q, d) = {}

\* The log q and the violations vs say of the call d that it ended as o, or that
\* it has not ended.
Account(q, vs, d, o) ==
    /\ o \notin {"result", "lost", "rejected", "error", "cancelled"} => Executed(q, d) = {}
    /\ o \in {"idle", "waiting", "running"} => Refused(q, d) = {}
    /\ Answered(q, d) # {} <=> o \in {"result", "stale"}
    /\ \A i, j \in Executed(q, d) : i = j
    /\ o \in {"result", "lost"} => \E i \in Executed(q, d) : q[i].status = "completed"
    /\ o = "rejected" =>
          \/ Executed(q, d) = {} /\ Marks(vs, Early) \cap Refused(q, d) # {}
          \/ /\ Marks(vs, Early) \cap Refused(q, d) = {}
             /\ \E i \in Executed(q, d) : q[i].status = "completed"

Accounted == \A d \in Calls : Account(events, violations, d, pc[d])

\* A call that has not ended has nothing on the record.
LEMMA FreshAccount ==
    ASSUME NEW q, NEW vs, NEW d, NEW o
    PROVE  /\ o \in {"idle", "waiting", "running"} /\ Account(q, vs, d, o) => Fresh(q, d)
           /\ o \notin {"result", "lost", "rejected", "stale"} /\ Fresh(q, d)
                 => Account(q, vs, d, o)
  BY DEF Account, Fresh

\* Events of other kinds or of other calls change nothing in a call's account.
LEMMA AddsKeepAccount ==
    ASSUME NEW q \in Seq(LogEvents), NEW vs \in Seq(Findings), NEW e, NEW rule,
           NEW r, NEW ws, Adds(e, rule, q, vs, r, ws), NEW d,
           e \notin Own("tool_executed", d), e \notin Own("tool_rejected", d),
           e \notin Own("tool_observation", d)
    PROVE  /\ Fresh(q, d) => Fresh(r, d)
           /\ \A o : Account(q, vs, d, o) => Account(r, ws, d, o)
<1>1. /\ \A E : Where(r, E) = Where(q, E) \cup (IF e \in E THEN {Len(r)} ELSE {})
      /\ \A E : Where(q, E) \subseteq DOMAIN q
      /\ \A i \in DOMAIN q : r[i] = q[i]
      /\ Len(r) \notin DOMAIN q
      /\ \A R \in SUBSET Rules :
            Marks(ws, R) = Marks(vs, R) \cup (IF rule \in R THEN {Len(r)} ELSE {})
  BY AddsOne, SMTT(30)
<1>2. /\ Executed(r, d) = Executed(q, d) /\ Refused(r, d) = Refused(q, d)
      /\ Answered(r, d) = Answered(q, d)
  BY <1>1 DEF Executed, Refused, Answered
<1>3. \A i \in Executed(q, d) : r[i] = q[i]
  BY <1>1 DEF Executed
<1>4. Early \in SUBSET Rules
  BY DEF Early
<1>5. Marks(ws, Early) \cap Refused(q, d) = Marks(vs, Early) \cap Refused(q, d)
  <2>1. Marks(ws, Early) = Marks(vs, Early) \cup (IF rule \in Early THEN {Len(r)} ELSE {})
    BY <1>1, <1>4
  <2>2. Len(r) \notin Refused(q, d)
    BY <1>1 DEF Refused
  <2> QED
    BY <2>1, <2>2
<1> QED
  BY <1>2, <1>3, <1>5 DEF Account, Fresh

\* So with the events of another call.
LEMMA AtMostOneKeepsAccount ==
    ASSUME NEW c, NEW q \in Seq(LogEvents), NEW vs \in Seq(Findings),
           NEW r, NEW ws, AtMostOne(c, q, vs, r, ws),
           NEW d \in Calls \ {c}, NEW o, Account(q, vs, d, o)
    PROVE  Account(r, ws, d, o)
<1>1. CASE r = q /\ ws = vs
  BY <1>1
<1>2. ASSUME NEW e, NEW rule, Adds(e, rule, q, vs, r, ws), OfNoOther(c, e)
      PROVE  Account(r, ws, d, o)
  <2>1. /\ e \notin Own("tool_executed", d) /\ e \notin Own("tool_rejected", d)
        /\ e \notin Own("tool_observation", d)
    BY <1>2 DEF OfNoOther, CallKinds, EventKinds
  <2> QED
    BY <1>2, <2>1, AddsKeepAccount
<1> QED
  BY <1>1, <1>2 DEF AtMostOne

\* A step of one call leaves the account of every other as it is.
LEMMA StepKeepsAccount ==
    ASSUME TypeOK, NEW c, StepOf(c), NEW d \in Calls \ {c}, NEW o,
           Account(events, violations, d, o)
    PROVE  Account(events', violations', d, o)
<1>1. events \in Seq(LogEvents) /\ violations \in Seq(Findings)
  BY DEF TypeOK
<1>2. PICK q1 \in Seq(LogEvents), q2 \in Seq(LogEvents),
           v1 \in Seq(Findings), v2 \in Seq(Findings) :
              /\ AtMostOne(c, events, violations, q1, v1)
              /\ AtMostOne(c, q1, v1, q2, v2)
              /\ AtMostOne(c, q2, v2, events', violations')
  BY DEF StepOf
<1>3. Account(q1, v1, d, o)
  BY <1>1, <1>2, AtMostOneKeepsAccount
<1>4. Account(q2, v2, d, o)
  BY <1>2, <1>3, AtMostOneKeepsAccount
<1> QED
  BY <1>2, <1>4, AtMostOneKeepsAccount

\* Of a fresh call, an execution, a refusal and an answer say just that.
LEMMA MineAccount ==
    ASSUME NEW q \in Seq(LogEvents), NEW vs \in Seq(Findings), NEW e, NEW rule,
           NEW r, NEW ws, Adds(e, rule, q, vs, r, ws), NEW c, NEW kind \in CallKinds,
           Mine(kind, c, e)
    PROVE  /\ r \in Seq(LogEvents) /\ ws \in Seq(Findings)
           /\ Executed(r, c) = Executed(q, c) \cup (IF kind = "tool_executed" THEN {Len(r)} ELSE {})
           /\ Refused(r, c) = Refused(q, c)
                                \cup (IF kind = "tool_rejected" THEN {Len(r)} ELSE {})
           /\ Answered(r, c) = Answered(q, c)
                                 \cup (IF kind = "tool_observation" THEN {Len(r)} ELSE {})
           /\ r[Len(r)] = e /\ \A i \in Executed(q, c) : r[i] = q[i]
           /\ Marks(ws, Early) = Marks(vs, Early)
                                   \cup (IF rule \in Early THEN {Len(r)} ELSE {})
<1>1. /\ r \in Seq(LogEvents) /\ ws \in Seq(Findings)
      /\ \A E : Where(r, E) = Where(q, E) \cup (IF e \in E THEN {Len(r)} ELSE {})
      /\ \A E : Where(q, E) \subseteq DOMAIN q
      /\ \A i \in DOMAIN q : r[i] = q[i]
      /\ r[Len(r)] = e
      /\ \A R \in SUBSET Rules :
            Marks(ws, R) = Marks(vs, R) \cup (IF rule \in R THEN {Len(r)} ELSE {})
  BY AddsOne
<1>2. \A k : e \in Own(k, c) <=> k = kind
  BY DEF Mine, Own, Kind
<1>3. Early \in SUBSET Rules
  BY DEF Early
<1>4. \A i \in Executed(q, c) : r[i] = q[i]
  BY <1>1 DEF Executed
<1>5. /\ Executed(r, c) = Executed(q, c) \cup (IF kind = "tool_executed" THEN {Len(r)} ELSE {})
      /\ Refused(r, c) = Refused(q, c)
                           \cup (IF kind = "tool_rejected" THEN {Len(r)} ELSE {})
      /\ Answered(r, c) = Answered(q, c)
                            \cup (IF kind = "tool_observation" THEN {Len(r)} ELSE {})
  BY <1>1, <1>2 DEF Executed, Refused, Answered
<1> QED
  BY <1>1, <1>3, <1>4, <1>5

\* A violation points at an event of the log.
LEMMA MarksInLog ==
    ASSUME NEW q, NEW vs, Matched(q, vs)
    PROVE  Marks(vs, Early) \subseteq DOMAIN q
<1>1. Marks(vs, Early) \subseteq Marks(vs, Refusals) \cup Marks(vs, {"read_only_changed"})
  BY DEF Marks, Early, Refusals
<1> QED
  BY <1>1 DEF Matched, Where

\* A fresh call that is refused has a violation of its own, and has not run.
LEMMA EarlyRefusalAccount ==
    ASSUME NEW q \in Seq(LogEvents), NEW vs \in Seq(Findings), NEW e, NEW rule \in Early,
           NEW r, NEW ws, Adds(e, rule, q, vs, r, ws), NEW c,
           Mine("tool_rejected", c, e), Fresh(q, c)
    PROVE  Account(r, ws, c, "rejected")
<1>1. "tool_rejected" \in CallKinds
  BY DEF CallKinds, EventKinds
<1>2. /\ Executed(r, c) = {} /\ Refused(r, c) = {Len(r)} /\ Answered(r, c) = {}
  BY <1>1, MineAccount, SMTT(30) DEF Fresh
<1>3. Marks(ws, Early) = Marks(vs, Early) \cup (IF rule \in Early THEN {Len(r)} ELSE {})
  BY <1>1, MineAccount, SMTT(30)
<1>4. Len(r) \in Marks(ws, Early) \cap Refused(r, c)
  BY <1>2, <1>3
<1> QED
  BY <1>2, <1>4 DEF Account

\* A call that leaves the queue is told what happens to it.
LEMMA EnterAccount ==
    ASSUME TypeOK, NEW c \in Calls, Enter(c), ~EnterSealed(c),
           Account(events, violations, c, pc[c])
    PROVE  Account(events', violations', c, pc'[c])
<1>1. events \in Seq(LogEvents) /\ violations \in Seq(Findings)
  BY DEF TypeOK
<1>2. pc[c] = "waiting"
  BY EnterLogs
<1>3. PICK a, q : /\ Mine("tool_attempt", c, a)
                  /\ Adds(a, "none", events, violations, q, violations)
                  /\ AfterAttempt(c, q)
  BY EnterLogs
<1>4. Fresh(events, c)
  BY <1>2, FreshAccount
<1>5. \A k \in {"tool_attempt", "tool_rejected", "tool_fault", "tool_observation",
                "precondition_failed"} : k \in CallKinds
  BY DEF CallKinds, EventKinds
<1>6. Fresh(q, c) /\ q \in Seq(LogEvents)
  BY <1>1, <1>3, <1>4, <1>5, MineAccount, SMTT(30) DEF Fresh
<1>7. CASE pc'[c] = "rejected"
  <2>1. PICK e : /\ Mine("tool_rejected", c, e)
                 /\ Refusal(c) \in Early
                 /\ Adds(e, Refusal(c), q, violations, events', violations')
    BY <1>3, <1>7 DEF AfterAttempt
  <2>2. Account(events', violations', c, "rejected")
    BY <1>1, <1>6, <2>1, EarlyRefusalAccount
  <2> QED
    BY <1>7, <2>2
<1>8. CASE pc'[c] = "bad_arguments"
  <2>1. events' = q /\ violations' = violations
    BY <1>3, <1>8 DEF AfterAttempt
  <2> QED
    BY <1>6, <1>8, <2>1, FreshAccount
<1>9. CASE pc'[c] = "timeout"
  <2>1. PICK e : /\ Mine("tool_fault", c, e)
                 /\ Adds(e, "none", q, violations, events', violations')
    BY <1>3, <1>9 DEF AfterAttempt
  <2>2. Fresh(events', c)
    BY <1>1, <1>5, <1>6, <2>1, MineAccount, SMTT(30) DEF Fresh
  <2> QED
    BY <1>9, <2>2, FreshAccount
<1>10. CASE pc'[c] = "stale"
  <2>1. PICK e, r, o :
           /\ Mine("tool_fault", c, e)
           /\ Adds(e, "none", q, violations, r, violations)
           /\ Mine("tool_observation", c, o)
           /\ Adds(o, "none", r, violations, events', violations')
    BY <1>3, <1>10 DEF AfterAttempt
  <2>2. Fresh(r, c) /\ r \in Seq(LogEvents)
    BY <1>1, <1>5, <1>6, <2>1, MineAccount, SMTT(30) DEF Fresh
  <2>3. /\ Executed(events', c) = {} /\ Refused(events', c) = {}
        /\ Answered(events', c) = {Len(events')}
    BY <1>1, <1>5, <2>1, <2>2, MineAccount, SMTT(30) DEF Fresh
  <2> QED
    BY <1>10, <2>3 DEF Account
<1>11. CASE pc'[c] = "running"
  <2>1. \/ events' = q /\ violations' = violations
        \/ \E e : /\ Mine("precondition_failed", c, e)
                  /\ Adds(e, "none", q, violations, events', violations')
    BY <1>3, <1>11 DEF AfterAttempt
  <2>2. Fresh(events', c)
    BY <1>1, <1>5, <1>6, <2>1, MineAccount, SMTT(30) DEF Fresh
  <2> QED
    BY <1>11, <2>2, FreshAccount
<1> QED
  BY <1>3, <1>7, <1>8, <1>9, <1>10, <1>11 DEF AfterAttempt

\* So with a handler's end.
LEMMA EndHandlerAccount ==
    ASSUME TypeOK, NEW c \in Calls, EndHandler(c), Matched(events, violations),
           Account(events, violations, c, pc[c])
    PROVE  Account(events', violations', c, pc'[c])
<1>1. events \in Seq(LogEvents) /\ violations \in Seq(Findings)
  BY DEF TypeOK
<1>2. pc[c] = "running" /\ AfterHandler(c)
  BY EndHandlerLogs
<1>3. Fresh(events, c)
  BY <1>2, FreshAccount
<1>4. \A k \in {"tool_executed", "tool_rejected", "tool_fault", "tool_observation",
                "tool_error"} : k \in CallKinds
  BY DEF CallKinds, EventKinds
<1>5. CASE pc'[c] = "abandoned"
  <2>1. \/ events' = events /\ violations' = violations
        \/ \E e : /\ Mine("tool_error", c, e)
                  /\ Adds(e, "none", events, violations, events', violations')
    BY <1>2, <1>5 DEF AfterHandler, Verdicts
  <2>2. Fresh(events', c)
    BY <1>1, <1>3, <1>4, <2>1, MineAccount, SMTT(30) DEF Fresh
  <2> QED
    BY <1>5, <2>2, FreshAccount
<1>6. CASE pc'[c] \in {"error", "cancelled"}
  <2>1. PICK e, q, x : \E rule \in {"none", "read_only_changed"} :
             /\ Mine("tool_error", c, e)
             /\ Adds(e, "none", events, violations, q, violations)
             /\ Mine("tool_executed", c, x)
             /\ Adds(x, rule, q, violations, events', violations')
    BY <1>2, <1>6 DEF AfterHandler, Verdicts
  <2>2. Fresh(q, c) /\ q \in Seq(LogEvents)
    BY <1>1, <1>3, <1>4, <2>1, MineAccount, SMTT(30) DEF Fresh
  <2>3. /\ Executed(events', c) = {Len(events')} /\ Refused(events', c) = {}
        /\ Answered(events', c) = {}
    BY <1>1, <1>4, <2>1, <2>2, MineAccount, SMTT(30) DEF Fresh
  <2> QED
    BY <1>6, <2>3 DEF Account
<1>7. ASSUME NEW t \in Verdicts, pc'[c] = t[1]
      PROVE  Account(events', violations', c, pc'[c])
  <2>1. PICK x, q, vs, e : \E rule \in {"none", "read_only_changed"} :
                /\ Mine("tool_executed", c, x) /\ x.status = "completed"
                /\ Adds(x, rule, events, violations, q, vs)
                /\ Mine(t[2], c, e)
                /\ Adds(e, t[3], q, vs, events', violations')
    BY <1>2, <1>7 DEF AfterHandler, Verdicts
  <2>2. /\ Executed(q, c) = {Len(q)} /\ Refused(q, c) = {} /\ Answered(q, c) = {}
        /\ q \in Seq(LogEvents) /\ vs \in Seq(Findings) /\ q[Len(q)] = x
    BY <1>1, <1>3, <1>4, <2>1, MineAccount, SMTT(30) DEF Fresh
  <2>3. Matched(q, vs)
    BY <1>1, <2>1, AddsKeepMatched
  <2>4. Marks(vs, Early) \subseteq DOMAIN q
    BY <2>3, MarksInLog
  <2>5. Len(events') \notin DOMAIN q
    BY <2>1, <2>2, AddsOne
  <2>6. t[2] \in CallKinds /\ t[2] # "tool_executed"
    BY <1>4 DEF Verdicts
  <2>7. /\ Executed(events', c) = Executed(q, c)
        /\ Refused(events', c) = (IF t[2] = "tool_rejected" THEN {Len(events')} ELSE {})
        /\ Answered(events', c) =
              (IF t[2] = "tool_observation" THEN {Len(events')} ELSE {})
        /\ \A i \in Executed(q, c) : events'[i] = q[i]
        /\ Marks(violations', Early) =
              Marks(vs, Early) \cup (IF t[3] \in Early THEN {Len(events')} ELSE {})
    BY <2>1, <2>2, <2>6, MineAccount, SMTT(30)
  <2>8. t[3] \notin Early
    BY DEF Verdicts, Early, Rules
  <2>9. Marks(violations', Early) \cap Refused(events', c) = {}
    BY <2>4, <2>5, <2>7, <2>8
  <2>10. \E i \in Executed(events', c) : events'[i].status = "completed"
    BY <2>1, <2>2, <2>7
  <2>11. /\ \A i, j \in Executed(events', c) : i = j
         /\ Answered(events', c) # {} <=> pc'[c] \in {"result", "stale"}
    <3>1. \A i, j \in Executed(events', c) : i = j
      BY <2>2, <2>7
    <3>2. t[2] = "tool_observation" <=> pc'[c] \in {"result", "stale"}
      BY <1>7 DEF Verdicts
    <3> QED
      BY <2>7, <3>1, <3>2
  <2>12. pc'[c] \in {"rejected", "lost", "result"}
    BY <1>7 DEF Verdicts
  <2> QED
    BY <2>9, <2>10, <2>11, <2>12 DEF Account
<1> QED
  BY <1>2, <1>5, <1>6, <1>7 DEF AfterHandler

\* Every step of the port keeps every call's account true.
LEMMA NextAccounted ==
    ASSUME TypeOK, Matched(events, violations), Accounted, [PortNext]_portVars
    PROVE  Accounted'
<1>1. ASSUME NEW c \in Calls, CallStep(c)
      PROVE  Accounted'
  <2>1. StepOf(c) /\ DOMAIN pc = Calls
    BY <1>1, CallStepAdds DEF TypeOK
  <2>2. \A d \in Calls \ {c} : pc'[d] = pc[d]
    BY <1>1, <2>1 DEF CallStep, Issue, CancelWaiting, Enter, EnterSealed, Reject,
       BadArguments, TimeoutBefore, StaleRead, Start, HandlerWrite, EndHandler,
       HandlerRaises, BadResult, LoseResponse, Respond, EndAbandoned, Finish
  <2>3. \A d \in Calls \ {c} : Account(events', violations', d, pc[d])
    BY <2>1, StepKeepsAccount DEF Accounted
  <2>4. Account(events', violations', c, pc'[c])
    <3>1. Account(events, violations, c, pc[c])
      BY DEF Accounted
    <3>2. CASE \/ \E t \in Tools, a \in ArgumentKinds : Issue(c, t, a)
               \/ CancelWaiting(c) \/ EnterSealed(c)
      <4>1. /\ pc[c] \in {"idle", "waiting"} /\ pc'[c] \in {"waiting", "cancelled", "sealed"}
            /\ events' = events /\ violations' = violations
        BY <2>1, <3>2 DEF Issue, CancelWaiting, EnterSealed, Acquire
      <4>2. Fresh(events, c)
        BY <3>1, <4>1, FreshAccount
      <4> QED
        BY <4>1, <4>2, FreshAccount
    <3>3. CASE \E p \in Paths, v \in Values : HandlerWrite(c, p, v)
      BY <3>1, <3>3 DEF HandlerWrite
    <3> QED
      BY <1>1, <3>1, <3>2, <3>3, EnterAccount, EndHandlerAccount DEF CallStep, Enter
  <2> QED
    BY <2>2, <2>3, <2>4 DEF Accounted
<1>2. ASSUME NEW last \in AgentEnds, Seal(last)
      PROVE  Accounted'
  <2>1. UNCHANGED pc
    BY <1>2 DEF Seal
  <2>2. \A c : StepOf(c)
    BY <1>2, SealAdds
  <2>3. \A d \in Calls : Account(events', violations', d, pc[d])
    <3>1. TAKE d \in Calls
    <3>2. PICK c : c # d
      <4>1. d # {d} \/ d # {}
        OBVIOUS
      <4> QED
        BY <4>1
    <3> QED
      BY <2>2, <3>2, StepKeepsAccount DEF Accounted
  <2> QED
    BY <2>1, <2>3 DEF Accounted
<1>3. CASE UNCHANGED portVars
  BY <1>3 DEF portVars, Accounted
<1> QED
  BY <1>1, <1>2, <1>3 DEF PortNext

\* The violations match the log and every call's account is true, from the start.
LEMMA EvidenceInvariance ==
    PortSpec => [](TypeOK /\ Matched(events, violations) /\ Accounted)
<1>1. Init => Matched(events, violations) /\ Accounted
  <2> SUFFICES ASSUME Init PROVE Matched(events, violations) /\ Accounted
    OBVIOUS
  <2>1. events = <<>> /\ violations = <<>> /\ \A d \in Calls : pc[d] = "idle"
    BY DEF Init
  <2>2. \A d : Fresh(events, d)
    BY <2>1 DEF Fresh, Executed, Refused, Answered, Where
  <2>3. Accounted
    BY <2>1, <2>2, FreshAccount DEF Accounted
  <2> QED
    BY <2>3, InitMatched
<1>2. TypeOK /\ Matched(events, violations) /\ Accounted /\ [PortNext]_portVars
        => (Matched(events, violations) /\ Accounted)'
  BY NextMatched, NextAccounted
<1> QED
  BY <1>1, <1>2, Invariance, PTL DEF PortSpec

\* What the agent was told of a call is true of it, however its calls interleave:
\* a call that was refused, timed out or answered from the past did not run, one
\* that was answered, lost its response or had its result refused ran to its end
\* once, and the answer is in the log if and only if there was one.
THEOREM AnswersAreTrueAlways == PortSpec => []AnswersAreTrue
<1>1. TypeOK /\ Accounted => AnswersAreTrue
  <2> SUFFICES ASSUME TypeOK, Accounted, NEW c \in Calls
               PROVE  LET runs == Of("tool_executed", c)
                          ToldNotRun ==
                             \/ pc[c] \in {"timeout", "stale", "bad_arguments", "sealed"}
                             \/ pc[c] = "rejected" /\ \E v \in DOMAIN violations :
                                   /\ violations[v].rule # "result_schema"
                                   /\ violations[v].seq \in Of("tool_rejected", c)
                          ToldRun == pc[c] \in {"result", "lost", "rejected"} /\ ~ToldNotRun
                      IN  /\ Cardinality(runs) <= 1
                          /\ ToldNotRun => runs = {}
                          /\ ToldRun => \E i \in runs : events[i].status = "completed"
                          /\ Of("tool_observation", c) # {} <=> pc[c] \in {"result", "stale"}
    BY DEF AnswersAreTrue
  <2> DEFINE runs == Of("tool_executed", c)
             early == \E v \in DOMAIN violations :
                         /\ violations[v].rule # "result_schema"
                         /\ violations[v].seq \in Of("tool_rejected", c)
  <2>1. /\ events \in Seq(LogEvents) /\ violations \in Seq(Findings)
        /\ Account(events, violations, c, pc[c])
    BY DEF TypeOK, Accounted
  <2>2. /\ runs = Executed(events, c) /\ Of("tool_rejected", c) = Refused(events, c)
        /\ Of("tool_observation", c) = Answered(events, c)
    <3>1. \A i \in DOMAIN events : events[i] \in LogEvents
      BY <2>1
    <3> QED
      BY <3>1 DEF Executed, Refused, Answered, Where, Own, Kind, Of, At
  <2>3. early <=> Marks(violations, Early) \cap Refused(events, c) # {}
    <3>1. \A v \in DOMAIN violations : violations[v].rule \in Rules
      <4>1. \A v \in DOMAIN violations : violations[v] \in Findings
        BY <2>1
      <4> QED
        BY <4>1 DEF Findings
    <3> QED
      BY <2>2, <3>1 DEF Marks, Early
  <2>4. Cardinality(runs) <= 1
    <3>1. CASE runs = {}
      BY <3>1, FS_EmptySet
    <3>2. ASSUME NEW i \in runs
          PROVE  Cardinality(runs) = 1
      <4>1. runs = {i}
        BY <2>1, <2>2, <3>2 DEF Account
      <4> QED
        BY <4>1, FS_Singleton
    <3> QED
      BY <3>1, <3>2
  <2> HIDE DEF runs, early
  <2>5. pc[c] \in {"timeout", "stale", "bad_arguments", "sealed"} => runs = {}
    BY <2>1, <2>2 DEF Account
  <2>6. pc[c] = "rejected" /\ early => runs = {}
    BY <2>1, <2>2, <2>3 DEF Account
  <2>7. ASSUME pc[c] \in {"result", "lost"} \/ (pc[c] = "rejected" /\ ~early)
        PROVE  \E i \in runs : events[i].status = "completed"
    BY <2>7, <2>1, <2>2, <2>3 DEF Account
  <2>8. Of("tool_observation", c) # {} <=> pc[c] \in {"result", "stale"}
    BY <2>1, <2>2 DEF Account
  <2> DEFINE toldNotRun == \/ pc[c] \in {"timeout", "stale", "bad_arguments", "sealed"}
                           \/ pc[c] = "rejected" /\ early
  <2>9. toldNotRun => runs = {}
    BY <2>5, <2>6
  <2>10. pc[c] \in {"result", "lost", "rejected"} /\ ~toldNotRun
           => \E i \in runs : events[i].status = "completed"
    <3>1. SUFFICES ASSUME pc[c] \in {"result", "lost", "rejected"}, ~toldNotRun
                   PROVE  \E i \in runs : events[i].status = "completed"
      OBVIOUS
    <3>2. pc[c] = "rejected" => ~early
      BY <3>1, Zenon
    <3>3. pc[c] \in {"result", "lost"} \/ pc[c] = "rejected"
      BY <3>1
    <3> QED
      BY <2>7, <3>2, <3>3, Zenon
  <2> HIDE DEF toldNotRun
  <2>11. /\ Cardinality(runs) <= 1
         /\ toldNotRun => runs = {}
         /\ pc[c] \in {"result", "lost", "rejected"} /\ ~toldNotRun
                => \E i \in runs : events[i].status = "completed"
         /\ Of("tool_observation", c) # {} <=> pc[c] \in {"result", "stale"}
    BY <2>4, <2>8, <2>9, <2>10
  <2> QED
    BY <2>11, Zenon DEF runs, early, toldNotRun
<1> QED
  BY <1>1, EvidenceInvariance, PTL

-----------------------------------------------------------------------------
\* The attempts are numbered one by one.

\* The attempts of one tool.
Tries(t) == {e \in Kind("tool_attempt") : e.tool = t}

\* n counts the attempts of each tool in the log q, and the number of each of them
\* is that of the attempts of its tool up to it.
Numbered(q, n) ==
    /\ \A t \in Tools : n[t] = Cardinality(Where(q, Tries(t)))
    /\ \A i \in Where(q, Kind("tool_attempt")) :
          q[i].number = Cardinality({j \in Where(q, Tries(q[i].tool)) : j <= i})

\* Events of other kinds leave the numbers as they are.
LEMMA PlainKeepsNumbered ==
    ASSUME NEW q \in Seq(LogEvents), NEW e \in LogEvents, e.kind # "tool_attempt",
           NEW r, r = Append(q, e), NEW n, Numbered(q, n)
    PROVE  r \in Seq(LogEvents) /\ Numbered(r, n)
<1>1. /\ r \in Seq(LogEvents)
      /\ \A E : Where(r, E) = Where(q, E) \cup (IF e \in E THEN {Len(q) + 1} ELSE {})
      /\ \A i \in DOMAIN q : r[i] = q[i]
  BY WhereAppend
<1>2. e \notin Kind("tool_attempt") /\ \A t : e \notin Tries(t)
  BY DEF Tries, Kind
<1>3. /\ Where(r, Kind("tool_attempt")) = Where(q, Kind("tool_attempt"))
      /\ \A t : Where(r, Tries(t)) = Where(q, Tries(t))
  BY <1>1, <1>2
<1>4. \A i \in Where(q, Kind("tool_attempt")) : i \in DOMAIN q /\ r[i] = q[i]
  BY <1>1 DEF Where
<1> QED
  BY <1>1, <1>3, <1>4 DEF Numbered

\* The next attempt of a tool carries its next number.
LEMMA AttemptNumbered ==
    ASSUME NEW q \in Seq(LogEvents), NEW e \in LogEvents, e.kind = "tool_attempt",
           NEW n \in [Tools -> Nat], e.tool \in Tools, e.number = n[e.tool] + 1,
           NEW r, r = Append(q, e), Numbered(q, n)
    PROVE  r \in Seq(LogEvents) /\ Numbered(r, [n EXCEPT ![e.tool] = @ + 1])
<1> DEFINE k == Len(q) + 1
           m == [n EXCEPT ![e.tool] = @ + 1]
<1>1. /\ r \in Seq(LogEvents) /\ Len(r) = k /\ DOMAIN q = 1..Len(q) /\ Len(q) \in Nat
      /\ \A E : Where(r, E) = Where(q, E) \cup (IF e \in E THEN {k} ELSE {})
      /\ \A i \in DOMAIN q : r[i] = q[i]
      /\ r[k] = e
  BY WhereAppend
<1>2. e \in Kind("tool_attempt") /\ \A t : e \in Tries(t) <=> t = e.tool
  BY DEF Tries, Kind
<1>3. \A t \in Tools : Cardinality(Where(r, Tries(t))) =
         Cardinality(Where(q, Tries(t))) + (IF e \in Tries(t) THEN 1 ELSE 0)
  BY CountAppend
<1>4. \A t \in Tools : m[t] = Cardinality(Where(r, Tries(t)))
  <2>1. TAKE t \in Tools
  <2>2. n[t] = Cardinality(Where(q, Tries(t))) /\ n[t] \in Nat
    BY DEF Numbered
  <2>3. m[t] = n[t] + (IF t = e.tool THEN 1 ELSE 0)
    BY <2>2
  <2> QED
    BY <1>2, <1>3, <2>2, <2>3
<1>5. ASSUME NEW i \in Where(r, Kind("tool_attempt"))
      PROVE  r[i].number = Cardinality({j \in Where(r, Tries(r[i].tool)) : j <= i})
  <2>1. CASE i \in Where(q, Kind("tool_attempt"))
    <3>1. i \in DOMAIN q /\ r[i] = q[i]
      BY <1>1, <2>1 DEF Where
    <3>2. \A t : {j \in Where(r, Tries(t)) : j <= i} = {j \in Where(q, Tries(t)) : j <= i}
      <4>1. i \in Nat /\ ~(k <= i)
        BY <1>1, <3>1
      <4>2. \A t : Where(r, Tries(t)) =
                     Where(q, Tries(t)) \cup (IF e \in Tries(t) THEN {k} ELSE {})
        BY <1>1
      <4> HIDE DEF k
      <4> QED
        BY <4>1, <4>2
    <3>3. {j \in Where(r, Tries(r[i].tool)) : j <= i} =
             {j \in Where(q, Tries(q[i].tool)) : j <= i}
      BY <3>1, <3>2, Zenon
    <3> QED
      BY <2>1, <3>1, <3>3 DEF Numbered
  <2>2. CASE i = k
    <3>1. r[i] = e
      BY <1>1, <2>2
    <3>2. Where(r, Tries(e.tool)) \subseteq 1..k
      BY <1>1 DEF Where
    <3>3. {j \in Where(r, Tries(e.tool)) : j <= i} = Where(r, Tries(e.tool))
      BY <1>1, <2>2, <3>2
    <3>4. r[i].number = m[e.tool]
      BY <3>1
    <3> QED
      BY <1>4, <3>1, <3>3, <3>4
  <2> QED
    BY <1>1, <2>1, <2>2
<1> QED
  BY <1>1, <1>4, <1>5 DEF Numbered

\* So a call's own event of another kind keeps the numbers.
LEMMA MineKeepsNumbered ==
    ASSUME NEW q \in Seq(LogEvents), NEW e, NEW rule, NEW vs, NEW r, NEW ws,
           Adds(e, rule, q, vs, r, ws), NEW c, NEW kind, kind # "tool_attempt",
           Mine(kind, c, e), NEW n, Numbered(q, n)
    PROVE  r \in Seq(LogEvents) /\ Numbered(r, n)
<1>1. e \in LogEvents /\ e.kind # "tool_attempt" /\ r = Append(q, e)
  BY DEF Mine, Own, Kind, Adds
<1> QED
  BY <1>1, PlainKeepsNumbered

\* A call that leaves the queue takes the next number of its tool.
LEMMA EnterNumbered ==
    ASSUME TypeOK, NEW c \in Calls, Enter(c), ~EnterSealed(c), Numbered(events, counts)
    PROVE  Numbered(events', counts')
<1>1. events \in Seq(LogEvents) /\ counts \in [Tools -> Nat] /\ request[c].tool \in Tools
  BY DEF TypeOK
<1>2. PICK a, q : /\ Mine("tool_attempt", c, a)
                  /\ Adds(a, "none", events, violations, q, violations)
                  /\ AfterAttempt(c, q)
  BY EnterLogs
<1>3. /\ Admit(c) /\ number'[c] = CallNumber(c)
  BY EnterLogs, AdmitAdds
<1>4. counts' = [counts EXCEPT ![request[c].tool] = @ + 1]
  BY <1>3 DEF Admit
<1>5. /\ a \in LogEvents /\ a.kind = "tool_attempt" /\ a.tool = request[c].tool
      /\ a.number = counts[a.tool] + 1 /\ q = Append(events, a)
  BY <1>2, <1>3 DEF Mine, Own, Kind, Adds, CallNumber
<1>6. q \in Seq(LogEvents) /\ Numbered(q, [counts EXCEPT ![a.tool] = @ + 1])
  BY <1>1, <1>5, AttemptNumbered
<1> DEFINE n == [counts EXCEPT ![a.tool] = @ + 1]
<1>7. counts' = n /\ Numbered(q, n)
  BY <1>4, <1>5, <1>6
<1> HIDE DEF n
<1>8. CASE events' = q
  BY <1>7, <1>8
<1>9. ASSUME NEW e, NEW rule, NEW kind \in CallKinds \ {"tool_attempt"},
             Mine(kind, c, e),
             Adds(e, rule, q, violations, events', violations')
      PROVE  Numbered(events', counts')
  <2>1. Numbered(events', n)
    BY <1>6, <1>7, <1>9, MineKeepsNumbered
  <2> QED
    BY <1>7, <2>1
<1>10. CASE pc'[c] = "stale"
  <2>1. PICK e, r, o :
           /\ Mine("tool_fault", c, e)
           /\ Adds(e, "none", q, violations, r, violations)
           /\ Mine("tool_observation", c, o)
           /\ Adds(o, "none", r, violations, events', violations')
    BY <1>2, <1>10 DEF AfterAttempt
  <2>2. r \in Seq(LogEvents) /\ Numbered(r, n)
    BY <1>6, <1>7, <2>1, MineKeepsNumbered
  <2>3. Numbered(events', n)
    BY <2>1, <2>2, MineKeepsNumbered
  <2> QED
    BY <1>7, <2>3
<1>11. \A k \in {"tool_rejected", "tool_fault", "precondition_failed"} :
          k \in CallKinds \ {"tool_attempt"}
  BY DEF CallKinds, EventKinds
<1> QED
  BY <1>2, <1>8, <1>9, <1>10, <1>11 DEF AfterAttempt

\* A handler's end numbers nothing.
LEMMA EndHandlerNumbered ==
    ASSUME TypeOK, NEW c \in Calls, EndHandler(c), Numbered(events, counts)
    PROVE  Numbered(events', counts')
<1>1. events \in Seq(LogEvents)
  BY DEF TypeOK
<1>2. AfterHandler(c) /\ counts' = counts
  BY EndHandlerLogs
<1>3. CASE events' = events
  BY <1>2, <1>3
<1>4. ASSUME NEW e, Mine("tool_error", c, e),
             Adds(e, "none", events, violations, events', violations')
      PROVE  Numbered(events', counts')
  <2>1. Numbered(events', counts)
    BY <1>1, <1>4, MineKeepsNumbered
  <2> QED
    BY <1>2, <2>1
<1>5. ASSUME NEW x, NEW q, NEW vs, NEW e, NEW k1, NEW k2, NEW r1, NEW r2,
             k1 # "tool_attempt", k2 # "tool_attempt",
             Mine(k1, c, x), Adds(x, r1, events, violations, q, vs),
             Mine(k2, c, e), Adds(e, r2, q, vs, events', violations')
      PROVE  Numbered(events', counts')
  <2>1. q \in Seq(LogEvents) /\ Numbered(q, counts)
    BY <1>1, <1>5, MineKeepsNumbered
  <2>2. Numbered(events', counts)
    BY <1>5, <2>1, MineKeepsNumbered
  <2> QED
    BY <1>2, <2>2
<1>6. \A t \in Verdicts : t[2] # "tool_attempt"
  BY DEF Verdicts
<1> QED
  BY <1>2, <1>3, <1>4, <1>5, <1>6 DEF AfterHandler

\* Nor does the end of the run.
LEMMA SealNumbered ==
    ASSUME TypeOK, NEW last \in AgentEnds, Seal(last), Numbered(events, counts)
    PROVE  Numbered(events', counts')
<1>1. events \in Seq(LogEvents) /\ events' = events \o last /\ counts' = counts
  BY DEF TypeOK, Seal
<1>2. CASE last = <<>>
  BY <1>1, <1>2
<1>3. ASSUME NEW kind \in {"agent_output", "agent_error"}, last = <<AgentEvent(kind)>>
      PROVE  Numbered(events', counts')
  <2> DEFINE e == AgentEvent(kind)
  <2>1. e \in LogEvents /\ e.kind # "tool_attempt"
    BY DEF AgentEvent, LogEvents
  <2> HIDE DEF e
  <2>2. events' = Append(events, e)
    BY <1>1, <1>3, <2>1, AppendIsConcat DEF e
  <2>3. Numbered(events', counts)
    BY <1>1, <2>1, <2>2, PlainKeepsNumbered
  <2> QED
    BY <1>1, <2>3
<1> QED
  BY <1>2, <1>3 DEF AgentEnds

\* Every step keeps the numbers.
LEMMA NextNumbered ==
    ASSUME TypeOK, Numbered(events, counts), [PortNext]_portVars
    PROVE  Numbered(events, counts)'
<1>1. ASSUME NEW c \in Calls, CallStep(c)
      PROVE  Numbered(events', counts')
  <2>1. CASE Enter(c) /\ ~EnterSealed(c)
    BY <2>1, EnterNumbered
  <2>2. CASE EndHandler(c)
    BY <2>2, EndHandlerNumbered
  <2>3. CASE UNCHANGED <<events, counts>>
    BY <2>3
  <2> QED
    BY <1>1, <2>1, <2>2, <2>3
       DEF CallStep, Issue, CancelWaiting, Enter, EnterSealed, HandlerWrite
<1>2. CASE UNCHANGED portVars
  BY <1>2 DEF portVars
<1> QED
  BY <1>1, <1>2, SealNumbered DEF PortNext

-----------------------------------------------------------------------------
\* Each call is numbered once, and its fault is the one planned for its number.

Tried(q, d) == Where(q, Own("tool_attempt", d))
FaultsOf(q, d) == Where(q, Own("tool_fault", d))

\* What the log q says of a call d that is or ended as o, and that called the tool t
\* as its n-th attempt.
Record(q, d, o, t, n) ==
    /\ o \in {"idle", "waiting"} => n = 0 /\ Tried(q, d) = {}
    /\ o = "running" => n > 0 /\ Tried(q, d) # {}
    /\ o \in {"idle", "waiting", "running"} => FaultsOf(q, d) = {}
    /\ \A i, j \in FaultsOf(q, d) : i = j
    /\ \A i \in FaultsOf(q, d) :
          /\ q[i].tool = t /\ q[i].number = n
          /\ \E f \in Faults : f.tool = t /\ f.on_call = n

OnRecord == \A d \in Calls : Record(events, d, pc[d], request[d].tool, number[d])

\* No two calls have the same number of the same tool.
NumbersDistinct ==
    \A c, d \in Calls :
        /\ number[c] <= counts[request[c].tool]
        /\ c # d /\ request[c].tool = request[d].tool /\ number[c] = number[d]
              => number[c] = 0

\* The own events of a call are the same in both logs.
OwnKept(q, r, d) ==
    \A k \in CallKinds : /\ Where(r, Own(k, d)) = Where(q, Own(k, d))
                         /\ \A i \in Where(q, Own(k, d)) : r[i] = q[i]

\* An event that is not the call's own leaves its events as they are.
LEMMA AtMostOneKeepsOwn ==
    ASSUME NEW c, NEW q \in Seq(LogEvents), NEW vs \in Seq(Findings),
           NEW r, NEW ws, AtMostOne(c, q, vs, r, ws), NEW d \in Calls \ {c}
    PROVE  OwnKept(q, r, d)
<1>1. CASE r = q
  BY <1>1 DEF OwnKept
<1>2. ASSUME NEW e, NEW rule, Adds(e, rule, q, vs, r, ws), OfNoOther(c, e)
      PROVE  OwnKept(q, r, d)
  <2>1. /\ \A E : Where(r, E) = Where(q, E) \cup (IF e \in E THEN {Len(r)} ELSE {})
        /\ \A E : Where(q, E) \subseteq DOMAIN q
        /\ \A i \in DOMAIN q : r[i] = q[i]
    BY <1>2, AddsOne
  <2>2. \A k \in CallKinds : e \notin Own(k, d)
    BY <1>2 DEF OfNoOther
  <2> QED
    BY <2>1, <2>2 DEF OwnKept
<1> QED
  BY <1>1, <1>2 DEF AtMostOne

\* Nor does a step of another call.
LEMMA StepKeepsOwn ==
    ASSUME TypeOK, NEW c, StepOf(c), NEW d \in Calls \ {c}
    PROVE  OwnKept(events, events', d)
<1>1. events \in Seq(LogEvents) /\ violations \in Seq(Findings)
  BY DEF TypeOK
<1>2. PICK q1 \in Seq(LogEvents), q2 \in Seq(LogEvents),
           v1 \in Seq(Findings), v2 \in Seq(Findings) :
              /\ AtMostOne(c, events, violations, q1, v1)
              /\ AtMostOne(c, q1, v1, q2, v2)
              /\ AtMostOne(c, q2, v2, events', violations')
  BY DEF StepOf
<1>3. OwnKept(events, q1, d)
  BY <1>1, <1>2, AtMostOneKeepsOwn
<1>4. OwnKept(q1, q2, d)
  BY <1>2, AtMostOneKeepsOwn
<1>5. OwnKept(q2, events', d)
  BY <1>2, AtMostOneKeepsOwn
<1> QED
  BY <1>3, <1>4, <1>5 DEF OwnKept

\* What is kept of a call's events keeps its record.
LEMMA OwnKeptRecord ==
    ASSUME NEW q, NEW r, NEW d, OwnKept(q, r, d), NEW o, NEW t, NEW n,
           Record(q, d, o, t, n)
    PROVE  Record(r, d, o, t, n)
<1>1. "tool_attempt" \in CallKinds /\ "tool_fault" \in CallKinds
  BY DEF CallKinds, EventKinds
<1>2. /\ Tried(r, d) = Tried(q, d) /\ FaultsOf(r, d) = FaultsOf(q, d)
      /\ \A i \in FaultsOf(q, d) : r[i] = q[i]
  BY <1>1 DEF OwnKept, Tried, FaultsOf
<1> QED
  BY <1>2 DEF Record

\* A call's own event is one more of its kind.
LEMMA MineOwn ==
    ASSUME NEW q \in Seq(LogEvents), NEW vs \in Seq(Findings), NEW e, NEW rule,
           NEW r, NEW ws, Adds(e, rule, q, vs, r, ws), NEW c, NEW kind,
           Mine(kind, c, e)
    PROVE  /\ r \in Seq(LogEvents) /\ ws \in Seq(Findings)
           /\ Tried(r, c) = Tried(q, c) \cup (IF kind = "tool_attempt" THEN {Len(r)} ELSE {})
           /\ FaultsOf(r, c) = FaultsOf(q, c)
                                 \cup (IF kind = "tool_fault" THEN {Len(r)} ELSE {})
           /\ \A i \in FaultsOf(q, c) : r[i] = q[i]
           /\ r[Len(r)] = e
<1>1. /\ r \in Seq(LogEvents) /\ ws \in Seq(Findings)
      /\ \A E : Where(r, E) = Where(q, E) \cup (IF e \in E THEN {Len(r)} ELSE {})
      /\ \A E : Where(q, E) \subseteq DOMAIN q
      /\ \A i \in DOMAIN q : r[i] = q[i]
      /\ r[Len(r)] = e
  BY AddsOne
<1>2. \A k : e \in Own(k, c) <=> k = kind
  BY DEF Mine, Own, Kind
<1>3. \A i \in FaultsOf(q, c) : r[i] = q[i]
  BY <1>1 DEF FaultsOf
<1>4. /\ Tried(r, c) = Tried(q, c) \cup (IF kind = "tool_attempt" THEN {Len(r)} ELSE {})
      /\ FaultsOf(r, c) = FaultsOf(q, c)
                            \cup (IF kind = "tool_fault" THEN {Len(r)} ELSE {})
  BY <1>1, <1>2 DEF Tried, FaultsOf
<1> QED
  BY <1>1, <1>3, <1>4

\* A planned fault has the call's tool and number.
LEMMA PlannedFault ==
    ASSUME NEW c, NEW n, NEW kind, Planned(c, n, kind)
    PROVE  \E f \in Faults : f.tool = request[c].tool /\ f.on_call = n
<1> DEFINE f == [tool |-> request[c].tool, on_call |-> n, kind |-> kind]
<1>1. f \in Faults /\ f.tool = request[c].tool /\ f.on_call = n
  BY DEF Planned
<1> QED
  BY <1>1

\* A call that leaves the queue is recorded with its number.
LEMMA EnterRecord ==
    ASSUME TypeOK, NEW c \in Calls, Enter(c), ~EnterSealed(c), OnRecord
    PROVE  Record(events', c, pc'[c], request[c].tool, number'[c])
<1> DEFINE t == request[c].tool
           n == number'[c]
<1>1. events \in Seq(LogEvents) /\ violations \in Seq(Findings)
  BY DEF TypeOK
<1>2. PICK a, q : /\ Mine("tool_attempt", c, a)
                  /\ Adds(a, "none", events, violations, q, violations)
                  /\ AfterAttempt(c, q)
  BY EnterLogs
<1>3. pc[c] = "waiting" /\ Admit(c)
  BY EnterLogs
<1>4. n \in Nat /\ n > 0
  BY <1>3, AdmitAdds DEF CallNumber, TypeOK
<1>5. Tried(events, c) = {} /\ FaultsOf(events, c) = {}
  BY <1>3 DEF OnRecord, Record
<1>6. q \in Seq(LogEvents) /\ Tried(q, c) = {Len(q)} /\ FaultsOf(q, c) = {}
  BY <1>1, <1>2, <1>5, MineOwn, SMTT(30)
<1> HIDE DEF n
<1>7. ASSUME NEW r, Tried(r, c) = {Len(q)}, FaultsOf(r, c) = {},
             NEW o \in {"rejected", "bad_arguments", "running"}
      PROVE  Record(r, c, o, t, n)
  BY <1>4, <1>7 DEF Record
<1>8. ASSUME NEW e, NEW rule, NEW kind \in {"tool_rejected", "precondition_failed"},
             Mine(kind, c, e), Adds(e, rule, q, violations, events', violations')
      PROVE  Tried(events', c) = {Len(q)} /\ FaultsOf(events', c) = {}
  BY <1>1, <1>6, <1>8, MineOwn, SMTT(30)
<1>9. CASE pc'[c] = "rejected"
  <2>1. \E e, rule : /\ Mine("tool_rejected", c, e)
                     /\ Adds(e, rule, q, violations, events', violations')
    BY <1>2, <1>9 DEF AfterAttempt
  <2>2. Tried(events', c) = {Len(q)} /\ FaultsOf(events', c) = {}
    BY <1>8, <2>1
  <2>3. Record(events', c, "rejected", t, n)
    BY <1>7, <2>2
  <2> QED
    BY <1>9, <2>3 DEF n
<1>10. CASE pc'[c] = "bad_arguments"
  <2>1. events' = q
    BY <1>2, <1>10 DEF AfterAttempt
  <2>2. Record(events', c, "bad_arguments", t, n)
    BY <1>6, <1>7, <2>1
  <2> QED
    BY <1>10, <2>2 DEF n
<1>11. CASE pc'[c] = "running"
  <2>1. \/ events' = q
        \/ \E e, rule : /\ Mine("precondition_failed", c, e)
                        /\ Adds(e, rule, q, violations, events', violations')
    BY <1>2, <1>11 DEF AfterAttempt
  <2>2. Tried(events', c) = {Len(q)} /\ FaultsOf(events', c) = {}
    BY <1>6, <1>8, <2>1
  <2>3. Record(events', c, "running", t, n)
    BY <1>7, <2>2
  <2> QED
    BY <1>11, <2>3 DEF n
<1>12. ASSUME NEW e, NEW r, NEW ws, Mine("tool_fault", c, e),
              Adds(e, "none", q, violations, r, ws)
       PROVE  /\ r \in Seq(LogEvents) /\ ws \in Seq(Findings)
              /\ FaultsOf(r, c) = {Len(r)}
              /\ r[Len(r)].tool = t /\ r[Len(r)].number = n
  <2>1. /\ r \in Seq(LogEvents) /\ ws \in Seq(Findings)
        /\ FaultsOf(r, c) = {Len(r)} /\ r[Len(r)] = e
    BY <1>1, <1>6, <1>12, MineOwn, SMTT(30)
  <2>2. e.tool = t /\ e.number = n
    BY <1>12 DEF Mine, n
  <2> QED
    BY <2>1, <2>2
<1>13. CASE pc'[c] = "timeout"
  <2>1. Planned(c, n, "timeout_before")
    BY <1>2, <1>13 DEF AfterAttempt, n
  <2>2. \E f \in Faults : f.tool = t /\ f.on_call = n
    BY <2>1, PlannedFault
  <2>3. PICK e : /\ Mine("tool_fault", c, e)
                 /\ Adds(e, "none", q, violations, events', violations')
    BY <1>2, <1>13 DEF AfterAttempt
  <2>4. /\ FaultsOf(events', c) = {Len(events')}
        /\ events'[Len(events')].tool = t /\ events'[Len(events')].number = n
    BY <1>12, <2>3
  <2>5. Record(events', c, "timeout", t, n)
    BY <2>2, <2>4 DEF Record
  <2> QED
    BY <1>13, <2>5 DEF n
<1>14. CASE pc'[c] = "stale"
  <2>1. Planned(c, n, "stale_read")
    BY <1>2, <1>14 DEF AfterAttempt, n
  <2>2. \E f \in Faults : f.tool = t /\ f.on_call = n
    BY <2>1, PlannedFault
  <2>3. PICK e, r, o :
           /\ Mine("tool_fault", c, e)
           /\ Adds(e, "none", q, violations, r, violations)
           /\ Mine("tool_observation", c, o)
           /\ Adds(o, "none", r, violations, events', violations')
    BY <1>2, <1>14 DEF AfterAttempt
  <2>4. /\ r \in Seq(LogEvents) /\ FaultsOf(r, c) = {Len(r)}
        /\ r[Len(r)].tool = t /\ r[Len(r)].number = n
    BY <1>12, <2>3
  <2>5. FaultsOf(events', c) = FaultsOf(r, c) /\ \A i \in FaultsOf(r, c) : events'[i] = r[i]
    BY <1>1, <2>3, <2>4, MineOwn, SMTT(30)
  <2>6. Record(events', c, "stale", t, n)
    BY <2>2, <2>4, <2>5 DEF Record
  <2> QED
    BY <1>14, <2>6 DEF n
<1> QED
  BY <1>2, <1>9, <1>10, <1>11, <1>13, <1>14 DEF AfterAttempt

\* So is the end of its handler.
LEMMA EndHandlerRecord ==
    ASSUME TypeOK, NEW c \in Calls, EndHandler(c), OnRecord
    PROVE  Record(events', c, pc'[c], request[c].tool, number[c])
<1> DEFINE t == request[c].tool
           n == number[c]
<1>1. events \in Seq(LogEvents) /\ violations \in Seq(Findings)
  BY DEF TypeOK
<1>2. pc[c] = "running" /\ AfterHandler(c) /\ number' = number
  BY EndHandlerLogs
<1>3. FaultsOf(events, c) = {}
  BY <1>2 DEF OnRecord, Record
<1>4. ASSUME NEW o \in {"abandoned", "error", "cancelled", "rejected", "result"},
             FaultsOf(events', c) = {}
      PROVE  Record(events', c, o, t, n)
  BY <1>4 DEF Record
<1>5. CASE pc'[c] = "abandoned"
  <2>1. \/ events' = events
        \/ \E e : /\ Mine("tool_error", c, e)
                  /\ Adds(e, "none", events, violations, events', violations')
    BY <1>2, <1>5 DEF AfterHandler, Verdicts
  <2>2. FaultsOf(events', c) = {}
    BY <1>1, <1>3, <2>1, MineOwn, SMTT(30)
  <2> QED
    BY <1>4, <1>5, <2>2
<1>6. CASE pc'[c] \in {"error", "cancelled"}
  <2>1. PICK e, q, x : \E rule \in {"none", "read_only_changed"} :
             /\ Mine("tool_error", c, e)
             /\ Adds(e, "none", events, violations, q, violations)
             /\ Mine("tool_executed", c, x)
             /\ Adds(x, rule, q, violations, events', violations')
    BY <1>2, <1>6 DEF AfterHandler, Verdicts
  <2>2. q \in Seq(LogEvents) /\ FaultsOf(q, c) = {}
    BY <1>1, <1>3, <2>1, MineOwn, SMTT(30)
  <2>3. FaultsOf(events', c) = {}
    BY <1>1, <2>1, <2>2, MineOwn, SMTT(30)
  <2> QED
    BY <1>4, <1>6, <2>3
<1>7. ASSUME NEW v \in Verdicts, pc'[c] = v[1],
             v[1] = "lost" => Planned(c, number'[c], "response_lost_after_commit"),
             NEW x, NEW q, NEW vs, NEW e, NEW rule,
             Mine("tool_executed", c, x), Adds(x, rule, events, violations, q, vs),
             Mine(v[2], c, e), Adds(e, v[3], q, vs, events', violations')
      PROVE  Record(events', c, pc'[c], t, n)
  <2>1. q \in Seq(LogEvents) /\ vs \in Seq(Findings) /\ FaultsOf(q, c) = {}
    BY <1>1, <1>3, <1>7, MineOwn, SMTT(30)
  <2>2. /\ FaultsOf(events', c) = (IF v[2] = "tool_fault" THEN {Len(events')} ELSE {})
        /\ events'[Len(events')] = e
    BY <1>7, <2>1, MineOwn, SMTT(30)
  <2>3. CASE v[1] = "lost"
    <3>1. v[2] = "tool_fault"
      BY <2>3 DEF Verdicts
    <3>2. e.tool = t /\ e.number = n
      BY <1>2, <1>7 DEF Mine
    <3>3. Planned(c, n, "response_lost_after_commit")
      BY <1>2, <1>7, <2>3
    <3>4. \E f \in Faults : f.tool = t /\ f.on_call = n
      BY <3>3, PlannedFault
    <3>5. Record(events', c, "lost", t, n)
      BY <2>2, <3>1, <3>2, <3>4 DEF Record
    <3> QED
      BY <1>7, <2>3, <3>5
  <2>4. CASE v[1] # "lost"
    <3>1. v[2] # "tool_fault" /\ v[1] \in {"rejected", "result"}
      BY <2>4 DEF Verdicts
    <3> QED
      BY <1>4, <1>7, <2>2, <3>1
  <2> QED
    BY <2>3, <2>4
<1> QED
  BY <1>2, <1>5, <1>6, <1>7 DEF AfterHandler

\* Every step keeps every call's record.
LEMMA NextOnRecord ==
    ASSUME TypeOK, OnRecord, [PortNext]_portVars
    PROVE  OnRecord'
<1>1. ASSUME NEW c \in Calls, CallStep(c)
      PROVE  OnRecord'
  <2>1. StepOf(c) /\ DOMAIN pc = Calls /\ DOMAIN request = Calls /\ DOMAIN number = Calls
    BY <1>1, CallStepAdds DEF TypeOK
  <2>2. \A d \in Calls \ {c} :
           pc'[d] = pc[d] /\ request'[d] = request[d] /\ number'[d] = number[d]
    BY <1>1, <2>1 DEF CallStep, Issue, CancelWaiting, Enter, EnterSealed, Reject,
       BadArguments, TimeoutBefore, StaleRead, Start, Permitted, Admit, HandlerWrite,
       EndHandler, HandlerRaises, BadResult, LoseResponse, Respond, EndAbandoned, Finish
  <2>3. \A d \in Calls \ {c} :
           Record(events', d, pc'[d], request'[d].tool, number'[d])
    <3>1. TAKE d \in Calls \ {c}
    <3>2. Record(events, d, pc[d], request[d].tool, number[d])
      BY DEF OnRecord
    <3>3. OwnKept(events, events', d)
      BY <2>1, StepKeepsOwn
    <3>4. Record(events', d, pc[d], request[d].tool, number[d])
      BY <3>2, <3>3, OwnKeptRecord
    <3> QED
      BY <2>2, <3>4
  <2>4. Record(events', c, pc'[c], request'[c].tool, number'[c])
    <3>1. Record(events, c, pc[c], request[c].tool, number[c])
      BY DEF OnRecord
    <3>2. CASE \/ \E t \in Tools, a \in ArgumentKinds : Issue(c, t, a)
               \/ CancelWaiting(c) \/ EnterSealed(c)
      <4>1. /\ pc[c] \in {"idle", "waiting"} /\ pc'[c] \in {"waiting", "cancelled", "sealed"}
            /\ events' = events /\ number' = number
        BY <2>1, <3>2 DEF Issue, CancelWaiting, EnterSealed, Acquire
      <4> QED
        BY <3>1, <4>1 DEF Record
    <3>3. CASE \E p \in Paths, v \in Values : HandlerWrite(c, p, v)
      BY <3>1, <3>3 DEF HandlerWrite
    <3>4. CASE Enter(c) /\ ~EnterSealed(c)
      <4>1. request' = request
        BY <3>4, EnterLogs DEF Admit
      <4> QED
        BY <3>4, <4>1, EnterRecord
    <3>5. CASE EndHandler(c)
      BY <3>5, EndHandlerRecord, EndHandlerLogs
    <3> QED
      BY <1>1, <3>2, <3>3, <3>4, <3>5 DEF CallStep, Enter
  <2> QED
    BY <2>3, <2>4 DEF OnRecord
<1>2. ASSUME NEW last \in AgentEnds, Seal(last)
      PROVE  OnRecord'
  <2>1. UNCHANGED <<pc, request, number>>
    BY <1>2 DEF Seal
  <2>2. \A d \in Calls : Record(events', d, pc[d], request[d].tool, number[d])
    <3>1. TAKE d \in Calls
    <3>2. Record(events, d, pc[d], request[d].tool, number[d])
      BY DEF OnRecord
    <3>3. PICK c : c # d
      <4>1. d # {d} \/ d # {}
        OBVIOUS
      <4> QED
        BY <4>1
    <3>4. StepOf(c)
      BY <1>2, SealAdds
    <3>5. OwnKept(events, events', d)
      BY <3>3, <3>4, StepKeepsOwn
    <3> QED
      BY <3>2, <3>5, OwnKeptRecord
  <2> QED
    BY <2>1, <2>2 DEF OnRecord
<1>3. CASE UNCHANGED portVars
  BY <1>3 DEF portVars, OnRecord
<1> QED
  BY <1>1, <1>2, <1>3 DEF PortNext

\* Every step keeps the numbers apart.
LEMMA NextNumbersDistinct ==
    ASSUME TypeOK, OnRecord, NumbersDistinct, [PortNext]_portVars
    PROVE  NumbersDistinct'
<1>1. /\ counts \in [Tools -> Nat] /\ number \in [Calls -> Nat]
      /\ \A d \in Calls : request[d].tool \in Tools
      /\ DOMAIN request = Calls
  BY DEF TypeOK
<1>2. ASSUME NEW c \in Calls, Admit(c)
      PROVE  NumbersDistinct'
  <2> DEFINE t == request[c].tool
  <2>1. /\ counts' = [counts EXCEPT ![t] = @ + 1]
        /\ number' = [number EXCEPT ![c] = counts[t] + 1]
        /\ request' = request
    BY <1>2 DEF Admit, CallNumber
  <2>2. \A d \in Calls : number'[d] <= counts'[request[d].tool]
    BY <1>1, <2>1 DEF NumbersDistinct
  <2>3. \A d \in Calls \ {c} : request[d].tool = t => number'[d] # number'[c]
    BY <1>1, <2>1 DEF NumbersDistinct
  <2>4. \A d \in Calls \ {c} : number'[d] = number[d]
    BY <1>1, <2>1
  <2> HIDE DEF t
  <2>5. ASSUME NEW d \in Calls, NEW e \in Calls, d # e,
               request[d].tool = request[e].tool, number'[d] = number'[e]
        PROVE  number'[d] = 0
    <3>1. CASE d # c /\ e # c
      BY <2>4, <2>5, <3>1 DEF NumbersDistinct
    <3>2. CASE d = c \/ e = c
      BY <2>3, <2>5, <3>2 DEF t
    <3> QED
      BY <3>1, <3>2
  <2> QED
    BY <2>1, <2>2, <2>5 DEF NumbersDistinct
<1>3. ASSUME NEW c \in Calls, NEW t \in Tools, NEW a \in ArgumentKinds, Issue(c, t, a)
      PROVE  NumbersDistinct'
  <2>1. number[c] = 0
    BY <1>3 DEF Issue, OnRecord, Record
  <2>2. /\ \A d \in Calls \ {c} : request'[d] = request[d]
        /\ request'[c].tool = t /\ UNCHANGED <<counts, number>>
    BY <1>1, <1>3 DEF Issue
  <2>3. counts[t] \in Nat
    BY <1>1
  <2>4. \A d \in Calls : number[d] <= counts[request'[d].tool]
    BY <2>1, <2>2, <2>3 DEF NumbersDistinct
  <2>5. ASSUME NEW d \in Calls, NEW e \in Calls, d # e,
               request'[d].tool = request'[e].tool, number[d] = number[e]
        PROVE  number[d] = 0
    BY <2>1, <2>2, <2>5 DEF NumbersDistinct
  <2> QED
    BY <2>2, <2>4, <2>5 DEF NumbersDistinct
<1>4. CASE UNCHANGED <<request, counts, number>>
  BY <1>4 DEF NumbersDistinct
<1>5. ASSUME NEW c \in Calls, CallStep(c)
      PROVE  NumbersDistinct'
  <2>1. CASE Enter(c)
    BY <1>2, <1>4, <2>1, EnterLogs DEF EnterSealed
  <2>2. CASE EndHandler(c)
    BY <1>4, <2>2, EndHandlerLogs
  <2> QED
    BY <1>3, <1>4, <1>5, <2>1, <2>2 DEF CallStep, CancelWaiting, HandlerWrite
<1> QED
  BY <1>4, <1>5 DEF PortNext, Seal, portVars

-----------------------------------------------------------------------------
\* Only so many attempts get past the limit.

\* The calls that were attempted and not refused before their handler.
Served(q) ==
    {d \in Calls : Tried(q, d) # {} /\ (Refused(q, d) = {} \/ Executed(q, d) # {})}

\* Each of them was counted, and was let in while the count was within the limit.
Budget ==
    /\ IsFiniteSet(Counted) /\ IsFiniteSet(Served(events))
    /\ Cardinality(Served(events)) <= Cardinality(Counted)
    /\ Cardinality(Served(events)) <= MaxCalls

\* An admitted call is counted once.
LEMMA AdmitCounts ==
    ASSUME TypeOK, NEW c \in Calls, Admit(c), IsFiniteSet(Counted)
    PROVE  /\ IsFiniteSet(Counted')
           /\ Cardinality(Counted') = Cardinality(Counted) + 1
           /\ Cardinality(Counted) \in Nat
<1> DEFINE t == request[c].tool
           k == <<t, counts[t] + 1>>
<1>1. t \in Tools /\ counts \in [Tools -> Nat]
  BY DEF TypeOK
<1>2. counts' = [counts EXCEPT ![t] = @ + 1]
  BY DEF Admit
<1> HIDE DEF t
<1>3. \A u \in Tools : \A i : <<u, i>> \in Counted <=> i \in 1..counts[u]
  BY DEF Counted
<1>4. k \notin Counted
  BY <1>1, <1>3
<1>5. Counted' = Counted \cup {k}
  <2>1. \A u \in Tools : {u} \X (1..counts'[u]) =
           ({u} \X (1..counts[u])) \cup (IF u = t THEN {k} ELSE {})
    <3>1. TAKE u \in Tools
    <3>2. CASE u # t
      <4>1. counts'[u] = counts[u]
        BY <1>1, <1>2, <3>2
      <4> QED
        BY <3>2, <4>1
    <3>3. CASE u = t
      <4>1. 1..counts'[t] = (1..counts[t]) \cup {counts[t] + 1}
        BY <1>1, <1>2
      <4>2. {t} \X ((1..counts[t]) \cup {counts[t] + 1}) =
               ({t} \X (1..counts[t])) \cup {k}
        OBVIOUS
      <4> QED
        BY <3>3, <4>1, <4>2
    <3> QED
      BY <3>2, <3>3
  <2>2. Counted' = UNION {{u} \X (1..counts'[u]) : u \in Tools}
    BY DEF Counted
  <2>3. \A x : x \in Counted' <=> \E u \in Tools : x \in {u} \X (1..counts'[u])
    BY <2>2
  <2>4. \A x : x \in Counted <=> \E u \in Tools : x \in {u} \X (1..counts[u])
    BY DEF Counted
  <2> HIDE DEF k
  <2> QED
    BY <1>1, <2>1, <2>3, <2>4
<1> HIDE DEF k
<1>6. IsFiniteSet(Counted \cup {k}) /\ Cardinality(Counted \cup {k}) = Cardinality(Counted) + 1
  BY <1>4, FS_AddElement
<1>7. Cardinality(Counted) \in Nat
  BY FS_CardinalityType
<1> QED
  BY <1>5, <1>6, <1>7

\* A step of one call serves no other.
LEMMA StepServes ==
    ASSUME TypeOK, NEW c, StepOf(c), NEW d \in Calls \ {c}
    PROVE  d \in Served(events') <=> d \in Served(events)
<1>1. OwnKept(events, events', d)
  BY StepKeepsOwn
<1>2. /\ "tool_attempt" \in CallKinds /\ "tool_rejected" \in CallKinds
      /\ "tool_executed" \in CallKinds
  BY DEF CallKinds, EventKinds
<1>3. /\ Tried(events', d) = Tried(events, d) /\ Refused(events', d) = Refused(events, d)
      /\ Executed(events', d) = Executed(events, d)
  BY <1>1, <1>2 DEF OwnKept, Tried, Refused, Executed
<1> QED
  BY <1>3 DEF Served

\* Every step keeps within the limit.
LEMMA NextBudget ==
    ASSUME TypeOK, Accounted, Accounted', OnRecord, Budget, [PortNext]_portVars
    PROVE  Budget'
<1>1. /\ Cardinality(Served(events)) \in Nat /\ Cardinality(Counted) \in Nat
      /\ MaxCalls \in Nat
  BY FS_CardinalityType, CasePrepared DEF Budget
<1>2. ASSUME Served(events') = Served(events), counts' = counts
      PROVE  Budget'
  BY <1>2 DEF Budget, Counted
<1>3. ASSUME NEW c \in Calls, CallStep(c)
      PROVE  Budget'
  <2>1. StepOf(c)
    BY <1>3, CallStepAdds
  <2>2. \A d \in Calls \ {c} : d \in Served(events') <=> d \in Served(events)
    BY <2>1, StepServes
  <2>3. Served(events) \subseteq Calls /\ Served(events') \subseteq Calls
    BY DEF Served
  <2>4. CASE UNCHANGED <<events, counts>>
    BY <1>2, <2>4
  <2>5. CASE EndHandler(c)
    <3>1. pc[c] = "running" /\ counts' = counts
      BY <2>5, EndHandlerLogs
    <3>2. Tried(events, c) # {} /\ Refused(events, c) = {}
      BY <3>1 DEF OnRecord, Record, Accounted, Account
    <3>3. c \in Served(events)
      BY <3>2 DEF Served
    <3>4. Served(events') \subseteq Served(events)
      BY <2>2, <2>3, <3>3
    <3>5. Served(events') \in SUBSET Served(events)
      BY <3>4
    <3>6. /\ IsFiniteSet(Served(events'))
          /\ Cardinality(Served(events')) <= Cardinality(Served(events))
      BY <3>5, FS_Subset DEF Budget
    <3>7. Cardinality(Served(events')) \in Nat
      BY <3>6, FS_CardinalityType
    <3>8. Counted' = Counted
      BY <3>1 DEF Counted
    <3> QED
      BY <1>1, <3>6, <3>7, <3>8 DEF Budget
  <2>6. CASE Enter(c) /\ ~EnterSealed(c)
    <3>1. Admit(c) /\ pc[c] = "waiting"
      BY <2>6, EnterLogs
    <3>2. /\ IsFiniteSet(Counted')
          /\ Cardinality(Counted') = Cardinality(Counted) + 1
      BY <3>1, AdmitCounts DEF Budget
    <3>3. c \notin Served(events)
      BY <3>1 DEF OnRecord, Record, Served
    <3>4. CASE pc'[c] = "rejected"
      <4>1. ~(Refused(events', c) = {} \/ Executed(events', c) # {})
        <5>1. PICK a, q, e : /\ Adds(e, Refusal(c), q, violations, events', violations')
                             /\ Mine("tool_rejected", c, e)
                             /\ Mine("tool_attempt", c, a)
                             /\ Adds(a, "none", events, violations, q, violations)
          BY <2>6, <3>4, EnterLogs DEF AfterAttempt
        <5>2. events \in Seq(LogEvents) /\ violations \in Seq(Findings)
          BY DEF TypeOK
        <5>3. Fresh(events, c)
          BY <3>1, FreshAccount DEF Accounted
        <5>4. "tool_attempt" \in CallKinds /\ "tool_rejected" \in CallKinds
          BY DEF CallKinds, EventKinds
        <5>5. q \in Seq(LogEvents) /\ Executed(q, c) = {}
          BY <5>1, <5>2, <5>3, <5>4, MineAccount, SMTT(30) DEF Fresh
        <5> QED
          BY <5>1, <5>2, <5>4, <5>5, MineAccount, SMTT(30)
      <4>2. c \notin Served(events')
        BY <4>1 DEF Served
      <4>3. Served(events') = Served(events)
        BY <2>2, <2>3, <3>3, <4>2
      <4> QED
        BY <1>1, <3>2, <4>3 DEF Budget
    <3>5. CASE pc'[c] # "rejected"
      <4>1. Refusal(c) = "none"
        BY <2>6, <3>5 DEF Enter, Reject, BadArguments, TimeoutBefore, StaleRead, Start,
                          Permitted, Admit, TypeOK
      <4>2. ~OverLimit
        BY <4>1 DEF Refusal
      <4>3. Cardinality(Counted) + 1 <= MaxCalls
        BY <1>1, <4>2 DEF OverLimit
      <4>4. Served(events') \in SUBSET (Served(events) \cup {c})
        BY <2>2, <2>3
      <4>5. /\ IsFiniteSet(Served(events) \cup {c})
            /\ Cardinality(Served(events) \cup {c}) = Cardinality(Served(events)) + 1
        BY <3>3, FS_AddElement DEF Budget
      <4>6. /\ IsFiniteSet(Served(events'))
            /\ Cardinality(Served(events')) <= Cardinality(Served(events) \cup {c})
        BY <4>4, <4>5, FS_Subset
      <4>7. Cardinality(Served(events')) \in Nat
        BY <4>6, FS_CardinalityType
      <4> QED
        BY <1>1, <3>2, <4>3, <4>5, <4>6, <4>7 DEF Budget
    <3> QED
      BY <3>4, <3>5
  <2> QED
    BY <1>3, <2>4, <2>5, <2>6
       DEF CallStep, Issue, CancelWaiting, Enter, EnterSealed, HandlerWrite
<1>4. ASSUME NEW last \in AgentEnds, Seal(last)
      PROVE  Budget'
  <2>1. \A d \in Calls : d \in Served(events') <=> d \in Served(events)
    <3>1. TAKE d \in Calls
    <3>2. PICK c : c # d
      <4>1. d # {d} \/ d # {}
        OBVIOUS
      <4> QED
        BY <4>1
    <3>3. StepOf(c)
      BY <1>4, SealAdds
    <3> QED
      BY <3>2, <3>3, StepServes
  <2>2. Served(events') = Served(events)
    BY <2>1 DEF Served
  <2> QED
    BY <1>2, <1>4, <2>2 DEF Seal
<1>5. CASE UNCHANGED portVars
  BY <1>2, <1>5 DEF portVars
<1> QED
  BY <1>3, <1>4, <1>5 DEF PortNext

\* All of it holds at first.
LEMMA InitAttempts == Init => Numbered(events, counts) /\ OnRecord /\ NumbersDistinct /\ Budget
<1> SUFFICES ASSUME Init
             PROVE  Numbered(events, counts) /\ OnRecord /\ NumbersDistinct /\ Budget
  OBVIOUS
<1>1. /\ events = <<>> /\ counts = [t \in Tools |-> 0]
      /\ \A d \in Calls : pc[d] = "idle" /\ number[d] = 0 /\ request[d].tool \in Tools
  BY InitTypeOK DEF Init, TypeOK
<1>2. \A E : Where(events, E) = {}
  BY <1>1 DEF Where
<1>3. Cardinality({}) = 0 /\ IsFiniteSet({})
  BY FS_EmptySet
<1>4. Numbered(events, counts)
  <2>1. \A t \in Tools : Cardinality(Where(events, Tries(t))) = 0
    BY <1>2, <1>3, Zenon
  <2> QED
    BY <1>1, <1>2, <2>1 DEF Numbered
<1>5. OnRecord
  BY <1>1, <1>2 DEF OnRecord, Record, Tried, FaultsOf
<1>6. NumbersDistinct
  BY <1>1 DEF NumbersDistinct
<1>7. Budget
  <2>1. Served(events) = {}
    BY <1>2 DEF Served, Tried
  <2>2. Counted = {}
    BY <1>1 DEF Counted
  <2>3. MaxCalls \in Nat
    BY CasePrepared
  <2> QED
    BY <1>3, <2>1, <2>2, <2>3 DEF Budget
<1> QED
  BY <1>4, <1>5, <1>6, <1>7

\* The n-th attempt of a tool is the one numbered n, a planned fault fires at the
\* attempt it was planned for and once at most, and however many calls race, no
\* more of them get past the limit than it says.
THEOREM AttemptsAreCounted == PortSpec => []AttemptsCounted
<1>1. PortSpec => [](Numbered(events, counts) /\ OnRecord /\ NumbersDistinct /\ Budget)
  <2>1. TypeOK /\ Numbered(events, counts) /\ [PortNext]_portVars => Numbered(events, counts)'
    BY NextNumbered
  <2>2. TypeOK /\ OnRecord /\ [PortNext]_portVars => OnRecord'
    BY NextOnRecord
  <2>3. TypeOK /\ OnRecord /\ NumbersDistinct /\ [PortNext]_portVars => NumbersDistinct'
    BY NextNumbersDistinct
  <2>4. /\ TypeOK /\ Accounted /\ Accounted' /\ OnRecord /\ Budget
        /\ [PortNext]_portVars
        => Budget'
    BY NextBudget
  <2> QED
    BY <2>1, <2>2, <2>3, <2>4, InitAttempts, EvidenceInvariance, PTL DEF PortSpec
<1>2. ASSUME TypeOK, Numbered(events, counts), OnRecord, NumbersDistinct, Budget
      PROVE  AttemptsCounted
  <2>1. \A i \in DOMAIN events : events[i] \in LogEvents
    <3>1. events \in Seq(LogEvents)
      BY <1>2 DEF TypeOK
    <3> QED
      BY <3>1
  <2>2. At("tool_attempt") = Where(events, Kind("tool_attempt"))
    BY <2>1 DEF At, Where, Kind
  <2>3. \A i \in At("tool_attempt") :
           events[i].number = Cardinality({j \in At("tool_attempt") :
                                 j <= i /\ events[j].tool = events[i].tool})
    <3>1. TAKE i \in At("tool_attempt")
    <3>2. {j \in At("tool_attempt") : j <= i /\ events[j].tool = events[i].tool} =
             {j \in Where(events, Tries(events[i].tool)) : j <= i}
      BY <2>2 DEF Where, Tries
    <3> QED
      BY <1>2, <2>2, <3>2 DEF Numbered
  <2>4. \A i \in At("tool_fault") :
           /\ events[i].call \in Calls /\ i \in FaultsOf(events, events[i].call)
    <3>1. TAKE i \in At("tool_fault")
    <3>2. events[i] \in LogEvents /\ events[i].kind = "tool_fault" /\ i \in DOMAIN events
      BY <2>1 DEF At
    <3>3. events[i].call \in Calls
      BY <3>2 DEF LogEvents
    <3> QED
      BY <3>2, <3>3 DEF FaultsOf, Where, Own, Kind
  <2>5. ASSUME NEW i \in At("tool_fault")
        PROVE  \E f \in Faults : f.tool = events[i].tool /\ f.on_call = events[i].number
    BY <1>2, <2>4 DEF OnRecord, Record
  <2>6. ASSUME NEW i \in At("tool_fault"), NEW j \in At("tool_fault"),
               events[j].tool = events[i].tool, events[j].number = events[i].number
        PROVE  j = i
    <3> DEFINE c == events[i].call
               d == events[j].call
    <3>1. /\ c \in Calls /\ d \in Calls
          /\ i \in FaultsOf(events, c) /\ j \in FaultsOf(events, d)
      BY <2>4
    <3>2. /\ events[i].tool = request[c].tool /\ events[i].number = number[c]
          /\ events[j].tool = request[d].tool /\ events[j].number = number[d]
          /\ \E f \in Faults : f.on_call = number[c]
      BY <1>2, <3>1 DEF OnRecord, Record
    <3>3. number[c] # 0
      BY <3>2, CasePrepared
    <3>4. c = d
      BY <1>2, <2>6, <3>1, <3>2, <3>3 DEF NumbersDistinct
    <3> QED
      BY <1>2, <3>1, <3>4 DEF OnRecord, Record
  <2>7. Served(events) =
           {c \in Calls :
              /\ Of("tool_attempt", c) # {}
              /\ Of("tool_rejected", c) = {} \/ Of("tool_executed", c) # {}}
    <3>1. \A c : /\ Of("tool_attempt", c) = Tried(events, c)
                 /\ Of("tool_rejected", c) = Refused(events, c)
                 /\ Of("tool_executed", c) = Executed(events, c)
      BY <2>1 DEF Of, At, Tried, Refused, Executed, Where, Own, Kind
    <3> QED
      BY <3>1 DEF Served
  <2> QED
    BY <1>2, <2>3, <2>5, <2>6, <2>7 DEF AttemptsCounted, Budget
<1> QED
  BY <1>1, <1>2, Invariance, PTL
=============================================================================
