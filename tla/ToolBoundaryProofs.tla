------------------------- MODULE ToolBoundaryProofs -------------------------
(***************************************************************************)
(* Theorems about ToolBoundary, for any number of calls, tools and inputs  *)
(* and any schedule of faults: attempts are numbered in the order of the   *)
(* trace, repeats are found, the fault coverage is true, and what a call   *)
(* has left in the trace is what happened to it.                           *)
(***************************************************************************)
EXTENDS ToolBoundary, FiniteSetTheorems, SequenceTheorems, TLAPS

AttemptsOf(t) == {i \in Attempts : trace[i].tool = t}
AttemptsWith(k) == {i \in Attempts : Key(CallAt(i)) = k}

\* The counters are what the trace shows.
CountsMatch ==
    /\ calls = Cardinality(Attempts)
    /\ \A t \in Tools : counts[t] = Cardinality(AttemptsOf(t))

\* A call that has started has a number of its own.
OwnNumbers ==
    /\ \A c \in Calls : pc[c] = "idle" => context[c].call_id = 0 /\ context[c].number = 0
    /\ \A c \in Calls : pc[c] # "idle" =>
          /\ context[c].call_id \in 1..calls
          /\ context[c].number \in 1..counts[request[c].tool]
    /\ \A c, d \in Calls : pc[c] # "idle" /\ c # d =>
          /\ context[c].call_id # context[d].call_id
          /\ request[c].tool = request[d].tool => context[c].number # context[d].number

\* An attempt in the trace is that of a call that has started.
AttemptsHaveCalls ==
    \A i \in Attempts : \E c \in Calls :
        /\ pc[c] # "idle"
        /\ trace[i].call_id = context[c].call_id
        /\ trace[i].tool = request[c].tool

LastOf(S, m) == m \in S /\ \A j \in S : m >= j

\* The last call with each tool and input.
PreviousIsLast ==
    \A k \in Tools \X Inputs :
        \/ AttemptsWith(k) = {} /\ previous[k] = 0
        \/ \E m \in AttemptsWith(k) :
              LastOf(AttemptsWith(k), m) /\ previous[k] = trace[m].call_id

Same(i) == {j \in Attempts : j < i /\ Key(CallAt(j)) = Key(CallAt(i))}

\* RepeatsAreReal, with the earlier call as a witness.
RepeatsFound ==
    \A i \in Attempts :
        IF request[CallAt(i)].input = Opaque \/ Same(i) = {} THEN trace[i].detail = 0
        ELSE \E m \in Same(i) : LastOf(Same(i), m) /\ trace[i].detail = trace[m].call_id

Lied == {"told", "timeout", "stale"}
Ran == {"execute", "executed", "error", "observe", "result", "raised"}
Spared == {"error", "observe", "result", "raised"}

\* A fault in the trace is the one a caller was lied to about.
FaultsAreTold ==
    /\ \A i \in DOMAIN trace : trace[i].kind = "tool_fault" =>
          \E c \in Calls : /\ pc[c] \in Lied
                           /\ trace[i].tool = request[c].tool
                           /\ trace[i].number = context[c].number
    /\ \A c \in Calls : pc[c] \in Lied =>
          \E i \in DOMAIN trace : /\ trace[i].kind = "tool_fault"
                                  /\ trace[i].tool = request[c].tool
                                  /\ trace[i].number = context[c].number

\* Which calls run, and which of them are spared their fault.
FaultsAreKept ==
    \A c \in Calls :
        /\ pc[c] \in Ran => Fault(c) \notin {"timeout_before", "stale_read"}
        /\ pc[c] = "fault" => Fault(c) \in {"timeout_before", "stale_read",
                                           "response_lost_after_commit"}
        /\ pc[c] = "executed" => status[c] \in Statuses
        /\ pc[c] \in Spared => ~Loses(c) /\ status[c] \in Statuses

BoundaryInv ==
    /\ BoundaryTypeOK
    /\ CountsMatch
    /\ OwnNumbers
    /\ AttemptsHaveCalls
    /\ AttemptsInOrder
    /\ PreviousIsLast
    /\ RepeatsFound
    /\ FaultsAreTold
    /\ FaultsAreKept

-----------------------------------------------------------------------------
\* The trace after an event is appended.
LEMMA AppendEvent ==
    ASSUME trace \in Seq(TraceEvents), NEW e \in TraceEvents, trace' = Append(trace, e)
    PROVE  /\ trace' \in Seq(TraceEvents)
           /\ Len(trace) \in Nat /\ DOMAIN trace = 1..Len(trace)
           /\ DOMAIN trace' = 1..Len(trace) + 1
           /\ \A i \in 1..Len(trace) : trace'[i] = trace[i]
           /\ trace'[Len(trace) + 1] = e
           /\ Attempts \subseteq 1..Len(trace)
           /\ e.kind = "tool_attempt" => Attempts' = Attempts \cup {Len(trace) + 1}
           /\ e.kind # "tool_attempt" => Attempts' = Attempts
<1>1. /\ trace' \in Seq(TraceEvents)
      /\ Len(trace) \in Nat /\ DOMAIN trace = 1..Len(trace)
      /\ Len(trace') = Len(trace) + 1 /\ DOMAIN trace' = 1..Len(trace')
      /\ \A i \in 1..Len(trace) : trace'[i] = trace[i]
      /\ trace'[Len(trace) + 1] = e
  BY AppendProperties, LenProperties
<1>2. 1..Len(trace) + 1 = 1..Len(trace) \cup {Len(trace) + 1}
  BY <1>1
<1> QED
  BY <1>1, <1>2 DEF Attempts

\* The call with a number is the only one.
LEMMA TheCall ==
    ASSUME NEW ctx, NEW n, NEW c \in Calls, ctx[c].call_id = n,
           \A d \in Calls : d # c => ctx[d].call_id # n
    PROVE  (CHOOSE d \in Calls : ctx[d].call_id = n) = c
  OBVIOUS

\* An attempt's call is the one it names.
LEMMA CallOfAttempt ==
    ASSUME OwnNumbers, AttemptsHaveCalls, NEW i \in Attempts
    PROVE  /\ CallAt(i) \in Calls /\ pc[CallAt(i)] # "idle"
           /\ context[CallAt(i)].call_id = trace[i].call_id
           /\ trace[i].tool = request[CallAt(i)].tool
<1>1. PICK c \in Calls : /\ pc[c] # "idle" /\ trace[i].call_id = context[c].call_id
                         /\ trace[i].tool = request[c].tool
  BY DEF AttemptsHaveCalls
<1>2. \A d \in Calls : d # c => context[d].call_id # trace[i].call_id
  BY <1>1 DEF OwnNumbers
<1>3. CallAt(i) = c
  BY <1>1, <1>2, TheCall DEF CallAt
<1> QED
  BY <1>1, <1>3

\* The last of a set is its maximum.
LEMMA LastIsMax ==
    ASSUME NEW S, S \subseteq Int, NEW m, LastOf(S, m)
    PROVE  Max(S) = m
<1>1. \A x \in S : (\A y \in S : x >= y) => x = m
  BY DEF LastOf
<1> QED
  BY <1>1 DEF Max, LastOf

-----------------------------------------------------------------------------
\* Steps that append no attempt leave the numbers and the repeats alone.
LEMMA QuietSteps ==
    ASSUME BoundaryInv,
           UNCHANGED <<request, context, counts, calls, previous>>,
           Attempts' = Attempts,
           \A i \in Attempts : trace'[i] = trace[i],
           \A c \in Calls : pc'[c] = "idle" <=> pc[c] = "idle"
    PROVE  /\ CountsMatch' /\ OwnNumbers' /\ AttemptsHaveCalls'
           /\ AttemptsInOrder' /\ PreviousIsLast' /\ RepeatsFound'
<1> USE DEF BoundaryInv
<1>1. \A t : AttemptsOf(t)' = AttemptsOf(t)
  BY DEF AttemptsOf
<1>2. CountsMatch'
  BY <1>1 DEF CountsMatch
<1>3. OwnNumbers'
  BY DEF OwnNumbers
<1>4. AttemptsHaveCalls'
  BY DEF AttemptsHaveCalls
<1>5. \A i \in Attempts : CallAt(i)' = CallAt(i) /\ CallAt(i) \in Calls
  <2>1. TAKE i \in Attempts
  <2>2. CallAt(i) \in Calls /\ context[CallAt(i)].call_id = trace[i].call_id
        /\ pc[CallAt(i)] # "idle"
    BY CallOfAttempt
  <2>3. \A d \in Calls : d # CallAt(i) => context[d].call_id # trace[i].call_id
    BY <2>2 DEF OwnNumbers
  <2>4. (CHOOSE d \in Calls : context'[d].call_id = trace'[i].call_id) = CallAt(i)
    <3> DEFINE n == trace'[i].call_id
    <3>1. n = trace[i].call_id
      OBVIOUS
    <3> HIDE DEF n
    <3>2. (CHOOSE d \in Calls : context'[d].call_id = n) = CallAt(i)
      BY <2>2, <2>3, <3>1, TheCall
    <3> QED
      BY <3>2 DEF n
  <2> QED
    BY <2>2, <2>4 DEF CallAt
<1>6. \A i \in Attempts : /\ Key(CallAt(i))' = Key(CallAt(i))
                          /\ request'[CallAt(i)'].input = request[CallAt(i)].input
  BY <1>5 DEF Key
<1>7. AttemptsInOrder'
  BY DEF AttemptsInOrder
<1>8. PreviousIsLast'
  <2>1. \A k : AttemptsWith(k)' = AttemptsWith(k)
    BY <1>6 DEF AttemptsWith
  <2>2. \A k : AttemptsWith(k) \subseteq Attempts
    BY DEF AttemptsWith
  <2> QED
    BY <2>1, <2>2 DEF PreviousIsLast
<1>9. RepeatsFound'
  <2>1. \A i \in Attempts : Same(i)' = Same(i) /\ Same(i) \subseteq Attempts
    BY <1>6 DEF Same
  <2> QED
    BY <1>6, <2>1 DEF RepeatsFound
<1> QED
  BY <1>2, <1>3, <1>4, <1>7, <1>8, <1>9

-----------------------------------------------------------------------------
\* A call starts: its attempt gets the next numbers, and becomes the last with
\* its input.
LEMMA StartKeepsNumbers ==
    ASSUME BoundaryInv, NEW c \in Calls, Start(c)
    PROVE  /\ BoundaryTypeOK' /\ CountsMatch' /\ OwnNumbers' /\ AttemptsHaveCalls'
           /\ AttemptsInOrder' /\ PreviousIsLast' /\ RepeatsFound'
<1> USE DEF BoundaryInv
<1>0. SUFFICES
        ASSUME NEW tool, tool = request[c].tool,
               NEW n, n = Len(trace) + 1,
               NEW key, key = Key(c),
               NEW seen, seen = IF request[c].input = Opaque THEN 0 ELSE previous[key],
               NEW event, event = [kind |-> "tool_attempt", tool |-> tool,
                                   call_id |-> calls + 1, number |-> counts[tool] + 1,
                                   detail |-> seen]
        PROVE  /\ BoundaryTypeOK' /\ CountsMatch' /\ OwnNumbers' /\ AttemptsHaveCalls'
               /\ AttemptsInOrder' /\ PreviousIsLast' /\ RepeatsFound'
  OBVIOUS
<1>1. /\ pc \in [Calls -> {"idle", "execute", "executed", "error", "fault", "told",
                           "observe"} \cup Told]
      /\ request \in [Calls -> [tool : Tools, input : Inputs \cup {Opaque}]]
      /\ context \in [Calls -> [call_id : Nat, number : Nat]]
      /\ counts \in [Tools -> Nat] /\ calls \in Nat
      /\ previous \in [Tools \X Inputs -> Nat]
      /\ trace \in Seq(TraceEvents)
  BY DEF BoundaryTypeOK
<1>2. /\ tool \in Tools /\ counts[tool] \in Nat
      /\ request[c].input # Opaque => key \in Tools \X Inputs
      /\ seen \in Nat
  BY <1>0, <1>1 DEF Key
<1>3. event \in TraceEvents
  BY <1>0, <1>1, <1>2 DEF TraceEvents
<1>4. /\ pc[c] = "idle"
      /\ counts' = [counts EXCEPT ![tool] = @ + 1]
      /\ calls' = calls + 1
      /\ context' = [context EXCEPT ![c] = [call_id |-> calls + 1,
                                            number |-> counts[tool] + 1]]
      /\ previous' = IF request[c].input = Opaque THEN previous
                     ELSE [previous EXCEPT ![key] = calls + 1]
      /\ trace' = Append(trace, event)
      /\ pc'[c] \in {"fault", "execute"} /\ DOMAIN pc' = Calls
      /\ \A d \in Calls : d # c => pc'[d] = pc[d]
      /\ UNCHANGED <<request, status, runs>>
  BY <1>0, <1>1 DEF Start, MayStart, Number, Remember
<1>5. /\ event.kind = "tool_attempt" /\ event.tool = tool /\ event.call_id = calls + 1
      /\ event.number = counts[tool] + 1 /\ event.detail = seen
  BY <1>0
<1>6. /\ trace' \in Seq(TraceEvents)
      /\ Len(trace) \in Nat /\ DOMAIN trace = 1..Len(trace)
      /\ \A i \in 1..Len(trace) : trace'[i] = trace[i]
      /\ trace'[n] = event
      /\ Attempts \subseteq 1..Len(trace)
      /\ Attempts' = Attempts \cup {n} /\ n \notin Attempts
      /\ \A i \in Attempts : i \in Int /\ i < n /\ trace'[i] = trace[i]
  <2>1. /\ trace' \in Seq(TraceEvents)
        /\ Len(trace) \in Nat /\ DOMAIN trace = 1..Len(trace)
        /\ \A i \in 1..Len(trace) : trace'[i] = trace[i]
        /\ trace'[Len(trace) + 1] = event
        /\ Attempts \subseteq 1..Len(trace)
        /\ Attempts' = Attempts \cup {Len(trace) + 1}
    BY <1>1, <1>3, <1>4, <1>5, AppendEvent
  <2>2. \A i \in 1..Len(trace) : i \in Int /\ i < n /\ i # n
    BY <1>0, <2>1
  <2> QED
    BY <1>0, <2>1, <2>2
<1>7. /\ context'[c].call_id = calls + 1 /\ context'[c].number = counts[tool] + 1
      /\ \A d \in Calls : d # c => context'[d] = context[d]
      /\ context' \in [Calls -> [call_id : Nat, number : Nat]]
  BY <1>1, <1>2, <1>4
<1>8. /\ counts'[tool] = counts[tool] + 1
      /\ \A t \in Tools : t # tool => counts'[t] = counts[t]
      /\ counts' \in [Tools -> Nat]
  BY <1>1, <1>2, <1>4
<1>9. BoundaryTypeOK'
  <2>1. pc' \in [Calls -> {"idle", "execute", "executed", "error", "fault", "told",
                           "observe"} \cup Told]
    BY <1>1 DEF Start
  <2>2. previous' \in [Tools \X Inputs -> Nat]
    BY <1>1, <1>2, <1>4
  <2> QED
    BY <1>4, <1>6, <1>7, <1>8, <2>1, <2>2 DEF BoundaryTypeOK
<1>10. IsFiniteSet(Attempts) /\ \A t : IsFiniteSet(AttemptsOf(t))
  <2>1. IsFiniteSet(1..Len(trace))
    <3>1. 1 \in Int /\ Len(trace) \in Int
      BY <1>6
    <3> QED
      BY ONLY <3>1, FS_Interval
  <2>2. \A t : AttemptsOf(t) \subseteq Attempts
    BY DEF AttemptsOf
  <2> QED
    BY <1>6, <2>1, <2>2, FS_Subset
<1>11. /\ AttemptsOf(tool)' = AttemptsOf(tool) \cup {n} /\ n \notin AttemptsOf(tool)
       /\ \A t : t # tool => AttemptsOf(t)' = AttemptsOf(t)
  BY <1>5, <1>6 DEF AttemptsOf
<1>12. /\ Cardinality(Attempts \cup {n}) = calls + 1
       /\ Cardinality(AttemptsOf(tool) \cup {n}) = counts[tool] + 1
  BY <1>2, <1>6, <1>10, <1>11, FS_AddElement DEF CountsMatch
<1>13. CountsMatch'
  <2>1. \A t \in Tools : counts'[t] = Cardinality(AttemptsOf(t)')
    BY <1>8, <1>11, <1>12 DEF CountsMatch
  <2> QED
    BY <1>4, <1>6, <1>12, <2>1 DEF CountsMatch
<1>14. OwnNumbers'
  <2>1. \A d \in Calls : request[d].tool \in Tools
    BY <1>1
  <2>2. \A d \in Calls : d # c => /\ context[d].call_id < calls + 1
                                  /\ context[d].call_id # calls + 1
    <3>1. TAKE d \in Calls
    <3>2. calls \in Nat
      BY <1>1
    <3>3. context[d].call_id = 0 \/ context[d].call_id \in 1..calls
      BY DEF OwnNumbers
    <3> QED
      BY <3>2, <3>3
  <2>3. \A d \in Calls : d # c /\ request[d].tool = tool =>
           context[d].number # counts[tool] + 1
    BY <1>1, <1>2, <2>1, <1>0 DEF OwnNumbers
  <2>4. \A d \in Calls : pc'[d] = "idle" =>
           context'[d].call_id = 0 /\ context'[d].number = 0
    BY <1>4, <1>7 DEF OwnNumbers
  <2>5. \A d \in Calls : pc'[d] # "idle" =>
           /\ context'[d].call_id \in 1..calls'
           /\ context'[d].number \in 1..counts'[request'[d].tool]
    <3>1. TAKE d \in Calls
    <3>2. CASE d = c
      BY <3>2, <1>1, <1>2, <1>4, <1>7, <1>8, <1>0
    <3>3. CASE d # c
      <4>1. /\ counts[request[d].tool] \in Nat
            /\ counts'[request[d].tool] \in Nat
            /\ counts[request[d].tool] <= counts'[request[d].tool]
        <5>1. CASE request[d].tool = tool
          BY <5>1, <1>2, <1>8
        <5>2. CASE request[d].tool # tool
          BY <5>2, <1>1, <1>8, <2>1
        <5> QED
          BY <5>1, <5>2
      <4> QED
        BY <3>3, <4>1, <1>1, <1>4, <1>7 DEF OwnNumbers
    <3> QED
      BY <3>2, <3>3
  <2>6. \A d, e \in Calls : pc'[d] # "idle" /\ d # e =>
           /\ context'[d].call_id # context'[e].call_id
           /\ request'[d].tool = request'[e].tool =>
                 context'[d].number # context'[e].number
    <3>1. TAKE d, e \in Calls
    <3>2. CASE d = c
      BY <3>2, <1>4, <1>7, <2>2, <2>3, <1>0
    <3>3. CASE d # c /\ e = c
      BY <3>3, <1>4, <1>7, <2>2, <2>3, <1>0
    <3>4. CASE d # c /\ e # c
      BY <3>4, <1>4, <1>7 DEF OwnNumbers
    <3> QED
      BY <3>2, <3>3, <3>4
  <2> QED
    BY <2>4, <2>5, <2>6 DEF OwnNumbers
<1>15. AttemptsHaveCalls'
  <2>1. ASSUME NEW i \in Attempts
        PROVE  \E d \in Calls : /\ pc'[d] # "idle"
                                /\ trace'[i].call_id = context'[d].call_id
                                /\ trace'[i].tool = request'[d].tool
    <3>1. PICK d \in Calls : /\ pc[d] # "idle" /\ trace[i].call_id = context[d].call_id
                             /\ trace[i].tool = request[d].tool
      BY DEF AttemptsHaveCalls
    <3>2. d # c
      BY <3>1, <1>4
    <3> QED
      BY <3>1, <3>2, <1>4, <1>6, <1>7
  <2>2. /\ pc'[c] # "idle" /\ trace'[n].call_id = context'[c].call_id
        /\ trace'[n].tool = request'[c].tool
    BY <1>4, <1>5, <1>6, <1>7, <1>0
  <2> QED
    BY <2>1, <2>2, <1>6 DEF AttemptsHaveCalls
<1>16. AttemptsInOrder'
  <2>1. ASSUME NEW i \in Attempts
        PROVE  {j \in Attempts' : j <= i} = {j \in Attempts : j <= i}
    <3>1. ~(n <= i)
      BY <1>0, <1>6
    <3> QED
      BY <3>1, <1>6
  <2>2. ASSUME NEW i \in Attempts, NEW t
        PROVE  {j \in {k \in Attempts : k <= i} : trace'[j].tool = t}
                 = {j \in {k \in Attempts : k <= i} : trace[j].tool = t}
    BY <1>6
  <2>3. ASSUME NEW i \in Attempts
        PROVE  /\ trace'[i].call_id = Cardinality({j \in Attempts' : j <= i})
               /\ trace'[i].number
                     = Cardinality({j \in {k \in Attempts' : k <= i} :
                                      trace'[j].tool = trace'[i].tool})
    <3>1. /\ trace[i].call_id = Cardinality({j \in Attempts : j <= i})
          /\ trace[i].number
                = Cardinality({j \in {k \in Attempts : k <= i} :
                                 trace[j].tool = trace[i].tool})
      BY DEF AttemptsInOrder
    <3>2. trace'[i] = trace[i]
      BY <1>6
    <3>3. {j \in {k \in Attempts' : k <= i} : trace'[j].tool = trace'[i].tool}
            = {j \in {k \in Attempts : k <= i} : trace[j].tool = trace[i].tool}
      BY <2>1, <2>2, <3>2
    <3> QED
      BY <2>1, <3>1, <3>2, <3>3
  <2>4. /\ {j \in Attempts' : j <= n} = Attempts'
        /\ {j \in Attempts' : trace'[j].tool = tool} = AttemptsOf(tool)'
    <3>1. \A j \in Attempts' : j <= n
      BY <1>0, <1>6
    <3>2. {j \in Attempts' : j <= n} = Attempts'
      BY <3>1
    <3>3. {j \in Attempts' : trace'[j].tool = tool} = AttemptsOf(tool)'
      BY DEF AttemptsOf
    <3> QED
      BY <3>2, <3>3
  <2>5. /\ trace'[n].call_id = Cardinality({j \in Attempts' : j <= n})
        /\ trace'[n].number
              = Cardinality({j \in {k \in Attempts' : k <= n} :
                               trace'[j].tool = trace'[n].tool})
    BY <2>4, <1>5, <1>6, <1>11, <1>12
  <2> QED
    BY <2>3, <2>5, <1>6 DEF AttemptsInOrder
<1>17. /\ \A i \in Attempts : CallAt(i)' = CallAt(i) /\ CallAt(i) \in Calls
       /\ CallAt(n)' = c
  <2>1. ASSUME NEW d \in Calls, NEW id, context'[d].call_id = id, pc'[d] # "idle"
        PROVE  (CHOOSE e \in Calls : context'[e].call_id = id) = d
    <3>1. \A e \in Calls : e # d => context'[e].call_id # id
      BY <2>1, <1>14 DEF OwnNumbers
    <3> QED
      BY <2>1, <3>1, TheCall
  <2>2. ASSUME NEW i \in Attempts
        PROVE  CallAt(i)' = CallAt(i) /\ CallAt(i) \in Calls
    <3> DEFINE d == CallAt(i)
    <3>1. d \in Calls /\ pc[d] # "idle" /\ context[d].call_id = trace[i].call_id
      BY CallOfAttempt
    <3>2. d # c
      BY <3>1, <1>4
    <3>3. pc'[d] # "idle" /\ context'[d].call_id = trace'[i].call_id
      BY <3>1, <3>2, <1>4, <1>6, <1>7
    <3> HIDE DEF d
    <3>4. (CHOOSE e \in Calls : context'[e].call_id = trace'[i].call_id) = d
      BY <2>1, <3>1, <3>3
    <3>5. CallAt(i)' = d
      BY <3>4 DEF CallAt
    <3> QED
      BY <3>1, <3>5 DEF d
  <2>3. context'[c].call_id = trace'[n].call_id /\ pc'[c] # "idle"
    BY <1>4, <1>5, <1>6, <1>7
  <2>4. (CHOOSE e \in Calls : context'[e].call_id = trace'[n].call_id) = c
    BY <2>1, <2>3
  <2>5. CallAt(n)' = c
    BY <2>4 DEF CallAt
  <2> QED
    BY <2>2, <2>5
<1>18. /\ \A i \in Attempts : /\ Key(CallAt(i))' = Key(CallAt(i))
                              /\ request'[CallAt(i)'].input = request[CallAt(i)].input
       /\ Key(CallAt(n))' = key /\ request'[CallAt(n)'].input = request[c].input
  BY <1>0, <1>4, <1>17 DEF Key
<1>19. /\ AttemptsWith(key)' = AttemptsWith(key) \cup {n}
       /\ \A k : k # key => AttemptsWith(k)' = AttemptsWith(k)
       /\ \A k : AttemptsWith(k) \subseteq Attempts
  <2>1. \A i \in Attempts : Key(CallAt(i))' = Key(CallAt(i))
    BY <1>18
  <2>2. Key(CallAt(n))' = key
    BY <1>18
  <2> QED
    BY <2>1, <2>2, <1>6 DEF AttemptsWith
<1>20. PreviousIsLast'
  <2>1. ASSUME NEW k \in Tools \X Inputs, k # key
        PROVE  \/ AttemptsWith(k)' = {} /\ previous'[k] = 0
               \/ \E m \in AttemptsWith(k)' :
                     LastOf(AttemptsWith(k)', m) /\ previous'[k] = trace'[m].call_id
    <3>1. previous'[k] = previous[k]
      BY <2>1, <1>1, <1>4
    <3>2. AttemptsWith(k)' = AttemptsWith(k) /\ AttemptsWith(k) \subseteq Attempts
      BY <2>1, <1>19
    <3> QED
      BY <3>1, <3>2, <1>6 DEF PreviousIsLast
  <2>2. ASSUME key \in Tools \X Inputs
        PROVE  \E m \in AttemptsWith(key)' :
                  /\ LastOf(AttemptsWith(key)', m)
                  /\ previous'[key] = trace'[m].call_id
    <3>1. request[c].input # Opaque
      BY <2>2, <1>0, BoundaryPrepared DEF Key
    <3>2. previous'[key] = trace'[n].call_id
      BY <2>2, <3>1, <1>1, <1>4, <1>5, <1>6
    <3>3. n \in Int /\ \A j \in AttemptsWith(key) : j \in Int /\ j < n
      <4>1. n \in Int
        BY <1>0, <1>6
      <4>2. AttemptsWith(key) \subseteq Attempts
        BY <1>19
      <4> QED
        BY <4>1, <4>2, <1>6
    <3>4. LastOf(AttemptsWith(key) \cup {n}, n)
      BY <3>3 DEF LastOf
    <3> QED
      BY <3>2, <3>4, <1>19
  <2> QED
    BY <2>1, <2>2 DEF PreviousIsLast
<1>21. RepeatsFound'
  <2>1. ASSUME NEW i \in Attempts
        PROVE  Same(i)' = Same(i) /\ Same(i) \subseteq Attempts
    <3>1. \A j \in Attempts : Key(CallAt(j))' = Key(CallAt(j))
      BY <1>18
    <3>2. Key(CallAt(i))' = Key(CallAt(i))
      BY <1>18
    <3>3. ~(n < i)
      BY <1>0, <1>6
    <3> QED
      BY <3>1, <3>2, <3>3, <1>6 DEF Same
  <2>2. Same(n)' = AttemptsWith(key)
    <3>1. \A j \in Attempts : Key(CallAt(j))' = Key(CallAt(j))
      BY <1>18
    <3>2. ~(n < n)
      BY <1>0, <1>6
    <3>3. \A j \in Attempts : j < n
      BY <1>6
    <3> QED
      BY <3>1, <3>2, <3>3, <1>6, <1>18 DEF Same, AttemptsWith
  <2>3. ASSUME NEW i \in Attempts
        PROVE  IF request'[CallAt(i)'].input = Opaque \/ Same(i)' = {}
               THEN trace'[i].detail = 0
               ELSE \E m \in Same(i)' : /\ LastOf(Same(i)', m)
                                        /\ trace'[i].detail = trace'[m].call_id
    <3>1. request'[CallAt(i)'].input = request[CallAt(i)].input /\ trace'[i] = trace[i]
      BY <1>6, <1>18
    <3> QED
      BY <2>1, <3>1, <1>6 DEF RepeatsFound
  <2>4. IF request'[CallAt(n)'].input = Opaque \/ Same(n)' = {}
        THEN trace'[n].detail = 0
        ELSE \E m \in Same(n)' : /\ LastOf(Same(n)', m)
                                 /\ trace'[n].detail = trace'[m].call_id
    <3>1. trace'[n].detail = seen /\ request'[CallAt(n)'].input = request[c].input
      BY <1>5, <1>6, <1>18
    <3>2. CASE request[c].input = Opaque
      BY <3>1, <3>2, <1>0
    <3>3. CASE request[c].input # Opaque
      <4>1. key \in Tools \X Inputs /\ seen = previous[key]
        BY <3>3, <1>0, <1>2
      <4>2. \A m \in AttemptsWith(key) : trace'[m] = trace[m]
        BY <1>6, <1>19
      <4> QED
        BY <2>2, <3>1, <3>3, <4>1, <4>2 DEF PreviousIsLast, LastOf
    <3> QED
      BY <3>2, <3>3
  <2>5. ASSUME NEW i \in Attempts'
        PROVE  IF request'[CallAt(i)'].input = Opaque \/ Same(i)' = {}
               THEN trace'[i].detail = 0
               ELSE \E m \in Same(i)' : /\ LastOf(Same(i)', m)
                                        /\ trace'[i].detail = trace'[m].call_id
    <3>1. CASE i \in Attempts
      BY <3>1, <2>3
    <3>2. CASE i = n
      BY <3>2, <2>4
    <3> QED
      BY <3>1, <3>2, <1>6
  <2> QED
    BY <2>5 DEF RepeatsFound
<1> QED
  BY <1>9, <1>13, <1>14, <1>15, <1>16, <1>20, <1>21

-----------------------------------------------------------------------------
\* The other steps.

\* What the schedule says of a call is one of the planned kinds or none.
LEMMA ScheduledKind ==
    ASSUME NEW tool, NEW number
    PROVE  /\ Scheduled(tool, number) \in {"none", "timeout_before", "stale_read",
                                           "response_lost_after_commit"}
           /\ \A f \in Faults : f.tool = tool /\ f.on_call = number =>
                 Scheduled(tool, number) = f.kind
<1>1. CASE \E f \in Faults : f.tool = tool /\ f.on_call = number
  <2> DEFINE g == CHOOSE f \in Faults : f.tool = tool /\ f.on_call = number
  <2>1. g \in Faults /\ g.tool = tool /\ g.on_call = number
    BY <1>1
  <2>2. Scheduled(tool, number) = g.kind
    BY <1>1 DEF Scheduled
  <2> HIDE DEF g
  <2>3. \A f \in Faults : f.tool = tool /\ f.on_call = number => f = g
    BY <2>1, BoundaryPrepared
  <2>4. g.kind \in {"timeout_before", "stale_read", "response_lost_after_commit"}
    BY <2>1, BoundaryPrepared
  <2> QED
    BY <2>2, <2>3, <2>4
<1>2. CASE ~\E f \in Faults : f.tool = tool /\ f.on_call = number
  BY <1>2 DEF Scheduled
<1> QED
  BY <1>1, <1>2

\* A call's event other than its attempt keeps the numbers and the repeats.
LEMMA StepKeepsNumbers ==
    ASSUME BoundaryInv, NEW c \in Calls, NEW e \in TraceEvents, e.kind # "tool_attempt",
           NEW from, NEW to, Step(c, from, e, to), from # "idle",
           to \in {"error", "fault", "told", "observe"} \cup Told
    PROVE  /\ BoundaryTypeOK' /\ CountsMatch' /\ OwnNumbers' /\ AttemptsHaveCalls'
           /\ AttemptsInOrder' /\ PreviousIsLast' /\ RepeatsFound'
<1>1. /\ trace \in Seq(TraceEvents) /\ trace' = Append(trace, e)
      /\ DOMAIN pc = Calls
      /\ UNCHANGED <<request, context, status, runs, counts, calls, previous>>
      /\ pc[c] # "idle" /\ pc' = [pc EXCEPT ![c] = to]
  BY DEF BoundaryInv, BoundaryTypeOK, Step
<1>2. /\ trace' \in Seq(TraceEvents) /\ Attempts' = Attempts
      /\ \A i \in Attempts : trace'[i] = trace[i]
  BY <1>1, AppendEvent
<1>3. to # "idle"
  BY DEF Told
<1>4. \A d \in Calls : pc'[d] = "idle" <=> pc[d] = "idle"
  BY <1>1, <1>3
<1>5. BoundaryTypeOK'
  BY <1>1, <1>2 DEF BoundaryInv, BoundaryTypeOK
<1>6. UNCHANGED <<request, context, counts, calls, previous>>
  BY <1>1
<1> QED
  BY <1>2, <1>4, <1>5, <1>6, QuietSteps

\* An event that is no fault keeps the faults told, and where to is as told as from.
LEMMA StepKeepsTold ==
    ASSUME BoundaryInv, NEW c \in Calls, NEW e \in TraceEvents, e.kind # "tool_fault",
           NEW from, NEW to, Step(c, from, e, to), from \in Lied <=> to \in Lied
    PROVE  FaultsAreTold'
<1>1. /\ trace \in Seq(TraceEvents) /\ trace' = Append(trace, e)
      /\ DOMAIN pc = Calls
      /\ request' = request /\ context' = context
      /\ pc[c] = from /\ pc' = [pc EXCEPT ![c] = to]
  BY DEF BoundaryInv, BoundaryTypeOK, Step
<1>2. /\ Len(trace) \in Nat /\ DOMAIN trace = 1..Len(trace)
      /\ DOMAIN trace' = 1..Len(trace) + 1
      /\ \A i \in 1..Len(trace) : trace'[i] = trace[i]
      /\ trace'[Len(trace) + 1] = e
  BY <1>1, AppendEvent
<1>3. \A d \in Calls : pc'[d] \in Lied <=> pc[d] \in Lied
  BY <1>1
<1>4. \A i \in DOMAIN trace' : trace'[i].kind = "tool_fault" =>
         i \in DOMAIN trace /\ trace'[i] = trace[i]
  BY <1>2
<1>5. \A i \in DOMAIN trace : i \in DOMAIN trace' /\ trace'[i] = trace[i]
  BY <1>2
<1> QED
  BY <1>1, <1>3, <1>4, <1>5 DEF BoundaryInv, FaultsAreTold

\* A step of a call keeps what the others are spared.
LEMMA StepKeepsKept ==
    ASSUME BoundaryInv, NEW c \in Calls, NEW e, NEW from, NEW to, Step(c, from, e, to),
           to \in Ran => Fault(c) \notin {"timeout_before", "stale_read"},
           to = "fault" => Fault(c) \in {"timeout_before", "stale_read",
                                         "response_lost_after_commit"},
           to # "executed",
           to \in Spared => ~Loses(c) /\ status[c] \in Statuses
    PROVE  FaultsAreKept'
<1>1. /\ DOMAIN pc = Calls
      /\ request' = request /\ context' = context /\ status' = status
      /\ pc' = [pc EXCEPT ![c] = to]
  BY DEF BoundaryInv, BoundaryTypeOK, Step
<1>2. \A d : Fault(d)' = Fault(d) /\ (Loses(d)' <=> Loses(d))
  BY <1>1 DEF Fault, Loses, Scheduled
<1>3. ASSUME NEW d \in Calls
      PROVE  /\ pc'[d] \in Ran => Fault(d)' \notin {"timeout_before", "stale_read"}
             /\ pc'[d] = "fault" => Fault(d)' \in {"timeout_before", "stale_read",
                                                  "response_lost_after_commit"}
             /\ pc'[d] = "executed" => status'[d] \in Statuses
             /\ pc'[d] \in Spared => ~Loses(d)' /\ status'[d] \in Statuses
  <2>1. CASE d = c
    BY <2>1, <1>1, <1>2
  <2>2. CASE d # c
    BY <2>2, <1>1, <1>2 DEF BoundaryInv, FaultsAreKept
  <2> QED
    BY <2>1, <2>2
<1> QED
  BY <1>3 DEF FaultsAreKept

-----------------------------------------------------------------------------
\* Each action keeps the invariant.

LEMMA StartKeeps ==
    ASSUME BoundaryInv, NEW c \in Calls, Start(c)
    PROVE  BoundaryInv'
<1>1. /\ pc[c] = "idle" /\ DOMAIN pc = Calls
      /\ trace \in Seq(TraceEvents)
      /\ request' = request /\ status' = status
      /\ \A d \in Calls : d # c => pc'[d] = pc[d] /\ context'[d] = context[d]
      /\ context'[c].number = Number(c)
      /\ pc'[c] = IF Scheduled(request[c].tool, Number(c)) \in {"timeout_before", "stale_read"}
                  THEN "fault" ELSE "execute"
  BY DEF BoundaryInv, BoundaryTypeOK, Start, MayStart
<1>2. PICK e : /\ trace' = Append(trace, e) /\ e.kind = "tool_attempt"
  BY DEF Start
<1>3. BoundaryTypeOK' /\ CountsMatch' /\ OwnNumbers' /\ AttemptsHaveCalls'
      /\ AttemptsInOrder' /\ PreviousIsLast' /\ RepeatsFound'
  BY StartKeepsNumbers
<1>4. FaultsAreTold'
  <2>1. /\ Len(trace) \in Nat /\ DOMAIN trace = 1..Len(trace)
        /\ DOMAIN trace' = 1..Len(trace) + 1
        /\ \A i \in 1..Len(trace) : trace'[i] = trace[i]
        /\ trace'[Len(trace) + 1] = e
    BY <1>1, <1>2
  <2>2. \A d \in Calls : /\ pc'[d] \in Lied <=> pc[d] \in Lied
                         /\ pc[d] \in Lied => context'[d] = context[d]
    BY <1>1 DEF Lied
  <2>3. \A i \in DOMAIN trace' : trace'[i].kind = "tool_fault" =>
           i \in DOMAIN trace /\ trace'[i] = trace[i]
    BY <1>2, <2>1
  <2>4. \A i \in DOMAIN trace : i \in DOMAIN trace' /\ trace'[i] = trace[i]
    BY <2>1
  <2> QED
    BY <1>1, <2>2, <2>3, <2>4 DEF BoundaryInv, FaultsAreTold
<1>5. FaultsAreKept'
  <2>1. Fault(c)' = Scheduled(request[c].tool, Number(c))
    BY <1>1 DEF Fault, Scheduled
  <2>2. ASSUME NEW d \in Calls, d # c
        PROVE  Fault(d)' = Fault(d) /\ (Loses(d)' <=> Loses(d))
    <3>1. request'[d].tool = request[d].tool /\ context'[d].number = context[d].number
          /\ status'[d] = status[d]
      BY <2>2, <1>1
    <3>2. Fault(d)' = Scheduled(request'[d].tool, context'[d].number)
      BY DEF Fault, Scheduled
    <3>3. Fault(d)' = Fault(d)
      BY <3>1, <3>2 DEF Fault
    <3> QED
      BY <3>1, <3>3 DEF Loses
  <2>3. ASSUME NEW d \in Calls
        PROVE  /\ pc'[d] \in Ran => Fault(d)' \notin {"timeout_before", "stale_read"}
               /\ pc'[d] = "fault" => Fault(d)' \in {"timeout_before", "stale_read",
                                                    "response_lost_after_commit"}
               /\ pc'[d] = "executed" => status'[d] \in Statuses
               /\ pc'[d] \in Spared => ~Loses(d)' /\ status'[d] \in Statuses
    <3>1. CASE d = c
      BY <3>1, <1>1, <2>1 DEF Ran, Spared
    <3>2. CASE d # c
      BY <3>2, <1>1, <2>2 DEF BoundaryInv, FaultsAreKept
    <3> QED
      BY <3>1, <3>2
  <2> QED
    BY <2>3 DEF FaultsAreKept
<1> QED
  BY <1>3, <1>4, <1>5 DEF BoundaryInv

\* The callable ends: no event, and a status for one call.
LEMMA ExecuteKeeps ==
    ASSUME BoundaryInv, NEW c \in Calls,
           NEW s \in {"returned", "error_result", "error", "cancelled"}, Execute(c, s)
    PROVE  BoundaryInv'
<1>1. /\ pc[c] = "execute" /\ DOMAIN pc = Calls /\ DOMAIN status = Calls
      /\ UNCHANGED <<request, context, counts, calls, previous, trace>>
      /\ pc' = [pc EXCEPT ![c] = "executed"] /\ status' = [status EXCEPT ![c] = s]
  BY DEF BoundaryInv, BoundaryTypeOK, Execute
<1>2. s \in Statuses
  BY DEF Statuses, Raised
<1>3. BoundaryTypeOK'
  BY <1>1, <1>2 DEF BoundaryInv, BoundaryTypeOK, Execute
<1>4. CountsMatch' /\ OwnNumbers' /\ AttemptsHaveCalls'
      /\ AttemptsInOrder' /\ PreviousIsLast' /\ RepeatsFound'
  <2>1. Attempts' = Attempts /\ \A i \in Attempts : trace'[i] = trace[i]
    BY <1>1 DEF Attempts
  <2>2. \A d \in Calls : pc'[d] = "idle" <=> pc[d] = "idle"
    BY <1>1
  <2>3. UNCHANGED <<request, context, counts, calls, previous>>
    BY <1>1
  <2> QED
    BY <2>1, <2>2, <2>3, QuietSteps
<1>5. FaultsAreTold'
  <2>1. \A d \in Calls : pc'[d] \in Lied <=> pc[d] \in Lied
    BY <1>1 DEF Lied
  <2> QED
    BY <1>1, <2>1 DEF BoundaryInv, FaultsAreTold
<1>6. FaultsAreKept'
  <2>1. \A d : Fault(d)' = Fault(d)
    BY <1>1 DEF Fault, Scheduled
  <2>2. ASSUME NEW d \in Calls
        PROVE  /\ pc'[d] \in Ran => Fault(d)' \notin {"timeout_before", "stale_read"}
               /\ pc'[d] = "fault" => Fault(d)' \in {"timeout_before", "stale_read",
                                                    "response_lost_after_commit"}
               /\ pc'[d] = "executed" => status'[d] \in Statuses
               /\ pc'[d] \in Spared => ~Loses(d)' /\ status'[d] \in Statuses
    <3>1. CASE d = c
      BY <3>1, <1>1, <1>2, <2>1 DEF BoundaryInv, FaultsAreKept, Ran, Spared
    <3>2. CASE d # c
      BY <3>2, <1>1, <2>1 DEF BoundaryInv, FaultsAreKept, Loses
    <3> QED
      BY <3>1, <3>2
  <2> QED
    BY <2>2 DEF FaultsAreKept
<1> QED
  BY <1>3, <1>4, <1>5, <1>6 DEF BoundaryInv

\* A call that has started names its event correctly.
LEMMA EventShape ==
    ASSUME BoundaryInv, NEW c \in Calls,
           NEW kind \in {"tool_executed", "tool_error", "tool_fault", "tool_observation"},
           NEW detail \in Statuses \cup {"timeout_before", "stale_read",
                                         "response_lost_after_commit"}
    PROVE  /\ Event(kind, c, detail) \in TraceEvents
           /\ Event(kind, c, detail).kind = kind
           /\ Event(kind, c, detail).tool = request[c].tool
           /\ Event(kind, c, detail).number = context[c].number
  BY DEF BoundaryInv, BoundaryTypeOK, Event, TraceEvents

\* The execution is recorded: only what is not lost goes on to be observed.
LEMMA RecordExecutedKeeps ==
    ASSUME BoundaryInv, NEW c \in Calls, RecordExecuted(c)
    PROVE  BoundaryInv'
<1> DEFINE e == Event("tool_executed", c, status[c])
           to == IF Loses(c) THEN "fault"
                 ELSE IF status[c] \in Raised THEN "error" ELSE "observe"
<1>1. Step(c, "executed", e, to) /\ pc[c] = "executed"
  BY DEF RecordExecuted, Step
<1>2. status[c] \in Statuses /\ Fault(c) \notin {"timeout_before", "stale_read"}
  BY <1>1 DEF BoundaryInv, FaultsAreKept, Ran
<1>3. e \in TraceEvents /\ e.kind = "tool_executed"
  BY <1>2, EventShape
<1>4. /\ to \in {"error", "fault", "observe"}
      /\ to = "fault" <=> Loses(c)
      /\ Loses(c) => Fault(c) = "response_lost_after_commit"
  BY DEF Loses
<1> HIDE DEF e, to
<1>5. BoundaryTypeOK' /\ CountsMatch' /\ OwnNumbers' /\ AttemptsHaveCalls'
      /\ AttemptsInOrder' /\ PreviousIsLast' /\ RepeatsFound'
  BY <1>1, <1>3, <1>4, StepKeepsNumbers
<1>6. FaultsAreTold'
  <2>1. "executed" \in Lied <=> to \in Lied
    BY <1>4 DEF Lied
  <2> QED
    BY <1>1, <1>3, <2>1, StepKeepsTold
<1>7. FaultsAreKept'
  <2>1. to \in Spared => ~Loses(c)
    BY <1>4 DEF Spared
  <2> QED
    BY <1>1, <1>2, <1>4, <2>1, StepKeepsKept
<1> QED
  BY <1>5, <1>6, <1>7 DEF BoundaryInv

\* The error of a callable that raised is recorded.
LEMMA RecordErrorKeeps ==
    ASSUME BoundaryInv, NEW c \in Calls, RecordError(c)
    PROVE  BoundaryInv'
<1> DEFINE e == Event("tool_error", c, status[c])
<1>1. Step(c, "error", e, "observe") /\ pc[c] = "error"
  BY DEF RecordError, Step
<1>2. status[c] \in Statuses /\ ~Loses(c) /\ Fault(c) \notin {"timeout_before", "stale_read"}
  BY <1>1 DEF BoundaryInv, FaultsAreKept, Ran, Spared
<1>3. e \in TraceEvents /\ e.kind = "tool_error"
  BY <1>2, EventShape
<1> HIDE DEF e
<1>4. BoundaryTypeOK' /\ CountsMatch' /\ OwnNumbers' /\ AttemptsHaveCalls'
      /\ AttemptsInOrder' /\ PreviousIsLast' /\ RepeatsFound'
  BY <1>1, <1>3, StepKeepsNumbers
<1>5. FaultsAreTold'
  <2>1. "error" \in Lied <=> "observe" \in Lied
    BY DEF Lied
  <2> QED
    BY <1>1, <1>3, <2>1, StepKeepsTold
<1>6. FaultsAreKept'
  BY <1>1, <1>2, StepKeepsKept
<1> QED
  BY <1>4, <1>5, <1>6 DEF BoundaryInv

\* A fault is recorded: from here on its call is lied to.
LEMMA RecordFaultKeeps ==
    ASSUME BoundaryInv, NEW c \in Calls, RecordFault(c)
    PROVE  BoundaryInv'
<1> DEFINE e == Event("tool_fault", c, Fault(c))
<1>1. /\ Step(c, "fault", e, "told") /\ pc[c] = "fault"
      /\ trace \in Seq(TraceEvents) /\ trace' = Append(trace, e)
      /\ request' = request /\ context' = context
      /\ DOMAIN pc = Calls /\ pc' = [pc EXCEPT ![c] = "told"]
  BY DEF RecordFault, Step, BoundaryInv, BoundaryTypeOK
<1>2. Fault(c) \in {"timeout_before", "stale_read", "response_lost_after_commit"}
  BY <1>1 DEF BoundaryInv, FaultsAreKept
<1>3. /\ e \in TraceEvents /\ e.kind = "tool_fault"
      /\ e.tool = request[c].tool /\ e.number = context[c].number
  BY <1>2, EventShape
<1> HIDE DEF e
<1>4. BoundaryTypeOK' /\ CountsMatch' /\ OwnNumbers' /\ AttemptsHaveCalls'
      /\ AttemptsInOrder' /\ PreviousIsLast' /\ RepeatsFound'
  BY <1>1, <1>3, StepKeepsNumbers
<1>5. FaultsAreTold'
  <2>1. /\ Len(trace) \in Nat /\ DOMAIN trace = 1..Len(trace)
        /\ DOMAIN trace' = 1..Len(trace) + 1
        /\ \A i \in 1..Len(trace) : trace'[i] = trace[i]
        /\ trace'[Len(trace) + 1] = e
    BY <1>1, <1>3, AppendEvent
  <2>2. pc'[c] \in Lied /\ \A d \in Calls : d # c => pc'[d] = pc[d]
    BY <1>1 DEF Lied
  <2>3. pc[c] \notin Lied
    BY <1>1 DEF Lied
  <2>4. ASSUME NEW i \in DOMAIN trace', trace'[i].kind = "tool_fault"
        PROVE  \E d \in Calls : /\ pc'[d] \in Lied
                                /\ trace'[i].tool = request'[d].tool
                                /\ trace'[i].number = context'[d].number
    <3>1. CASE i = Len(trace) + 1
      BY <3>1, <1>1, <1>3, <2>1, <2>2
    <3>2. CASE i \in DOMAIN trace
      <4>1. trace'[i] = trace[i]
        BY <3>2, <2>1
      <4>2. PICK d \in Calls : /\ pc[d] \in Lied /\ trace[i].tool = request[d].tool
                               /\ trace[i].number = context[d].number
        BY <2>4, <3>2, <4>1 DEF BoundaryInv, FaultsAreTold
      <4>3. pc'[d] \in Lied
        BY <4>2, <2>2
      <4> QED
        BY <1>1, <4>1, <4>2, <4>3
    <3> QED
      BY <3>1, <3>2, <2>1
  <2>5. ASSUME NEW d \in Calls, pc'[d] \in Lied
        PROVE  \E i \in DOMAIN trace' : /\ trace'[i].kind = "tool_fault"
                                        /\ trace'[i].tool = request'[d].tool
                                        /\ trace'[i].number = context'[d].number
    <3>1. CASE d = c
      <4>1. Len(trace) + 1 \in DOMAIN trace'
        BY <2>1
      <4> QED
        BY <3>1, <4>1, <1>1, <1>3, <2>1
    <3>2. CASE d # c
      <4>1. PICK i \in DOMAIN trace : /\ trace[i].kind = "tool_fault"
                                      /\ trace[i].tool = request[d].tool
                                      /\ trace[i].number = context[d].number
        BY <2>5, <3>2, <2>2 DEF BoundaryInv, FaultsAreTold
      <4>2. i \in DOMAIN trace' /\ trace'[i] = trace[i]
        BY <2>1
      <4> QED
        BY <1>1, <4>1, <4>2
    <3> QED
      BY <3>1, <3>2
  <2> QED
    BY <2>4, <2>5 DEF FaultsAreTold
<1>6. FaultsAreKept'
  <2>1. "told" \notin Ran /\ "told" \notin Spared
    BY DEF Ran, Spared
  <2> QED
    BY <1>1, <2>1, StepKeepsKept
<1> QED
  BY <1>4, <1>5, <1>6 DEF BoundaryInv

\* The observation ends a call as lied to as it was.
LEMMA ObserveKeeps ==
    ASSUME BoundaryInv, NEW c \in Calls, Observe(c)
    PROVE  BoundaryInv'
<1> DEFINE e == Event("tool_observation", c, Observed(c))
<1>1. PICK from, to :
         /\ Step(c, from, e, to)
         /\ \/ from = "told" /\ to \in {"stale", "timeout"}
            \/ from = "observe" /\ to \in {"raised", "result"}
  BY DEF Observe
<1>2. pc[c] = from
  BY <1>1 DEF Step
<1>3. from = "observe" =>
         /\ status[c] \in Statuses /\ ~Loses(c)
         /\ Fault(c) \notin {"timeout_before", "stale_read"}
  BY <1>2 DEF BoundaryInv, FaultsAreKept, Ran, Spared
<1>4. Observed(c) \in Statuses
  BY <1>1, <1>2, <1>3 DEF Observed, Statuses, Raised
<1>5. e \in TraceEvents /\ e.kind = "tool_observation"
  BY <1>4, EventShape
<1> HIDE DEF e
<1>6. BoundaryTypeOK' /\ CountsMatch' /\ OwnNumbers' /\ AttemptsHaveCalls'
      /\ AttemptsInOrder' /\ PreviousIsLast' /\ RepeatsFound'
  BY <1>1, <1>5, StepKeepsNumbers DEF Told
<1>7. FaultsAreTold'
  <2>1. from \in Lied <=> to \in Lied
    BY <1>1 DEF Lied
  <2> QED
    BY <1>1, <1>5, <2>1, StepKeepsTold
<1>8. FaultsAreKept'
  <2>1. from = "told" => to \notin Ran \cup Spared
    BY <1>1 DEF Ran, Spared
  <2> QED
    BY <1>1, <1>3, <2>1, StepKeepsKept
<1> QED
  BY <1>6, <1>7, <1>8 DEF BoundaryInv

-----------------------------------------------------------------------------
\* The invariant holds of every behaviour.

LEMMA BoundaryInvInit == BoundaryInit => BoundaryInv
<1> SUFFICES ASSUME BoundaryInit PROVE BoundaryInv
  OBVIOUS
<1>1. /\ trace = <<>> /\ DOMAIN trace = {} /\ trace \in Seq(TraceEvents)
      /\ \A c \in Calls : pc[c] = "idle" /\ context[c].call_id = 0 /\ context[c].number = 0
      /\ calls = 0 /\ \A t \in Tools : counts[t] = 0
      /\ \A k \in Tools \X Inputs : previous[k] = 0
  BY DEF BoundaryInit
<1>2. Attempts = {}
  BY <1>1 DEF Attempts
<1>3. BoundaryTypeOK
  BY <1>1, BoundaryPrepared DEF BoundaryInit, BoundaryTypeOK
<1>4. CountsMatch
  <2>1. \A t : AttemptsOf(t) = {}
    BY <1>2 DEF AttemptsOf
  <2> QED
    BY <1>1, <1>2, <2>1, FS_EmptySet DEF CountsMatch
<1>5. OwnNumbers /\ AttemptsHaveCalls /\ AttemptsInOrder /\ RepeatsFound
  BY <1>1, <1>2 DEF OwnNumbers, AttemptsHaveCalls, AttemptsInOrder, RepeatsFound
<1>6. PreviousIsLast
  BY <1>1, <1>2 DEF PreviousIsLast, AttemptsWith
<1>7. FaultsAreTold /\ FaultsAreKept
  BY <1>1 DEF FaultsAreTold, FaultsAreKept, Lied, Ran, Spared
<1> QED
  BY <1>3, <1>4, <1>5, <1>6, <1>7 DEF BoundaryInv

\* A stutter keeps every part.
LEMMA BoundaryInvStutter ==
    ASSUME BoundaryInv, UNCHANGED boundaryVars
    PROVE  BoundaryInv'
<1>1. UNCHANGED <<pc, request, context, status, runs, counts, calls, previous, trace>>
  BY DEF boundaryVars
<1>2. Attempts' = Attempts
  BY <1>1 DEF Attempts
<1>3. CountsMatch' /\ OwnNumbers' /\ AttemptsHaveCalls'
      /\ AttemptsInOrder' /\ PreviousIsLast' /\ RepeatsFound'
  <2>1. UNCHANGED <<request, context, counts, calls, previous>>
    BY <1>1
  <2>2. /\ \A i \in Attempts : trace'[i] = trace[i]
        /\ \A c \in Calls : pc'[c] = "idle" <=> pc[c] = "idle"
    BY <1>1
  <2> QED
    BY <1>2, <2>1, <2>2, QuietSteps
<1>4. BoundaryTypeOK'
  BY <1>1 DEF BoundaryInv, BoundaryTypeOK
<1>5. FaultsAreTold'
  BY <1>1 DEF BoundaryInv, FaultsAreTold
<1>6. FaultsAreKept'
  BY <1>1 DEF BoundaryInv, FaultsAreKept, Fault, Loses, Scheduled
<1> QED
  BY <1>3, <1>4, <1>5, <1>6 DEF BoundaryInv

\* Every step keeps the invariant.
LEMMA BoundaryInvNext == BoundaryInv /\ [BoundaryNext]_boundaryVars => BoundaryInv'
<1> SUFFICES ASSUME BoundaryInv, [BoundaryNext]_boundaryVars PROVE BoundaryInv'
  OBVIOUS
<1>1. CASE BoundaryNext
  <2>1. PICK c \in Calls : Call(c)
    BY <1>1 DEF BoundaryNext
  <2>2. CASE Start(c)
    BY <2>2, StartKeeps
  <2>3. CASE \E s \in {"returned", "error_result", "error", "cancelled"} : Execute(c, s)
    BY <2>3, ExecuteKeeps
  <2>4. CASE RecordExecuted(c)
    BY <2>4, RecordExecutedKeeps
  <2>5. CASE RecordError(c)
    BY <2>5, RecordErrorKeeps
  <2>6. CASE RecordFault(c)
    BY <2>6, RecordFaultKeeps
  <2>7. CASE Observe(c)
    BY <2>7, ObserveKeeps
  <2> QED
    BY <2>1, <2>2, <2>3, <2>4, <2>5, <2>6, <2>7 DEF Call
<1>2. CASE UNCHANGED boundaryVars
  BY <1>2, BoundaryInvStutter
<1> QED
  BY <1>1, <1>2

\* The inductive invariant of the boundary.
THEOREM BoundaryInvariant == BoundarySpec => []BoundaryInv
  BY BoundaryInvInit, BoundaryInvNext, PTL DEF BoundarySpec

\* Every variable of the boundary keeps its shape.
THEOREM BoundaryTypeCorrect == BoundarySpec => []BoundaryTypeOK
<1>1. BoundaryInv => BoundaryTypeOK
  BY DEF BoundaryInv
<1> QED
  BY <1>1, BoundaryInvariant, PTL

\* However the threads race, the attempts stand in the trace in the order of
\* their call_id, and those of a tool in the order of their call_number.
THEOREM AttemptsAreInOrder == BoundarySpec => []AttemptsInOrder
<1>1. BoundaryInv => AttemptsInOrder
  BY DEF BoundaryInv
<1> QED
  BY <1>1, BoundaryInvariant, PTL

\* same_input_as names the latest earlier call of the tool with that input, and
\* is left out only if there is none.
THEOREM RepeatsHold == BoundarySpec => []RepeatsAreReal
<1>1. BoundaryInv => RepeatsAreReal
  <2> SUFFICES ASSUME BoundaryInv, NEW i \in Attempts
               PROVE  trace[i].detail =
                        IF request[CallAt(i)].input = Opaque \/ Same(i) = {} THEN 0
                        ELSE trace[Max(Same(i))].call_id
    BY DEF RepeatsAreReal, Same
  <2>1. Attempts \subseteq Int
    <3>1. DOMAIN trace = 1..Len(trace) /\ Len(trace) \in Nat
      BY LenProperties DEF BoundaryInv, BoundaryTypeOK
    <3> QED
      BY <3>1 DEF Attempts
  <2>2. Same(i) \subseteq Int
    BY <2>1 DEF Same
  <2>3. CASE request[CallAt(i)].input = Opaque \/ Same(i) = {}
    BY <2>3 DEF BoundaryInv, RepeatsFound
  <2>4. CASE ~(request[CallAt(i)].input = Opaque \/ Same(i) = {})
    <3>1. PICK m \in Same(i) : LastOf(Same(i), m) /\ trace[i].detail = trace[m].call_id
      BY <2>4 DEF BoundaryInv, RepeatsFound
    <3>2. Max(Same(i)) = m
      BY <2>2, <3>1, LastIsMax
    <3> QED
      BY <2>4, <3>1, <3>2
  <2> QED
    BY <2>3, <2>4
<1> QED
  BY <1>1, BoundaryInvariant, PTL

\* A fault counted as triggered was told to the caller of its call, and a call
\* that ended without its fault was spared because the callable failed itself.
THEOREM CoverageHolds == BoundarySpec => []CoverageIsTrue
<1>1. BoundaryInv => CoverageIsTrue
  <2> SUFFICES ASSUME BoundaryInv, NEW f \in Faults, NEW c \in Calls,
                      request[c].tool = f.tool, context[c].number = f.on_call
               PROVE  /\ Triggered(f) => pc[c] \notin {"result", "raised"}
                      /\ pc[c] \in Told /\ ~Triggered(f) =>
                            status[c] \in Raised \cup {"error_result"}
    BY DEF CoverageIsTrue
  <2>1. f.on_call \in Nat \ {0}
    BY BoundaryPrepared
  <2>2. pc[c] # "idle"
    BY <2>1 DEF BoundaryInv, OwnNumbers
  <2>3. Fault(c) = f.kind /\ f.kind # "none"
    BY ScheduledKind, BoundaryPrepared DEF Fault
  <2>4. Triggered(f) <=> pc[c] \in Lied
    <3>1. ASSUME Triggered(f) PROVE pc[c] \in Lied
      <4>1. PICK i \in DOMAIN trace : /\ trace[i].kind = "tool_fault"
                                      /\ trace[i].tool = f.tool /\ trace[i].number = f.on_call
        BY <3>1 DEF Triggered
      <4>2. PICK d \in Calls : /\ pc[d] \in Lied /\ trace[i].tool = request[d].tool
                               /\ trace[i].number = context[d].number
        BY <4>1 DEF BoundaryInv, FaultsAreTold
      <4>3. d = c
        BY <2>2, <4>1, <4>2 DEF BoundaryInv, OwnNumbers
      <4> QED
        BY <4>2, <4>3
    <3>2. ASSUME pc[c] \in Lied PROVE Triggered(f)
      BY <3>2 DEF BoundaryInv, FaultsAreTold, Triggered
    <3> QED
      BY <3>1, <3>2
  <2>5. Triggered(f) => pc[c] \notin {"result", "raised"}
    BY <2>4 DEF Lied
  <2>6. ASSUME pc[c] \in Told, ~Triggered(f)
        PROVE  status[c] \in Raised \cup {"error_result"}
    <3>1. pc[c] \in {"result", "raised"}
      BY <2>4, <2>6 DEF Told, Lied
    <3>2. /\ Fault(c) \notin {"timeout_before", "stale_read"}
          /\ ~Loses(c) /\ status[c] \in Statuses
      BY <3>1 DEF BoundaryInv, FaultsAreKept, Ran, Spared
    <3>3. Fault(c) = "response_lost_after_commit"
      BY <2>3, <3>2, ScheduledKind DEF Fault
    <3> QED
      BY <3>2, <3>3 DEF Loses, Statuses
  <2> QED
    BY <2>5, <2>6
<1> QED
  BY <1>1, BoundaryInvariant, PTL

-----------------------------------------------------------------------------
\* What a call has left in the trace.

Kinds == {"tool_attempt", "tool_executed", "tool_error", "tool_fault", "tool_observation"}

\* The events at the positions S of the log have the kinds s, in this order.
HasKinds(S, log, s) ==
    /\ Cardinality(S) = Len(s)
    /\ \A i \in S : log[i].kind = s[Cardinality({j \in S : j <= i})]

\* The kinds of events a call has left so far.
KindsOf(c) ==
    CASE pc[c] = "idle" -> <<>>
      [] pc[c] \in {"execute", "executed"} -> <<"tool_attempt">>
      [] pc[c] = "error" -> <<"tool_attempt", "tool_executed">>
      [] pc[c] = "observe" -> IF status[c] \in Raised
                              THEN <<"tool_attempt", "tool_executed", "tool_error">>
                              ELSE <<"tool_attempt", "tool_executed">>
      [] pc[c] = "fault" -> IF runs[c] = 0 THEN <<"tool_attempt">>
                            ELSE <<"tool_attempt", "tool_executed">>
      [] pc[c] = "told" -> IF runs[c] = 0 THEN <<"tool_attempt", "tool_fault">>
                           ELSE <<"tool_attempt", "tool_executed", "tool_fault">>
      [] OTHER -> Shape(c)

\* What the caller observes.
AnswerOf(c) ==
    CASE pc[c] = "timeout" -> "error"
      [] pc[c] = "raised" -> status[c]
      [] OTHER -> "returned"

\* How often a call's callable has run, and how it ended.
RunsMatch(c) ==
    /\ pc[c] \in {"idle", "execute"} => runs[c] = 0
    /\ pc[c] \in {"executed", "error", "observe", "result", "raised"} => runs[c] = 1
    /\ pc[c] \in {"fault", "told", "timeout", "stale"} =>
          \/ runs[c] = 0
          \/ runs[c] = 1 /\ Fault(c) = "response_lost_after_commit"
    /\ pc[c] \in {"error", "raised"} => status[c] \in Raised
    /\ pc[c] = "result" => status[c] \notin Raised
    /\ pc[c] = "stale" => Fault(c) = "stale_read"

\* A call's observation is its last event, and says what its caller was told.
ObservedAtEnd(c) ==
    \A i \in EventsOf(c) : trace[i].kind = "tool_observation" =>
        pc[c] \in Told /\ trace[i].detail = AnswerOf(c)

TraceInv ==
    /\ \A i \in DOMAIN trace : trace[i].call_id \in 1..calls
    /\ \A c \in Calls : /\ HasKinds(EventsOf(c), trace, KindsOf(c))
                        /\ RunsMatch(c)
                        /\ ObservedAtEnd(c)

\* A later event of the kind k is the next in the order.
LEMMA KindsExtend ==
    ASSUME NEW S \in SUBSET Nat, IsFiniteSet(S), NEW n \in Nat, \A i \in S : i < n,
           NEW q, NEW r, \A i \in S : r[i] = q[i],
           NEW s \in Seq(Kinds), HasKinds(S, q, s), NEW k \in Kinds, r[n].kind = k
    PROVE  HasKinds(S \cup {n}, r, Append(s, k))
<1> DEFINE T == S \cup {n}
           UpTo(i) == {j \in S : j <= i}
<1>1. Cardinality(S) = Len(s) /\ Len(s) \in Nat
  BY DEF HasKinds
<1>2. n \notin S
  OBVIOUS
<1>3. Cardinality(T) = Len(s) + 1
  BY <1>1, <1>2, FS_AddElement
<1>4. ASSUME NEW i \in S
      PROVE  r[i].kind = Append(s, k)[Cardinality({j \in T : j <= i})]
  <2>1. {j \in T : j <= i} = UpTo(i)
    BY DEF UpTo
  <2>2. UpTo(i) \in SUBSET S /\ UpTo(i) # {}
    OBVIOUS
  <2>3. /\ IsFiniteSet(UpTo(i)) /\ Cardinality(UpTo(i)) \in Nat
        /\ Cardinality(UpTo(i)) <= Cardinality(S) /\ Cardinality(UpTo(i)) # 0
    BY <2>2, FS_Subset, FS_CardinalityType, FS_EmptySet
  <2>4. Cardinality(UpTo(i)) \in 1..Len(s)
    BY <1>1, <2>3
  <2>5. q[i].kind = s[Cardinality(UpTo(i))]
    BY DEF HasKinds
  <2> HIDE DEF UpTo
  <2>6. Append(s, k)[Cardinality(UpTo(i))] = s[Cardinality(UpTo(i))]
    BY <2>4
  <2> QED
    BY <2>1, <2>5, <2>6
<1>5. r[n].kind = Append(s, k)[Cardinality({j \in T : j <= n})]
  <2>1. {j \in T : j <= n} = T
    <3>1. \A j \in S : j \in Nat /\ j < n
      OBVIOUS
    <3>2. \A j \in T : j <= n
      BY <3>1
    <3> QED
      BY <3>2
  <2>2. Append(s, k)[Len(s) + 1] = k
    OBVIOUS
  <2> QED
    BY <1>3, <2>1, <2>2
<1>6. Len(Append(s, k)) = Len(s) + 1
  OBVIOUS
<1> QED
  BY <1>3, <1>4, <1>5, <1>6 DEF HasKinds

\* The kinds of events are sequences, and those of a call that has ended its shape.
LEMMA KindsAreSequences ==
    ASSUME NEW c \in Calls
    PROVE  KindsOf(c) \in Seq(Kinds)
<1>1. /\ <<>> \in Seq(Kinds) /\ <<"tool_attempt">> \in Seq(Kinds)
      /\ <<"tool_executed">> \in Seq(Kinds) /\ <<"tool_error">> \in Seq(Kinds)
      /\ <<"tool_fault">> \in Seq(Kinds) /\ <<"tool_observation">> \in Seq(Kinds)
  <2>1. \A a \in Kinds : <<a>> \in Seq(Kinds)
    OBVIOUS
  <2> QED
    BY <2>1 DEF Kinds
<1>2. Shape(c) \in Seq(Kinds)
  <2>1. \A s, t \in Seq(Kinds) : s \o t \in Seq(Kinds)
    OBVIOUS
  <2>2. (IF runs[c] = 0 THEN <<>> ELSE <<"tool_executed">>) \in Seq(Kinds)
    BY <1>1
  <2>3. (CASE pc[c] = "raised" -> <<"tool_error">>
           [] pc[c] \in {"timeout", "stale"} -> <<"tool_fault">>
           [] OTHER -> <<>>) \in Seq(Kinds)
    BY <1>1
  <2> QED
    BY <1>1, <2>1, <2>2, <2>3 DEF Shape
<1>3. /\ <<"tool_attempt", "tool_executed">> \in Seq(Kinds)
      /\ <<"tool_attempt", "tool_fault">> \in Seq(Kinds)
      /\ <<"tool_attempt", "tool_executed", "tool_error">> \in Seq(Kinds)
      /\ <<"tool_attempt", "tool_executed", "tool_fault">> \in Seq(Kinds)
  <2>1. \A a, b \in Kinds : <<a, b>> \in Seq(Kinds)
    OBVIOUS
  <2>2. \A a, b, d \in Kinds : <<a, b, d>> \in Seq(Kinds)
    OBVIOUS
  <2> QED
    BY <2>1, <2>2 DEF Kinds
<1> QED
  BY <1>1, <1>2, <1>3 DEF KindsOf

\* An event that a call appends is one more of its own and none of the others'.
LEMMA OwnEvents ==
    ASSUME BoundaryInv, TraceInv, NEW e \in TraceEvents, trace' = Append(trace, e),
           NEW c \in Calls, e.call_id = context'[c].call_id,
           \A d \in Calls \ {c} : /\ context'[d] = context[d]
                                  /\ e.call_id # context[d].call_id,
           \/ context'[c] = context[c]
           \/ EventsOf(c) = {} /\ e.call_id = calls + 1
    PROVE  /\ Len(trace) \in Nat
           /\ EventsOf(c)' = EventsOf(c) \cup {Len(trace) + 1}
           /\ \A d \in Calls \ {c} : EventsOf(d)' = EventsOf(d)
           /\ \A d \in Calls : /\ EventsOf(d) \in SUBSET (1..Len(trace))
                               /\ \A i \in EventsOf(d) : trace'[i] = trace[i]
           /\ trace'[Len(trace) + 1] = e
<1>1. trace \in Seq(TraceEvents) /\ calls \in Nat
  BY DEF BoundaryInv, BoundaryTypeOK
<1>2. /\ Len(trace) \in Nat /\ DOMAIN trace = 1..Len(trace)
      /\ DOMAIN trace' = 1..Len(trace) + 1
      /\ \A i \in 1..Len(trace) : trace'[i] = trace[i]
      /\ trace'[Len(trace) + 1] = e
  BY <1>1, AppendEvent
<1>3. DOMAIN trace' = DOMAIN trace \cup {Len(trace) + 1}
  BY <1>2
<1>4. \A d \in Calls \ {c} : EventsOf(d)' = EventsOf(d)
  BY <1>2, <1>3 DEF EventsOf
<1>5. EventsOf(c)' = EventsOf(c) \cup {Len(trace) + 1}
  <2>1. CASE context'[c] = context[c]
    <3>1. \A i \in DOMAIN trace' : trace'[i].call_id = context'[c].call_id
                                    <=> (i \in EventsOf(c) \/ i = Len(trace) + 1)
      BY <1>2, <1>3, <2>1 DEF EventsOf
    <3>2. EventsOf(c) \subseteq DOMAIN trace
      BY DEF EventsOf
    <3> QED
      BY <1>3, <3>1, <3>2 DEF EventsOf
  <2>2. CASE EventsOf(c) = {} /\ e.call_id = calls + 1
    <3>1. \A i \in DOMAIN trace : trace[i].call_id # calls + 1
      BY <1>1 DEF TraceInv
    <3> QED
      BY <1>2, <1>3, <2>2, <3>1 DEF EventsOf
  <2> QED
    BY <2>1, <2>2
<1> QED
  BY <1>2, <1>4, <1>5 DEF EventsOf

\* What a call has left, and how it ended, is kept by the steps of the others.
LEMMA OthersTraced ==
    ASSUME NEW d, EventsOf(d)' = EventsOf(d), \A i \in EventsOf(d) : trace'[i] = trace[i],
           pc'[d] = pc[d], status'[d] = status[d], runs'[d] = runs[d], Fault(d)' = Fault(d),
           HasKinds(EventsOf(d), trace, KindsOf(d)), RunsMatch(d), ObservedAtEnd(d)
    PROVE  HasKinds(EventsOf(d)', trace', KindsOf(d)') /\ RunsMatch(d)' /\ ObservedAtEnd(d)'
<1>1. KindsOf(d)' = KindsOf(d)
  <2>1. Shape(d)' = Shape(d)
    BY DEF Shape
  <2> QED
    BY <2>1 DEF KindsOf
<1>2. HasKinds(EventsOf(d)', trace', KindsOf(d)')
  BY <1>1 DEF HasKinds
<1>3. RunsMatch(d)'
  BY DEF RunsMatch
<1>4. ObservedAtEnd(d)'
  BY DEF ObservedAtEnd, AnswerOf
<1> QED
  BY <1>2, <1>3, <1>4

\* A call's next event extends what it has left, if its kind is the one expected.
LEMMA NextTraced ==
    ASSUME BoundaryInv, TraceInv, NEW e \in TraceEvents, trace' = Append(trace, e),
           NEW c \in Calls, e.call_id = context'[c].call_id, e.call_id \in 1..calls',
           calls' \in Nat, calls <= calls',
           \A d \in Calls \ {c} : /\ context'[d] = context[d]
                                  /\ e.call_id # context[d].call_id
                                  /\ pc'[d] = pc[d]
                                  /\ Fault(d)' = Fault(d),
           status' = status, runs' = runs,
           \/ context'[c] = context[c]
           \/ EventsOf(c) = {} /\ e.call_id = calls + 1,
           KindsOf(c)' = Append(KindsOf(c), e.kind), RunsMatch(c)', pc[c] \notin Told,
           e.kind = "tool_observation" => pc'[c] \in Told /\ e.detail = AnswerOf(c)'
    PROVE  TraceInv'
<1>1. /\ trace \in Seq(TraceEvents) /\ calls \in Nat
      /\ DOMAIN trace = 1..Len(trace) /\ Len(trace) \in Nat
      /\ DOMAIN trace' = 1..Len(trace) + 1
      /\ \A i \in 1..Len(trace) : trace'[i] = trace[i]
      /\ trace'[Len(trace) + 1] = e
  <2>1. trace \in Seq(TraceEvents) /\ calls \in Nat
    BY DEF BoundaryInv, BoundaryTypeOK
  <2> QED
    BY <2>1, AppendEvent
<1>2. /\ EventsOf(c)' = EventsOf(c) \cup {Len(trace) + 1}
      /\ \A d \in Calls \ {c} : EventsOf(d)' = EventsOf(d)
      /\ \A d \in Calls : /\ EventsOf(d) \in SUBSET (1..Len(trace))
                          /\ \A i \in EventsOf(d) : trace'[i] = trace[i]
  BY OwnEvents
<1>3. \A i \in DOMAIN trace' : trace'[i].call_id \in 1..calls'
  <2>1. \A i \in 1..Len(trace) : trace'[i].call_id \in 1..calls'
    BY <1>1 DEF TraceInv
  <2>2. \A i \in DOMAIN trace' : i \in 1..Len(trace) \/ i = Len(trace) + 1
    BY <1>1
  <2> QED
    BY <1>1, <2>1, <2>2
<1>4. ASSUME NEW d \in Calls \ {c}
      PROVE  HasKinds(EventsOf(d)', trace', KindsOf(d)') /\ RunsMatch(d)' /\ ObservedAtEnd(d)'
  <2>1. HasKinds(EventsOf(d), trace, KindsOf(d)) /\ RunsMatch(d) /\ ObservedAtEnd(d)
    BY DEF TraceInv
  <2> QED
    BY <1>2, <2>1, OthersTraced
<1>5. HasKinds(EventsOf(c)', trace', KindsOf(c)')
  <2> DEFINE S == EventsOf(c)
             n == Len(trace) + 1
             s == KindsOf(c)
  <2>1. s \in Seq(Kinds) /\ HasKinds(S, trace, s)
    BY KindsAreSequences DEF TraceInv
  <2>2. S \in SUBSET Nat /\ IsFiniteSet(S) /\ n \in Nat /\ \A i \in S : i < n
    <3>1. S \in SUBSET (1..Len(trace))
      BY <1>2
    <3>2. 1 \in Int /\ Len(trace) \in Int
      BY <1>1
    <3>3. IsFiniteSet(1..Len(trace))
      BY ONLY <3>2, FS_Interval
    <3> QED
      BY <1>1, <3>1, <3>3, FS_Subset
  <2>3. e.kind \in Kinds
    BY DEF TraceEvents, Kinds
  <2>4. (\A i \in S : trace'[i] = trace[i]) /\ trace'[n].kind = e.kind
    BY <1>1, <1>2
  <2> HIDE DEF S, n, s
  <2>5. HasKinds(S \cup {n}, trace', Append(s, e.kind))
    BY <2>1, <2>2, <2>3, <2>4, KindsExtend
  <2> QED
    BY <1>2, <2>5 DEF S, n, s
<1>6. ObservedAtEnd(c)'
  <2>1. \A i \in EventsOf(c) : trace'[i].kind # "tool_observation"
    BY <1>2 DEF TraceInv, ObservedAtEnd
  <2>2. \A i \in EventsOf(c)' : i \in EventsOf(c) \/ trace'[i] = e
    BY <1>1, <1>2
  <2> QED
    BY <2>1, <2>2 DEF ObservedAtEnd
<1> QED
  BY <1>3, <1>4, <1>5, <1>6 DEF TraceInv

\* So it is for the events of a call that has started.
LEMMA StepTraced ==
    ASSUME BoundaryInv, TraceInv, NEW c \in Calls,
           NEW kind \in {"tool_executed", "tool_error", "tool_fault", "tool_observation"},
           NEW detail \in Statuses \cup {"timeout_before", "stale_read",
                                         "response_lost_after_commit"},
           NEW from, NEW to, Step(c, from, Event(kind, c, detail), to),
           from # "idle", from \notin Told,
           KindsOf(c)' = Append(KindsOf(c), kind), RunsMatch(c)',
           kind = "tool_observation" => to \in Told /\ detail = AnswerOf(c)'
    PROVE  TraceInv'
<1> DEFINE e == Event(kind, c, detail)
<1>1. /\ trace' = Append(trace, e)
      /\ pc[c] = from /\ DOMAIN pc = Calls /\ pc' = [pc EXCEPT ![c] = to]
      /\ UNCHANGED <<request, context, status, runs, calls>>
  BY DEF Step, BoundaryInv, BoundaryTypeOK
<1>2. e \in TraceEvents /\ e.kind = kind
  BY EventShape
<1>3. e.call_id = context[c].call_id /\ e.detail = detail
  BY DEF Event
<1> HIDE DEF e
<1>4. /\ context[c].call_id \in 1..calls /\ calls \in Nat
      /\ \A d \in Calls \ {c} : context[c].call_id # context[d].call_id
  BY <1>1 DEF BoundaryInv, BoundaryTypeOK, OwnNumbers
<1>5. \A d \in Calls \ {c} : Fault(d)' = Fault(d) /\ pc'[d] = pc[d]
  BY <1>1 DEF Fault, Scheduled
<1>6. calls' \in Nat /\ calls <= calls'
  BY <1>1, <1>4
<1> QED
  BY <1>1, <1>2, <1>3, <1>4, <1>5, <1>6, NextTraced

-----------------------------------------------------------------------------
\* Each action keeps the traces of the calls.

\* A call leaves its attempt first.
LEMMA StartTraced ==
    ASSUME BoundaryInv, TraceInv, NEW c \in Calls, Start(c)
    PROVE  TraceInv'
<1> DEFINE e == [kind |-> "tool_attempt", tool |-> request[c].tool, call_id |-> calls + 1,
                 number |-> Number(c),
                 detail |-> IF request[c].input = Opaque THEN 0 ELSE previous[Key(c)]]
<1>1. /\ trace' = Append(trace, e) /\ calls' = calls + 1
      /\ pc[c] = "idle" /\ pc'[c] \in {"fault", "execute"}
      /\ context'[c].call_id = calls + 1
      /\ \A d \in Calls \ {c} : pc'[d] = pc[d] /\ context'[d] = context[d]
      /\ UNCHANGED <<request, status, runs>>
  BY DEF Start, MayStart, BoundaryInv, BoundaryTypeOK
<1>2. e \in TraceEvents
  <2>1. /\ request[c].tool \in Tools /\ request[c].input \in Inputs \cup {Opaque}
        /\ calls \in Nat /\ counts[request[c].tool] \in Nat
    BY DEF BoundaryInv, BoundaryTypeOK
  <2>2. (IF request[c].input = Opaque THEN 0 ELSE previous[Key(c)]) \in Nat
    BY <2>1 DEF BoundaryInv, BoundaryTypeOK, Key
  <2> QED
    BY <2>1, <2>2 DEF TraceEvents, Number
<1>3. e.kind = "tool_attempt" /\ e.call_id = calls + 1
  OBVIOUS
<1> HIDE DEF e
<1>4. calls \in Nat /\ \A d \in Calls : context[d].call_id \in 0..calls
  BY DEF BoundaryInv, BoundaryTypeOK, OwnNumbers
<1>5. \A d \in Calls \ {c} : e.call_id # context[d].call_id /\ Fault(d)' = Fault(d)
  <2>1. \A d \in Calls : context[d].call_id # calls + 1
    BY <1>4
  <2> QED
    BY <1>1, <1>3, <2>1 DEF Fault, Scheduled
<1>6. EventsOf(c) = {}
  <2>1. context[c].call_id = 0
    BY <1>1 DEF BoundaryInv, OwnNumbers
  <2> QED
    BY <1>4, <2>1 DEF TraceInv, EventsOf
<1>7. runs[c] = 0
  BY <1>1 DEF TraceInv, RunsMatch
<1>8. KindsOf(c)' = Append(KindsOf(c), e.kind)
  <2>1. KindsOf(c) = <<>>
    BY <1>1 DEF KindsOf
  <2>2. KindsOf(c)' = <<"tool_attempt">>
    BY <1>1, <1>7 DEF KindsOf
  <2> QED
    BY <1>3, <2>1, <2>2
<1>9. RunsMatch(c)'
  BY <1>1, <1>7 DEF RunsMatch
<1>10. /\ e.call_id \in 1..calls' /\ calls' \in Nat /\ calls <= calls'
       /\ e.call_id = context'[c].call_id
  BY <1>1, <1>3, <1>4
<1>11. pc[c] \notin Told
  BY <1>1 DEF Told
<1> QED
  BY <1>1, <1>2, <1>3, <1>5, <1>6, <1>8, <1>9, <1>10, <1>11, NextTraced

\* The callable leaves nothing by itself.
LEMMA ExecuteTraced ==
    ASSUME BoundaryInv, TraceInv, NEW c \in Calls,
           NEW s \in {"returned", "error_result", "error", "cancelled"}, Execute(c, s)
    PROVE  TraceInv'
<1>1. /\ pc[c] = "execute" /\ pc'[c] = "executed" /\ runs'[c] = runs[c] + 1
      /\ \A d \in Calls \ {c} : pc'[d] = pc[d] /\ runs'[d] = runs[d] /\ status'[d] = status[d]
      /\ UNCHANGED <<request, context, calls, trace>>
  BY DEF Execute, BoundaryInv, BoundaryTypeOK
<1>2. \A d : EventsOf(d)' = EventsOf(d) /\ Fault(d)' = Fault(d)
  BY <1>1 DEF EventsOf, Fault, Scheduled
<1>3. ASSUME NEW d \in Calls \ {c}
      PROVE  HasKinds(EventsOf(d)', trace', KindsOf(d)') /\ RunsMatch(d)' /\ ObservedAtEnd(d)'
  <2>1. HasKinds(EventsOf(d), trace, KindsOf(d)) /\ RunsMatch(d) /\ ObservedAtEnd(d)
    BY DEF TraceInv
  <2> QED
    BY <1>1, <1>2, <1>3, <2>1, OthersTraced
<1>4. HasKinds(EventsOf(c)', trace', KindsOf(c)')
  <2>1. KindsOf(c)' = KindsOf(c)
    BY <1>1 DEF KindsOf
  <2> QED
    BY <1>1, <1>2, <2>1 DEF TraceInv
<1>5. RunsMatch(c)'
  BY <1>1 DEF TraceInv, RunsMatch
<1>6. ObservedAtEnd(c)'
  <2>1. pc[c] \notin Told
    BY <1>1 DEF Told
  <2> QED
    BY <1>1, <1>2, <2>1 DEF TraceInv, ObservedAtEnd
<1> QED
  BY <1>1, <1>3, <1>4, <1>5, <1>6 DEF TraceInv

\* It leaves one execution, whether it is lost, raised or answered.
LEMMA RecordExecutedTraced ==
    ASSUME BoundaryInv, TraceInv, NEW c \in Calls, RecordExecuted(c)
    PROVE  TraceInv'
<1> DEFINE to == IF Loses(c) THEN "fault"
                 ELSE IF status[c] \in Raised THEN "error" ELSE "observe"
<1>1. Step(c, "executed", Event("tool_executed", c, status[c]), to)
  BY DEF RecordExecuted
<1>2. /\ pc[c] = "executed" /\ pc'[c] = to
      /\ UNCHANGED <<request, context, status, runs>>
  BY <1>1 DEF Step, BoundaryInv, BoundaryTypeOK
<1>3. status[c] \in Statuses /\ runs[c] = 1
  BY <1>2 DEF BoundaryInv, FaultsAreKept, TraceInv, RunsMatch
<1>4. Fault(c)' = Fault(c)
  BY <1>2 DEF Fault, Scheduled
<1>5. KindsOf(c)' = Append(KindsOf(c), "tool_executed")
  <2>1. KindsOf(c) = <<"tool_attempt">>
    BY <1>2 DEF KindsOf
  <2>2. KindsOf(c)' = <<"tool_attempt", "tool_executed">>
    BY <1>2, <1>3 DEF KindsOf
  <2> QED
    BY <2>1, <2>2
<1>6. RunsMatch(c)'
  BY <1>2, <1>3, <1>4 DEF RunsMatch, Loses
<1>7. "executed" # "idle" /\ "executed" \notin Told
  BY DEF Told
<1> HIDE DEF to
<1> QED
  BY <1>1, <1>3, <1>5, <1>6, <1>7, StepTraced

\* What it raised follows its execution.
LEMMA RecordErrorTraced ==
    ASSUME BoundaryInv, TraceInv, NEW c \in Calls, RecordError(c)
    PROVE  TraceInv'
<1>1. Step(c, "error", Event("tool_error", c, status[c]), "observe")
  BY DEF RecordError
<1>2. /\ pc[c] = "error" /\ pc'[c] = "observe"
      /\ UNCHANGED <<request, context, status, runs>>
  BY <1>1 DEF Step, BoundaryInv, BoundaryTypeOK
<1>3. runs[c] = 1 /\ status[c] \in Raised /\ status[c] \in Statuses
  BY <1>2 DEF TraceInv, RunsMatch, Statuses
<1>4. KindsOf(c)' = Append(KindsOf(c), "tool_error")
  <2>1. KindsOf(c) = <<"tool_attempt", "tool_executed">>
    BY <1>2 DEF KindsOf
  <2>2. KindsOf(c)' = <<"tool_attempt", "tool_executed", "tool_error">>
    BY <1>2, <1>3 DEF KindsOf
  <2> QED
    BY <2>1, <2>2
<1>5. RunsMatch(c)'
  BY <1>2, <1>3 DEF RunsMatch
<1>6. "error" # "idle" /\ "error" \notin Told
  BY DEF Told
<1> QED
  BY <1>1, <1>3, <1>4, <1>5, <1>6, StepTraced

\* A lie follows the attempt, and the execution it denies.
LEMMA RecordFaultTraced ==
    ASSUME BoundaryInv, TraceInv, NEW c \in Calls, RecordFault(c)
    PROVE  TraceInv'
<1>1. Step(c, "fault", Event("tool_fault", c, Fault(c)), "told")
  BY DEF RecordFault
<1>2. /\ pc[c] = "fault" /\ pc'[c] = "told"
      /\ UNCHANGED <<request, context, status, runs>>
  BY <1>1 DEF Step, BoundaryInv, BoundaryTypeOK
<1>3. Fault(c) \in {"timeout_before", "stale_read", "response_lost_after_commit"}
  BY <1>2 DEF BoundaryInv, FaultsAreKept
<1>4. Fault(c)' = Fault(c)
  BY <1>2 DEF Fault, Scheduled
<1>5. runs[c] = 0 \/ (runs[c] = 1 /\ Fault(c) = "response_lost_after_commit")
  BY <1>2 DEF TraceInv, RunsMatch
<1>6. KindsOf(c)' = Append(KindsOf(c), "tool_fault")
  <2>1. KindsOf(c) = IF runs[c] = 0 THEN <<"tool_attempt">>
                     ELSE <<"tool_attempt", "tool_executed">>
    BY <1>2 DEF KindsOf
  <2>2. KindsOf(c)' = IF runs[c] = 0 THEN <<"tool_attempt", "tool_fault">>
                      ELSE <<"tool_attempt", "tool_executed", "tool_fault">>
    BY <1>2 DEF KindsOf
  <2>3. CASE runs[c] = 0
    BY <2>1, <2>2, <2>3
  <2>4. CASE runs[c] # 0
    BY <2>1, <2>2, <2>4
  <2> QED
    BY <2>3, <2>4
<1>7. RunsMatch(c)'
  BY <1>2, <1>4, <1>5 DEF RunsMatch
<1>8. "fault" # "idle" /\ "fault" \notin Told
  BY DEF Told
<1> QED
  BY <1>1, <1>3, <1>6, <1>7, <1>8, StepTraced

\* The parts of a shape, put together.
LEMMA ShapeParts ==
    ASSUME NEW a \in Kinds, NEW b \in Kinds, NEW d \in Kinds, NEW e \in Kinds
    PROVE  /\ <<a>> \o <<>> \o <<b>> \o <<e>> = <<a, b, e>>
           /\ <<a>> \o <<b>> \o <<>> \o <<e>> = <<a, b, e>>
           /\ <<a>> \o <<b>> \o <<d>> \o <<e>> = <<a, b, d, e>>
<1>1. \A s \in Seq(Kinds) : s \o <<>> = s
  OBVIOUS
<1>2. \A s \in Seq(Kinds), k \in Kinds : s \o <<k>> = Append(s, k)
  OBVIOUS
<1>3. <<a>> \in Seq(Kinds) /\ <<a, b>> \in Seq(Kinds) /\ <<a, b, d>> \in Seq(Kinds)
  OBVIOUS
<1>4. <<a>> \o <<b>> = <<a, b>>
  <2>1. \A s, t : s = <<a>> /\ t = <<a, b>> => t = Append(s, b)
    OBVIOUS
  <2> QED
    BY <1>2, <1>3, <2>1, Zenon
<1>5. ASSUME NEW k \in Kinds
      PROVE  <<a, b>> \o <<k>> = <<a, b, k>>
  <2>1. \A s, t : s = <<a, b>> /\ t = <<a, b, k>> => t = Append(s, k)
    OBVIOUS
  <2> QED
    BY <1>2, <1>3, <2>1, Zenon
<1>6. <<a, b, d>> \o <<e>> = <<a, b, d, e>>
  <2>1. \A s, t : s = <<a, b, d>> /\ t = <<a, b, d, e>> => t = Append(s, e)
    OBVIOUS
  <2> QED
    BY <1>2, <1>3, <2>1, Zenon
<1>7. <<a>> \o <<>> = <<a>> /\ <<a, b>> \o <<>> = <<a, b>>
  BY <1>1, <1>3, Zenon
<1> QED
  BY <1>4, <1>5, <1>6, <1>7, Zenon

\* The observation comes last, and is what the caller is told.
LEMMA ObserveTraced ==
    ASSUME BoundaryInv, TraceInv, NEW c \in Calls, Observe(c)
    PROVE  TraceInv'
<1> DEFINE e == Event("tool_observation", c, Observed(c))
<1>1. PICK from, to :
         /\ Step(c, from, e, to)
         /\ \/ from = "told" /\ to = IF Fault(c) = "stale_read" THEN "stale" ELSE "timeout"
            \/ from = "observe" /\ to = IF status[c] \in Raised THEN "raised" ELSE "result"
  BY DEF Observe
<1>2. /\ pc[c] = from /\ pc'[c] = to
      /\ UNCHANGED <<request, context, status, runs>>
  BY <1>1 DEF Step, BoundaryInv, BoundaryTypeOK
<1>3. Fault(c)' = Fault(c)
  BY <1>2 DEF Fault, Scheduled
<1>4. RunsMatch(c)
  BY DEF TraceInv
<1>5. RunsMatch(c)'
  BY <1>1, <1>2, <1>3, <1>4 DEF RunsMatch
<1>6. KindsOf(c)' = Append(KindsOf(c), "tool_observation")
  <2>1. KindsOf(c)' = Shape(c)'
    BY <1>1, <1>2 DEF KindsOf
  <2>2. CASE from = "told" /\ runs[c] = 0
    <3>1. KindsOf(c) = <<"tool_attempt", "tool_fault">>
      BY <1>2, <2>2 DEF KindsOf
    <3>2. Shape(c)' = <<"tool_attempt", "tool_fault", "tool_observation">>
      <4>1. Shape(c)' = <<"tool_attempt">> \o <<>> \o <<"tool_fault">> \o <<"tool_observation">>
        BY <1>1, <1>2, <2>2 DEF Shape
      <4> QED
        BY <4>1, ShapeParts DEF Kinds
    <3> QED
      BY <2>1, <3>1, <3>2
  <2>3. CASE from = "told" /\ runs[c] # 0
    <3>1. KindsOf(c) = <<"tool_attempt", "tool_executed", "tool_fault">>
      BY <1>2, <2>3 DEF KindsOf
    <3>2. Shape(c)' = <<"tool_attempt", "tool_executed", "tool_fault", "tool_observation">>
      <4>1. Shape(c)' = <<"tool_attempt">> \o <<"tool_executed">> \o <<"tool_fault">> \o <<"tool_observation">>
        BY <1>1, <1>2, <2>3 DEF Shape
      <4> QED
        BY <4>1, ShapeParts DEF Kinds
    <3> QED
      BY <2>1, <3>1, <3>2
  <2>4. CASE from = "observe" /\ status[c] \in Raised
    <3>1. KindsOf(c) = <<"tool_attempt", "tool_executed", "tool_error">>
      BY <1>2, <2>4 DEF KindsOf
    <3>2. Shape(c)' = <<"tool_attempt", "tool_executed", "tool_error", "tool_observation">>
      <4>1. Shape(c)' = <<"tool_attempt">> \o <<"tool_executed">> \o <<"tool_error">> \o <<"tool_observation">>
        BY <1>1, <1>2, <1>4, <2>4 DEF Shape, RunsMatch
      <4> QED
        BY <4>1, ShapeParts DEF Kinds
    <3> QED
      BY <2>1, <3>1, <3>2
  <2>5. CASE from = "observe" /\ status[c] \notin Raised
    <3>1. KindsOf(c) = <<"tool_attempt", "tool_executed">>
      BY <1>2, <2>5 DEF KindsOf
    <3>2. Shape(c)' = <<"tool_attempt", "tool_executed", "tool_observation">>
      <4>1. Shape(c)' = <<"tool_attempt">> \o <<"tool_executed">> \o <<>> \o <<"tool_observation">>
        BY <1>1, <1>2, <1>4, <2>5 DEF Shape, RunsMatch
      <4> QED
        BY <4>1, ShapeParts DEF Kinds
    <3> QED
      BY <2>1, <3>1, <3>2
  <2> QED
    BY <1>1, <2>2, <2>3, <2>4, <2>5
<1>7. Observed(c) = AnswerOf(c)' /\ to \in Told
  BY <1>1, <1>2 DEF Observed, AnswerOf, Told
<1>8. from = "observe" => status[c] \in Statuses
  BY <1>2 DEF BoundaryInv, FaultsAreKept, Spared
<1>9. Observed(c) \in Statuses
  BY <1>1, <1>2, <1>8 DEF Observed, Statuses, Raised
<1>10. from # "idle" /\ from \notin Told
  BY <1>1 DEF Told
<1> QED
  BY <1>1, <1>5, <1>6, <1>7, <1>9, <1>10, StepTraced

-----------------------------------------------------------------------------
\* The traces are true in every behaviour.

\* Nothing is in the trace before the first call.
LEMMA TraceInvInit == BoundaryInit => TraceInv
<1> SUFFICES ASSUME BoundaryInit, NEW c \in Calls
             PROVE  HasKinds(EventsOf(c), trace, KindsOf(c)) /\ RunsMatch(c) /\ ObservedAtEnd(c)
  BY DEF TraceInv, BoundaryInit
<1>1. DOMAIN trace = {} /\ pc[c] = "idle" /\ runs[c] = 0
  BY DEF BoundaryInit
<1>2. EventsOf(c) = {} /\ KindsOf(c) = <<>>
  BY <1>1 DEF EventsOf, KindsOf
<1>3. HasKinds(EventsOf(c), trace, KindsOf(c))
  <2>1. Cardinality({}) = 0
    BY FS_EmptySet
  <2> QED
    BY <1>2, <2>1 DEF HasKinds
<1>4. RunsMatch(c) /\ ObservedAtEnd(c)
  BY <1>1, <1>2 DEF RunsMatch, ObservedAtEnd
<1> QED
  BY <1>3, <1>4

\* Every step keeps the traces of all calls.
LEMMA TraceInvNext ==
    BoundaryInv /\ TraceInv /\ [BoundaryNext]_boundaryVars => TraceInv'
<1> SUFFICES ASSUME BoundaryInv, TraceInv, [BoundaryNext]_boundaryVars PROVE TraceInv'
  OBVIOUS
<1>1. CASE BoundaryNext
  <2>1. PICK c \in Calls : Call(c)
    BY <1>1 DEF BoundaryNext
  <2>2. CASE Start(c)
    BY <2>2, StartTraced
  <2>3. CASE \E s \in {"returned", "error_result", "error", "cancelled"} : Execute(c, s)
    BY <2>3, ExecuteTraced
  <2>4. CASE RecordExecuted(c)
    BY <2>4, RecordExecutedTraced
  <2>5. CASE RecordError(c)
    BY <2>5, RecordErrorTraced
  <2>6. CASE RecordFault(c)
    BY <2>6, RecordFaultTraced
  <2>7. CASE Observe(c)
    BY <2>7, ObserveTraced
  <2> QED
    BY <2>1, <2>2, <2>3, <2>4, <2>5, <2>6, <2>7 DEF Call
<1>2. CASE UNCHANGED boundaryVars
  <2>1. UNCHANGED <<pc, request, context, status, runs, calls, trace>>
    BY <1>2 DEF boundaryVars
  <2>2. \A d : EventsOf(d)' = EventsOf(d) /\ Fault(d)' = Fault(d)
    BY <2>1 DEF EventsOf, Fault, Scheduled
  <2>3. ASSUME NEW d \in Calls
        PROVE  HasKinds(EventsOf(d)', trace', KindsOf(d)') /\ RunsMatch(d)' /\ ObservedAtEnd(d)'
    <3>1. HasKinds(EventsOf(d), trace, KindsOf(d)) /\ RunsMatch(d) /\ ObservedAtEnd(d)
      BY DEF TraceInv
    <3> QED
      BY <2>1, <2>2, <3>1, OthersTraced
  <2> QED
    BY <2>1, <2>3 DEF TraceInv
<1> QED
  BY <1>1, <1>2

\* Whatever the other threads append in between, a finished call has left its
\* own events in order: an execution if and only if its callable ran, once, a
\* fault if and only if the caller was lied to, and what the caller was told.
THEOREM TraceHolds == BoundarySpec => []TraceIsTrue
<1>1. TraceInv => TraceIsTrue
  <2> SUFFICES ASSUME TraceInv, NEW c \in Calls, pc[c] \in Told
               PROVE  /\ Cardinality(EventsOf(c)) = Len(Shape(c))
                      /\ \A i \in EventsOf(c) : trace[i].kind
                            = Shape(c)[Cardinality({j \in EventsOf(c) : j <= i})]
                      /\ runs[c] <= 1
                      /\ pc[c] \in {"result", "raised"} => runs[c] = 1
                      /\ pc[c] = "stale" => runs[c] = 0
                      /\ \A i \in EventsOf(c) : trace[i].kind = "tool_observation" =>
                            trace[i].detail = CASE pc[c] = "timeout" -> "error"
                                                [] pc[c] = "raised" -> status[c]
                                                [] OTHER -> "returned"
    BY DEF TraceIsTrue
  <2>1. HasKinds(EventsOf(c), trace, KindsOf(c)) /\ RunsMatch(c) /\ ObservedAtEnd(c)
    BY DEF TraceInv
  <2>2. KindsOf(c) = Shape(c)
    BY DEF KindsOf, Told
  <2>3. runs[c] \in {0, 1}
    BY <2>1 DEF RunsMatch, Told
  <2>4. pc[c] \in {"result", "raised"} => runs[c] = 1
    BY <2>1 DEF RunsMatch
  <2>5. pc[c] = "stale" => runs[c] = 0
    BY <2>1 DEF RunsMatch
  <2>6. \A i \in EventsOf(c) : trace[i].kind = "tool_observation" =>
            trace[i].detail = CASE pc[c] = "timeout" -> "error"
                                [] pc[c] = "raised" -> status[c]
                                [] OTHER -> "returned"
    BY <2>1 DEF ObservedAtEnd, AnswerOf
  <2>7. runs[c] <= 1
    BY <2>3
  <2> QED
    BY <2>1, <2>2, <2>4, <2>5, <2>6, <2>7 DEF HasKinds
<1>2. BoundarySpec => []TraceInv
  BY BoundaryInvariant, TraceInvInit, TraceInvNext, PTL DEF BoundarySpec
<1> QED
  BY <1>1, <1>2, PTL
=============================================================================
