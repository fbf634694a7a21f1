---------------------------- MODULE AgentProofs ----------------------------
(***************************************************************************)
(* The agents that recheck before they retry a refund keep the policy, in  *)
(* every run of every submission that AgentsAreFit describes.  Whatever an *)
(* agent is told, it is somewhere on one itinerary of at most seven calls; *)
(* each answer on it is what the plan and the service make of the call,    *)
(* and each call after it was made because of that answer.                 *)
(***************************************************************************)
EXTENDS RefundProofs

\* The tools such an agent calls, in this order, and the how manieth call of
\* its tool each is.
Itinerary ==
    <<ReadTool, IdentityTool, ReadTool, RefundTool, ReadTool, RefundTool, ReadTool>>
NumberAt == <<1, 1, 2, 1, 3, 2, 4>>

\* How often each is called in the first n - 1 calls.
Visits(t) ==
    CASE t = ReadTool -> <<0, 1, 1, 2, 2, 3, 3, 4>>
      [] t = IdentityTool -> <<0, 0, 1, 1, 1, 1, 1, 1>>
      [] t = RefundTool -> <<0, 0, 0, 0, 1, 1, 2, 2>>

Rechecks == run # NoRun /\ run.driver \in Rechecking

\* An agent in the middle of its itinerary.
OnCourse ==
    /\ Len(told) \in 0..7
    /\ \A n \in DOMAIN told : told[n].tool = Itinerary[n]
    /\ \A t \in PackTools : Asked(told, t) = Visits(t)[Len(told) + 1]

PlannedAt(n) ==
    {f \in ToSet(Case.faults) : f.tool = Itinerary[n] /\ f.on_call = NumberAt[n]}

PlannedFor(n, kind) == \E f \in PlannedAt(n) : f.kind = kind

\* Each answer is what the plan and the service make of the call.
Explained(n) ==
    CASE told[n].outcome = "rejected" ->
            ~(PackTools \subseteq Scenario.handlers /\ Scenario.maxCalls \in Nat
                 /\ Scenario.maxCalls >= 7)
      [] told[n].outcome = "timeout" -> PlannedFor(n, "timeout_before")
      [] told[n].outcome = "stale" ->
            \E f \in PlannedAt(n) : f.kind = "stale_read" /\ f.value = told[n].value
      [] told[n].outcome = "lost" -> PlannedFor(n, "response_lost_after_commit")
      [] told[n].outcome = "error" -> n \in {4, 6} /\ run.endpoint = "fails"
      [] told[n].outcome = "result" -> PlannedAt(n) = {}
      [] OTHER -> FALSE

\* An order that is said to have no refund.
Zero(o) == Tells(o, "refund_count") /\ ~Truthy(o, "refund_count")

\* A caller who is said to be verified.
IsVerified(o) == Tells(o, "verified") /\ Truthy(o, "verified")

\* Why the agent made its n-th call.
GoesOn(n) ==
    CASE n = 1 -> TRUE
      [] n = 2 -> Answered(told[1])
      [] n = 3 -> Answered(told[2]) /\ IsVerified(told[2])
      [] n = 4 -> /\ Answered(told[3]) /\ Owns(told[3], told[2])
                  /\ Delivered(told[3]) /\ Zero(told[3])
      [] n = 5 -> ~Answered(told[4])
      [] n = 6 -> Answered(told[5]) /\ Zero(told[5])
      [] n = 7 -> ~Answered(told[6])

\* The refund handler started in the n-th call, or in one before it.
Began(n) == n \in {4, 6} /\ told[n].outcome \in {"result", "lost", "error"}
BeganBefore(n) == \E m \in 1..(n - 1) : Began(m)

Shown(w) == [value |-> Select(w, Order)]

\* What a look that was not disturbed has shown.
Saw(n) ==
    told[n].outcome = "result" =>
        IF n = 2 THEN told[n].value = Select(Case.state, <<"caller">>)
        ELSE n \in {1, 3, 5, 7} =>
            IF BeganBefore(n)
            THEN /\ ~Zero(told[n])
                 /\ run.endpoint = "counts" => IsNumber(told[n], "refund_count")
            ELSE told[n].value = Select(Case.state, Order)

WorldFollows ==
    IF BeganBefore(Len(told) + 1)
    THEN /\ Len(ran) = 1 /\ ran[1] = Case.state /\ ~Zero(Shown(world))
         /\ run.endpoint = "counts" =>
               RefundCount \in DOMAIN world /\ Value(world, RefundCount) = Scalar("1")
    ELSE ran = <<>> /\ world = Case.state

Journey ==
    /\ OnCourse
    /\ \A n \in DOMAIN told : Explained(n) /\ GoesOn(n) /\ Saw(n)
    /\ WorldFollows
    /\ Len(told) >= 4 => Allowed(Case.state)

\* With the default service.
Quiet ==
    run.endpoint = "counts" =>
        \A e \in Within(log) :
            e.kind \notin {"precondition_failed", "tool_rejected", "tool_error"}

FaultsLogged ==
    \A n \in DOMAIN told : told[n].outcome \in {"timeout", "stale", "lost"} =>
        \E e \in Within(log) :
            e.kind = "tool_fault" /\ e.tool = Itinerary[n] /\ e.number = NumberAt[n]

-----------------------------------------------------------------------------
\* The next call.

LEMMA Itinerant ==
    /\ Itinerary[1] = ReadTool /\ Itinerary[2] = IdentityTool /\ Itinerary[3] = ReadTool
    /\ Itinerary[4] = RefundTool /\ Itinerary[5] = ReadTool /\ Itinerary[6] = RefundTool
    /\ Itinerary[7] = ReadTool
    /\ ReadTool # IdentityTool /\ ReadTool # RefundTool /\ IdentityTool # RefundTool
  BY DEF Itinerary, ReadTool, IdentityTool, RefundTool

LEMMA Counting ==
    ASSUME RefundInv, OnCourse
    PROVE  /\ Len(told) \in 0..7 /\ DOMAIN told = 1..Len(told)
           /\ Cardinality(RefundsIn(told)) = IF Len(told) < 4 THEN 0
                                             ELSE IF Len(told) < 6 THEN 1 ELSE 2
           /\ Attempts = Len(told)
<1>1. DOMAIN told = 1..Len(told)
  <2>1. IsSequence(told)
    BY DEF RefundInv
  <2> QED
    BY <2>1, Followed
<1>2. Asked(told, RefundTool) = Visits(RefundTool)[Len(told) + 1]
  BY DEF OnCourse, PackTools
<1>3. Visits(RefundTool) = <<0, 0, 0, 0, 1, 1, 2, 2>>
  BY DEF Visits, ReadTool, IdentityTool, RefundTool
<1>4. Len(told) \in 0..7
  BY DEF OnCourse
<1>5. Asked(told, RefundTool) = IF Len(told) < 4 THEN 0 ELSE IF Len(told) < 6 THEN 1 ELSE 2
  <2> DEFINE S == <<0, 0, 0, 0, 1, 1, 2, 2>>
  <2>1. /\ S[1] = 0 /\ S[2] = 0 /\ S[3] = 0 /\ S[4] = 0
        /\ S[5] = 1 /\ S[6] = 1 /\ S[7] = 2 /\ S[8] = 2
    OBVIOUS
  <2>2. Asked(told, RefundTool) = S[Len(told) + 1]
    BY <1>2, <1>3
  <2> HIDE DEF S
  <2>3. ASSUME NEW n \in 0..7
        PROVE  S[n + 1] = IF n < 4 THEN 0 ELSE IF n < 6 THEN 1 ELSE 2
    <3>1. n \in {0, 1, 2, 3, 4, 5, 6, 7}
      OBVIOUS
    <3> QED
      BY <2>1, <3>1
  <2> QED
    BY <1>4, <2>2, <2>3
<1>6. Attempts = Len(told)
  BY DEF RefundInv, CountsAgree, Seen, Attempts
<1> QED
  BY <1>1, <1>4, <1>5, <1>6 DEF Asked, RefundsIn

\* What the safe agent calls next, and why.
LEMMA SafeCalls ==
    ASSUME RefundInv, Journey, NEW t, SafeDecides(told, Call(t))
    PROVE  Len(told) < 7 /\ t = Itinerary[Len(told) + 1] /\ GoesOn(Len(told) + 1)
<1>1. /\ Len(told) \in 0..7 /\ DOMAIN told = 1..Len(told)
      /\ Cardinality(RefundsIn(told)) = IF Len(told) < 4 THEN 0
                                        ELSE IF Len(told) < 6 THEN 1 ELSE 2
      /\ \A n \in DOMAIN told : told[n].tool = Itinerary[n]
  BY Counting DEF Journey, OnCourse
<1>2. \A u, x : Call(u) # Answer(x) /\ Call(u) # Raise /\ (Call(t) = Call(u) => t = u)
  BY DEF Call, Answer, Raise
<1>3. CASE Len(told) = 0
  BY <1>2, <1>3, Itinerant DEF SafeDecides, GoesOn
<1>4. CASE Len(told) = 1
  BY <1>2, <1>4, Itinerant DEF SafeDecides, GoesOn
<1>5. CASE Len(told) = 2
  BY <1>2, <1>5, Itinerant DEF SafeDecides, GoesOn, IsVerified
<1>6. CASE Len(told) = 3
  BY <1>2, <1>6, Itinerant DEF SafeDecides, GoesOn, Zero
<1>7. CASE Len(told) > 3
  <2>1. SafeRetries(told, Call(t)) /\ ~Refused(told[Len(told)])
    BY <1>1, <1>2, <1>7 DEF SafeDecides
  <2>2. \/ told[Len(told)].tool = RefundTool /\ Unheard(told[Len(told)]) /\ t = ReadTool
        \/ /\ told[Len(told)].tool = ReadTool /\ Answered(told[Len(told)])
           /\ Zero(told[Len(told)]) /\ t = RefundTool
           /\ Cardinality(RefundsIn(told)) < 2
    BY <1>2, <2>1 DEF SafeRetries, Zero
  <2>3. told[Len(told)].tool = Itinerary[Len(told)]
    BY <1>1, <1>7
  <2>4. Unheard(told[Len(told)]) => ~Answered(told[Len(told)])
    BY DEF Unheard, Answered
  <2>5. CASE Len(told) = 4
    BY <2>2, <2>3, <2>4, <2>5, Itinerant DEF GoesOn
  <2>6. CASE Len(told) = 5
    BY <2>2, <2>3, <2>4, <2>6, Itinerant DEF GoesOn
  <2>7. CASE Len(told) = 6
    BY <2>2, <2>3, <2>4, <2>7, Itinerant DEF GoesOn
  <2>8. CASE Len(told) = 7
    BY <1>1, <2>2, <2>3, <2>8, Itinerant
  <2> QED
    BY <1>1, <1>7, <2>5, <2>6, <2>7, <2>8
<1> QED
  BY <1>1, <1>3, <1>4, <1>5, <1>6, <1>7

LEMMA ScriptedCalls ==
    ASSUME RefundInv, Journey, NEW t, ScriptedDecides(told, Call(t))
    PROVE  Len(told) < 7 /\ t = Itinerary[Len(told) + 1] /\ GoesOn(Len(told) + 1)
<1> DEFINE N == Len(told)
           o == told[N]
           callers == {k \in 1..N : told[k].tool = IdentityTool /\ Answered(told[k])}
           caller == told[Max(callers)]
<1>1. /\ N \in 0..7 /\ DOMAIN told = 1..N
      /\ Cardinality(RefundsIn(told)) = IF N < 4 THEN 0 ELSE IF N < 6 THEN 1 ELSE 2
      /\ \A n \in 1..N : told[n].tool = Itinerary[n]
      /\ \A n \in 1..N : GoesOn(n)
  BY Counting DEF Journey, OnCourse
<1>2. \A u, x : Call(u) # Answer(x) /\ Call(u) # Raise /\ (Call(t) = Call(u) => t = u)
  BY DEF Call, Answer, Raise
<1>3. \/ N = 0 /\ t = ReadTool
      \/ N > 0 /\ ~Answered(o) /\ o.tool = RefundTool /\ t = ReadTool
      \/ /\ N > 0 /\ Answered(o) /\ o.tool = IdentityTool
         /\ IsVerified(o) /\ t = ReadTool
      \/ /\ N > 0 /\ o.tool = ReadTool /\ Answered(o) /\ callers = {} /\ t = IdentityTool
      \/ /\ N > 0 /\ o.tool = ReadTool /\ Answered(o) /\ Zero(o)
         /\ Delivered(o) /\ callers # {} /\ Owns(o, caller)
         /\ Cardinality(RefundsIn(told)) < 2 /\ t = RefundTool
  BY <1>2, Zenon DEF ScriptedDecides, IsNumber, Zero, IsVerified
<1>4. N < 2 => callers = {}
  BY <1>1, Itinerant
<1>5. N >= 3 => callers = {2}
  <2>1. \A k \in 1..7 : Itinerary[k] = IdentityTool => k = 2
    BY Itinerant
  <2>2. N >= 3 => Answered(told[2]) /\ told[2].tool = IdentityTool
    <3>1. GoesOn(3) => Answered(told[2])
      BY DEF GoesOn
    <3> QED
      BY <1>1, <3>1, Itinerant
  <2> QED
    BY <1>1, <2>1, <2>2
<1>6. N >= 3 => caller = told[2]
  <2>1. Max({2}) = 2
    BY DEF Max
  <2> HIDE DEF callers
  <2> QED
    BY <1>5, <2>1
<1>7. N > 0 => o.tool = Itinerary[N]
  BY <1>1
<1> HIDE DEF callers, caller, o
<1>8. CASE N = 0
  BY <1>3, <1>8, Itinerant DEF GoesOn
<1>9. CASE N = 1
  BY <1>3, <1>4, <1>7, <1>9, Itinerant DEF GoesOn, o
<1>10. CASE N = 2
  BY <1>3, <1>7, <1>10, Itinerant DEF GoesOn, o
<1>11. CASE N = 3
  BY <1>3, <1>5, <1>6, <1>7, <1>11, Itinerant DEF GoesOn, o
<1>12. CASE N = 4
  BY <1>3, <1>7, <1>12, Itinerant DEF GoesOn, o
<1>13. CASE N = 5
  BY <1>3, <1>5, <1>7, <1>13, Itinerant DEF GoesOn, o
<1>14. CASE N = 6
  BY <1>3, <1>7, <1>14, Itinerant DEF GoesOn, o
<1>15. CASE N = 7
  BY <1>1, <1>3, <1>5, <1>7, <1>15, Itinerant
<1>16. \/ N = 0 \/ N = 1 \/ N = 2 \/ N = 3
       \/ N = 4 \/ N = 5 \/ N = 6 \/ N = 7
  <2>1. \A L \in 0..7 : \/ L = 0 \/ L = 1 \/ L = 2 \/ L = 3
                        \/ L = 4 \/ L = 5 \/ L = 6 \/ L = 7
    OBVIOUS
  <2> QED
    BY <1>1, <2>1, Zenon
<1> QED
  BY <1>8, <1>9, <1>10, <1>11, <1>12, <1>13, <1>14, <1>15, <1>16, Zenon

LEMMA NextCall ==
    ASSUME RefundInv, Rechecks, Journey, NEW t, Decides(Call(t))
    PROVE  Len(told) < 7 /\ t = Itinerary[Len(told) + 1] /\ GoesOn(Len(told) + 1)
<1>1. run.driver = "safe" \/ run.driver = "scripted"
  BY DEF Rechecks, Rechecking
<1>2. CASE run.driver = "safe"
  <2>1. SafeDecides(told, Call(t))
    BY <1>2 DEF Decides
  <2> QED
    BY <2>1, SafeCalls
<1>3. CASE run.driver = "scripted"
  <2>1. ScriptedDecides(told, Call(t))
    BY <1>3 DEF Decides
  <2> QED
    BY <2>1, ScriptedCalls
<1> QED
  BY <1>1, <1>2, <1>3

-----------------------------------------------------------------------------
\* The faults of a call are the ones planned at its place of the itinerary.

LEMMA Visited ==
    ASSUME NEW n \in 1..7
    PROVE  /\ Visits(Itinerary[n])[n] + 1 = NumberAt[n]
           /\ Visits(Itinerary[n])[n + 1] = Visits(Itinerary[n])[n] + 1
           /\ \A t \in PackTools \ {Itinerary[n]} : Visits(t)[n + 1] = Visits(t)[n]
           /\ \A t \in PackTools : Visits(t)[n] \in Nat
           /\ Itinerary[n] \in PackTools
<1> DEFINE R == <<0, 1, 1, 2, 2, 3, 3, 4>>
           I == <<0, 0, 1, 1, 1, 1, 1, 1>>
           F == <<0, 0, 0, 0, 1, 1, 2, 2>>
<1>1. Visits(ReadTool) = R /\ Visits(IdentityTool) = I /\ Visits(RefundTool) = F
  BY DEF Visits, ReadTool, IdentityTool, RefundTool
<1>2. PackTools = {ReadTool, IdentityTool, RefundTool}
  BY DEF PackTools
<1>3. /\ R[1] = 0 /\ R[2] = 1 /\ R[3] = 1 /\ R[4] = 2 /\ R[5] = 2 /\ R[6] = 3
      /\ R[7] = 3 /\ R[8] = 4
      /\ I[1] = 0 /\ I[2] = 0 /\ I[3] = 1 /\ I[4] = 1 /\ I[5] = 1 /\ I[6] = 1
      /\ I[7] = 1 /\ I[8] = 1
      /\ F[1] = 0 /\ F[2] = 0 /\ F[3] = 0 /\ F[4] = 0 /\ F[5] = 1 /\ F[6] = 1
      /\ F[7] = 2 /\ F[8] = 2
  OBVIOUS
<1>4. /\ NumberAt[1] = 1 /\ NumberAt[2] = 1 /\ NumberAt[3] = 2 /\ NumberAt[4] = 1
      /\ NumberAt[5] = 3 /\ NumberAt[6] = 2 /\ NumberAt[7] = 4
  BY DEF NumberAt
<1> HIDE DEF R, I, F
<1>5. n \in {1, 2, 3, 4, 5, 6, 7}
  OBVIOUS
<1> QED
  BY <1>1, <1>2, <1>3, <1>4, <1>5, Itinerant

LEMMA CallNumber ==
    ASSUME RefundInv, OnCourse, Len(told) < 7
    PROVE  /\ Number(Itinerary[Len(told) + 1]) = NumberAt[Len(told) + 1]
           /\ FaultsOf(Itinerary[Len(told) + 1]) = PlannedAt(Len(told) + 1)
<1> DEFINE n == Len(told) + 1
           t == Itinerary[n]
<1>1. n \in 1..7
  BY DEF OnCourse
<1> HIDE DEF n
<1>2. /\ Visits(t)[n] + 1 = NumberAt[n] /\ t \in PackTools
  BY <1>1, Visited
<1>3. Noted(log, "tool_attempt", t) = Asked(told, t)
  BY <1>2 DEF RefundInv, CountsAgree, Requests
<1>4. Asked(told, t) = Visits(t)[n]
  BY <1>2 DEF OnCourse, n
<1>5. Number(t) = NumberAt[n]
  BY <1>2, <1>3, <1>4 DEF Number, Noted
<1> QED
  BY <1>5 DEF FaultsOf, PlannedAt, n

\* What is past of a course is not changed by its next call.
LEMMA CourseKept ==
    ASSUME RefundInv, OnCourse, Len(told) < 7, NEW o, o.tool = Itinerary[Len(told) + 1],
           told' = Append(told, o)
    PROVE  /\ OnCourse'
           /\ Len(told') = Len(told) + 1 /\ DOMAIN told' = 1..(Len(told) + 1)
           /\ \A n \in 1..Len(told) : told'[n] = told[n]
           /\ told'[Len(told) + 1] = o
<1> DEFINE n == Len(told) + 1
           t == Itinerary[n]
<1>1. n \in 1..7 /\ Len(told) = n - 1 /\ DOMAIN told = 1..Len(told)
  BY Counting DEF OnCourse
<1>2. IsSequence(told) /\ IsSequence(<<o>>)
  BY Single DEF RefundInv
<1>3. told' = told \o <<o>>
  BY <1>2, OneMore
<1>4. /\ Len(told') = Len(told) + 1 /\ DOMAIN told' = 1..(Len(told) + 1)
      /\ \A k \in 1..Len(told) : told'[k] = told[k]
      /\ told'[Len(told) + 1] = o
  <2>1. Len(<<o>>) = 1 /\ <<o>>[1] = o
    OBVIOUS
  <2> QED
    BY <1>2, <1>3, <2>1, Followed
<1>5. ASSUME NEW u \in PackTools
      PROVE  Asked(told', u) = Visits(u)[n + 1]
  <2>1. Asked(told', u) = Asked(told, u) + Asked(<<o>>, u)
    BY <1>2, <1>3, AskedAdd
  <2>2. Asked(<<o>>, u) = IF t = u THEN 1 ELSE 0
    BY SingleCounts
  <2>3. Asked(told, u) = Visits(u)[n]
    BY DEF OnCourse
  <2>4. Visits(u)[n] \in Nat /\ Visits(u)[n + 1] = Visits(u)[n] + IF t = u THEN 1 ELSE 0
    <3>1. CASE u = t
      BY <1>1, <3>1, Visited
    <3>2. CASE u # t
      <4>1. u \in PackTools \ {t}
        BY <3>2
      <4>2. Visits(u)[n + 1] = Visits(u)[n] /\ Visits(u)[n] \in Nat
        BY <1>1, <4>1, Visited
      <4> QED
        BY <3>2, <4>2
    <3> QED
      BY <3>1, <3>2
  <2> QED
    BY <2>1, <2>2, <2>3, <2>4
<1>6. \A k \in DOMAIN told' : told'[k].tool = Itinerary[k]
  BY <1>1, <1>4 DEF OnCourse
<1>7. Len(told') \in 0..7
  BY <1>1, <1>4
<1>8. OnCourse'
  BY <1>1, <1>4, <1>5, <1>6, <1>7 DEF OnCourse
<1> QED
  BY <1>4, <1>8

-----------------------------------------------------------------------------
\* What a look shows of the World.

LEMMA KeysOfCases ==
    /\ \A k \in {"refund_count", "customer_id", "status", "verified"} : k \in Keys
    /\ Order \in Seq(Keys) /\ <<"caller">> \in Seq(Keys)
    /\ RefundCount = Order \o <<"refund_count">> /\ OwnerId = Order \o <<"customer_id">>
    /\ OrderStatus = Order \o <<"status">>
    /\ CallerId = <<"caller">> \o <<"customer_id">> /\ Verified = <<"caller">> \o <<"verified">>
<1>1. \A k \in {"refund_count", "customer_id", "status", "verified", "caller"} : k \in Keys
  BY DEF Keys
<1>2. \A K : \A k \in K : <<k>> \in Seq(K)
  OBVIOUS
<1>3. \A a, b : <<a, b>> = <<a>> \o <<b>>
  <2> SUFFICES ASSUME NEW a, NEW b PROVE <<a, b>> = <<a>> \o <<b>>
    OBVIOUS
  <2>1. \A p, q : p = <<a>> /\ q = <<a, b>> => q = Append(p, b)
    OBVIOUS
  <2>2. IsSequence(<<a>>)
    BY Single
  <2> QED
    BY <2>1, <2>2, OneMore, Zenon
<1> QED
  BY <1>1, <1>2, <1>3, OrderPaths DEF RefundCount, OwnerId, OrderStatus, CallerId, Verified

\* What is at a path, and what a scalar there is.
LEMMA ScalarShown ==
    ASSUME NEW d, Plain(Keys, d), NEW p \in DOMAIN d
    PROVE  /\ Value(d, p)[<<>>] = d[p]
           /\ d[p] # Dict => Value(d, p) = Scalar(d[p])
<1>1. p \in Seq(Keys) /\ DOMAIN d \subseteq Seq(Keys) /\ IsDocument(d)
  BY DEF Plain
<1> DEFINE s == Select(d, p)
<1>2. /\ \A r : r \in DOMAIN s <=> r \in Seq(Keys) /\ p \o r \in DOMAIN d
      /\ \A r \in DOMAIN s : s[r] = d[p \o r]
  BY <1>1, SelectLeaves
<1>3. p \o <<>> = p /\ <<>> \in Seq(Keys)
  BY <1>1, NoWay
<1>4. s = [r \in DOMAIN s |-> s[r]]
  BY DEF Select
<1>5. Value(d, p) = s
  BY DEF Value
<1> HIDE DEF s
<1>6. s[<<>>] = d[p] /\ <<>> \in DOMAIN s
  BY <1>2, <1>3
<1>7. ASSUME d[p] # Dict
      PROVE  DOMAIN s = {<<>>}
  <2>1. ASSUME NEW r \in DOMAIN s, r # <<>>
        PROVE  FALSE
    <3>1. r \in Seq(Keys) /\ p \o r \in DOMAIN d
      BY <1>2
    <3>2. Under(p, p \o r)
      BY <1>1, <3>1, PathBelow
    <3>3. Len(p) < Len(p \o r)
      BY <1>1, <2>1, <3>1, EmptySeq
    <3> QED
      BY <1>1, <1>7, <3>1, <3>2, <3>3, AboveIsDict
  <2> QED
    BY <1>6, <2>1
<1> QED
  BY <1>4, <1>5, <1>6, <1>7 DEF Scalar

\* A field of a part of a document.
LEMMA PartShown ==
    ASSUME NEW d, Plain(Keys, d), NEW p \in Seq(Keys), NEW key \in Keys,
           NEW o, o.value = Select(d, p)
    PROVE  /\ Tells(o, key) <=> p \o <<key>> \in DOMAIN d
           /\ Tells(o, key) => Part(o, key)[<<>>] = d[p \o <<key>>]
           /\ Tells(o, key) /\ d[p \o <<key>>] # Dict => Part(o, key) = Scalar(d[p \o <<key>>])
<1> DEFINE v == Select(d, p)
           q == <<key>>
<1>1. q \in Seq(Keys) /\ Len(q) = 1
  OBVIOUS
<1>2. DOMAIN d \subseteq Seq(Keys) /\ IsDocument(d)
  BY DEF Plain
<1>3. /\ \A r : r \in DOMAIN v <=> r \in Seq(Keys) /\ p \o r \in DOMAIN d
      /\ \A r \in DOMAIN v : v[r] = d[p \o r]
  BY <1>2, SelectLeaves
<1>4. Tells(o, key) <=> q \in DOMAIN v
  BY DEF Tells
<1>5. Part(o, key) = Select(v, q)
  BY DEF Part
<1> HIDE DEF v, q
<1>6. Tells(o, key) <=> p \o q \in DOMAIN d
  BY <1>1, <1>3, <1>4
<1>7. ASSUME Tells(o, key)
      PROVE  /\ Part(o, key)[<<>>] = d[p \o q]
             /\ d[p \o q] # Dict => Part(o, key) = Scalar(d[p \o q])
  <2>1. p \in DOMAIN d
    <3>1. Under(p, p \o q)
      BY <1>1, PathBelow
    <3>2. Len(p) < Len(p \o q)
      <4>1. Len(p \o q) = Len(p) + Len(q) /\ Len(p) \in Nat
        <5>1. \A K : \A a, b \in Seq(K) : Len(a \o b) = Len(a) + Len(b) /\ Len(a) \in Nat
          OBVIOUS
        <5> QED
          BY <1>1, <5>1, Zenon
      <4> QED
        BY <1>1, <4>1
    <3> QED
      BY <1>2, <1>6, <1>7, <3>1, <3>2, AboveIsDict
  <2>2. Plain(Keys, v)
    BY <2>1, SelectIsPlain DEF v
  <2>3. q \in DOMAIN v /\ v[q] = d[p \o q]
    BY <1>3, <1>4, <1>7
  <2>4. Value(v, q) = Part(o, key)
    BY <1>5, <2>3 DEF Value
  <2> QED
    BY <2>2, <2>3, <2>4, ScalarShown
<1> QED
  BY <1>6, <1>7 DEF q

LEMMA ScalarsDiffer == \A a, b : Scalar(a) = Scalar(b) => a = b
<1>1. \A a : Scalar(a)[<<>>] = a
  BY DEF Scalar
<1> QED
  BY <1>1

\* The fields of the order, and of the caller, in a world whose facts are typed.
LEMMA FactsShown ==
    ASSUME NEW d, Plain(Keys, d), FactsAreTyped(d), NEW o
    PROVE  /\ o.value = Select(d, Order) =>
                 /\ IsNumber(o, "refund_count") /\ (Zero(o) <=> d[RefundCount] = "0")
                 /\ Tells(o, "status") /\ (Delivered(o) <=> d[OrderStatus] = "delivered")
                 /\ Tells(o, "customer_id") /\ Part(o, "customer_id") = Scalar(d[OwnerId])
           /\ o.value = Select(d, <<"caller">>) =>
                 /\ Tells(o, "verified") /\ (IsVerified(o) <=> d[Verified] = "true")
                 /\ Tells(o, "customer_id") /\ Part(o, "customer_id") = Scalar(d[CallerId])
<1>1. /\ {RefundCount, OwnerId, OrderStatus, CallerId, Verified} \subseteq DOMAIN d
      /\ d[Verified] \in {"true", "false"} /\ d[RefundCount] \in ToSet(Numerals)
      /\ d[OwnerId] # Dict /\ d[OrderStatus] # Dict /\ d[CallerId] # Dict
  BY DEF FactsAreTyped
<1>2. ToSet(Numerals) = {"0", "1", "2", "3", "4", "5", "6"}
  <2>1. DOMAIN Numerals = 1..7
    BY DEF Numerals
  <2>2. 1..7 = {1, 2, 3, 4, 5, 6, 7}
    OBVIOUS
  <2>3. /\ Numerals[1] = "0" /\ Numerals[2] = "1" /\ Numerals[3] = "2" /\ Numerals[4] = "3"
        /\ Numerals[5] = "4" /\ Numerals[6] = "5" /\ Numerals[7] = "6"
    BY DEF Numerals
  <2>4. ToSet(Numerals) = {Numerals[n] : n \in {1, 2, 3, 4, 5, 6, 7}}
    BY <2>1, <2>2 DEF ToSet
  <2> HIDE DEF Numerals
  <2> QED
    BY <2>3, <2>4
<1>3. d[RefundCount] # Dict /\ d[Verified] # Dict
  BY <1>1, <1>2 DEF Dict
<1>4. \A key, text : Part(o, key) = Scalar(text) => (Truthy(o, key) <=> text \notin Falsy)
  BY ScalarsDiffer DEF Truthy
<1>5. ASSUME o.value = Select(d, Order)
      PROVE  /\ IsNumber(o, "refund_count") /\ (Zero(o) <=> d[RefundCount] = "0")
             /\ Tells(o, "status") /\ (Delivered(o) <=> d[OrderStatus] = "delivered")
             /\ Tells(o, "customer_id") /\ Part(o, "customer_id") = Scalar(d[OwnerId])
  <2>1. /\ Tells(o, "refund_count") /\ Part(o, "refund_count") = Scalar(d[RefundCount])
        /\ Tells(o, "status") /\ Part(o, "status") = Scalar(d[OrderStatus])
        /\ Tells(o, "customer_id") /\ Part(o, "customer_id") = Scalar(d[OwnerId])
    BY <1>1, <1>3, <1>5, KeysOfCases, PartShown
  <2>2. IsNumber(o, "refund_count")
    BY <1>1, <2>1 DEF IsNumber, Numbers
  <2>3. Zero(o) <=> d[RefundCount] \in Falsy
    BY <1>4, <2>1 DEF Zero
  <2>4. d[RefundCount] \in Falsy <=> d[RefundCount] = "0"
    BY <1>1, <1>2 DEF Falsy, Dict
  <2>5. Delivered(o) <=> d[OrderStatus] = "delivered"
    BY <2>1, ScalarsDiffer DEF Delivered
  <2> QED
    BY <2>1, <2>2, <2>3, <2>4, <2>5
<1>6. ASSUME o.value = Select(d, <<"caller">>)
      PROVE  /\ Tells(o, "verified") /\ (IsVerified(o) <=> d[Verified] = "true")
             /\ Tells(o, "customer_id") /\ Part(o, "customer_id") = Scalar(d[CallerId])
  <2>1. /\ Tells(o, "verified") /\ Part(o, "verified") = Scalar(d[Verified])
        /\ Tells(o, "customer_id") /\ Part(o, "customer_id") = Scalar(d[CallerId])
    BY <1>1, <1>3, <1>6, KeysOfCases, PartShown
  <2>2. IsVerified(o) <=> d[Verified] \notin Falsy
    BY <1>4, <2>1 DEF IsVerified
  <2>3. d[Verified] \notin Falsy <=> d[Verified] = "true"
    BY <1>1 DEF Falsy, Dict
  <2> QED
    BY <2>1, <2>2, <2>3
<1> QED
  BY <1>5, <1>6

\* What the case of a rechecking agent is like, and its run.
RunIsAllowed == run # NoRun => <<run.driver, run.endpoint>> \in Submitted.runs

LEMMA FitCase ==
    ASSUME RunIsChosen, RunIsAllowed, Rechecks
    PROVE  /\ Plain(Keys, Case.state)
           /\ run.endpoint \in {"counts", "replaces", "closes", "fails"}
           /\ FactsAreTyped(Case.state)
           /\ {RefundCount, OwnerId, OrderStatus, CallerId, Verified} \subseteq DOMAIN Case.state
           /\ Case.state[OwnerId] # Dict /\ Case.state[CallerId] # Dict
           /\ \A f \in ToSet(Case.faults) :
                 /\ f.kind \in FaultKinds
                 /\ f.kind = "stale_read" => f.tool = ReadTool /\ f.on_call = 1
           /\ run.endpoint = "counts" => IsFor(Case, Scenario)
<1>1. /\ run.submission \in DOMAIN Submissions
      /\ run.case \in DOMAIN Submissions[run.submission].cases
      /\ run.endpoint \in Endpoints
      /\ <<run.driver, run.endpoint>> \in Submissions[run.submission].runs
  BY DEF RunIsChosen, RunIsAllowed, Rechecks, Submitted
<1> DEFINE n == run.submission
           k == run.case
           pair == <<run.driver, run.endpoint>>
<1>2. pair[1] \in Rechecking /\ pair[2] = run.endpoint
  BY DEF Rechecks
<1>3. Case = Submissions[n].cases[k] /\ Scenario = Submissions[n].scenario
  BY DEF Case, Scenario, Submitted
<1>4. Plain(Keys, Submissions[n].cases[k].state)
  <2>1. Seq(STRING) \subseteq Seq(Keys)
    <3>1. STRING \subseteq Keys
      BY DEF Keys
    <3> QED
      BY <3>1, SeqMonotonic
  <2> QED
    BY <1>1, <2>1, SubmissionsLoaded DEF Plain
<1> HIDE DEF pair
<1>5. /\ pair[2] # "forgets"
      /\ LET case == Submissions[n].cases[k]
         IN  /\ FactsAreTyped(case.state)
             /\ \A f \in ToSet(case.faults) :
                   /\ f.kind \in FaultKinds
                   /\ f.kind = "stale_read" => f.tool = ReadTool /\ f.on_call = 1
             /\ pair[2] = "counts" => IsFor(case, Submissions[n].scenario)
  <2>1. pair \in Submissions[n].runs
    BY <1>1 DEF pair
  <2> QED
    BY <1>1, <1>2, <2>1, AgentsAreFit
<1> QED
  BY <1>1, <1>2, <1>3, <1>4, <1>5 DEF Endpoints, FactsAreTyped

\* A look of the agent that was answered is stale only if it is the first.
LEMMA AnswersAreFresh ==
    ASSUME RunIsChosen, RunIsAllowed, Rechecks, RefundInv, Journey,
           NEW n \in DOMAIN told, n # 1, Answered(told[n])
    PROVE  told[n].outcome = "result"
<1>1. n \in 2..7 /\ Explained(n)
  BY Counting DEF Journey, OnCourse
<1>2. CASE told[n].outcome = "stale"
  <2>1. PICK f \in PlannedAt(n) : f.kind = "stale_read"
    BY <1>1, <1>2 DEF Explained
  <2>2. f.tool = ReadTool /\ f.on_call = 1
    BY <2>1, FitCase DEF PlannedAt
  <2>3. Itinerary[n] = ReadTool /\ NumberAt[n] = 1
    BY <2>2 DEF PlannedAt
  <2>4. /\ NumberAt[2] = 1 /\ NumberAt[3] = 2 /\ NumberAt[4] = 1
        /\ NumberAt[5] = 3 /\ NumberAt[6] = 2 /\ NumberAt[7] = 4
    BY DEF NumberAt
  <2> QED
    BY <1>1, <2>3, <2>4, Itinerant
<1> QED
  BY <1>2 DEF Answered

\* The reasons a refund is called for are those of the policy.
LEMMA EligibleIsAllowed ==
    ASSUME RunIsChosen, RunIsAllowed, Rechecks, RefundInv, Journey,
           Len(told) = 3, GoesOn(4)
    PROVE  Allowed(Case.state)
<1>1. DOMAIN told = 1..3 /\ GoesOn(3) /\ Saw(2) /\ Saw(3)
  BY Counting DEF Journey
<1>2. /\ Answered(told[2]) /\ IsVerified(told[2])
      /\ Answered(told[3]) /\ Owns(told[3], told[2])
      /\ Delivered(told[3]) /\ Zero(told[3])
  BY <1>1 DEF GoesOn
<1>3. told[2].outcome = "result" /\ told[3].outcome = "result"
  BY <1>1, <1>2, AnswersAreFresh
<1>4. told[2].value = Select(Case.state, <<"caller">>)
  BY <1>1, <1>3 DEF Saw
<1>5. told[3].value = Select(Case.state, Order)
  <2>1. ~BeganBefore(3)
    BY DEF BeganBefore, Began
  <2> QED
    BY <1>1, <1>3, <2>1 DEF Saw
<1> DEFINE d == Case.state
<1>6. /\ Plain(Keys, d) /\ FactsAreTyped(d)
      /\ {RefundCount, OwnerId, OrderStatus, CallerId, Verified} \subseteq DOMAIN d
      /\ d[OwnerId] # Dict /\ d[CallerId] # Dict
  BY FitCase
<1> HIDE DEF d
<1>7. d[Verified] = "true" /\ Part(told[2], "customer_id") = Scalar(d[CallerId])
  BY <1>2, <1>4, <1>6, FactsShown DEF d
<1>8. /\ d[RefundCount] = "0" /\ d[OrderStatus] = "delivered"
      /\ Part(told[3], "customer_id") = Scalar(d[OwnerId])
  BY <1>2, <1>5, <1>6, FactsShown DEF d
<1>9. d[OwnerId] = d[CallerId]
  BY <1>2, <1>7, <1>8, ScalarsDiffer DEF Owns
<1>10. \A text \in {"true", "delivered", "0"} : text # Dict
  BY DEF Dict
<1> QED
  BY <1>6, <1>7, <1>8, <1>9, <1>10, ScalarShown DEF Allowed, d

-----------------------------------------------------------------------------
\* A call keeps the journey.

\* What was told stays told, and what follows from it.
LEMMA PastKept ==
    ASSUME UNCHANGED run, NEW N \in Nat, \A n \in 1..N : told'[n] = told[n]
    PROVE  /\ Case' = Case /\ Scenario' = Scenario /\ (Rechecks <=> Rechecks')
           /\ \A n \in 1..N : /\ Explained(n) => Explained(n)'
                              /\ Saw(n) => Saw(n)'
           /\ \A n \in 1..(N + 1) : /\ n \in 1..7 /\ GoesOn(n) => GoesOn(n)'
                                    /\ BeganBefore(n)' <=> BeganBefore(n)
<1>1. Case' = Case /\ Scenario' = Scenario
  BY DEF Case, Scenario, Submitted
<1>2. ASSUME NEW n \in 1..N, Explained(n)
      PROVE  Explained(n)'
  <2>1. told'[n] = told[n]
    OBVIOUS
  <2>2. PlannedAt(n)' = PlannedAt(n) /\ \A kind : PlannedFor(n, kind)' <=> PlannedFor(n, kind)
    BY <1>1 DEF PlannedAt, PlannedFor
  <2> HIDE DEF Case, Scenario
  <2> QED
    BY <1>1, <1>2, <2>1, <2>2 DEF Explained
<1>3. \A n \in 1..N : Began(n)' <=> Began(n)
  BY DEF Began
<1>4. ASSUME NEW n \in 1..(N + 1)
      PROVE  BeganBefore(n)' <=> BeganBefore(n)
  BY <1>3 DEF BeganBefore
<1>5. ASSUME NEW n \in 1..N, Saw(n)
      PROVE  Saw(n)'
  <2>1. told'[n] = told[n] /\ (BeganBefore(n)' <=> BeganBefore(n))
    BY <1>4
  <2> QED
    BY <1>1, <1>5, <2>1 DEF Saw, Zero, IsNumber, Tells, Truthy, Part
<1>6. ASSUME NEW n \in 1..(N + 1), n \in 1..7, GoesOn(n)
      PROVE  GoesOn(n)'
  <2>1. \A m \in 1..(n - 1) : told'[m] = told[m]
    OBVIOUS
  <2>2. n \in {1, 2, 3, 4, 5, 6, 7}
    BY <1>6
  <2>3. /\ n = 2 => told'[1] = told[1]
        /\ n = 3 => told'[2] = told[2]
        /\ n = 4 => told'[3] = told[3] /\ told'[2] = told[2]
        /\ n = 5 => told'[4] = told[4]
        /\ n = 6 => told'[5] = told[5]
        /\ n = 7 => told'[6] = told[6]
    BY <2>1, <2>2
  <2>4. \A m : told'[m] = told[m] =>
           /\ Answered(told[m])' <=> Answered(told[m])
           /\ Zero(told[m])' <=> Zero(told[m])
           /\ IsVerified(told[m])' <=> IsVerified(told[m])
           /\ Delivered(told[m])' <=> Delivered(told[m])
           /\ \A key : Part(told[m], key)' = Part(told[m], key)
    BY DEF Answered, Zero, IsVerified, Delivered, Tells, Truthy, Part
  <2>5. CASE n = 1
    BY <1>6, <2>3, <2>4, <2>5 DEF GoesOn, Owns
  <2>6. CASE n = 2
    BY <1>6, <2>3, <2>4, <2>6 DEF GoesOn, Owns
  <2>7. CASE n = 3
    BY <1>6, <2>3, <2>4, <2>7 DEF GoesOn, Owns
  <2>8. CASE n = 4
    BY <1>6, <2>3, <2>4, <2>8 DEF GoesOn, Owns
  <2>9. CASE n = 5
    BY <1>6, <2>3, <2>4, <2>9 DEF GoesOn, Owns
  <2>10. CASE n = 6
    BY <1>6, <2>3, <2>4, <2>10 DEF GoesOn, Owns
  <2>11. CASE n = 7
    BY <1>6, <2>3, <2>4, <2>11 DEF GoesOn, Owns
  <2> QED
    BY <2>2, <2>5, <2>6, <2>7, <2>8, <2>9, <2>10, <2>11
<1>7. Rechecks <=> Rechecks'
  BY DEF Rechecks
<1> QED
  BY <1>1, <1>2, <1>4, <1>5, <1>6, <1>7

LEMMA JourneyKeeps ==
    ASSUME RunIsChosen, RunIsAllowed, Rechecks, RefundInv, Journey,
           NEW t, Decides(Call(t)), NEW o, o.tool = t, told' = Append(told, o),
           UNCHANGED run, NEW n, n = Len(told) + 1,
           Explained(n)', Saw(n)', WorldFollows'
    PROVE  Journey'
<1>1. n \in 1..7 /\ t = Itinerary[n] /\ GoesOn(n)
  BY NextCall DEF Journey, OnCourse
<1>2. /\ OnCourse' /\ Len(told') = n /\ DOMAIN told' = 1..n
      /\ \A k \in 1..(n - 1) : told'[k] = told[k]
  BY <1>1, CourseKept DEF Journey, OnCourse
<1>3. DOMAIN told = 1..(n - 1) /\ n - 1 \in Nat /\ (n - 1) + 1 = n
  BY <1>1, Counting DEF Journey
<1>4. /\ Case' = Case
      /\ \A k \in 1..(n - 1) : (Explained(k) => Explained(k)') /\ (Saw(k) => Saw(k)')
      /\ \A k \in 1..n : GoesOn(k) => GoesOn(k)'
  <2>1. /\ Case' = Case
        /\ \A k \in 1..(n - 1) : (Explained(k) => Explained(k)') /\ (Saw(k) => Saw(k)')
        /\ \A k \in 1..((n - 1) + 1) : k \in 1..7 /\ GoesOn(k) => GoesOn(k)'
    BY <1>2, <1>3, PastKept
  <2>2. \A k \in 1..n : k \in 1..7
    BY <1>1
  <2> QED
    BY <1>3, <2>1, <2>2
<1>5. \A k \in DOMAIN told' : Explained(k)' /\ GoesOn(k)' /\ Saw(k)'
  <2> SUFFICES ASSUME NEW k \in 1..n PROVE Explained(k)' /\ GoesOn(k)' /\ Saw(k)'
    BY <1>2
  <2>1. CASE k = n
    BY <1>1, <1>4, <2>1
  <2>2. CASE k # n
    BY <1>1, <1>3, <1>4, <2>2 DEF Journey
  <2> QED
    BY <2>1, <2>2
<1>6. Len(told') >= 4 => Allowed(Case.state)'
  <2>1. CASE n = 4
    <3>1. Allowed(Case.state)
      <4>1. Len(told) = 3 /\ GoesOn(4)
        BY <1>1, <1>3, <2>1, Counting DEF Journey
      <4> QED
        BY <4>1, EligibleIsAllowed
    <3> QED
      BY <1>4, <3>1 DEF Allowed
  <2>2. CASE n > 4
    <3>1. Allowed(Case.state)
      BY <1>1, <2>2 DEF Journey, OnCourse
    <3> QED
      BY <1>4, <3>1 DEF Allowed
  <2> QED
    BY <1>1, <1>2, <2>1, <2>2
<1> QED
  BY <1>2, <1>5, <1>6 DEF Journey

\* A call that starts no refund leaves the World as it follows.
LEMMA WorldKept ==
    ASSUME RefundInv, Journey, UNCHANGED <<run, world, ran>>, NEW n, n = Len(told) + 1, n \in 1..7,
           Len(told') = n, \A k \in 1..(n - 1) : told'[k] = told[k],
           ~Began(n)'
    PROVE  WorldFollows'
<1>1. n - 1 \in Nat /\ UNCHANGED run /\ (n - 1) + 1 = n
  OBVIOUS
<1>2. Case' = Case /\ \A k \in 1..n : BeganBefore(k)' <=> BeganBefore(k)
  BY <1>1, PastKept
<1>3. BeganBefore(n + 1)' <=> BeganBefore(n)
  <2>1. BeganBefore(n + 1)' <=> BeganBefore(n)' \/ Began(n)'
    BY DEF BeganBefore
  <2> QED
    BY <1>2, <2>1
<1>4. WorldFollows
  BY DEF Journey
<1>5. BeganBefore(Len(told) + 1)' <=> BeganBefore(Len(told) + 1)
  BY <1>3
<1> HIDE DEF BeganBefore
<1> QED
  BY <1>2, <1>3, <1>4, <1>5 DEF WorldFollows, Value, Zero, Tells, Truthy, Part, Shown

\* What a call adds to what was told.
LEMMA ToldNow ==
    ASSUME RunIsChosen, RunIsAllowed, Rechecks, RefundInv, Journey,
           NEW t, Decides(Call(t)), NEW outcome, NEW value, NEW events,
           Tell(t, outcome, value, events)
    PROVE  \E n, o :
              /\ n \in 1..7 /\ n = Len(told) + 1 /\ t = Itinerary[n] /\ GoesOn(n)
              /\ o.tool = t /\ o.outcome = outcome /\ o.value = value
              /\ told' = Append(told, o)
              /\ Len(told') = n /\ DOMAIN told' = 1..n /\ told'[n] = o
              /\ \A k \in 1..(n - 1) : told'[k] = told[k]
              /\ Number(t) = NumberAt[n] /\ FaultsOf(t) = PlannedAt(n)
<1> DEFINE o == [tool |-> t, outcome |-> outcome, value |-> value]
           n == Len(told) + 1
<1>1. /\ told' = Append(told, o)
      /\ o.tool = t /\ o.outcome = outcome /\ o.value = value
  BY DEF Tell
<1> HIDE DEF o
<1>2. OnCourse
  BY DEF Journey
<1>3. n \in 1..7 /\ Len(told) < 7 /\ t = Itinerary[n] /\ GoesOn(n)
  BY <1>2, NextCall DEF OnCourse
<1>4. /\ Len(told') = n /\ DOMAIN told' = 1..n /\ told'[n] = o
      /\ \A k \in 1..Len(told) : told'[k] = told[k]
  BY <1>1, <1>2, <1>3, CourseKept
<1>5. Number(t) = NumberAt[n] /\ FaultsOf(t) = PlannedAt(n)
  BY <1>2, <1>3, CallNumber
<1>6. \A k \in 1..(n - 1) : told'[k] = told[k]
  BY <1>2, <1>4 DEF OnCourse
<1> QED
  BY <1>1, <1>3, <1>4, <1>5, <1>6

LEMMA RejectTravels ==
    ASSUME RunIsChosen, RunIsAllowed, Rechecks, RefundInv, Journey,
           NEW t \in Requests, Reject(t)
    PROVE  Journey'
<1>1. /\ Decides(Call(t)) /\ ~Permitted(t) /\ UNCHANGED <<run, world, ran>>
      /\ Tell(t, "rejected", NoDocument, <<Event("tool_rejected", t)>>)
  BY DEF Reject, Ready
<1>2. PICK n, o :
              /\ n \in 1..7 /\ n = Len(told) + 1 /\ t = Itinerary[n] /\ GoesOn(n)
              /\ o.tool = t /\ o.outcome = "rejected" /\ o.value = NoDocument
              /\ told' = Append(told, o)
              /\ Len(told') = n /\ DOMAIN told' = 1..n /\ told'[n] = o
              /\ \A k \in 1..(n - 1) : told'[k] = told[k]
              /\ Number(t) = NumberAt[n] /\ FaultsOf(t) = PlannedAt(n)
  BY <1>1, ToldNow
<1>3. Explained(n)'
  <2>1. Attempts = Len(told) /\ t \in PackTools
    BY <1>2, Counting, Visited DEF Journey
  <2>2. ~(PackTools \subseteq Scenario.handlers /\ Scenario.maxCalls \in Nat
                 /\ Scenario.maxCalls >= 7)
    BY <1>1, <1>2, <2>1 DEF Permitted
  <2>3. Scenario' = Scenario
    BY <1>1 DEF Scenario, Submitted
  <2> HIDE DEF Scenario
  <2> QED
    BY <1>2, <2>2, <2>3 DEF Explained
<1>4. Saw(n)'
  BY <1>2 DEF Saw
<1>5. ~Began(n)'
  BY <1>2 DEF Began
<1>6. WorldFollows'
  BY <1>1, <1>2, <1>5, WorldKept
<1> QED
  BY <1>1, <1>2, <1>3, <1>4, <1>6, JourneyKeeps

LEMMA InterceptTravels ==
    ASSUME RunIsChosen, RunIsAllowed, Rechecks, RefundInv, Journey,
           NEW t \in Requests, Intercept(t)
    PROVE  Journey'
<1>1. /\ Decides(Call(t)) /\ UNCHANGED <<run, world, ran>>
      /\ \E f \in FaultsOf(t) :
            \/ f.kind = "timeout_before"
               /\ Tell(t, "timeout", NoDocument, <<Event("tool_fault", t)>>)
            \/ f.kind = "stale_read"
               /\ Tell(t, "stale", f.value,
                       <<Event("tool_fault", t), Event("tool_observation", t)>>)
  BY DEF Intercept, Ready
<1>2. PICK f \in FaultsOf(t), outcome \in {"timeout", "stale"} :
        /\ f.kind = IF outcome = "timeout" THEN "timeout_before" ELSE "stale_read"
        /\ \E value, events : /\ Tell(t, outcome, value, events)
                              /\ outcome = "stale" => value = f.value
  BY <1>1
<1>3. PICK value, events : /\ Tell(t, outcome, value, events)
                           /\ outcome = "stale" => value = f.value
  BY <1>2
<1>4. PICK n, o :
              /\ n \in 1..7 /\ n = Len(told) + 1 /\ t = Itinerary[n] /\ GoesOn(n)
              /\ o.tool = t /\ o.outcome = outcome /\ o.value = value
              /\ told' = Append(told, o)
              /\ Len(told') = n /\ DOMAIN told' = 1..n /\ told'[n] = o
              /\ \A k \in 1..(n - 1) : told'[k] = told[k]
              /\ Number(t) = NumberAt[n] /\ FaultsOf(t) = PlannedAt(n)
  BY <1>1, <1>3, ToldNow
<1>5. Explained(n)'
  <2>1. f \in PlannedAt(n) /\ PlannedAt(n)' = PlannedAt(n)
    BY <1>1, <1>4 DEF PlannedAt, Case, Submitted
  <2>2. told'[n].outcome = outcome /\ (outcome = "stale" => told'[n].value = f.value)
    BY <1>3, <1>4
  <2>3. CASE outcome = "timeout"
    BY <1>2, <2>1, <2>2, <2>3 DEF Explained, PlannedFor
  <2>4. CASE outcome = "stale"
    BY <1>2, <2>1, <2>2, <2>4 DEF Explained
  <2> QED
    BY <2>3, <2>4
<1>6. Saw(n)'
  BY <1>4 DEF Saw
<1>7. ~Began(n)'
  BY <1>4 DEF Began
<1>8. WorldFollows'
  BY <1>1, <1>4, <1>7, WorldKept
<1> QED
  BY <1>1, <1>4, <1>5, <1>6, <1>8, JourneyKeeps

\* A refund that is called for is called for where nothing has changed yet.
LEMMA RefundsStartFresh ==
    ASSUME RunIsChosen, RunIsAllowed, Rechecks, RefundInv, Journey,
           NEW n \in {4, 6}, n = Len(told) + 1, GoesOn(n)
    PROVE  ~BeganBefore(n)
<1>1. \A m \in 1..(n - 1) : Began(m) => n = 6 /\ m = 4
  BY DEF Began
<1>2. ASSUME n = 6, Began(4)
      PROVE  FALSE
  <2>1. 5 \in DOMAIN told /\ Saw(5)
    BY <1>2, Counting DEF Journey
  <2>2. Answered(told[5]) /\ Zero(told[5])
    <3>1. GoesOn(6)
      BY <1>2
    <3> QED
      BY <3>1 DEF GoesOn
  <2>3. told[5].outcome = "result"
    BY <2>1, <2>2, AnswersAreFresh
  <2>4. BeganBefore(5)
    BY <1>2 DEF BeganBefore
  <2> QED
    BY <2>1, <2>2, <2>3, <2>4 DEF Saw
<1> QED
  BY <1>1, <1>2 DEF BeganBefore

\* A count of one, as a look shows it.
LEMMA OneShows ==
    ASSUME NEW w, Plain(Keys, w), RefundCount \in DOMAIN w,
           w[RefundCount] = "1" \/ Value(w, RefundCount) = Scalar("1"),
           NEW o, o.value = Select(w, Order)
    PROVE  ~Zero(o) /\ IsNumber(o, "refund_count")
<1>1. w[RefundCount] = "1"
  <2>1. Value(w, RefundCount)[<<>>] = w[RefundCount] /\ Scalar("1")[<<>>] = "1"
    BY ScalarShown DEF Scalar
  <2> QED
    BY <2>1
<1>2. "1" # Dict /\ "1" \notin Falsy
  BY DEF Falsy, Dict
<1>3. "1" \in Numbers
  <2>1. 2 \in DOMAIN Numerals /\ Numerals[2] = "1"
    BY DEF Numerals
  <2> HIDE DEF Numerals
  <2> QED
    BY <2>1 DEF Numbers, ToSet
<1>4. Tells(o, "refund_count") /\ Part(o, "refund_count") = Scalar("1")
  BY <1>1, <1>2, KeysOfCases, PartShown
<1> QED
  BY <1>2, <1>3, <1>4, ScalarsDiffer DEF Zero, IsNumber, Truthy

LEMMA LookTravels ==
    ASSUME RunIsChosen, RunIsAllowed, WorldsArePlain, Rechecks, RefundInv, Journey,
           NEW t \in Requests, Look(t)
    PROVE  Journey'
<1> DEFINE path == IF t = ReadTool THEN Order ELSE <<"caller">>
           seen == Select(world, path)
           events == Append(Evidence(t, world, FALSE),
                            Event(IF Has(t, "response_lost_after_commit") THEN "tool_fault"
                                  ELSE "tool_observation", t))
           outcome == IF Has(t, "response_lost_after_commit") THEN "lost" ELSE "result"
           value == IF Has(t, "response_lost_after_commit") THEN NoDocument ELSE seen
<1>1. /\ t # RefundTool /\ Decides(Call(t)) /\ UNCHANGED <<run, world, ran>>
      /\ ~Has(t, "timeout_before") /\ ~Has(t, "stale_read")
      /\ Tell(t, outcome, value, events)
  BY DEF Look, Executes, Ready, Evidence
<1>2. outcome = "lost" => Has(t, "response_lost_after_commit")
  OBVIOUS
<1>3. outcome = "result" => ~Has(t, "response_lost_after_commit") /\ value = seen
  OBVIOUS
<1>4. outcome \in {"lost", "result"}
  OBVIOUS
<1> HIDE DEF outcome, value, events, seen
<1>5. PICK n, o :
              /\ n \in 1..7 /\ n = Len(told) + 1 /\ t = Itinerary[n] /\ GoesOn(n)
              /\ o.tool = t /\ o.outcome = outcome /\ o.value = value
              /\ told' = Append(told, o)
              /\ Len(told') = n /\ DOMAIN told' = 1..n /\ told'[n] = o
              /\ \A k \in 1..(n - 1) : told'[k] = told[k]
              /\ Number(t) = NumberAt[n] /\ FaultsOf(t) = PlannedAt(n)
  BY <1>1, ToldNow
<1>6. PlannedAt(n)' = PlannedAt(n) /\ Case' = Case
  BY <1>1 DEF PlannedAt, Case, Submitted
<1>7. Explained(n)'
  <2>1. told'[n].outcome = outcome
    BY <1>5
  <2>2. CASE outcome = "lost"
    <3>1. PlannedFor(n, "response_lost_after_commit")'
      BY <1>2, <1>5, <1>6, <2>2 DEF PlannedFor, Has
    <3> QED
      BY <2>1, <2>2, <3>1 DEF Explained
  <2>3. CASE outcome = "result"
    <3>1. PlannedAt(n) = {}
      <4>1. \A f \in PlannedAt(n) : f.kind \in FaultKinds
        BY FitCase DEF PlannedAt
      <4> QED
        BY <1>1, <1>3, <1>5, <2>3, <4>1 DEF FaultKinds, Has
    <3> QED
      BY <1>6, <2>1, <2>3, <3>1 DEF Explained
  <2> QED
    BY <1>4, <2>2, <2>3
<1>8. ~Began(n)'
  BY <1>1, <1>5, Itinerant DEF Began
<1>9. WorldFollows'
  BY <1>1, <1>5, <1>8, WorldKept
<1>10. Saw(n)'
  <2> SUFFICES ASSUME outcome = "result" PROVE Saw(n)'
    BY <1>5 DEF Saw
  <2>1. told'[n].value = seen
    BY <1>3, <1>5
  <2>2. WorldFollows
    BY DEF Journey
  <2>3. n - 1 \in Nat /\ (n - 1) + 1 = n /\ UNCHANGED run
    BY <1>1, <1>5
  <2>4. BeganBefore(n)' <=> BeganBefore(n)
    <3>1. \A k \in 1..((n - 1) + 1) : BeganBefore(k)' <=> BeganBefore(k)
      BY <1>5, <2>3, PastKept
    <3> HIDE DEF BeganBefore
    <3> QED
      BY <2>3, <3>1
  <2>5. CASE n = 2
    <3>1. seen = Select(Case.state, <<"caller">>)
      <4>1. ~BeganBefore(2)
        BY DEF BeganBefore, Began
      <4> QED
        BY <1>5, <2>2, <2>5, <4>1, Itinerant DEF seen, WorldFollows
    <3> QED
      BY <1>6, <2>1, <2>5, <3>1 DEF Saw
  <2>6. CASE n # 2 /\ t = ReadTool
    <3>1. seen = Select(world, Order)
      BY <2>6 DEF seen
    <3>2. CASE BeganBefore(n)
      <4>1. /\ ~Zero(Shown(world))
            /\ run.endpoint = "counts" =>
                  RefundCount \in DOMAIN world /\ Value(world, RefundCount) = Scalar("1")
        BY <1>5, <2>2, <3>2 DEF WorldFollows
      <4>2. Zero(told'[n]) <=> Zero(Shown(world))
        BY <2>1, <3>1 DEF Zero, Tells, Truthy, Part, Shown
      <4>3. run.endpoint = "counts" => IsNumber(told'[n], "refund_count")
        <5>1. Plain(Keys, world)
          BY DEF WorldsArePlain, Rechecks
        <5> QED
          BY <2>1, <3>1, <4>1, <5>1, OneShows
      <4> HIDE DEF Shown
      <4>4. /\ Zero(told[n])' <=> Zero(told'[n])
            /\ IsNumber(told[n], "refund_count")' <=> IsNumber(told'[n], "refund_count")
        BY DEF Zero, IsNumber, Tells, Truthy, Part
      <4>5. BeganBefore(n)'
        BY <2>4, <3>2
      <4>6. run' = run
        BY <2>3
      <4> QED
        BY <2>6, <4>1, <4>2, <4>3, <4>4, <4>5, <4>6 DEF Saw
    <3>3. CASE ~BeganBefore(n)
      <4>1. seen = Select(Case.state, Order)
        BY <1>5, <2>2, <3>1, <3>3 DEF WorldFollows
      <4> QED
        BY <1>6, <2>1, <2>4, <2>6, <3>3, <4>1 DEF Saw
    <3> QED
      BY <3>2, <3>3
  <2>7. n = 2 \/ t = ReadTool
    <3>1. n \in {1, 2, 3, 4, 5, 6, 7}
      BY <1>5
    <3> QED
      BY <1>1, <1>5, <3>1, Itinerant
  <2> QED
    BY <2>5, <2>6, <2>7
<1> QED
  BY <1>1, <1>5, <1>7, <1>9, <1>10, JourneyKeeps

-----------------------------------------------------------------------------
\* What a refund service leaves behind.

LEMMA OneAfterNone == Increment("0") = "1"
<1>1. /\ DOMAIN Numerals = 1..7
      /\ Numerals[1] = "0" /\ Numerals[2] = "1"
      /\ \A n \in 1..7 : Numerals[n] = "0" => n = 1
  BY DEF Numerals
<1>2. (CHOOSE n \in DOMAIN Numerals : Numerals[n] = "0") = 1
  BY <1>1
<1> QED
  BY <1>1, <1>2 DEF Increment

LEMMA CountedShows ==
    ASSUME Plain(Keys, world), RefundCount \in DOMAIN world, world[RefundCount] = "0"
    PROVE  /\ Plain(Keys, Counted) /\ Counted[RefundCount] = "1"
           /\ RefundCount \in DOMAIN Counted /\ Order \in DOMAIN Counted
           /\ Order \in DOMAIN world
<1> DEFINE v == Scalar("1")
<1>1. Counted = Set(world, RefundCount, v)
  BY OneAfterNone DEF Counted
<1>2. DOMAIN v = {<<>>} /\ v[<<>>] = "1" /\ <<>> \in Seq(Keys)
  BY DEF Scalar
<1>3. Plain(Keys, v)
  BY ScalarIsPlain
<1> HIDE DEF v
<1>4. Plain(Keys, Counted)
  BY <1>1, <1>3, SetWithinIsPlain
<1>5. Under(RefundCount, RefundCount) /\ Rest(RefundCount, RefundCount) = <<>>
  BY OrderPaths, NoWay
<1>6. RefundCount \in DOMAIN Counted /\ Counted[RefundCount] = "1"
  <2>1. DOMAIN world \subseteq Seq(Keys) /\ DOMAIN v \subseteq Seq(Keys)
    BY <1>3 DEF Plain
  <2>2. /\ \A x : x \in DOMAIN Set(world, RefundCount, v) <=>
                   \/ x \in DOMAIN world /\ ~Under(RefundCount, x)
                   \/ x \in Seq(Keys) /\ Under(RefundCount, x) /\ Rest(RefundCount, x) \in DOMAIN v
        /\ \A x \in DOMAIN Set(world, RefundCount, v) :
              Set(world, RefundCount, v)[x] = IF Under(RefundCount, x) THEN v[Rest(RefundCount, x)] ELSE world[x]
        /\ DOMAIN Set(world, RefundCount, v) \subseteq Seq(Keys)
    BY <2>1, OrderPaths, SetLeaves
  <2> QED
    BY <1>1, <1>2, <1>5, <2>2, OrderPaths
<1>7. Order \in DOMAIN Counted /\ Order \in DOMAIN world
  BY <1>4, <1>6, OrderPaths, AboveIsDict DEF Plain
<1> QED
  BY <1>4, <1>6, <1>7

\* A World with another count, or none, does not show that there was no refund.
LEMMA OtherShows ==
    ASSUME NEW w, Plain(Keys, w), RefundCount \in DOMAIN w => w[RefundCount] \in {"1", "r_1"}
    PROVE  ~Zero(Shown(w))
<1> SUFFICES ASSUME Tells(Shown(w), "refund_count")
             PROVE  Truthy(Shown(w), "refund_count")
  BY DEF Zero
<1>1. Shown(w).value = Select(w, Order)
  BY DEF Shown
<1> HIDE DEF Shown
<1>2. \A text \in {"1", "r_1"} : text # Dict /\ text \notin Falsy
  BY DEF Falsy, Dict
<1>3. RefundCount \in DOMAIN w
  BY <1>1, KeysOfCases, PartShown
<1>4. w[RefundCount] \in {"1", "r_1"}
  BY <1>3
<1>5. Part(Shown(w), "refund_count") = Scalar(w[RefundCount])
  BY <1>1, <1>2, <1>4, KeysOfCases, PartShown
<1> QED
  BY <1>2, <1>4, <1>5, ScalarsDiffer DEF Truthy

LEMMA ReplacedShows ==
    ASSUME Plain(Keys, world), RefundCount \in DOMAIN world, world[RefundCount] = "0",
           Plain(Keys, Replaced)
    PROVE  ~Zero(Shown(Replaced))
<1> DEFINE order == Select(Counted, Order)
           kept == [p \in DOMAIN order \ Below(order, <<"status">>) |-> order[p]]
           r == Scalar("r_1")
           next == Set(kept, <<"receipt">>, r)
           q == <<"refund_count">>
<1>1. Replaced = Set(world, Order, next)
  BY DEF Replaced
<1>2. q \in Seq(Keys) /\ RefundCount = Order \o q /\ Order \in Seq(Keys)
        /\ <<"receipt">> \in Seq(Keys)
  BY KeysOfCases, OrderPaths
<1>3. /\ DOMAIN Counted \subseteq Seq(Keys) /\ Counted[RefundCount] = "1"
      /\ DOMAIN world \subseteq Seq(Keys)
  BY CountedShows DEF Plain
<1>4. DOMAIN order \subseteq Seq(Keys) /\ (q \in DOMAIN order => order[q] = "1")
  BY <1>2, <1>3, SelectLeaves
<1> HIDE DEF order
<1>5. DOMAIN kept \subseteq Seq(Keys) /\ (q \in DOMAIN kept => kept[q] = "1")
  BY <1>4
<1>6. DOMAIN r = {<<>>} /\ r[<<>>] = "r_1" /\ <<>> \in Seq(Keys)
  BY DEF Scalar
<1> HIDE DEF kept, r, q
<1>7. /\ \A x \in DOMAIN next : /\ x \in Seq(Keys)
                                /\ next[x] = IF Under(<<"receipt">>, x)
                                             THEN r[Rest(<<"receipt">>, x)] ELSE kept[x]
                                /\ Under(<<"receipt">>, x) => Rest(<<"receipt">>, x) \in DOMAIN r
                                /\ ~Under(<<"receipt">>, x) => x \in DOMAIN kept
      /\ DOMAIN next \subseteq Seq(Keys)
  <2>1. DOMAIN r \subseteq Seq(Keys)
    BY <1>6
  <2>2. /\ \A x : x \in DOMAIN Set(kept, <<"receipt">>, r) <=>
                   \/ x \in DOMAIN kept /\ ~Under(<<"receipt">>, x)
                   \/ x \in Seq(Keys) /\ Under(<<"receipt">>, x) /\ Rest(<<"receipt">>, x) \in DOMAIN r
        /\ \A x \in DOMAIN Set(kept, <<"receipt">>, r) :
              Set(kept, <<"receipt">>, r)[x] = IF Under(<<"receipt">>, x) THEN r[Rest(<<"receipt">>, x)] ELSE kept[x]
        /\ DOMAIN Set(kept, <<"receipt">>, r) \subseteq Seq(Keys)
    BY <1>2, <1>5, <2>1, SetLeaves
  <2>3. next = Set(kept, <<"receipt">>, r)
    OBVIOUS
  <2> HIDE DEF next
  <2> QED
    BY <1>5, <2>2, <2>3
<1>8. q \in DOMAIN next => next[q] \in {"1", "r_1"}
  BY <1>5, <1>6, <1>7
<1> HIDE DEF next
<1>9. RefundCount \in DOMAIN Replaced => q \in DOMAIN next /\ Replaced[RefundCount] = next[q]
  <2>1. Under(Order, RefundCount) /\ Rest(Order, RefundCount) = q
    BY <1>2, PathBelow
  <2>2. /\ \A x : x \in DOMAIN Set(world, Order, next) <=>
                   \/ x \in DOMAIN world /\ ~Under(Order, x)
                   \/ x \in Seq(Keys) /\ Under(Order, x) /\ Rest(Order, x) \in DOMAIN next
        /\ \A x \in DOMAIN Set(world, Order, next) :
              Set(world, Order, next)[x] = IF Under(Order, x) THEN next[Rest(Order, x)] ELSE world[x]
        /\ DOMAIN Set(world, Order, next) \subseteq Seq(Keys)
    BY <1>2, <1>3, <1>7, SetLeaves
  <2> QED
    BY <1>1, <2>1, <2>2
<1> QED
  BY <1>8, <1>9, OtherShows

LEMMA EffectShows ==
    ASSUME RunIsChosen, run # NoRun, Plain(Keys, world),
           run.endpoint \in {"counts", "replaces", "closes", "fails"},
           RefundCount \in DOMAIN world, world[RefundCount] = "0"
    PROVE  /\ ~Zero(Shown(RefundEffect.world))
           /\ run.endpoint = "counts" =>
                 /\ RefundCount \in DOMAIN RefundEffect.world
                 /\ Value(RefundEffect.world, RefundCount) = Scalar("1")
           /\ RefundEffect.raised => run.endpoint = "fails"
<1>1. Plain(Keys, RefundEffect.world)
  BY EffectIsPlain
<1>2. /\ Plain(Keys, Counted) /\ Counted[RefundCount] = "1"
      /\ RefundCount \in DOMAIN Counted /\ Order \in DOMAIN Counted
  BY CountedShows
<1>3. ~Zero(Shown(Counted))
  BY <1>2, OtherShows
<1> HIDE DEF Counted, Replaced
<1>5. CASE run.endpoint = "counts"
  <2>1. RefundEffect.world = Counted /\ ~RefundEffect.raised
    BY <1>5 DEF RefundEffect, Leaves
  <2>2. Value(Counted, RefundCount) = Scalar("1")
    <3>1. "1" # Dict
      BY DEF Dict
    <3> QED
      BY <1>2, <3>1, ScalarShown
  <2> QED
    BY <1>2, <1>3, <1>5, <2>1, <2>2
<1>6. CASE run.endpoint = "fails"
  <2>1. RefundEffect.world = Counted
    BY <1>6 DEF RefundEffect
  <2> QED
    BY <1>3, <1>6, <2>1
<1>7. CASE run.endpoint = "replaces"
  <2>1. RefundEffect.world = Replaced /\ ~RefundEffect.raised
    BY <1>7 DEF RefundEffect, Leaves
  <2> QED
    BY <1>1, <1>7, <2>1, ReplacedShows
<1>8. CASE run.endpoint = "closes"
  <2> DEFINE c == Scalar("closed")
             w == Set(Counted, Order, c)
  <2>1. RefundEffect.world = w /\ ~RefundEffect.raised
    BY <1>8 DEF RefundEffect, Leaves
  <2>2. DOMAIN c = {<<>>}
    BY DEF Scalar
  <2> HIDE DEF c
  <2>3. RefundCount \notin DOMAIN w
    <3>1. Under(Order, RefundCount) /\ Rest(Order, RefundCount) = <<"refund_count">>
      <4>1. <<"refund_count">> \in Seq(Keys)
        BY KeysOfCases
      <4> QED
        BY <4>1, KeysOfCases, PathBelow
    <3>2. <<"refund_count">> # <<>>
      OBVIOUS
    <3>3. DOMAIN Counted \subseteq Seq(Keys) /\ DOMAIN c \subseteq Seq(Keys)
      BY <1>2, <2>2 DEF Plain
    <3>4. /\ \A x : x \in DOMAIN Set(Counted, Order, c) <=>
                     \/ x \in DOMAIN Counted /\ ~Under(Order, x)
                     \/ x \in Seq(Keys) /\ Under(Order, x) /\ Rest(Order, x) \in DOMAIN c
          /\ \A x \in DOMAIN Set(Counted, Order, c) :
                Set(Counted, Order, c)[x] = IF Under(Order, x) THEN c[Rest(Order, x)] ELSE Counted[x]
          /\ DOMAIN Set(Counted, Order, c) \subseteq Seq(Keys)
      BY <3>3, OrderPaths, SetLeaves
    <3> QED
      BY <2>2, <3>1, <3>2, <3>4 DEF w
  <2> HIDE DEF w
  <2> QED
    BY <1>1, <1>8, <2>1, <2>3, OtherShows
<1> QED
  BY <1>5, <1>6, <1>7, <1>8

\* The worlds a refund is called for in.
LEMMA RefundsAreAllowed ==
    ASSUME RunIsChosen, RunIsAllowed, Rechecks, RefundInv, Journey,
           Decides(Call(RefundTool))
    PROVE  /\ Len(told) + 1 \in {4, 6} /\ ~BeganBefore(Len(told) + 1)
           /\ ran = <<>> /\ world = Case.state /\ Allowed(Case.state)
           /\ RefundCount \in DOMAIN world /\ world[RefundCount] = "0"
<1>1. Len(told) \in 0..6 /\ Itinerary[Len(told) + 1] = RefundTool /\ GoesOn(Len(told) + 1)
  BY NextCall DEF Journey, OnCourse
<1>2. Len(told) + 1 \in {4, 6}
  <2>1. \A n \in 1..7 : Itinerary[n] = RefundTool => n \in {4, 6}
    BY Itinerant
  <2>2. Len(told) + 1 \in 1..7
    <3>1. Len(told) < 7 /\ Len(told) \in 0..7
      BY NextCall, Counting DEF Journey
    <3> QED
      BY <3>1
  <2> QED
    BY <1>1, <2>1, <2>2
<1>3. ~BeganBefore(Len(told) + 1)
  BY <1>1, <1>2, RefundsStartFresh
<1>4. ran = <<>> /\ world = Case.state
  BY <1>3 DEF Journey, WorldFollows
<1>5. Allowed(Case.state)
  <2>1. CASE Len(told) = 3
    <3>1. GoesOn(4)
      BY <1>1, <2>1
    <3> QED
      BY <2>1, <3>1, EligibleIsAllowed
  <2>2. CASE Len(told) = 5
    BY <2>2 DEF Journey
  <2>3. \A n \in 0..6 : n + 1 \in {4, 6} => n = 3 \/ n = 5
    OBVIOUS
  <2>4. Len(told) = 3 \/ Len(told) = 5
    BY <1>1, <1>2, <2>3
  <2> QED
    BY <2>1, <2>2, <2>4
<1>6. RefundCount \in DOMAIN Case.state /\ Plain(Keys, Case.state)
  BY FitCase
<1>7. Case.state[RefundCount] = "0"
  <2>1. Value(Case.state, RefundCount) = Scalar("0")
    BY <1>5 DEF Allowed
  <2>2. Scalar("0")[<<>>] = "0"
    BY DEF Scalar
  <2>3. Value(Case.state, RefundCount)[<<>>] = Case.state[RefundCount]
    BY <1>6, ScalarShown
  <2> QED
    BY <2>1, <2>2, <2>3
<1> QED
  BY <1>2, <1>3, <1>4, <1>5, <1>6, <1>7

LEMMA RefundTravels ==
    ASSUME RunIsChosen, RunIsAllowed, WorldsArePlain, Rechecks, RefundInv, Journey,
           IssueRefund
    PROVE  Journey'
<1> DEFINE t == RefundTool
           w == RefundEffect.world
           raised == RefundEffect.raised
           lost == Has(t, "response_lost_after_commit")
           events == IF raised THEN Evidence(t, w, raised)
                     ELSE Append(Evidence(t, w, raised),
                                 Event(IF lost THEN "tool_fault" ELSE "tool_observation", t))
           outcome == IF raised THEN "error" ELSE IF lost THEN "lost" ELSE "result"
           value == IF raised THEN NoDocument ELSE IF lost THEN NoDocument ELSE Receipt
<1>1. /\ run # NoRun /\ Decides(Call(t)) /\ UNCHANGED run
      /\ world' = w /\ ran' = Append(ran, world)
      /\ ~Has(t, "timeout_before") /\ ~Has(t, "stale_read")
      /\ Tell(t, outcome, value, events)
  BY DEF IssueRefund, Executes, Ready, Evidence
<1>2. outcome = "lost" => lost
  OBVIOUS
<1>3. outcome = "result" => ~lost
  OBVIOUS
<1>4. outcome \in {"error", "lost", "result"} /\ (outcome = "error" => raised)
  OBVIOUS
<1> HIDE DEF outcome, value, events, w, raised
<1>5. PICK n, o :
              /\ n \in 1..7 /\ n = Len(told) + 1 /\ t = Itinerary[n] /\ GoesOn(n)
              /\ o.tool = t /\ o.outcome = outcome /\ o.value = value
              /\ told' = Append(told, o)
              /\ Len(told') = n /\ DOMAIN told' = 1..n /\ told'[n] = o
              /\ \A k \in 1..(n - 1) : told'[k] = told[k]
              /\ Number(t) = NumberAt[n] /\ FaultsOf(t) = PlannedAt(n)
  BY <1>1, ToldNow
<1>6. /\ n \in {4, 6} /\ ran = <<>> /\ world = Case.state
      /\ RefundCount \in DOMAIN world /\ world[RefundCount] = "0"
  BY <1>1, <1>5, RefundsAreAllowed
<1>7. /\ ~Zero(Shown(w))
      /\ run.endpoint = "counts" =>
            RefundCount \in DOMAIN w /\ Value(w, RefundCount) = Scalar("1")
      /\ raised => run.endpoint = "fails"
  <2>1. Plain(Keys, world) /\ run.endpoint \in {"counts", "replaces", "closes", "fails"}
    BY <1>1, FitCase DEF WorldsArePlain
  <2> QED
    BY <1>1, <1>6, <2>1, EffectShows DEF w, raised
<1>8. PlannedAt(n)' = PlannedAt(n) /\ Case' = Case
  BY <1>1 DEF PlannedAt, Case, Submitted
<1>9. Explained(n)'
  <2>1. told'[n].outcome = outcome
    BY <1>5
  <2>2. CASE outcome = "lost"
    <3>1. PlannedFor(n, "response_lost_after_commit")'
      BY <1>2, <1>5, <1>8, <2>2 DEF PlannedFor, Has
    <3> QED
      BY <2>1, <2>2, <3>1 DEF Explained
  <2>3. CASE outcome = "result"
    <3>1. PlannedAt(n) = {}
      <4>1. \A f \in PlannedAt(n) : f.kind \in FaultKinds
        BY FitCase DEF PlannedAt
      <4> QED
        BY <1>1, <1>3, <1>5, <2>3, <4>1 DEF FaultKinds, Has
    <3> QED
      BY <1>8, <2>1, <2>3, <3>1 DEF Explained
  <2>4. CASE outcome = "error"
    BY <1>1, <1>4, <1>6, <1>7, <2>1, <2>4 DEF Explained
  <2> QED
    BY <1>4, <2>2, <2>3, <2>4
<1>10. Saw(n)'
  BY <1>6 DEF Saw
<1>11. BeganBefore(Len(told) + 1)'
  <2>1. Began(n)'
    BY <1>4, <1>5, <1>6 DEF Began
  <2>2. n \in 1..(Len(told') + 1 - 1)
    BY <1>5
  <2> QED
    BY <2>1, <2>2 DEF BeganBefore
<1>12. Len(ran') = 1 /\ ran'[1] = Case.state
  <2>1. \A s : s = <<>> => Len(Append(s, world)) = 1 /\ Append(s, world)[1] = world
    OBVIOUS
  <2> QED
    BY <1>1, <1>6, <2>1
<1>13. WorldFollows'
  <2> HIDE DEF BeganBefore, Case
  <2> QED
    BY <1>1, <1>7, <1>8, <1>11, <1>12
       DEF WorldFollows, Value, Zero, Tells, Truthy, Part, Shown
<1> QED
  BY <1>1, <1>5, <1>9, <1>10, <1>13, JourneyKeeps

-----------------------------------------------------------------------------
\* What a call leaves in the log.

Loud == {"precondition_failed", "tool_rejected", "tool_error"}

LEMMA LogsKept ==
    ASSUME RunIsChosen, RunIsAllowed, Rechecks, RefundInv, Journey, Quiet, FaultsLogged,
           UNCHANGED run, NEW t, Decides(Call(t)), NEW outcome, NEW value, NEW events,
           IsSequence(events), Tell(t, outcome, value, events),
           run.endpoint = "counts" => \A e \in Within(events) : e.kind \notin Loud,
           outcome \in {"timeout", "stale", "lost"} =>
              Event("tool_fault", t) \in Within(events)
    PROVE  Quiet' /\ FaultsLogged'
<1> DEFINE a == Event("tool_attempt", t)
           f == Event("tool_fault", t)
<1>1. Within(log') = Within(log) \cup {a} \cup Within(events)
  <2>1. log' = log \o <<a>> \o events
    BY DEF Tell
  <2>2. IsSequence(log) /\ IsSequence(<<a>>) /\ Within(<<a>>) = {a}
    BY Single DEF RefundInv
  <2> HIDE DEF a
  <2>3. IsSequence(log \o <<a>>) /\ Within(log \o <<a>>) = Within(log) \cup {a}
    BY <2>2, Followed, Joined
  <2> QED
    BY <2>1, <2>3, Joined
<1>2. a.kind = "tool_attempt" /\ f.kind = "tool_fault" /\ f.tool = t /\ f.number = Number(t)
  BY DEF Event
<1>3. Quiet'
  BY <1>1, <1>2 DEF Quiet, Loud
<1>4. PICK n, o :
              /\ n \in 1..7 /\ n = Len(told) + 1 /\ t = Itinerary[n] /\ GoesOn(n)
              /\ o.tool = t /\ o.outcome = outcome /\ o.value = value
              /\ told' = Append(told, o)
              /\ Len(told') = n /\ DOMAIN told' = 1..n /\ told'[n] = o
              /\ \A k \in 1..(n - 1) : told'[k] = told[k]
              /\ Number(t) = NumberAt[n] /\ FaultsOf(t) = PlannedAt(n)
  BY ToldNow
<1>5. DOMAIN told = 1..(n - 1)
  BY <1>4, Counting DEF Journey
<1> HIDE DEF a, f
<1>6. FaultsLogged'
  <2> SUFFICES ASSUME NEW k \in 1..n, told'[k].outcome \in {"timeout", "stale", "lost"}
               PROVE  \E e \in Within(log') : /\ e.kind = "tool_fault" /\ e.tool = Itinerary[k]
                                              /\ e.number = NumberAt[k]
    BY <1>4 DEF FaultsLogged
  <2>1. CASE k = n
    <3>1. f \in Within(log')
      BY <1>1, <1>4, <2>1 DEF f
    <3> QED
      BY <1>2, <1>4, <2>1, <3>1
  <2>2. CASE k # n
    <3>1. k \in DOMAIN told /\ told[k].outcome \in {"timeout", "stale", "lost"}
      BY <1>4, <1>5, <2>2
    <3> QED
      BY <1>1, <3>1 DEF FaultsLogged
  <2> QED
    BY <2>1, <2>2
<1> QED
  BY <1>3, <1>6

\* With the default service no call of such an agent is rejected.
LEMMA CountsPermits ==
    ASSUME RunIsChosen, RunIsAllowed, Rechecks, RefundInv, Journey,
           run.endpoint = "counts", NEW t, Decides(Call(t))
    PROVE  Permitted(t)
<1>1. IsFor(Case, Scenario)
  BY FitCase
<1>2. /\ PackTools \subseteq Scenario.handlers /\ Scenario.maxCalls \in Nat
      /\ Scenario.maxCalls >= 7
  BY <1>1 DEF IsFor
<1>3. Attempts = Len(told) /\ Len(told) \in 0..6 /\ t \in PackTools
  <2>1. Len(told) \in 0..7 /\ Len(told) < 7 /\ t = Itinerary[Len(told) + 1]
    BY NextCall, Counting DEF Journey
  <2>2. Len(told) + 1 \in 1..7
    <3>1. Len(told) \in 0..7 /\ Len(told) < 7
      BY <2>1
    <3> QED
      BY <3>1
  <2>3. t \in PackTools
    BY <2>1, <2>2, Visited
  <2> QED
    BY <2>1, <2>3, Counting DEF Journey
<1> QED
  BY <1>2, <1>3 DEF Permitted

\* Nothing is missed in it.
LEMMA CountsMissNothing ==
    ASSUME RunIsChosen, RunIsAllowed, Rechecks, RefundInv, Journey,
           run.endpoint = "counts", NEW t, Decides(Call(t))
    PROVE  Missed(t) = {}
<1>1. IsFor(Case, Scenario)
  BY FitCase
<1>2. \A a \in Case.assertions : a.type = "precondition" =>
         /\ a.tool = RefundTool
         /\ Allowed(Case.state) =>
               a.path \in DOMAIN Case.state /\ Select(Case.state, a.path) = a.value
  BY <1>1 DEF IsFor
<1>3. t = RefundTool => world = Case.state /\ Allowed(Case.state)
  BY RefundsAreAllowed
<1> HIDE DEF Case
<1> QED
  BY <1>2, <1>3 DEF Missed

LEMMA EvidenceIsQuiet ==
    ASSUME NEW t, NEW w, Missed(t) = {}
    PROVE  \A e \in Within(Evidence(t, w, FALSE)) : e.kind = "tool_executed"
<1> DEFINE x == [kind |-> "tool_executed", tool |-> t, number |-> Number(t),
                 changes |-> Changes(world, w), status |-> "completed"]
<1>1. Evidence(t, w, FALSE) = <<>> \o <<>> \o <<x>>
  BY DEF Evidence, Precheck
<1>2. x.kind = "tool_executed"
  OBVIOUS
<1> HIDE DEF x
<1>3. /\ IsSequence(<<>>) /\ Within(<<>>) = {}
      /\ IsSequence(<<x>>) /\ Within(<<x>>) = {x}
  BY Single, Nothing
<1>4. IsSequence(<<>> \o <<>>) /\ Within(<<>> \o <<>>) = {}
  BY <1>3, Followed, Joined
<1>5. Within(<<>> \o <<>> \o <<x>>) = {x}
  BY <1>3, <1>4, Joined
<1> QED
  BY <1>1, <1>2, <1>5

LEMMA RejectLogs ==
    ASSUME RunIsChosen, RunIsAllowed, Rechecks, RefundInv, Journey, Quiet, FaultsLogged,
           NEW t, Reject(t)
    PROVE  Quiet' /\ FaultsLogged'
<1> DEFINE e == Event("tool_rejected", t)
<1>1. /\ Decides(Call(t)) /\ ~Permitted(t) /\ UNCHANGED run
      /\ Tell(t, "rejected", NoDocument, <<e>>)
  BY DEF Reject, Ready
<1>2. run.endpoint # "counts"
  BY <1>1, CountsPermits
<1> HIDE DEF e
<1>3. IsSequence(<<e>>)
  BY Single
<1> QED
  BY <1>1, <1>2, <1>3, LogsKept

LEMMA InterceptLogs ==
    ASSUME RunIsChosen, RunIsAllowed, Rechecks, RefundInv, Journey, Quiet, FaultsLogged,
           NEW t, Intercept(t)
    PROVE  Quiet' /\ FaultsLogged'
<1> DEFINE e == Event("tool_fault", t)
           v == Event("tool_observation", t)
<1>1. /\ Decides(Call(t)) /\ UNCHANGED run
      /\ \E f \in FaultsOf(t) :
            \/ f.kind = "timeout_before" /\ Tell(t, "timeout", NoDocument, <<e>>)
            \/ f.kind = "stale_read" /\ Tell(t, "stale", f.value, <<e, v>>)
  BY DEF Intercept, Ready
<1>2. e.kind \notin Loud /\ v.kind \notin Loud
  BY DEF Event, Loud
<1>3. e = Event("tool_fault", t)
  OBVIOUS
<1> HIDE DEF e, v
<1>4. IsSequence(<<e>>) /\ Within(<<e>>) = {e}
  BY Single
<1>5. IsSequence(<<e, v>>) /\ Within(<<e, v>>) = {e, v}
  <2>1. <<e, v>> = <<e>> \o <<v>>
    <3>1. \A s, u : s = <<e>> /\ u = <<e, v>> => u = Append(s, v)
      OBVIOUS
    <3> QED
      BY <1>4, <3>1, OneMore, Zenon
  <2>2. IsSequence(<<v>>) /\ Within(<<v>>) = {v}
    BY Single
  <2>3. IsSequence(<<e>> \o <<v>>)
    BY <1>4, <2>2, Followed
  <2>4. Within(<<e>> \o <<v>>) = Within(<<e>>) \cup Within(<<v>>)
    BY <1>4, <2>2, Joined
  <2>5. {e} \cup {v} = {e, v}
    OBVIOUS
  <2> QED
    BY <1>4, <2>1, <2>2, <2>3, <2>4, <2>5, Zenon
<1>6. PICK f \in FaultsOf(t) :
            \/ f.kind = "timeout_before" /\ Tell(t, "timeout", NoDocument, <<e>>)
            \/ f.kind = "stale_read" /\ Tell(t, "stale", f.value, <<e, v>>)
  BY <1>1
<1>7. CASE Tell(t, "timeout", NoDocument, <<e>>)
  BY <1>1, <1>2, <1>3, <1>4, <1>7, LogsKept
<1>8. CASE Tell(t, "stale", f.value, <<e, v>>)
  BY <1>1, <1>2, <1>3, <1>5, <1>8, LogsKept
<1> QED
  BY <1>6, <1>7, <1>8

LEMMA ExecutesLogs ==
    ASSUME RunIsChosen, RunIsAllowed, Rechecks, RefundInv, Journey, Quiet, FaultsLogged,
           NEW t \in Requests, NEW w, NEW value, NEW raised \in BOOLEAN,
           Executes(t, w, value, raised), run.endpoint = "counts" => ~raised
    PROVE  Quiet' /\ FaultsLogged'
<1> DEFINE ev == Evidence(t, w, raised)
           l == Event("tool_fault", t)
           v == Event("tool_observation", t)
<1>1. /\ Decides(Call(t)) /\ UNCHANGED run
      /\ IF raised THEN Tell(t, "error", NoDocument, ev)
         ELSE IF Has(t, "response_lost_after_commit")
         THEN Tell(t, "lost", NoDocument, Append(ev, l))
         ELSE Tell(t, "result", value, Append(ev, v))
  BY DEF Executes, Ready, Evidence
<1>2. IsSequence(ev)
  BY EvidenceHolds
<1>3. run.endpoint = "counts" => \A e \in Within(ev) : e.kind \notin Loud
  <2> SUFFICES ASSUME run.endpoint = "counts"
               PROVE  \A e \in Within(ev) : e.kind \notin Loud
    OBVIOUS
  <2>1. raised = FALSE
    OBVIOUS
  <2>2. Missed(t) = {}
    BY <1>1, CountsMissNothing
  <2>3. \A e \in Within(Evidence(t, w, FALSE)) : e.kind = "tool_executed"
    BY <2>2, EvidenceIsQuiet
  <2> QED
    BY <2>1, <2>3 DEF Loud
<1>4. l.kind \notin Loud /\ v.kind \notin Loud /\ l = Event("tool_fault", t)
  BY DEF Event, Loud
<1> HIDE DEF ev, l, v
<1>5. \A z : IsSequence(Append(ev, z)) /\ Within(Append(ev, z)) = Within(ev) \cup {z}
  <2> SUFFICES ASSUME NEW z
               PROVE  IsSequence(Append(ev, z)) /\ Within(Append(ev, z)) = Within(ev) \cup {z}
    OBVIOUS
  <2>1. Append(ev, z) = ev \o <<z>> /\ IsSequence(<<z>>) /\ Within(<<z>>) = {z}
    BY <1>2, OneMore, Single
  <2>2. IsSequence(ev \o <<z>>) /\ Within(ev \o <<z>>) = Within(ev) \cup Within(<<z>>)
    BY <1>2, <2>1, Followed, Joined
  <2> QED
    BY <2>1, <2>2, Zenon
<1>6. CASE raised
  <2>1. Tell(t, "error", NoDocument, ev)
    BY <1>1, <1>6
  <2> QED
    BY <1>1, <1>2, <1>3, <2>1, LogsKept
<1>7. CASE ~raised /\ Has(t, "response_lost_after_commit")
  <2>1. Tell(t, "lost", NoDocument, Append(ev, l))
    BY <1>1, <1>7
  <2>2. run.endpoint = "counts" => \A e \in Within(Append(ev, l)) : e.kind \notin Loud
    BY <1>3, <1>4, <1>5
  <2>3. Event("tool_fault", t) \in Within(Append(ev, l))
    BY <1>4, <1>5
  <2>4. IsSequence(Append(ev, l))
    BY <1>5
  <2> QED
    BY <1>1, <2>1, <2>2, <2>3, <2>4, LogsKept
<1>8. CASE ~raised /\ ~Has(t, "response_lost_after_commit")
  <2>1. Tell(t, "result", value, Append(ev, v))
    BY <1>1, <1>8
  <2>2. run.endpoint = "counts" => \A e \in Within(Append(ev, v)) : e.kind \notin Loud
    BY <1>3, <1>4, <1>5
  <2>3. IsSequence(Append(ev, v))
    BY <1>5
  <2> QED
    BY <1>1, <2>1, <2>2, <2>3, LogsKept
<1> QED
  BY <1>6, <1>7, <1>8

-----------------------------------------------------------------------------
\* The end of such an agent.

\* Where it does not stop.
Stops ==
    /\ Len(told) > 0
    /\ Len(told) = 1 => ~(Answered(told[1]) /\ Zero(told[1]) /\ Delivered(told[1]))
    /\ Len(told) = 2 => ~(Answered(told[2]) /\ IsVerified(told[2]))
    /\ Len(told) \in {3, 5} =>
          LET o == told[Len(told)]
          IN  ~(Answered(o) /\ Zero(o) /\ Delivered(o) /\ Owns(o, told[2]))
    /\ Len(told) \in {4, 6} => Answered(told[Len(told)])

\* The n-th answer has the fields the agent reads in it.
Legible(n) ==
    /\ n = 2 => Tells(told[2], "verified") /\ Tells(told[2], "customer_id")
    /\ told[n].tool = ReadTool =>
          /\ IsNumber(told[n], "refund_count")
          /\ n = 3 \/ Zero(told[n]) =>
                Tells(told[n], "status") /\ (n # 1 => Tells(told[n], "customer_id"))

\* Why it raises an exception, and says that there was a refund.
Gives(d) ==
    /\ d = Raise =>
          \/ Refused(told[Len(told)])
          \/ /\ Answered(told[Len(told)])
             /\ ~Legible(Len(told)) \/ (Len(told) >= 3 /\ ~Legible(2))
    /\ d = Answer("confirmed") =>
          /\ Len(told) >= 4 /\ Answered(told[Len(told)])
          /\ \/ told[Len(told)].tool = RefundTool
             \/ told[Len(told)].tool = ReadTool /\ ~Zero(told[Len(told)])

LEMMA SafeStops ==
    ASSUME RefundInv, Journey, NEW d, SafeDecides(told, d), d.do # "call"
    PROVE  Len(told) > 0 /\ Gives(d) /\ (d # Raise => Stops)
<1>1. /\ Len(told) \in 0..7 /\ DOMAIN told = 1..Len(told)
      /\ Cardinality(RefundsIn(told)) = IF Len(told) < 4 THEN 0
                                        ELSE IF Len(told) < 6 THEN 1 ELSE 2
      /\ \A n \in DOMAIN told : told[n].tool = Itinerary[n]
  BY Counting DEF Journey, OnCourse
<1>2. /\ \A u : d # Call(u)
      /\ \A x : Answer(x) # Raise
      /\ \A x : Answer(x) = Answer("confirmed") => x = "confirmed"
  BY DEF Call, Answer, Raise
<1>3. \A o : (Unheard(o) => ~Answered(o) /\ ~Refused(o)) /\ (Answered(o) => ~Refused(o))
  BY DEF Unheard, Answered, Refused
<1>4. CASE Len(told) = 0
  BY <1>2, <1>4 DEF SafeDecides
<1>5. CASE Len(told) = 1
  BY <1>2, <1>3, <1>5 DEF SafeDecides, Stops, Gives, Refused
<1>6. CASE Len(told) = 2
  <2>1. \/ Refused(told[2]) /\ d = Raise
        \/ Unheard(told[2]) /\ d = Answer("later")
        \/ Answered(told[2]) /\ ~Tells(told[2], "verified") /\ d = Raise
        \/ Answered(told[2]) /\ ~IsVerified(told[2]) /\ d = Answer("unverified")
    BY <1>2, <1>6 DEF SafeDecides, IsVerified
  <2> QED
    BY <1>2, <1>3, <1>6, <2>1 DEF Stops, Gives, Legible
<1>7. CASE Len(told) = 3
  <2> DEFINE order == told[3]
             caller == told[2]
             Eligible == Owns(order, caller) /\ Delivered(order)
             Readable == /\ Tells(order, "customer_id") /\ Tells(caller, "customer_id")
                         /\ Owns(order, caller) => Tells(order, "status")
                         /\ Eligible => Tells(order, "refund_count")
  <2>1. \/ Refused(order) /\ d = Raise
        \/ Unheard(order) /\ d = Answer("later")
        \/ Answered(order) /\ ~Readable /\ d = Raise
        \/ Answered(order) /\ Readable /\ ~Eligible /\ d = Answer("ineligible")
        \/ /\ Answered(order) /\ Readable /\ Eligible
           /\ d = IF Truthy(order, "refund_count") THEN Answer("exists") ELSE Call(RefundTool)
    <3> HIDE DEF Readable, Eligible
    <3>1. \/ Len(told) = 0 /\ d = Call(ReadTool)
          \/ Len(told) > 0 /\ Refused(told[Len(told)]) /\ d = Raise
          \/ Len(told) \in 1..3 /\ Unheard(told[Len(told)]) /\ d = Answer("later")
          \/ Len(told) = 1 \/ Len(told) = 2 \/ Len(told) > 3
          \/ Answered(order) /\ ~Readable /\ d = Raise
          \/ Answered(order) /\ Readable /\ ~Eligible /\ d = Answer("ineligible")
          \/ /\ Answered(order) /\ Readable /\ Eligible
             /\ d = IF Truthy(order, "refund_count") THEN Answer("exists")
                    ELSE Call(RefundTool)
      BY Zenon DEF SafeDecides, Readable, Eligible
    <3> QED
      BY <1>7, <3>1
  <2>2. \/ Refused(order) /\ d = Raise
        \/ Unheard(order) /\ d = Answer("later")
        \/ Answered(order) /\ ~Readable /\ d = Raise
        \/ Answered(order) /\ ~Eligible /\ d = Answer("ineligible")
        \/ Answered(order) /\ Truthy(order, "refund_count") /\ d = Answer("exists")
    BY <1>2, <2>1
  <2>3. told[3].tool = ReadTool
    BY <1>1, <1>7, Itinerant
  <2>4. ~Readable => ~Legible(3) \/ ~Legible(2)
    BY <2>3 DEF Legible, IsNumber
  <2>5. ~Eligible \/ Truthy(order, "refund_count") =>
           ~(Zero(order) /\ Delivered(order) /\ Owns(order, caller))
    BY DEF Zero
  <2> HIDE DEF Readable, Eligible
  <2>6. Gives(d)
    BY <1>2, <1>3, <1>7, <2>2, <2>4 DEF Gives
  <2>7. d # Raise => Stops
    BY <1>2, <1>3, <1>7, <2>2, <2>5 DEF Stops
  <2> QED
    BY <1>7, <2>6, <2>7
<1>8. CASE Len(told) > 3
  <2> DEFINE N == Len(told)
             o == told[N]
  <2>1. \/ Refused(o) /\ d = Raise
        \/ ~Refused(o) /\ SafeRetries(told, d)
    BY <1>1, <1>8 DEF SafeDecides
  <2>2. SafeRetries(told, d) =>
           \/ o.tool = RefundTool /\ Answered(o) /\ d = Answer("confirmed")
           \/ o.tool = ReadTool /\ Unheard(o) /\ d = Answer("unable")
           \/ o.tool = ReadTool /\ Answered(o) /\ ~Tells(o, "refund_count") /\ d = Raise
           \/ o.tool = ReadTool /\ Answered(o) /\ ~Zero(o) /\ d = Answer("confirmed")
           \/ /\ o.tool = ReadTool /\ Answered(o) /\ Zero(o)
              /\ Cardinality(RefundsIn(told)) >= 2 /\ d = Answer("unable")
    <3>1. Cardinality(RefundsIn(told)) < 2 \/ Cardinality(RefundsIn(told)) >= 2
      BY <1>1
    <3> HIDE DEF o
    <3> QED
      BY <1>2, <3>1 DEF SafeRetries, Zero, o
  <2>3. o.tool = Itinerary[N]
    BY <1>1, <1>8
  <2> HIDE DEF o
  <2>4. Gives(d)
    BY <1>1, <1>2, <1>3, <1>8, <2>1, <2>2 DEF Gives, Legible, IsNumber, o
  <2>5. ASSUME d # Raise
        PROVE  Stops
    <3>1. CASE N = 4 \/ N = 6
      <4>1. o.tool = RefundTool
        BY <2>3, <3>1, Itinerant
      <4>2. Answered(o)
        BY <2>1, <2>2, <2>5, <4>1, Itinerant
      <4>3. Answered(told[Len(told)])
        BY <4>2 DEF o
      <4>4. CASE Len(told) = 4
        BY <4>3, <4>4 DEF Stops
      <4>5. CASE Len(told) = 6
        BY <4>3, <4>5 DEF Stops
      <4> QED
        BY <3>1, <4>4, <4>5
    <3>2. CASE N = 5
      <4>1. Cardinality(RefundsIn(told)) = 1
        BY <1>1, <3>2
      <4> QED
        BY <1>3, <2>1, <2>2, <2>3, <2>5, <3>2, <4>1, Itinerant DEF Stops, o
    <3>3. CASE N = 7
      BY <3>3 DEF Stops
    <3> QED
      BY <1>1, <1>8, <3>1, <3>2, <3>3
  <2> QED
    BY <1>8, <2>4, <2>5
<1> QED
  BY <1>1, <1>4, <1>5, <1>6, <1>7, <1>8

LEMMA ScriptedStops ==
    ASSUME RefundInv, Journey, NEW d, ScriptedDecides(told, d), d.do # "call"
    PROVE  Len(told) > 0 /\ Gives(d) /\ (d # Raise => Stops)
<1> DEFINE N == Len(told)
           o == told[N]
           callers == {k \in 1..N : told[k].tool = IdentityTool /\ Answered(told[k])}
           caller == told[Max(callers)]
           Looked == o.tool = ReadTool /\ Answered(o)
           Readable == /\ IsNumber(o, "refund_count")
                       /\ Truthy(o, "refund_count") \/ Tells(o, "status")
           Fresh == Looked /\ Readable /\ ~Truthy(o, "refund_count") /\ Delivered(o)
           Comparable == /\ Tells(caller, "verified")
                         /\ Truthy(caller, "verified") =>
                               Tells(caller, "customer_id") /\ Tells(o, "customer_id")
           Granted == Truthy(caller, "verified") /\ Owns(o, caller)
<1>1. /\ N \in 0..7 /\ DOMAIN told = 1..N
      /\ Cardinality(RefundsIn(told)) = IF N < 4 THEN 0 ELSE IF N < 6 THEN 1 ELSE 2
      /\ \A n \in 1..N : told[n].tool = Itinerary[n]
      /\ \A n \in 1..N : GoesOn(n)
  BY Counting DEF Journey, OnCourse
<1>2. /\ \A u : d # Call(u)
      /\ \A x : Answer(x) # Raise
      /\ Answer("later") # Answer("confirmed") /\ Answer("unverified") # Answer("confirmed")
      /\ Answer("exists") # Answer("confirmed") /\ Answer("ineligible") # Answer("confirmed")
      /\ Answer("unable") # Answer("confirmed")
  BY DEF Call, Answer, Raise
<1>3. N > 0
  BY <1>1, <1>2 DEF ScriptedDecides
<1>4. \/ ~Answered(o) /\ o.tool # RefundTool /\ d = Answer("later")
      \/ Answered(o) /\ o.tool = RefundTool /\ d = Answer("confirmed")
      \/ Answered(o) /\ o.tool = IdentityTool /\ ~Tells(o, "verified") /\ d = Raise
      \/ Answered(o) /\ o.tool = IdentityTool /\ ~IsVerified(o) /\ d = Answer("unverified")
      \/ Looked /\ ~Readable /\ d = Raise
      \/ Looked /\ Readable /\ ~Fresh /\ d \in {Answer("exists"), Answer("ineligible")}
      \/ Fresh /\ callers # {} /\ ~Comparable /\ d = Raise
      \/ Fresh /\ callers # {} /\ ~Granted /\ d = Answer("ineligible")
      \/ /\ Fresh /\ callers # {} /\ Granted /\ ~(Cardinality(RefundsIn(told)) < 2)
         /\ d = Answer("unable")
  <2>1. \/ N = 0 /\ d = Call(ReadTool)
        \/ N > 0 /\ ~Answered(o)
           /\ d = IF o.tool = RefundTool THEN Call(ReadTool) ELSE Answer("later")
        \/ N > 0 /\ Answered(o) /\ o.tool = RefundTool /\ d = Answer("confirmed")
        \/ N > 0 /\ Answered(o) /\ o.tool = IdentityTool /\ ~Tells(o, "verified") /\ d = Raise
        \/ N > 0 /\ Answered(o) /\ o.tool = IdentityTool /\ Tells(o, "verified")
           /\ d = IF Truthy(o, "verified") THEN Call(ReadTool) ELSE Answer("unverified")
        \/ N > 0 /\ Looked /\ ~Readable /\ d = Raise
        \/ N > 0 /\ Looked /\ Readable /\ ~Fresh
           /\ d = IF Truthy(o, "refund_count") THEN Answer("exists") ELSE Answer("ineligible")
        \/ N > 0 /\ Fresh /\ callers = {} /\ d = Call(IdentityTool)
        \/ N > 0 /\ Fresh /\ callers # {} /\ ~Comparable /\ d = Raise
        \/ N > 0 /\ Fresh /\ callers # {} /\ Comparable /\ ~Granted /\ d = Answer("ineligible")
        \/ N > 0 /\ Fresh /\ callers # {} /\ Comparable /\ Granted
           /\ d = IF Cardinality(RefundsIn(told)) < 2 THEN Call(RefundTool)
                  ELSE Answer("unable")
    BY Zenon DEF ScriptedDecides
  <2>2. Tells(o, "verified") /\ ~Truthy(o, "verified") => ~IsVerified(o)
    BY DEF IsVerified
  <2> HIDE DEF Looked, Readable, Fresh, Comparable, Granted, callers, caller, o, N
  <2> QED
    BY <1>2, <1>3, <2>1, <2>2
<1>5. N < 2 => callers = {}
  BY <1>1, Itinerant
<1>6. N >= 3 => caller = told[2]
  <2>1. \A k \in 1..7 : Itinerary[k] = IdentityTool => k = 2
    BY Itinerant
  <2>2. N >= 3 => Answered(told[2]) /\ told[2].tool = IdentityTool
    <3>1. GoesOn(3) => Answered(told[2])
      BY DEF GoesOn
    <3> QED
      BY <1>1, <3>1, Itinerant
  <2>3. N >= 3 => callers = {2}
    BY <1>1, <2>1, <2>2
  <2>4. Max({2}) = 2
    BY DEF Max
  <2> HIDE DEF callers
  <2> QED
    BY <2>3, <2>4
<1>7. o.tool = Itinerary[N]
  BY <1>1, <1>3
<1>8. N >= 3 => IsVerified(told[2])
  <2>1. GoesOn(3) => IsVerified(told[2])
    BY DEF GoesOn
  <2> QED
    BY <1>1, <2>1
<1>9. /\ Fresh => Looked /\ Zero(o) /\ Delivered(o)
      /\ Looked /\ Readable /\ ~Fresh => ~(Zero(o) /\ Delivered(o))
      /\ Looked => o.tool = ReadTool /\ Answered(o)
      /\ IsVerified(caller) /\ Owns(o, caller) => Granted
  BY DEF Zero, IsNumber, IsVerified
<1>12. Fresh /\ N >= 3 /\ ~Comparable => ~Legible(2) \/ ~Legible(N)
  <2>1. Fresh => Zero(o) /\ o.tool = ReadTool
    BY <1>9
  <2>2. N >= 3 => N # 1 /\ caller = told[2]
    BY <1>1, <1>6
  <2> QED
    BY <2>1, <2>2 DEF Legible
<1>13. Looked /\ ~Readable => ~Legible(N)
  BY DEF Legible, IsNumber, Zero
<1> HIDE DEF callers, caller, o, Looked, Readable, Fresh, Comparable, Granted
<1>10. ASSUME d # Raise
       PROVE  Stops
  <2>1. CASE N = 1
    BY <1>3, <1>4, <1>5, <1>7, <1>9, <1>10, <2>1, Itinerant DEF Stops, o
  <2>2. CASE N = 2
    BY <1>3, <1>4, <1>7, <1>9, <1>10, <2>2, Itinerant DEF Stops, o
  <2>3. CASE N = 3 \/ N = 5
    <3>1. Cardinality(RefundsIn(told)) < 2
      <4>1. CASE N = 3
        BY <1>1, <4>1
      <4>2. CASE N = 5
        BY <1>1, <4>2
      <4> QED
        BY <2>3, <4>1, <4>2
    <3>2. o.tool = ReadTool /\ caller = told[2] /\ IsVerified(told[2])
      <4>1. CASE N = 3
        BY <1>6, <1>7, <1>8, <4>1, Itinerant
      <4>2. CASE N = 5
        BY <1>6, <1>7, <1>8, <4>2, Itinerant
      <4> QED
        BY <2>3, <4>1, <4>2
    <3>3. ~(Answered(o) /\ Zero(o) /\ Delivered(o) /\ Owns(o, told[2]))
      BY <1>2, <1>4, <1>9, <1>10, <3>1, <3>2, Itinerant
    <3>4. CASE N = 3
      BY <3>3, <3>4 DEF Stops, o
    <3>5. CASE N = 5
      BY <3>3, <3>5 DEF Stops, o
    <3> QED
      BY <2>3, <3>4, <3>5
  <2>4. CASE N = 4 \/ N = 6
    BY <1>3, <1>4, <1>7, <1>9, <1>10, <2>4, Itinerant DEF Stops, o
  <2>6. CASE N = 7
    BY <2>6 DEF Stops
  <2>7. N \in 0..7
    BY <1>1
  <2> HIDE DEF N
  <2>8. N \in {1, 2, 3, 4, 5, 6, 7}
    BY <1>3, <2>7
  <2> QED
    BY <2>1, <2>2, <2>3, <2>4, <2>6, <2>8
<1>11. Gives(d)
  <2>1. ASSUME d = Raise
        PROVE  Answered(o) /\ (~Legible(N) \/ (N >= 3 /\ ~Legible(2)))
    <3>1. \/ Answered(o) /\ o.tool = IdentityTool /\ ~Tells(o, "verified")
          \/ Looked /\ ~Readable
          \/ Fresh /\ callers # {} /\ ~Comparable
      BY <1>2, <1>4, <2>1
    <3>2. CASE Answered(o) /\ o.tool = IdentityTool /\ ~Tells(o, "verified")
      <4>1. N = 2
        <5>1. \A n \in 1..7 : Itinerary[n] = IdentityTool => n = 2
          BY Itinerant
        <5>2. N \in 1..7
          <6>1. N \in 0..7
            BY Counting DEF Journey
          <6> QED
            BY <1>3, <6>1
        <5> HIDE DEF N
        <5> QED
          BY <1>7, <3>2, <5>1, <5>2
      <4> QED
        BY <3>2, <4>1 DEF Legible, o
    <3>3. CASE Looked /\ ~Readable
      BY <1>9, <1>13, <3>3
    <3>4. CASE Fresh /\ callers # {} /\ ~Comparable
      <4>1. N # 2
        BY <1>7, <1>9, <3>4, Itinerant
      <4>2. N >= 3
        BY <1>1, <1>3, <1>5, <3>4, <4>1
      <4> QED
        BY <1>9, <1>12, <3>4, <4>2
    <3> QED
      BY <3>1, <3>2, <3>3, <3>4
  <2>2. d = Answer("confirmed") => Answered(o) /\ o.tool = RefundTool
    <3>1. Answer("confirmed") # Raise
      BY <1>2
    <3> QED
      BY <1>2, <1>4, <3>1
  <2>3. o.tool = RefundTool => N >= 4
    <3>1. \A n \in 1..7 : Itinerary[n] = RefundTool => n >= 4
      BY Itinerant
    <3>2. N \in 1..7
      <4>1. N \in 0..7
        BY Counting DEF Journey
      <4> QED
        BY <1>3, <4>1
    <3> HIDE DEF N
    <3> QED
      BY <1>7, <3>1, <3>2
  <2> QED
    BY <2>1, <2>2, <2>3 DEF Gives, o
<1> QED
  BY <1>3, <1>10, <1>11

-----------------------------------------------------------------------------
\* Where the default service lets such an agent end.

\* What the policy says of the fields of a World.
LEMMA AllowedFields ==
    ASSUME NEW d, Plain(Keys, d), Allowed(d), OwnerId \in DOMAIN d, CallerId \in DOMAIN d
    PROVE  /\ Verified \in DOMAIN d /\ d[Verified] = "true"
           /\ OrderStatus \in DOMAIN d /\ d[OrderStatus] = "delivered"
           /\ RefundCount \in DOMAIN d /\ d[RefundCount] = "0"
           /\ d[OwnerId] = d[CallerId]
<1>1. ASSUME NEW p, NEW text, text # "null", Value(d, p) = Scalar(text)
      PROVE  p \in DOMAIN d /\ d[p] = text
  <2>1. Scalar(text)[<<>>] = text /\ Null[<<>>] = "null"
    BY DEF Scalar, Null
  <2>2. p \in DOMAIN d
    BY <1>1, <2>1 DEF Value
  <2>3. Value(d, p)[<<>>] = d[p]
    BY <2>2, ScalarShown
  <2> QED
    BY <1>1, <2>1, <2>2, <2>3
<1>2. /\ Value(d, Verified) = Scalar("true") /\ Value(d, OrderStatus) = Scalar("delivered")
      /\ Value(d, RefundCount) = Scalar("0") /\ Value(d, CallerId) = Value(d, OwnerId)
  BY DEF Allowed
<1>3. d[OwnerId] = d[CallerId]
  BY <1>2, ScalarShown
<1> QED
  BY <1>1, <1>2, <1>3

\* What its calls are answered.
LEMMA CountsHears ==
    ASSUME RunIsChosen, RunIsAllowed, Rechecks, RefundInv, Journey,
           run.endpoint = "counts", NEW n \in DOMAIN told
    PROVE  /\ told[n].outcome \in {"timeout", "stale", "lost", "result"}
           /\ told[n].outcome = "timeout" => PlannedFor(n, "timeout_before")
           /\ told[n].outcome = "stale" =>
                 \E f \in PlannedAt(n) : f.kind = "stale_read" /\ f.value = told[n].value
           /\ told[n].outcome = "lost" => PlannedFor(n, "response_lost_after_commit")
           /\ told[n].outcome = "result" <=> PlannedAt(n) = {}
           /\ ~Refused(told[n]) /\ (Answered(told[n]) => Legible(n))
<1>1. Explained(n) /\ Saw(n) /\ n \in 1..7 /\ told[n].tool = Itinerary[n]
  BY Counting DEF Journey, OnCourse
<1>2. IsFor(Case, Scenario) /\ Plain(Keys, Case.state) /\ FactsAreTyped(Case.state)
  BY FitCase
<1>3. /\ PackTools \subseteq Scenario.handlers /\ Scenario.maxCalls \in Nat
      /\ Scenario.maxCalls >= 7
      /\ \A f \in ToSet(Case.faults) :
            f.kind = "stale_read" => IsNumber(f, "refund_count") /\ Tells(f, "status")
  BY <1>2 DEF IsFor
<1>4. /\ told[n].outcome \in {"timeout", "stale", "lost", "result"}
      /\ told[n].outcome = "timeout" => PlannedFor(n, "timeout_before")
      /\ told[n].outcome = "stale" =>
            \E f \in PlannedAt(n) : f.kind = "stale_read" /\ f.value = told[n].value
      /\ told[n].outcome = "lost" => PlannedFor(n, "response_lost_after_commit")
      /\ told[n].outcome = "result" => PlannedAt(n) = {}
  BY <1>1, <1>3 DEF Explained
<1>5. PlannedAt(n) = {} => told[n].outcome = "result"
  BY <1>4 DEF PlannedFor
<1>6. ~Refused(told[n])
  BY <1>4 DEF Refused, Answered, Unheard
<1>7. ASSUME Answered(told[n])
      PROVE  Legible(n)
  <2>1. CASE told[n].outcome = "stale"
    <3>1. n = 1
      BY <1>7, <2>1, AnswersAreFresh
    <3>2. PICK f \in ToSet(Case.faults) : f.kind = "stale_read" /\ f.value = told[n].value
      BY <1>4, <2>1 DEF PlannedAt
    <3>3. IsNumber(told[n], "refund_count") /\ Tells(told[n], "status")
      BY <1>3, <3>2 DEF IsNumber, Tells, Part
    <3> QED
      BY <3>1, <3>3 DEF Legible
  <2>2. CASE told[n].outcome = "result" /\ n = 2
    <3>1. told[2].value = Select(Case.state, <<"caller">>)
      BY <1>1, <2>2 DEF Saw
    <3>2. told[n].tool # ReadTool
      BY <1>1, <2>2, Itinerant
    <3> QED
      BY <1>2, <2>2, <3>1, <3>2, FactsShown DEF Legible
  <2>3. CASE told[n].outcome = "result" /\ n # 2 /\ told[n].tool = ReadTool
    <3>1. n \in {1, 3, 5, 7}
      <4>1. n \in {1, 2, 3, 4, 5, 6, 7}
        BY <1>1
      <4> QED
        BY <1>1, <2>3, <4>1, Itinerant
    <3>2. CASE BeganBefore(n)
      <4>1. ~Zero(told[n]) /\ IsNumber(told[n], "refund_count")
        BY <1>1, <2>3, <3>1, <3>2 DEF Saw
      <4>2. n # 3
        BY <3>2 DEF BeganBefore, Began
      <4> QED
        BY <2>3, <4>1, <4>2 DEF Legible
    <3>3. CASE ~BeganBefore(n)
      <4>1. told[n].value = Select(Case.state, Order)
        BY <1>1, <2>3, <3>1, <3>3 DEF Saw
      <4> QED
        BY <1>2, <2>3, <4>1, FactsShown DEF Legible
    <3> QED
      BY <3>2, <3>3
  <2>4. CASE n # 2 /\ told[n].tool # ReadTool
    BY <2>4 DEF Legible
  <2> QED
    BY <1>7, <2>1, <2>2, <2>3, <2>4 DEF Answered
<1> QED
  BY <1>4, <1>5, <1>6, <1>7

\* What its looks show where a refund is allowed.
LEMMA LooksShow ==
    ASSUME RunIsChosen, RunIsAllowed, Rechecks, RefundInv, Journey,
           run.endpoint = "counts", Allowed(Case.state),
           \A f \in ToSet(Case.faults) : f.kind # "stale_read",
           NEW n \in DOMAIN told, Answered(told[n])
    PROVE  /\ told[n].outcome = "result"
           /\ n = 2 => /\ IsVerified(told[2])
                       /\ Part(told[2], "customer_id") = Scalar(Case.state[OwnerId])
           /\ n \in {1, 3, 5} /\ ~BeganBefore(n) =>
                 /\ Zero(told[n]) /\ Delivered(told[n])
                 /\ Part(told[n], "customer_id") = Scalar(Case.state[OwnerId])
<1> DEFINE d == Case.state
<1>1. /\ Plain(Keys, d) /\ FactsAreTyped(d) /\ OwnerId \in DOMAIN d /\ CallerId \in DOMAIN d
  BY FitCase
<1>2. /\ d[Verified] = "true" /\ d[OrderStatus] = "delivered" /\ d[RefundCount] = "0"
      /\ d[OwnerId] = d[CallerId]
  BY <1>1, AllowedFields
<1>3. told[n].outcome = "result"
  <2>1. \A f \in PlannedAt(n) : f.kind # "stale_read"
    BY DEF PlannedAt
  <2> QED
    BY <2>1, CountsHears DEF Answered
<1>4. Saw(n)
  BY DEF Journey
<1> HIDE DEF d
<1>5. ASSUME n = 2
      PROVE  IsVerified(told[2]) /\ Part(told[2], "customer_id") = Scalar(d[OwnerId])
  <2>1. told[2].value = Select(d, <<"caller">>)
    BY <1>3, <1>4, <1>5 DEF Saw, d
  <2> QED
    BY <1>1, <1>2, <2>1, FactsShown
<1>6. ASSUME n \in {1, 3, 5}, ~BeganBefore(n)
      PROVE  /\ Zero(told[n]) /\ Delivered(told[n])
             /\ Part(told[n], "customer_id") = Scalar(d[OwnerId])
  <2>1. told[n].value = Select(d, Order)
    BY <1>3, <1>4, <1>6 DEF Saw, d
  <2> QED
    BY <1>1, <1>2, <2>1, FactsShown
<1> QED
  BY <1>3, <1>5, <1>6 DEF d

\* It stops only where a look or a refund was disturbed, or after a refund.
LEMMA WhereItStops ==
    ASSUME RunIsChosen, RunIsAllowed, Rechecks, RefundInv, Journey,
           run.endpoint = "counts", Allowed(Case.state),
           \A f \in ToSet(Case.faults) : f.kind # "stale_read", Stops
    PROVE  /\ Len(told) \in {1, 2, 3} => ~Answered(told[Len(told)])
           /\ Len(told) \in {4, 6} => Answered(told[Len(told)])
           /\ Len(told) = 5 => ~Answered(told[5]) \/ BeganBefore(5)
<1>1. DOMAIN told = 1..Len(told) /\ \A n \in DOMAIN told : GoesOn(n)
  BY Counting DEF Journey
<1>2. \A n \in {1, 2, 3} : ~BeganBefore(n)
  BY DEF BeganBefore, Began
<1>3. Len(told) >= 3 => Answered(told[2]) /\ Part(told[2], "customer_id") = Scalar(Case.state[OwnerId])
  <2> SUFFICES ASSUME Len(told) >= 3
               PROVE  Answered(told[2]) /\ Part(told[2], "customer_id") = Scalar(Case.state[OwnerId])
    OBVIOUS
  <2>1. 2 \in DOMAIN told /\ 3 \in DOMAIN told /\ GoesOn(3)
    <3>1. Len(told) \in 0..7
      BY Counting DEF Journey
    <3>2. 2 \in 1..Len(told) /\ 3 \in 1..Len(told)
      BY <3>1
    <3> QED
      BY <1>1, <3>2
  <2>2. Answered(told[2])
    BY <2>1 DEF GoesOn
  <2> QED
    BY <2>1, <2>2, LooksShow
<1>4. ASSUME Len(told) = 1, Answered(told[1])
      PROVE  FALSE
  <2>1. 1 \in DOMAIN told
    BY <1>1, <1>4
  <2> QED
    BY <1>1, <1>2, <1>4, <2>1, LooksShow DEF Stops
<1>5. ASSUME Len(told) = 2, Answered(told[2])
      PROVE  FALSE
  <2>1. 2 \in DOMAIN told
    BY <1>1, <1>5
  <2> QED
    BY <1>5, <2>1, LooksShow DEF Stops
<1>6. ASSUME Len(told) = 3, Answered(told[3])
      PROVE  FALSE
  <2>1. 3 \in DOMAIN told
    BY <1>1, <1>6
  <2>2. /\ Zero(told[3]) /\ Delivered(told[3])
        /\ Part(told[3], "customer_id") = Scalar(Case.state[OwnerId])
    BY <1>2, <1>6, <2>1, LooksShow
  <2>3. Owns(told[3], told[2])
    BY <1>3, <1>6, <2>2 DEF Owns
  <2> QED
    BY <1>1, <1>6, <2>1, <2>2, <2>3 DEF Stops
<1>7. ASSUME Len(told) = 5, Answered(told[5]), ~BeganBefore(5)
      PROVE  FALSE
  <2>1. 5 \in DOMAIN told
    BY <1>1, <1>7
  <2>2. /\ Zero(told[5]) /\ Delivered(told[5])
        /\ Part(told[5], "customer_id") = Scalar(Case.state[OwnerId])
    BY <1>7, <2>1, LooksShow
  <2>3. Owns(told[5], told[2])
    BY <1>3, <1>7, <2>2 DEF Owns
  <2> QED
    BY <1>1, <1>7, <2>1, <2>2, <2>3 DEF Stops
<1>8. Len(told) \in {4, 6} => Answered(told[Len(told)])
  BY DEF Stops
<1> QED
  BY <1>4, <1>5, <1>6, <1>7, <1>8

\* A fault is planned at one place of the itinerary.
LEMMA PlannedOnce ==
    ASSUME NEW m \in 1..7, NEW n \in 1..7, Itinerary[m] = Itinerary[n], NumberAt[m] = NumberAt[n]
    PROVE  m = n
<1>1. /\ NumberAt[1] = 1 /\ NumberAt[2] = 1 /\ NumberAt[3] = 2 /\ NumberAt[4] = 1
      /\ NumberAt[5] = 3 /\ NumberAt[6] = 2 /\ NumberAt[7] = 4
  BY DEF NumberAt
<1>2. m \in {1, 2, 3, 4, 5, 6, 7} /\ n \in {1, 2, 3, 4, 5, 6, 7}
  OBVIOUS
<1> QED
  BY <1>1, <1>2, Itinerant

\* Its answer tells of it, and so does the log.
LEMMA FaultHeard ==
    ASSUME RunIsChosen, RunIsAllowed, Rechecks, RefundInv, Journey, FaultsLogged,
           run.endpoint = "counts", NEW n \in DOMAIN told, NEW f \in PlannedAt(n)
    PROVE  \E e \in Within(log) :
              e.kind = "tool_fault" /\ e.tool = f.tool /\ e.number = f.on_call
<1>1. told[n].outcome \in {"timeout", "stale", "lost"}
  BY CountsHears
<1>2. f.tool = Itinerary[n] /\ f.on_call = NumberAt[n]
  BY DEF PlannedAt
<1> QED
  BY <1>1, <1>2 DEF FaultsLogged

\* Before the fourth call nothing has been refunded.
LEMMA EarlyEnd ==
    ASSUME RefundInv, Journey, Len(told) \in 0..3
    PROVE  ran = <<>> /\ world = Case.state /\ Asked(told, RefundTool) = 0
<1>1. ~BeganBefore(Len(told) + 1)
  BY DEF BeganBefore, Began
<1>2. Asked(told, RefundTool) = 0
  <2>1. Cardinality(RefundsIn(told)) = 0
    BY Counting DEF Journey
  <2> QED
    BY <2>1 DEF RefundsIn, Asked
<1> QED
  BY <1>1, <1>2 DEF Journey, WorldFollows

\* A plan with a fault on the way to the refund: the agent ends there.
LEMMA DisturbedEnd ==
    ASSUME RunIsChosen, RunIsAllowed, Rechecks, RefundInv, Journey,
           run.endpoint = "counts", Allowed(Case.state), Stops,
           \A g \in ToSet(Case.faults) : g.kind # "stale_read",
           \A g, h \in ToSet(Case.faults) : g = h,
           NEW n \in {1, 2, 3}, NEW f \in PlannedAt(n)
    PROVE  Len(told) = n
<1>1. Len(told) \in 1..7 /\ DOMAIN told = 1..Len(told)
  <2>1. Len(told) \in 0..7 /\ DOMAIN told = 1..Len(told)
    BY Counting DEF Journey
  <2>2. Len(told) > 0
    BY DEF Stops
  <2>3. \A L \in 0..7 : L > 0 => L \in 1..7
    OBVIOUS
  <2> QED
    BY <2>1, <2>2, <2>3
<1>2. \A k \in DOMAIN told : k # n => told[k].outcome = "result"
  <2> SUFFICES ASSUME NEW k \in DOMAIN told, k # n PROVE told[k].outcome = "result"
    OBVIOUS
  <2>1. PlannedAt(k) = {}
    <3> SUFFICES ASSUME NEW g \in PlannedAt(k) PROVE FALSE
      OBVIOUS
    <3>1. g = f
      BY DEF PlannedAt
    <3>2. Itinerary[k] = Itinerary[n] /\ NumberAt[k] = NumberAt[n]
      BY <3>1 DEF PlannedAt
    <3> QED
      BY <1>1, <3>2, PlannedOnce
  <2> QED
    BY <2>1, CountsHears
<1>3. Len(told) >= n
  <2> SUFFICES ASSUME Len(told) < n PROVE FALSE
    BY <1>1
  <2>1. \A L \in 1..7 : L < n => L \in {1, 2, 3} /\ L \in 1..L /\ L # n
    OBVIOUS
  <2>2. Len(told) \in {1, 2, 3} /\ Len(told) \in DOMAIN told /\ Len(told) # n
    BY <1>1, <2>1
  <2> QED
    BY <1>2, <2>2, WhereItStops DEF Answered
<1>4. Len(told) <= n
  <2> SUFFICES ASSUME Len(told) > n PROVE FALSE
    BY <1>1
  <2>1. n \in DOMAIN told /\ n + 1 \in DOMAIN told
    BY <1>1
  <2>2. Answered(told[n])
    <3>1. GoesOn(n + 1)
      BY <2>1 DEF Journey
    <3>2. CASE n = 1
      <4>1. GoesOn(2)
        BY <3>1, <3>2
      <4> QED
        BY <3>2, <4>1 DEF GoesOn
    <3>3. CASE n = 2
      <4>1. GoesOn(3)
        BY <3>1, <3>3
      <4> QED
        BY <3>3, <4>1 DEF GoesOn
    <3>4. CASE n = 3
      <4>1. GoesOn(4)
        BY <3>1, <3>4
      <4> QED
        BY <3>4, <4>1 DEF GoesOn
    <3> QED
      BY <3>2, <3>3, <3>4
  <2>3. told[n].outcome = "result"
    BY <2>1, <2>2, LooksShow
  <2> QED
    BY <2>1, <2>3, CountsHears
<1>5. \A L \in 1..7 : L >= n /\ L <= n => L = n
  OBVIOUS
<1> QED
  BY <1>1, <1>3, <1>4, <1>5

\* A plan that leaves the way free, but for the first refund: there is one.
LEMMA RefundedEnd ==
    ASSUME RunIsChosen, RunIsAllowed, Rechecks, RefundInv, Journey,
           run.endpoint = "counts", Allowed(Case.state), Stops,
           \A f \in ToSet(Case.faults) : f.kind # "stale_read" /\ f \in PlannedAt(4)
    PROVE  /\ 4 \in DOMAIN told /\ Len(ran) = 1
           /\ RefundCount \in DOMAIN world /\ Value(world, RefundCount) = Scalar("1")
           /\ Len(told) = IF told[4].outcome = "timeout" THEN 6
                          ELSE IF told[4].outcome = "lost" THEN 5 ELSE 4
           /\ told[4].outcome \in {"timeout", "lost", "result"}
<1>1. Len(told) \in 1..7 /\ DOMAIN told = 1..Len(told)
  <2>1. Len(told) \in 0..7 /\ DOMAIN told = 1..Len(told)
    BY Counting DEF Journey
  <2>2. Len(told) > 0
    BY DEF Stops
  <2>3. \A L \in 0..7 : L > 0 => L \in 1..7
    OBVIOUS
  <2> QED
    BY <2>1, <2>2, <2>3
<1>2. \A k \in DOMAIN told : k # 4 => told[k].outcome = "result"
  <2> SUFFICES ASSUME NEW k \in DOMAIN told, k # 4 PROVE told[k].outcome = "result"
    OBVIOUS
  <2>1. PlannedAt(k) = {}
    <3> SUFFICES ASSUME NEW g \in PlannedAt(k) PROVE FALSE
      OBVIOUS
    <3>1. Itinerary[k] = Itinerary[4] /\ NumberAt[k] = NumberAt[4]
      BY DEF PlannedAt
    <3> QED
      BY <1>1, <3>1, PlannedOnce
  <2> QED
    BY <2>1, CountsHears
<1>3. \A k \in DOMAIN told : k # 4 => Answered(told[k])
  BY <1>2 DEF Answered
<1>4. Len(told) >= 4
  <2> SUFFICES ASSUME Len(told) < 4 PROVE FALSE
    BY <1>1
  <2>1. \A L \in 1..7 : L < 4 => L \in {1, 2, 3} /\ L \in 1..L /\ L # 4
    OBVIOUS
  <2>2. Len(told) \in {1, 2, 3} /\ Len(told) \in DOMAIN told /\ Len(told) # 4
    BY <1>1, <2>1
  <2> QED
    BY <1>3, <2>2, WhereItStops
<1>5. 4 \in DOMAIN told
  BY <1>1, <1>4
<1>6. told[4].outcome \in {"timeout", "lost", "result"}
  <2>1. \A f \in PlannedAt(4) : f.kind # "stale_read"
    BY DEF PlannedAt
  <2> QED
    BY <1>5, <2>1, CountsHears
<1>7. Len(told) # 7
  <2> SUFFICES ASSUME Len(told) = 7 PROVE FALSE
    OBVIOUS
  <2>1. 7 \in DOMAIN told /\ 6 \in DOMAIN told
    BY <1>1
  <2>2. GoesOn(7)
    BY <2>1 DEF Journey
  <2> QED
    BY <1>3, <2>1, <2>2 DEF GoesOn
<1>8. Len(told) >= 5 => ~Answered(told[4])
  <2> SUFFICES ASSUME Len(told) >= 5 PROVE ~Answered(told[4])
    OBVIOUS
  <2>1. 5 \in DOMAIN told
    BY <1>1
  <2>2. GoesOn(5)
    BY <2>1 DEF Journey
  <2> QED
    BY <2>2 DEF GoesOn
<1>9. Began(4) <=> told[4].outcome # "timeout"
  BY <1>6 DEF Began
<1>10. BeganBefore(5) <=> Began(4)
  BY DEF BeganBefore, Began
<1>11. Len(told) = 6 => ~Began(4)
  <2> SUFFICES ASSUME Len(told) = 6, Began(4) PROVE FALSE
    OBVIOUS
  <2>1. 5 \in DOMAIN told /\ 6 \in DOMAIN told
    BY <1>1
  <2>2. GoesOn(6) /\ Saw(5)
    BY <2>1 DEF Journey
  <2>3. Zero(told[5])
    BY <2>2 DEF GoesOn
  <2>4. told[5].outcome = "result"
    BY <1>2, <2>1
  <2> QED
    BY <1>10, <2>2, <2>3, <2>4 DEF Saw
<1>12. Len(told) = 4 => Answered(told[4])
  <2> SUFFICES ASSUME Len(told) = 4 PROVE Answered(told[4])
    OBVIOUS
  <2>1. Len(told) \in {4, 6} => Answered(told[Len(told)])
    BY WhereItStops
  <2> QED
    BY <2>1
<1>13. Len(told) = 5 => Began(4)
  <2> SUFFICES ASSUME Len(told) = 5 PROVE Began(4)
    OBVIOUS
  <2>1. ~Answered(told[5]) \/ BeganBefore(5)
    BY WhereItStops
  <2>2. 5 \in DOMAIN told
    BY <1>1
  <2> QED
    BY <1>3, <1>10, <2>1, <2>2
<1>14. Len(told) \in {4, 5, 6}
  BY <1>1, <1>4, <1>7
<1>15. Answered(told[4]) <=> told[4].outcome = "result"
  BY <1>6 DEF Answered
<1>16. Len(told) = IF told[4].outcome = "timeout" THEN 6
                   ELSE IF told[4].outcome = "lost" THEN 5 ELSE 4
  BY <1>6, <1>8, <1>9, <1>11, <1>12, <1>13, <1>14, <1>15
<1>17. BeganBefore(Len(told) + 1)
  <2>1. CASE Len(told) = 6
    <3>1. told[6].outcome = "result"
      BY <1>1, <1>2, <2>1
    <3>2. Began(6)
      BY <3>1 DEF Began
    <3> QED
      BY <2>1, <3>2 DEF BeganBefore
  <2>2. CASE Len(told) # 6
    <3>1. Began(4)
      BY <1>6, <1>9, <1>16, <2>2
    <3>2. \A L \in {4, 5, 6} : 4 \in 1..(L + 1 - 1)
      OBVIOUS
    <3>3. 4 \in 1..(Len(told) + 1 - 1)
      BY <1>14, <3>2
    <3>4. \E m \in 1..(Len(told) + 1 - 1) : Began(m)
      BY ONLY <3>1, <3>3, Zenon
    <3> QED
      BY ONLY <3>4 DEF BeganBefore
  <2> QED
    BY <2>1, <2>2
<1>18. Len(ran) = 1 /\ RefundCount \in DOMAIN world /\ Value(world, RefundCount) = Scalar("1")
  BY <1>17 DEF Journey, WorldFollows
<1> QED
  BY <1>5, <1>6, <1>16, <1>18

-----------------------------------------------------------------------------

\* What a case asserts about calls and state, as IsFor puts it.
Times == IF Requires(Case) THEN 1 ELSE 0
Final == IF Requires(Case) THEN Scalar("1") ELSE Value(Case.state, RefundCount)
Retried == \E f \in ToSet(Case.faults) : f.kind = "timeout_before"

CameOut ==
    /\ Len(ran) = Times
    /\ Asked(told, RefundTool) = IF Retried THEN 2 * Times ELSE Times
    /\ RefundCount \in DOMAIN world /\ Value(world, RefundCount) = Final
    /\ \A f \in ToSet(Case.faults) : \E e \in Within(log) :
          e.kind = "tool_fault" /\ e.tool = f.tool /\ e.number = f.on_call

\* Where a fault is that the agent comes upon.
LEMMA PlaceOfFault ==
    ASSUME NEW f \in ToSet(Case.faults), OnTheWay(f, Case)
    PROVE  /\ ~Allowed(Case.state) => f \in PlannedAt(1)
           /\ Allowed(Case.state) =>
                 f.kind # "stale_read" /\ \E n \in 1..4 : f \in PlannedAt(n)
<1>1. NumberAt[1] = 1 /\ NumberAt[2] = 1 /\ NumberAt[3] = 2 /\ NumberAt[4] = 1
  BY DEF NumberAt
<1>2. ASSUME ~Allowed(Case.state) PROVE f \in PlannedAt(1)
  BY <1>1, <1>2, Itinerant DEF OnTheWay, PlannedAt
<1>3. ASSUME Allowed(Case.state)
      PROVE  f.kind # "stale_read" /\ \E n \in 1..4 : f \in PlannedAt(n)
  <2>1. /\ f.kind # "stale_read"
        /\ <<f.tool, f.on_call>> \in
              {<<ReadTool, 1>>, <<IdentityTool, 1>>, <<ReadTool, 2>>, <<RefundTool, 1>>}
    BY <1>3 DEF OnTheWay
  <2>2. \/ f.tool = ReadTool /\ f.on_call = 1
        \/ f.tool = IdentityTool /\ f.on_call = 1
        \/ f.tool = ReadTool /\ f.on_call = 2
        \/ f.tool = RefundTool /\ f.on_call = 1
    BY <2>1
  <2>3. f \in PlannedAt(1) \/ f \in PlannedAt(2) \/ f \in PlannedAt(3) \/ f \in PlannedAt(4)
    BY <1>1, <2>2, Itinerant DEF PlannedAt
  <2>4. 1 \in 1..4 /\ 2 \in 1..4 /\ 3 \in 1..4 /\ 4 \in 1..4
    OBVIOUS
  <2> QED
    BY <2>1, <2>3, <2>4
<1> QED
  BY <1>2, <1>3

\* The agent that stops early: the case requires no refund and there is none.
LEMMA NothingCameOut ==
    ASSUME RunIsChosen, RunIsAllowed, Rechecks, RefundInv, Journey, FaultsLogged,
           run.endpoint = "counts", Len(told) \in 1..3, ~Requires(Case),
           \A f \in ToSet(Case.faults) : \E n \in 1..Len(told) : f \in PlannedAt(n)
    PROVE  CameOut
<1>1. Times = 0 /\ Final = Value(Case.state, RefundCount)
  BY DEF Times, Final
<1>2. ran = <<>> /\ world = Case.state /\ Asked(told, RefundTool) = 0
  BY EarlyEnd
<1>3. Len(ran) = 0
  BY <1>2
<1>4. RefundCount \in DOMAIN Case.state
  BY FitCase
<1>5. DOMAIN told = 1..Len(told)
  BY Counting DEF Journey
<1>6. ASSUME NEW f \in ToSet(Case.faults)
      PROVE  \E e \in Within(log) :
                e.kind = "tool_fault" /\ e.tool = f.tool /\ e.number = f.on_call
  <2>1. PICK n \in DOMAIN told : f \in PlannedAt(n)
    BY <1>5
  <2> QED
    BY <2>1, FaultHeard
<1>7. (IF Retried THEN 2 * Times ELSE Times) = 0
  BY <1>1
<1> QED
  BY <1>1, <1>2, <1>3, <1>4, <1>6, <1>7 DEF CameOut

\* The agent that is not disturbed before it refunds.
LEMMA RefundCameOut ==
    ASSUME RunIsChosen, RunIsAllowed, Rechecks, RefundInv, Journey, FaultsLogged,
           run.endpoint = "counts", Allowed(Case.state), Stops,
           \A f, g \in ToSet(Case.faults) : f = g,
           \A f \in ToSet(Case.faults) : f.kind # "stale_read" /\ f \in PlannedAt(4)
    PROVE  CameOut
<1>1. Requires(Case)
  <2>1. \A f \in ToSet(Case.faults) : f.tool = RefundTool
    BY Itinerant DEF PlannedAt
  <2> QED
    BY <2>1 DEF Requires
<1>2. Times = 1 /\ Final = Scalar("1")
  BY <1>1 DEF Times, Final
<1>3. /\ 4 \in DOMAIN told /\ Len(ran) = 1
      /\ RefundCount \in DOMAIN world /\ Value(world, RefundCount) = Scalar("1")
      /\ Len(told) = IF told[4].outcome = "timeout" THEN 6
                     ELSE IF told[4].outcome = "lost" THEN 5 ELSE 4
  BY RefundedEnd
<1>4. Asked(told, RefundTool) = IF Len(told) < 4 THEN 0 ELSE IF Len(told) < 6 THEN 1 ELSE 2
  BY Counting DEF Asked, RefundsIn, Journey
<1>5. told[4].outcome = "timeout" <=> Retried
  <2>1. /\ told[4].outcome \in {"timeout", "stale", "lost", "result"}
        /\ told[4].outcome = "timeout" => PlannedFor(4, "timeout_before")
        /\ told[4].outcome = "stale" => PlannedFor(4, "stale_read")
        /\ told[4].outcome = "lost" => PlannedFor(4, "response_lost_after_commit")
        /\ told[4].outcome = "result" => PlannedAt(4) = {}
    BY <1>3, CountsHears DEF PlannedFor
  <2>2. told[4].outcome = "timeout" => Retried
    BY <2>1 DEF Retried, PlannedFor, PlannedAt
  <2>3. ASSUME Retried PROVE told[4].outcome = "timeout"
    <3>1. PICK f \in ToSet(Case.faults) : f.kind = "timeout_before"
      BY <2>3 DEF Retried
    <3>2. f \in PlannedAt(4)
      BY <3>1
    <3>3. \A g \in PlannedAt(4) : g.kind = "timeout_before"
      BY <3>1 DEF PlannedAt
    <3> QED
      BY <2>1, <3>2, <3>3 DEF PlannedFor
  <2> QED
    BY <2>2, <2>3
<1>6. Asked(told, RefundTool) = IF Retried THEN 2 * Times ELSE Times
  <2>1. \A L, n : n = (IF L < 4 THEN 0 ELSE IF L < 6 THEN 1 ELSE 2) =>
            (L = 6 => n = 2) /\ (L = 5 \/ L = 4 => n = 1)
    OBVIOUS
  <2>2. IF Retried THEN Len(told) = 6 ELSE Len(told) = 5 \/ Len(told) = 4
    BY <1>3, <1>5
  <2>3. Asked(told, RefundTool) = IF Retried THEN 2 ELSE 1
    BY <1>4, <2>1, <2>2
  <2>4. 2 * Times = 2
    BY <1>2
  <2> QED
    BY <1>2, <2>3, <2>4
<1>7. ASSUME NEW f \in ToSet(Case.faults)
      PROVE  \E e \in Within(log) :
                e.kind = "tool_fault" /\ e.tool = f.tool /\ e.number = f.on_call
  <2>1. f \in PlannedAt(4)
    OBVIOUS
  <2> QED
    BY <1>3, <2>1, FaultHeard
<1> QED
  BY <1>2, <1>3, <1>6, <1>7 DEF CameOut

\* Whatever fault it came upon, it ends as the case says.
LEMMA Outcome ==
    ASSUME RunIsChosen, RunIsAllowed, Rechecks, RefundInv, Journey, FaultsLogged,
           run.endpoint = "counts", Stops,
           \A f, g \in ToSet(Case.faults) : f = g,
           \A f \in ToSet(Case.faults) : OnTheWay(f, Case)
    PROVE  CameOut
<1>1. Len(told) \in 1..7
  <2>1. Len(told) \in 0..7
    BY Counting DEF Journey
  <2>2. Len(told) > 0
    BY DEF Stops
  <2>3. \A L \in 0..7 : L > 0 => L \in 1..7
    OBVIOUS
  <2> QED
    BY <2>1, <2>2, <2>3
<1>2. CASE ~Allowed(Case.state)
  <2>1. ~Requires(Case)
    BY <1>2 DEF Requires
  <2>2. Len(told) \in 1..3
    <3>1. ~(Len(told) >= 4)
      BY <1>2 DEF Journey
    <3>2. \A L \in 1..7 : ~(L >= 4) => L \in 1..3
      OBVIOUS
    <3> QED
      BY <1>1, <3>1, <3>2
  <2>3. \A f \in ToSet(Case.faults) : \E n \in 1..Len(told) : f \in PlannedAt(n)
    <3>0. \A L \in 1..7 : 1 \in 1..L
      OBVIOUS
    <3>1. 1 \in 1..Len(told)
      BY <1>1, <3>0
    <3>2. \A f \in ToSet(Case.faults) : f \in PlannedAt(1)
      BY <1>2, PlaceOfFault
    <3> QED
      BY <3>1, <3>2
  <2> QED
    BY <2>1, <2>2, <2>3, NothingCameOut
<1>3. CASE Allowed(Case.state) /\ \E n \in {1, 2, 3} : PlannedAt(n) # {}
  <2>1. PICK n \in {1, 2, 3} : PlannedAt(n) # {}
    BY <1>3
  <2>2. PICK f \in PlannedAt(n) : TRUE
    BY <2>1
  <2>3. \A g \in ToSet(Case.faults) : g.kind # "stale_read"
    BY <1>3, PlaceOfFault
  <2>4. Len(told) = n
    BY <1>3, <2>3, DisturbedEnd
  <2>5. n \in 1..3 /\ n \in 1..n
    OBVIOUS
  <2>6. f \in ToSet(Case.faults) /\ f.tool # RefundTool
    BY Itinerant DEF PlannedAt
  <2>7. ~Requires(Case)
    BY <2>6 DEF Requires
  <2>8. \A g \in ToSet(Case.faults) : g \in PlannedAt(n)
    BY <2>6
  <2>9. Len(told) \in 1..3 /\ n \in 1..Len(told)
    BY <2>4, <2>5
  <2> QED
    BY <2>7, <2>8, <2>9, NothingCameOut
<1>4. CASE Allowed(Case.state) /\ \A n \in {1, 2, 3} : PlannedAt(n) = {}
  <2>1. ASSUME NEW f \in ToSet(Case.faults)
        PROVE  f.kind # "stale_read" /\ f \in PlannedAt(4)
    <3>1. f.kind # "stale_read" /\ \E n \in 1..4 : f \in PlannedAt(n)
      BY <1>4, PlaceOfFault
    <3>2. \A n \in 1..4 : n \in {1, 2, 3} \/ n = 4
      OBVIOUS
    <3> QED
      BY <1>4, <3>1, <3>2
  <2> QED
    BY <1>4, <2>1, RefundCameOut
<1> QED
  BY <1>2, <1>3, <1>4

\* A refund that began has begun before the next call.
LEMMA BeganOnce ==
    ASSUME NEW k \in Nat, NEW m \in 1..k, Began(m)
    PROVE  BeganBefore(k + 1)
<1>1. m \in 1..((k + 1) - 1)
  OBVIOUS
<1> DEFINE B(l) == \E j \in 1..l : Began(j)
<1>2. B((k + 1) - 1)
  BY <1>1
<1> QED
  BY <1>2 DEF BeganBefore

\* An agent says "confirmed" only after a refund: what tells it is the answer of
\* the refund, or an order that no longer counts what it did at the start.
LEMMA ConfirmedIsRefunded ==
    ASSUME RunIsChosen, RunIsAllowed, Rechecks, RefundInv, Journey,
           Gives(Answer("confirmed"))
    PROVE  Len(ran) = 1
<1> DEFINE N == Len(told)
<1>1. /\ N >= 4 /\ Answered(told[N])
      /\ told[N].tool = RefundTool \/ (told[N].tool = ReadTool /\ ~Zero(told[N]))
  BY DEF Gives
<1>2. N \in 0..7 /\ DOMAIN told = 1..N
  BY Counting DEF Journey
<1>3. N \in {4, 5, 6, 7}
  BY <1>1, <1>2
<1>4. N \in DOMAIN told
  BY <1>1, <1>2
<1>5. told[N].tool = Itinerary[N] /\ Saw(N)
  BY <1>4 DEF Journey, OnCourse
<1>6. told[N].outcome = "result"
  BY <1>1, <1>3, <1>4, AnswersAreFresh
<1> HIDE DEF N
<1>7. \A m \in 1..N : Began(m) => BeganBefore(N + 1)
  BY <1>3, BeganOnce
<1>8. CASE told[N].tool = RefundTool
  <2>1. N \in {4, 6}
    BY <1>3, <1>5, <1>8, Itinerant
  <2>2. Began(N)
    BY <1>6, <2>1 DEF Began
  <2>3. N \in 1..N
    BY <1>3
  <2>4. BeganBefore(N + 1)
    BY <1>7, <2>2, <2>3
  <2> QED
    BY <2>4 DEF Journey, WorldFollows, N
<1>9. CASE told[N].tool = ReadTool /\ ~Zero(told[N])
  <2>1. N \in {5, 7}
    BY <1>3, <1>5, <1>9, Itinerant
  <2>2. BeganBefore(N)
    <3> SUFFICES ASSUME ~BeganBefore(N) PROVE FALSE
      OBVIOUS
    <3>1. told[N].value = Select(Case.state, Order)
      BY <1>5, <1>6, <2>1 DEF Saw
    <3>2. Plain(Keys, Case.state) /\ FactsAreTyped(Case.state)
          /\ OwnerId \in DOMAIN Case.state /\ CallerId \in DOMAIN Case.state
      BY FitCase
    <3>3. Allowed(Case.state)
      BY <1>1 DEF Journey, N
    <3>4. Case.state[RefundCount] = "0"
      BY <3>2, <3>3, AllowedFields
    <3>5. Zero(told[N])
      BY <3>1, <3>2, <3>4, FactsShown
    <3> QED
      BY <1>9, <3>5
  <2>3. PICK m \in 1..(N - 1) : Began(m)
    BY <2>2 DEF BeganBefore
  <2>4. m \in 1..N
    BY <1>3
  <2>5. BeganBefore(N + 1)
    BY <1>7, <2>3, <2>4
  <2> QED
    BY <2>5 DEF Journey, WorldFollows, N
<1> QED
  BY <1>1, <1>8, <1>9

\* With the default service every assertion of a case for these agents holds at
\* the end.
LEMMA NothingIsFound ==
    ASSUME RunIsChosen, RunIsAllowed, Rechecks, RefundInv, Journey, Quiet, FaultsLogged,
           run.endpoint = "counts", Stops
    PROVE  Findings = {} /\ Rejected = {}
<1> DEFINE others == {a \in Case.assertions : a.type # "precondition"}
<1>1. IsFor(Case, Scenario)
  BY FitCase
<1>2. /\ \A e \in Within(log) : e.kind \notin {"precondition_failed", "tool_rejected"}
      /\ \A i \in DOMAIN log : log[i] \in Within(log)
  BY DEF Quiet, Within
<1>3. Rejected = {}
  BY <1>2 DEF Rejected
<1>4. ASSUME others # {}
      PROVE  /\ CameOut
             /\ others \subseteq
                   {StateEquals(RefundCount, Final),
                    ToolCallCount(RefundTool, Times, "tool_executed"),
                    ToolCallCount(RefundTool, IF Retried THEN 2 * Times ELSE Times,
                                  "tool_attempt")}
                     \cup {FaultTriggered(f) : f \in ToSet(Case.faults)}
  <2>1. /\ \A f, g \in ToSet(Case.faults) : f = g
        /\ \A f \in ToSet(Case.faults) : OnTheWay(f, Case)
        /\ others \subseteq
              {StateEquals(RefundCount, Final),
               ToolCallCount(RefundTool, Times, "tool_executed"),
               ToolCallCount(RefundTool, IF Retried THEN 2 * Times ELSE Times,
                             "tool_attempt")}
                \cup {FaultTriggered(f) : f \in ToSet(Case.faults)}
    BY <1>1, <1>4, Zenon DEF IsFor, Times, Final, Retried
  <2> QED
    BY <2>1, Outcome
<1>5. ASSUME NEW a \in Case.assertions
      PROVE  Evaluate(a, Found(a), ToSet(Case.faults), log) = {}
  <2>1. CASE a.type = "precondition"
    <3>1. {i \in Positions(log, "precondition_failed", a.tool) :
              \E q \in log[i].missed : q.path = a.path} = {}
      BY <1>2 DEF Positions
    <3>2. PreconditionFinding(a, log) = {}
      BY <3>1 DEF PreconditionFinding
    <3> QED
      BY <2>1, <3>2 DEF Evaluate
  <2>2. CASE a.type # "precondition"
    <3>1. a \in others
      BY <2>2
    <3>2. CameOut
      BY <1>4, <3>1
    <3>3. \/ a = StateEquals(RefundCount, Final)
          \/ a = ToolCallCount(RefundTool, Times, "tool_executed")
          \/ a = ToolCallCount(RefundTool, IF Retried THEN 2 * Times ELSE Times,
                               "tool_attempt")
          \/ \E f \in ToSet(Case.faults) : a = FaultTriggered(f)
      BY <1>4, <3>1
    <3> HIDE DEF others
    <3>4. CASE a = StateEquals(RefundCount, Final)
      <4>1. a.type = "state" /\ a.path = RefundCount /\ a.value = Final
        BY <3>4 DEF StateEquals
      <4>2. RefundCount \in DOMAIN world /\ Value(world, RefundCount) = Final
        BY <3>2 DEF CameOut
      <4>3. Found(a) = {a.value}
        BY <4>1, <4>2 DEF Found, Value
      <4>4. StateFinding(a, Found(a), log) = {}
        BY <4>3 DEF StateFinding
      <4> QED
        BY <4>1, <4>4 DEF Evaluate
    <3>5. ASSUME NEW count, NEW kind, a = ToolCallCount(RefundTool, count, kind),
                 Noted(log, kind, RefundTool) = count
          PROVE  Evaluate(a, Found(a), ToSet(Case.faults), log) = {}
      <4>1. a.type = "count" /\ a.tool = RefundTool /\ a.count = count /\ a.kind = kind
        BY <3>5 DEF ToolCallCount
      <4>2. CountFinding(a, log) = {}
        BY <3>5, <4>1 DEF CountFinding, Noted
      <4> QED
        BY <4>1, <4>2 DEF Evaluate
    <3>6. Noted(log, "tool_executed", RefundTool) = Times
      BY <3>2 DEF CameOut, RefundInv, CountsAgree
    <3>7. Noted(log, "tool_attempt", RefundTool) = IF Retried THEN 2 * Times ELSE Times
      <4>1. RefundTool \in Requests
        BY DEF Requests, PackTools
      <4> QED
        BY <3>2, <4>1 DEF CameOut, RefundInv, CountsAgree
    <3>8. ASSUME NEW f \in ToSet(Case.faults), a = FaultTriggered(f)
          PROVE  Evaluate(a, Found(a), ToSet(Case.faults), log) = {}
      <4>1. a.type = "fault" /\ a.fault = f
        BY <3>8 DEF FaultTriggered
      <4>2. f \in Injected(ToSet(Case.faults), log)
        <5>1. PICK e \in Within(log) :
                      e.kind = "tool_fault" /\ e.tool = f.tool /\ e.number = f.on_call
          BY <3>2 DEF CameOut
        <5>2. PICK i \in DOMAIN log : e = log[i]
          BY DEF Within
        <5> QED
          BY <5>1, <5>2 DEF Injected, Positions
      <4>3. FaultFinding(a, ToSet(Case.faults), log) = {}
        BY <4>1, <4>2 DEF FaultFinding
      <4> QED
        BY <4>1, <4>3 DEF Evaluate
    <3> QED
      BY <3>3, <3>4, <3>5, <3>6, <3>7, <3>8
  <2> QED
    BY <2>1, <2>2
<1>6. Findings = {}
  BY <1>5 DEF Findings
<1> QED
  BY <1>3, <1>6

-----------------------------------------------------------------------------
\* The invariant.

Verdict ==
    Judged =>
        /\ result.answer = "confirmed" => Len(ran) = 1
        /\ run.endpoint = "counts" => result.status = "pass"

AgentInv == RunIsAllowed /\ (Rechecks => Journey /\ Quiet /\ FaultsLogged /\ Verdict)

\* A run is one of those submitted for its case.
LEMMA RunIsAllowedNext == RunIsChosen /\ RunIsAllowed /\ [Next]_vars => RunIsAllowed'
<1> SUFFICES ASSUME RunIsAllowed, [Next]_vars PROVE RunIsAllowed'
  OBVIOUS
<1>1. CASE UNCHANGED run
  BY <1>1 DEF RunIsAllowed, Submitted
<1>2. ASSUME NEW n \in DOMAIN Submissions, NEW k \in DOMAIN Submissions[n].cases,
             NEW pair \in Submissions[n].runs, Begin(n, k, pair)
      PROVE  RunIsAllowed'
  <2>1. pair = <<pair[1], pair[2]>>
    BY SubmissionsLoaded
  <2>2. run' = [submission |-> n, case |-> k, driver |-> pair[1], endpoint |-> pair[2]]
    BY <1>2 DEF Begin
  <2> QED
    BY <2>1, <2>2 DEF RunIsAllowed, Submitted
<1>3. CASE \E n \in DOMAIN Submissions : Refuse(n)
  BY <1>1, <1>3 DEF Refuse
<1>4. CASE \E t \in Requests : Reject(t) \/ Intercept(t) \/ Look(t)
  BY <1>1, <1>4, CallsKeepRun
<1>5. CASE IssueRefund
  BY <1>1, <1>5, CallsKeepRun
<1>6. CASE \E d \in Decisions : End(d)
  BY <1>1, <1>6 DEF End
<1>7. CASE UNCHANGED vars
  BY <1>1, <1>7 DEF vars
<1> QED
  BY <1>2, <1>3, <1>4, <1>5, <1>6, <1>7 DEF Next

\* A run begins at the start of its journey.
LEMMA BeginTravels ==
    ASSUME RefundInv, NEW n \in DOMAIN Submissions, NEW k \in DOMAIN Submissions[n].cases,
           NEW pair \in Submissions[n].runs, Begin(n, k, pair)
    PROVE  (Journey /\ Quiet /\ FaultsLogged /\ Verdict)'
<1>2. /\ log' = <<>> /\ told' = <<>> /\ ran' = <<>> /\ result' = NoResult
      /\ world' = (Case.state)'
  <2>1. run' = [submission |-> n, case |-> k, driver |-> pair[1], endpoint |-> pair[2]]
    BY DEF Begin
  <2>2. (Case.state)' = Submissions[n].cases[k].state
    BY <2>1 DEF Case, Submitted
  <2> QED
    BY <2>2 DEF Begin, RefundInv
<1>3. Len(<<>>) = 0 /\ DOMAIN <<>> = {}
  OBVIOUS
<1>4. OnCourse'
  <2>1. \A t \in PackTools : Asked(<<>>, t) = Visits(t)[1]
    <3>1. \A t : {i \in DOMAIN <<>> : (<<>>)[i].tool = t} = {}
      OBVIOUS
    <3>2. \A t : Asked(<<>>, t) = 0
      BY <3>1, FS_EmptySet DEF Asked
    <3>3. Visits(ReadTool)[1] = 0 /\ Visits(IdentityTool)[1] = 0 /\ Visits(RefundTool)[1] = 0
      BY DEF Visits, ReadTool, IdentityTool, RefundTool
    <3> QED
      BY <3>2, <3>3 DEF PackTools
  <2> QED
    BY <1>2, <1>3, <2>1 DEF OnCourse
<1>5. ~BeganBefore(Len(told) + 1)'
  <2>1. 1..(0 + 1 - 1) = {}
    OBVIOUS
  <2> QED
    BY <1>2, <1>3, <2>1 DEF BeganBefore
<1>6. WorldFollows'
  BY <1>2, <1>5 DEF WorldFollows
<1>7. Journey'
  BY <1>2, <1>3, <1>4, <1>6 DEF Journey
<1>8. Quiet' /\ FaultsLogged'
  BY <1>2, <1>3, Nothing DEF Quiet, FaultsLogged
<1>9. Verdict'
  BY <1>2 DEF Verdict, Judged, NoResult
<1> QED
  BY <1>7, <1>8, <1>9

\* Without a call the journey is where it was.
LEMMA SameJourney ==
    ASSUME Journey, Quiet, FaultsLogged, UNCHANGED <<run, world, log, told, ran>>
    PROVE  (Journey /\ Quiet /\ FaultsLogged)'
<1>1. Case' = Case /\ Scenario' = Scenario
  BY DEF Case, Scenario, Submitted
<1> HIDE DEF Case, Scenario
<1>2. /\ \A n : (Explained(n)' <=> Explained(n)) /\ (GoesOn(n)' <=> GoesOn(n))
      /\ \A n : (BeganBefore(n)' <=> BeganBefore(n)) /\ (Saw(n)' <=> Saw(n))
  BY <1>1 DEF Explained, GoesOn, Saw, BeganBefore, Began, PlannedAt, PlannedFor
<1>3. OnCourse' /\ WorldFollows'
  BY <1>1, <1>2 DEF OnCourse, WorldFollows, Journey
<1> QED
  BY <1>1, <1>2, <1>3 DEF Journey, Quiet, FaultsLogged

\* How it ends.
LEMMA EndIsRight ==
    ASSUME RunIsChosen, RunIsAllowed, Rechecks, RefundInv, Journey, Quiet, FaultsLogged,
           NEW d \in Decisions, End(d)
    PROVE  (Journey /\ Quiet /\ FaultsLogged /\ Verdict)'
<1>1. /\ Decides(d) /\ d.do # "call"
      /\ result' = [status |-> IF d = Raise THEN "error"
                               ELSE IF Findings # {} \/ Rejected # {} THEN "fail" ELSE "pass",
                    answer |-> d.what]
      /\ UNCHANGED <<run, world, log, told, ran>>
  BY DEF End
<1>2. Len(told) > 0 /\ Gives(d) /\ (d # Raise => Stops)
  <2>1. run.driver = "safe" \/ run.driver = "scripted"
    BY DEF Rechecks, Rechecking
  <2>2. SafeDecides(told, d) \/ ScriptedDecides(told, d)
    BY <1>1, <2>1 DEF Decides
  <2> QED
    BY <1>1, <2>2, SafeStops, ScriptedStops
<1>3. (Journey /\ Quiet /\ FaultsLogged)'
  BY <1>1, SameJourney
<1>4. result'.answer = "confirmed" => Len(ran) = 1
  <2>1. d = Raise => d.what # "confirmed"
    BY DEF Raise
  <2>2. d.what = "confirmed" => d = Answer("confirmed")
    BY <1>1, <2>1 DEF Decisions, Call, Answer
  <2>3. result'.answer = d.what
    BY <1>1
  <2> QED
    BY <1>2, <2>2, <2>3, ConfirmedIsRefunded
<1>5. run.endpoint = "counts" => result'.status = "pass"
  <2> SUFFICES ASSUME run.endpoint = "counts" PROVE result'.status = "pass"
    OBVIOUS
  <2>1. Len(told) \in DOMAIN told
    <3>1. \A L \in 0..7 : L > 0 => L \in 1..L
      OBVIOUS
    <3> QED
      BY <1>2, <3>1, Counting DEF Journey
  <2>2. d # Raise
    <3>1. ~Refused(told[Len(told)]) /\ (Answered(told[Len(told)]) => Legible(Len(told)))
      BY <2>1, CountsHears
    <3>2. Len(told) >= 3 => Legible(2)
      <4> SUFFICES ASSUME Len(told) >= 3 PROVE Legible(2)
        OBVIOUS
      <4>1. 2 \in DOMAIN told /\ 3 \in DOMAIN told
        <5>1. Len(told) \in 0..7 /\ DOMAIN told = 1..Len(told)
          BY Counting DEF Journey
        <5> QED
          BY <5>1
      <4>2. Answered(told[2])
        <5>1. GoesOn(3)
          BY <4>1 DEF Journey
        <5> QED
          BY <5>1 DEF GoesOn
      <4> QED
        BY <4>1, <4>2, CountsHears
    <3> QED
      BY <1>2, <3>1, <3>2 DEF Gives
  <2>3. Findings = {} /\ Rejected = {}
    BY <1>2, <2>2, NothingIsFound
  <2> QED
    BY <1>1, <2>2, <2>3
<1> QED
  BY <1>1, <1>3, <1>4, <1>5 DEF Verdict

\* What a call leaves of the verdict: none is given yet.
LEMMA CallsTravel ==
    ASSUME RunIsChosen, RunIsAllowed, WorldsArePlain, Rechecks, RefundInv,
           Journey, Quiet, FaultsLogged,
           \/ \E t \in Requests : Reject(t) \/ Intercept(t) \/ Look(t)
           \/ IssueRefund
    PROVE  (Journey /\ Quiet /\ FaultsLogged /\ Verdict)'
<1>1. Verdict'
  <2>1. result = NoResult /\ result' = result
    BY CallsKeepRun
  <2> QED
    BY <2>1 DEF Verdict, Judged, NoResult
<1>2. ASSUME NEW t \in Requests, Reject(t)
      PROVE  (Journey /\ Quiet /\ FaultsLogged)'
  BY <1>2, RejectTravels, RejectLogs
<1>3. ASSUME NEW t \in Requests, Intercept(t)
      PROVE  (Journey /\ Quiet /\ FaultsLogged)'
  BY <1>3, InterceptTravels, InterceptLogs
<1>4. ASSUME NEW t \in Requests, Look(t)
      PROVE  (Journey /\ Quiet /\ FaultsLogged)'
  <2>1. Executes(t, world, Select(world, IF t = ReadTool THEN Order ELSE <<"caller">>), FALSE)
    BY <1>4 DEF Look
  <2>2. FALSE \in BOOLEAN /\ ~FALSE
    OBVIOUS
  <2>3. Quiet' /\ FaultsLogged'
    BY <2>1, <2>2, ExecutesLogs
  <2> QED
    BY <1>4, <2>3, LookTravels
<1>5. CASE IssueRefund
  <2>1. Executes(RefundTool, RefundEffect.world, Receipt, RefundEffect.raised)
    BY <1>5 DEF IssueRefund
  <2>2. RefundEffect.raised \in BOOLEAN
    BY EffectRaises DEF Rechecks
  <2>3. RefundTool \in Requests
    BY DEF Requests, PackTools
  <2>4. run.endpoint = "counts" => ~RefundEffect.raised
    <3>1. Decides(Call(RefundTool))
      BY <2>1 DEF Executes, Ready
    <3>2. RefundCount \in DOMAIN world /\ world[RefundCount] = "0"
      BY <3>1, RefundsAreAllowed
    <3>3. run # NoRun /\ Plain(Keys, world)
      BY DEF Rechecks, WorldsArePlain
    <3>4. run.endpoint \in {"counts", "replaces", "closes", "fails"}
      BY FitCase
    <3> QED
      BY <3>2, <3>3, <3>4, EffectShows
  <2>5. Quiet' /\ FaultsLogged'
    BY <2>1, <2>2, <2>3, <2>4, ExecutesLogs
  <2> QED
    BY <1>1, <1>5, <2>5, RefundTravels
<1> QED
  BY <1>1, <1>2, <1>3, <1>4, <1>5

LEMMA AgentInvNext ==
    RunIsChosen /\ RefundInv /\ WorldsArePlain /\ AgentInv /\ [Next]_vars => AgentInv'
<1> SUFFICES ASSUME RunIsChosen, RefundInv, WorldsArePlain, AgentInv, [Next]_vars, Rechecks'
             PROVE  (Journey /\ Quiet /\ FaultsLogged /\ Verdict)'
  BY RunIsAllowedNext DEF AgentInv
<1> DEFINE Goal == Journey /\ Quiet /\ FaultsLogged /\ Verdict
<1>1. RunIsAllowed /\ (Rechecks => Goal)
  BY DEF AgentInv
<1>2. UNCHANGED run => Rechecks
  BY DEF Rechecks
<1>3. CASE \E n \in DOMAIN Submissions : Refuse(n)
  BY <1>3 DEF Refuse, Rechecks
<1>4. ASSUME NEW n \in DOMAIN Submissions, NEW k \in DOMAIN Submissions[n].cases,
             NEW pair \in Submissions[n].runs, Begin(n, k, pair)
      PROVE  Goal'
  BY <1>4, BeginTravels
<1>5. CASE \/ \E t \in Requests : Reject(t) \/ Intercept(t) \/ Look(t)
           \/ IssueRefund
  <2>1. UNCHANGED run
    BY <1>5, CallsKeepRun
  <2> QED
    BY <1>1, <1>2, <1>5, <2>1, CallsTravel
<1>6. ASSUME NEW d \in Decisions, End(d)
      PROVE  Goal'
  <2>1. UNCHANGED run
    BY <1>6 DEF End
  <2> QED
    BY <1>1, <1>2, <1>6, <2>1, EndIsRight
<1>7. CASE UNCHANGED vars
  <2>1. UNCHANGED <<run, world, log, told, ran, result>>
    BY <1>7 DEF vars
  <2>2. Goal
    BY <1>1, <1>2, <2>1
  <2>3. Verdict'
    BY <2>1, <2>2 DEF Verdict, Judged
  <2> QED
    BY <2>1, <2>2, <2>3, SameJourney
<1> QED
  BY <1>3, <1>4, <1>5, <1>6, <1>7 DEF Next

LEMMA AgentInvKeepsPolicy ==
    RunIsChosen /\ RefundInv /\ AgentInv => SafeAgentKeepsPolicy
<1> SUFFICES ASSUME RunIsChosen, RefundInv, RunIsAllowed, Rechecks, Journey, Verdict
             PROVE  /\ Len(ran) <= 1
                    /\ \A n \in DOMAIN ran : Allowed(ran[n])
                    /\ Judged /\ result.answer = "confirmed" => Len(ran) = 1
                    /\ Judged /\ run.endpoint = "counts" => result.status = "pass"
  BY DEF SafeAgentKeepsPolicy, AgentInv, Rechecks
<1>1. CASE ~BeganBefore(Len(told) + 1)
  <2>1. ran = <<>>
    BY <1>1 DEF Journey, WorldFollows
  <2> QED
    BY <2>1 DEF Verdict
<1>2. CASE BeganBefore(Len(told) + 1)
  <2>1. Len(ran) = 1 /\ ran[1] = Case.state
    BY <1>2 DEF Journey, WorldFollows
  <2>2. DOMAIN ran = 1..1
    BY <2>1, Followed DEF RefundInv
  <2>3. Len(told) >= 4
    <3>1. PICK m \in 1..(Len(told) + 1 - 1) : m \in {4, 6}
      BY <1>2 DEF BeganBefore, Began
    <3>2. Len(told) \in 0..7
      BY Counting DEF Journey
    <3>3. \A L \in 0..7 : \A k \in 1..(L + 1 - 1) : k \in {4, 6} => L >= 4
      OBVIOUS
    <3> QED
      BY <3>1, <3>2, <3>3
  <2>4. Allowed(Case.state)
    BY <2>3 DEF Journey
  <2> QED
    BY <2>1, <2>2, <2>4 DEF Verdict
<1> QED
  BY <1>1, <1>2

\* The agents that recheck before they retry a refund keep the policy and, with
\* the default service, pass every case written for them, under every fault plan
\* in which no look but the first is stale (SafeAgent of refund_pack.py,
\* ScriptedRefundModel of langgraph_refund_demo.py, under run_scenario).
THEOREM AgentsKeepPolicy == Spec => []SafeAgentKeepsPolicy
<1>1. Init => RunIsChosen /\ RefundInv /\ WorldsArePlain /\ AgentInv
  BY RunIsChosenInit, RefundInvInit DEF Init, WorldsArePlain, AgentInv, RunIsAllowed, Rechecks
<1>2. RunIsChosen /\ RefundInv /\ WorldsArePlain /\ AgentInv /\ [Next]_vars
        => (RunIsChosen /\ RefundInv /\ WorldsArePlain /\ AgentInv)'
  BY RunIsChosenNext, RefundInvNext, WorldsArePlainNext, AgentInvNext
<1>3. RunIsChosen /\ RefundInv /\ AgentInv => SafeAgentKeepsPolicy
  BY AgentInvKeepsPolicy
<1> QED
  BY <1>1, <1>2, <1>3, PTL DEF Spec
=============================================================================
