---------------------------- MODULE RefundProofs ----------------------------
(***************************************************************************)
(* Theorems about whole refund runs, for every accepted submission, agent, *)
(* service, fault plan and number of calls: the World stays a document, a  *)
(* pass of a case of the pack means that the policy was kept, the changes  *)
(* in the log, replayed, give the final World, and the cases that are run  *)
(* are sound.                                                              *)
(***************************************************************************)
EXTENDS RefundRuns, FiniteSetTheorems, SequenceTheorems, WellFoundedInduction, TLAPS

-----------------------------------------------------------------------------
\* Logs, of events of any shape.

IsSequence(s) == \E E : s \in Seq(E)

\* What follows a sequence stands after it, in its order.
LEMMA Followed ==
    ASSUME NEW s, IsSequence(s), NEW t, IsSequence(t)
    PROVE  /\ IsSequence(s \o t)
           /\ Len(s) \in Nat /\ Len(t) \in Nat
           /\ DOMAIN s = 1..Len(s) /\ DOMAIN t = 1..Len(t)
           /\ Len(s \o t) = Len(s) + Len(t)
           /\ DOMAIN (s \o t) = 1..(Len(s) + Len(t))
           /\ \A i \in 1..Len(s) : (s \o t)[i] = s[i]
           /\ \A i \in 1..Len(t) : (s \o t)[Len(s) + i] = t[i]
<1>1. PICK D : s \in Seq(D)
  BY DEF IsSequence
<1>2. PICK E : t \in Seq(E)
  BY DEF IsSequence
<1> DEFINE F == D \cup E
<1>3. s \in Seq(F) /\ t \in Seq(F)
  <2>1. \A i \in 1..Len(s) : s[i] \in F
    BY <1>1
  <2>2. \A i \in 1..Len(t) : t[i] \in F
    BY <1>2
  <2> QED
    BY <1>1, <1>2, <2>1, <2>2, IsASeq
<1> HIDE DEF F
<1>4. s \o t \in Seq(F) /\ Len(s \o t) = Len(s) + Len(t)
  BY <1>3
<1>5. /\ Len(s) \in Nat /\ Len(t) \in Nat
      /\ DOMAIN s = 1..Len(s) /\ DOMAIN t = 1..Len(t)
      /\ DOMAIN (s \o t) = 1..(Len(s) + Len(t))
  BY <1>3, <1>4
<1>6. \A i \in 1..Len(s) : (s \o t)[i] = s[i]
  BY <1>3
<1>7. \A i \in 1..Len(t) : (s \o t)[Len(s) + i] = t[i]
  BY <1>3
<1>8. IsSequence(s \o t)
  BY <1>4 DEF IsSequence
<1> QED
  BY <1>4, <1>5, <1>6, <1>7, <1>8

\* What is in a sequence, and where it has members of S.
Within(s) == {s[i] : i \in DOMAIN s}
At(s, S) == {i \in DOMAIN s : s[i] \in S}

\* What two sequences have together.
LEMMA Joined ==
    ASSUME NEW s, IsSequence(s), NEW t, IsSequence(t), NEW S
    PROVE  /\ Within(s \o t) = Within(s) \cup Within(t)
           /\ Cardinality(At(s \o t, S)) = Cardinality(At(s, S)) + Cardinality(At(t, S))
           /\ Cardinality(At(s, S)) \in Nat /\ Cardinality(At(t, S)) \in Nat
<1> DEFINE u == s \o t
           m == Len(s)
           Moved(i) == m + i
           B == {Moved(i) : i \in At(t, S)}
<1>1. /\ m \in Nat /\ Len(t) \in Nat
      /\ DOMAIN s = 1..m /\ DOMAIN t = 1..Len(t) /\ DOMAIN u = 1..(m + Len(t))
      /\ \A i \in 1..m : u[i] = s[i]
      /\ \A i \in 1..Len(t) : u[m + i] = t[i]
  <2>1. /\ Len(s) \in Nat /\ Len(t) \in Nat
        /\ DOMAIN s = 1..Len(s) /\ DOMAIN t = 1..Len(t)
        /\ DOMAIN (s \o t) = 1..(Len(s) + Len(t))
    BY Followed
  <2>2. /\ \A i \in 1..Len(s) : (s \o t)[i] = s[i]
        /\ \A i \in 1..Len(t) : (s \o t)[Len(s) + i] = t[i]
    BY Followed
  <2> QED
    BY <2>1, <2>2
<1> HIDE DEF u, m
<1>2. \A j \in DOMAIN u : j \in 1..m \/ \E i \in 1..Len(t) : j = m + i
  <2> SUFFICES ASSUME NEW j \in 1..(m + Len(t)), j \notin 1..m
               PROVE  \E i \in 1..Len(t) : j = m + i
    BY <1>1
  <2>1. j - m \in 1..Len(t) /\ j = m + (j - m)
    BY <1>1
  <2> QED
    BY <2>1
<1>3. \A i \in 1..m : i \in DOMAIN u
  BY <1>1
<1>4. \A i \in 1..Len(t) : m + i \in DOMAIN u /\ m + i \notin 1..m
  BY <1>1
<1>5. Within(u) = Within(s) \cup Within(t)
  <2>1. \A j \in DOMAIN u : u[j] \in Within(s) \cup Within(t)
    BY <1>1, <1>2 DEF Within
  <2>2. \A i \in DOMAIN s : s[i] \in Within(u)
    BY <1>1, <1>3 DEF Within
  <2>3. \A i \in DOMAIN t : t[i] \in Within(u)
    <3> SUFFICES ASSUME NEW i \in 1..Len(t) PROVE t[i] \in Within(u)
      BY <1>1
    <3>1. m + i \in DOMAIN u /\ u[m + i] = t[i]
      BY <1>1, <1>4
    <3> QED
      BY <3>1 DEF Within
  <2> QED
    BY <2>1, <2>2, <2>3 DEF Within
<1>6. At(u, S) = At(s, S) \cup B
  <2>1. \A j \in At(u, S) : j \in At(s, S) \cup B
    BY <1>1, <1>2 DEF At
  <2>2. \A j \in At(s, S) : j \in At(u, S)
    BY <1>1, <1>3 DEF At
  <2>3. \A i \in At(t, S) : m + i \in At(u, S)
    BY <1>1, <1>4 DEF At
  <2> QED
    BY <2>1, <2>2, <2>3
<1>7. IsFiniteSet(At(s, S)) /\ IsFiniteSet(At(t, S))
  <2>1. IsFiniteSet(1..m) /\ IsFiniteSet(1..Len(t))
    <3>1. 1 \in Int /\ m \in Int /\ Len(t) \in Int
      BY <1>1
    <3> QED
      BY ONLY <3>1, FS_Interval
  <2>2. At(s, S) \in SUBSET (1..m) /\ At(t, S) \in SUBSET (1..Len(t))
    BY <1>1 DEF At
  <2> QED
    BY <2>1, <2>2, FS_Subset
<1>8. IsFiniteSet(B) /\ Cardinality(B) = Cardinality(At(t, S))
  <2>1. \A i, j \in At(t, S) : Moved(i) = Moved(j) => i = j
    <3>1. At(t, S) \subseteq Nat
      BY <1>1 DEF At
    <3> QED
      BY <1>1, <3>1
  <2>2. [i \in At(t, S) |-> Moved(i)] \in Bijection(At(t, S), B)
    <3> DEFINE f == [i \in At(t, S) |-> Moved(i)]
    <3>1. f \in [At(t, S) -> B]
      OBVIOUS
    <3>2. \A b \in B : \E i \in At(t, S) : f[i] = b
      OBVIOUS
    <3>3. \A i, j \in At(t, S) : f[i] = f[j] => i = j
      BY <2>1
    <3> HIDE DEF B
    <3> QED
      BY <3>1, <3>2, <3>3 DEF Bijection, Injection, Surjection, IsInjective
  <2> QED
    BY <1>7, <2>2, FS_Bijection DEF ExistsBijection
<1>9. At(s, S) \cap B = {}
  <2>1. \A j \in B : j \notin 1..m
    BY <1>4, <1>1 DEF At
  <2> QED
    BY <1>1, <2>1 DEF At
<1> HIDE DEF B
<1>10. Cardinality(At(u, S)) = Cardinality(At(s, S)) + Cardinality(B)
  <2>1. Cardinality(At(s, S) \cap B) = 0
    BY <1>9, FS_EmptySet
  <2>2. /\ Cardinality(At(s, S)) \in Nat /\ Cardinality(B) \in Nat
        /\ Cardinality(At(s, S) \cup B)
              = Cardinality(At(s, S)) + Cardinality(B) - Cardinality(At(s, S) \cap B)
    BY <1>7, <1>8, FS_Union, FS_CardinalityType
  <2> QED
    BY <1>6, <2>1, <2>2
<1>11. Cardinality(At(s, S)) \in Nat /\ Cardinality(At(t, S)) \in Nat
  BY <1>7, FS_CardinalityType
<1> QED
  BY <1>5, <1>8, <1>10, <1>11 DEF u

\* A sequence of one, and of none.
LEMMA Single ==
    ASSUME NEW e, NEW S
    PROVE  /\ IsSequence(<<e>>) /\ Within(<<e>>) = {e}
           /\ Cardinality(At(<<e>>, S)) = IF e \in S THEN 1 ELSE 0
<1>1. <<e>> \in Seq({e}) /\ DOMAIN <<e>> = {1} /\ <<e>>[1] = e
  OBVIOUS
<1>2. At(<<e>>, S) = IF e \in S THEN {1} ELSE {}
  BY <1>1 DEF At
<1>3. Cardinality({1}) = 1 /\ Cardinality({}) = 0
  BY FS_Singleton, FS_EmptySet
<1>4. IsSequence(<<e>>)
  BY <1>1 DEF IsSequence
<1>5. Within(<<e>>) = {e}
  BY <1>1 DEF Within
<1> QED
  BY <1>2, <1>3, <1>4, <1>5

LEMMA Nothing ==
    ASSUME NEW S
    PROVE  /\ IsSequence(<<>>) /\ Within(<<>>) = {}
           /\ Cardinality(At(<<>>, S)) = 0
<1>1. <<>> \in Seq({}) /\ DOMAIN <<>> = {}
  OBVIOUS
<1>2. At(<<>>, S) = {} /\ Cardinality({}) = 0
  BY <1>1, FS_EmptySet DEF At
<1>3. IsSequence(<<>>)
  BY <1>1 DEF IsSequence
<1>4. Within(<<>>) = {}
  BY <1>1 DEF Within
<1> QED
  BY <1>2, <1>3, <1>4

\* Events and answers counted: by kind and tool, by kind, and by tool.
Noted(s, kind, tool) == Cardinality(Positions(s, kind, tool))
Seen(s, kind) == Cardinality({i \in DOMAIN s : s[i].kind = kind})
Asked(s, tool) == Cardinality({i \in DOMAIN s : s[i].tool = tool})

\* The counts of two sequences add up.
LEMMA CountsAdd ==
    ASSUME NEW s, IsSequence(s), NEW t, IsSequence(t), NEW kind, NEW tool
    PROVE  /\ Noted(s \o t, kind, tool) = Noted(s, kind, tool) + Noted(t, kind, tool)
           /\ Seen(s \o t, kind) = Seen(s, kind) + Seen(t, kind)
           /\ Asked(s \o t, tool) = Asked(s, tool) + Asked(t, tool)
           /\ Noted(s, kind, tool) \in Nat /\ Seen(s, kind) \in Nat /\ Asked(s, tool) \in Nat
           /\ Noted(t, kind, tool) \in Nat /\ Seen(t, kind) \in Nat /\ Asked(t, tool) \in Nat
<1> DEFINE W == Within(s) \cup Within(t)
           A == {e \in W : e.kind = kind /\ e.tool = tool}
           B == {e \in W : e.kind = kind}
           C == {e \in W : e.tool = tool}
<1>1. Within(s \o t) = W
  BY Joined
<1>2. ASSUME NEW u, Within(u) \subseteq W
      PROVE  /\ At(u, A) = Positions(u, kind, tool)
             /\ At(u, B) = {i \in DOMAIN u : u[i].kind = kind}
             /\ At(u, C) = {i \in DOMAIN u : u[i].tool = tool}
  <2>1. \A i \in DOMAIN u : u[i] \in W
    BY <1>2 DEF Within
  <2> HIDE DEF W
  <2> QED
    BY <2>1 DEF At, Positions
<1>3. /\ At(s, A) = Positions(s, kind, tool) /\ At(t, A) = Positions(t, kind, tool)
      /\ At(s \o t, A) = Positions(s \o t, kind, tool)
      /\ At(s, B) = {i \in DOMAIN s : s[i].kind = kind}
      /\ At(t, B) = {i \in DOMAIN t : t[i].kind = kind}
      /\ At(s \o t, B) = {i \in DOMAIN (s \o t) : (s \o t)[i].kind = kind}
      /\ At(s, C) = {i \in DOMAIN s : s[i].tool = tool}
      /\ At(t, C) = {i \in DOMAIN t : t[i].tool = tool}
      /\ At(s \o t, C) = {i \in DOMAIN (s \o t) : (s \o t)[i].tool = tool}
  <2>1. Within(s) \subseteq W /\ Within(t) \subseteq W /\ Within(s \o t) \subseteq W
    BY <1>1
  <2> HIDE DEF W, A, B, C
  <2> QED
    BY <1>2, <2>1
<1> HIDE DEF A, B, C
<1>4. /\ Cardinality(At(s \o t, A)) = Cardinality(At(s, A)) + Cardinality(At(t, A))
      /\ Cardinality(At(s, A)) \in Nat /\ Cardinality(At(t, A)) \in Nat
  BY Joined
<1>5. /\ Cardinality(At(s \o t, B)) = Cardinality(At(s, B)) + Cardinality(At(t, B))
      /\ Cardinality(At(s, B)) \in Nat /\ Cardinality(At(t, B)) \in Nat
  BY Joined
<1>6. /\ Cardinality(At(s \o t, C)) = Cardinality(At(s, C)) + Cardinality(At(t, C))
      /\ Cardinality(At(s, C)) \in Nat /\ Cardinality(At(t, C)) \in Nat
  BY Joined
<1>7. /\ Noted(s, kind, tool) = Cardinality(At(s, A))
      /\ Noted(t, kind, tool) = Cardinality(At(t, A))
      /\ Noted(s \o t, kind, tool) = Cardinality(At(s \o t, A))
  BY <1>3, Zenon DEF Noted
<1>8. /\ Seen(s, kind) = Cardinality(At(s, B))
      /\ Seen(t, kind) = Cardinality(At(t, B))
      /\ Seen(s \o t, kind) = Cardinality(At(s \o t, B))
  BY <1>3, Zenon DEF Seen
<1>9. /\ Asked(s, tool) = Cardinality(At(s, C))
      /\ Asked(t, tool) = Cardinality(At(t, C))
      /\ Asked(s \o t, tool) = Cardinality(At(s \o t, C))
  BY <1>3, Zenon DEF Asked
<1>10. /\ Noted(s \o t, kind, tool) = Noted(s, kind, tool) + Noted(t, kind, tool)
       /\ Seen(s \o t, kind) = Seen(s, kind) + Seen(t, kind)
       /\ Asked(s \o t, tool) = Asked(s, tool) + Asked(t, tool)
  BY <1>4, <1>5, <1>6, <1>7, <1>8, <1>9, Zenon
<1>11. /\ Noted(s, kind, tool) \in Nat /\ Noted(t, kind, tool) \in Nat
       /\ Seen(s, kind) \in Nat /\ Seen(t, kind) \in Nat
       /\ Asked(s, tool) \in Nat /\ Asked(t, tool) \in Nat
  BY <1>4, <1>5, <1>6, <1>7, <1>8, <1>9, Zenon
<1> QED
  BY <1>10, <1>11, Zenon

LEMMA SeenAdd ==
    ASSUME NEW s, IsSequence(s), NEW t, IsSequence(t), NEW kind
    PROVE  /\ Seen(s \o t, kind) = Seen(s, kind) + Seen(t, kind)
           /\ Seen(s, kind) \in Nat /\ Seen(t, kind) \in Nat
<1>1. /\ Noted(s \o t, kind, RefundTool) = Noted(s, kind, RefundTool) + Noted(t, kind, RefundTool)
      /\ Seen(s \o t, kind) = Seen(s, kind) + Seen(t, kind)
      /\ Seen(s, kind) \in Nat /\ Seen(t, kind) \in Nat
  BY CountsAdd
<1> QED
  BY <1>1, Zenon

LEMMA AskedAdd ==
    ASSUME NEW s, IsSequence(s), NEW t, IsSequence(t), NEW tool
    PROVE  /\ Asked(s \o t, tool) = Asked(s, tool) + Asked(t, tool)
           /\ Asked(s, tool) \in Nat /\ Asked(t, tool) \in Nat
<1>1. /\ Noted(s \o t, "tool_attempt", tool)
            = Noted(s, "tool_attempt", tool) + Noted(t, "tool_attempt", tool)
      /\ Asked(s \o t, tool) = Asked(s, tool) + Asked(t, tool)
      /\ Asked(s, tool) \in Nat /\ Asked(t, tool) \in Nat
  BY CountsAdd
<1> QED
  BY <1>1, Zenon

\* The counts of a sequence of one.
LEMMA SingleCounts ==
    ASSUME NEW e, NEW kind, NEW tool
    PROVE  /\ Noted(<<e>>, kind, tool) = IF e.kind = kind /\ e.tool = tool THEN 1 ELSE 0
           /\ Seen(<<e>>, kind) = IF e.kind = kind THEN 1 ELSE 0
           /\ Asked(<<e>>, tool) = IF e.tool = tool THEN 1 ELSE 0
<1>1. DOMAIN <<e>> = {1} /\ <<e>>[1] = e
  OBVIOUS
<1>2. Cardinality({1}) = 1 /\ Cardinality({}) = 0
  BY FS_Singleton, FS_EmptySet
<1>3. Positions(<<e>>, kind, tool) = IF e.kind = kind /\ e.tool = tool THEN {1} ELSE {}
  BY <1>1 DEF Positions
<1>4. {i \in DOMAIN <<e>> : <<e>>[i].kind = kind} = IF e.kind = kind THEN {1} ELSE {}
  BY <1>1
<1>5. {i \in DOMAIN <<e>> : <<e>>[i].tool = tool} = IF e.tool = tool THEN {1} ELSE {}
  BY <1>1
<1> QED
  BY <1>2, <1>3, <1>4, <1>5 DEF Noted, Seen, Asked

\* What a sequence does not hold, it counts not.
LEMMA NoneCounted ==
    ASSUME NEW s, NEW kind, \A e \in Within(s) : e.kind # kind
    PROVE  Seen(s, kind) = 0 /\ \A tool : Noted(s, kind, tool) = 0
<1>1. {i \in DOMAIN s : s[i].kind = kind} = {} /\ \A tool : Positions(s, kind, tool) = {}
  BY DEF Within, Positions
<1> QED
  BY <1>1, FS_EmptySet DEF Seen, Noted

\* An event more is a sequence of one more.
LEMMA OneMore ==
    ASSUME NEW s, IsSequence(s), NEW e
    PROVE  Append(s, e) = s \o <<e>>
<1>1. PICK E : s \in Seq(E)
  BY DEF IsSequence
<1> DEFINE F == E \cup {e}
<1>2. s \in Seq(F) /\ e \in F
  <2>1. \A i \in 1..Len(s) : s[i] \in F
    BY <1>1
  <2> QED
    BY <1>1, <2>1
<1> HIDE DEF F
<1> QED
  BY <1>2

-----------------------------------------------------------------------------
\* The inductive invariant: what a run's log, its agent's answers and the worlds
\* the refund handler was started in have to do with each other.

Holds(w, q) == q.path \in DOMAIN w /\ Select(w, q.path) = q.value
MissedIn(s, q) ==
    \E e \in Within(s) : /\ e.kind = "precondition_failed" /\ e.tool = q.tool
                         /\ \E m \in e.missed : m.path = q.path

\* The counters agree.
CountsAgree ==
    /\ Noted(log, "tool_executed", RefundTool) = Len(ran)
    /\ Seen(log, "tool_attempt") = Len(told)
    /\ \A t \in Requests : Noted(log, "tool_attempt", t) = Asked(told, t)

\* A fault in the log is one of the case, and the agent was told of it.
FaultsAreMet ==
    \A e \in Within(log) : e.kind = "tool_fault" =>
        \E f \in ToSet(Case.faults) : f.tool = e.tool /\ f.on_call = e.number /\ Met(f)

\* A refund handler started in a world that misses a precondition left a trace.
MissesAreLogged ==
    \A q \in Case.assertions : q.type = "precondition" /\ q.tool = RefundTool =>
        \A n \in DOMAIN ran : Holds(ran[n], q) \/ MissedIn(log, q)

\* A pass has found nothing.
PassesFindNothing == result.status = "pass" => Findings = {}

RefundInv ==
    /\ IsSequence(log) /\ IsSequence(told) /\ IsSequence(ran)
    /\ run = NoRun => log = <<>> /\ told = <<>> /\ ran = <<>>
    /\ CountsAgree
    /\ FaultsAreMet
    /\ MissesAreLogged
    /\ PassesFindNothing

\* What the agent was told stays so.
LEMMA MetKept ==
    ASSUME IsSequence(told), NEW o, told' = Append(told, o), NEW f, Met(f)
    PROVE  Met(f)'
<1>1. told' = told \o <<o>> /\ IsSequence(<<o>>)
  BY OneMore, Single
<1>2. /\ Len(told) \in Nat /\ DOMAIN told = 1..Len(told) /\ Len(<<o>>) \in Nat
      /\ DOMAIN told' = 1..(Len(told) + Len(<<o>>))
      /\ \A k \in 1..Len(told) : told'[k] = told[k]
  BY <1>1, Followed
<1>3. PICK n \in DOMAIN told :
          /\ told[n].tool = f.tool /\ told[n].outcome = OutcomeOf(f.kind)
          /\ Cardinality({k \in 1..n : told[k].tool = f.tool}) = f.on_call
  BY DEF Met
<1>4. n \in 1..Len(told) /\ 1..n \subseteq 1..Len(told)
  BY <1>2
<1>5. {k \in 1..n : told'[k].tool = f.tool} = {k \in 1..n : told[k].tool = f.tool}
  BY <1>2, <1>4
<1>6. n \in DOMAIN told' /\ told'[n] = told[n]
  BY <1>2, <1>4
<1> QED
  BY <1>3, <1>5, <1>6 DEF Met

\* It is told of a fault at the call the fault was planned for.
LEMMA MetNow ==
    ASSUME IsSequence(told), NEW t \in Requests, NEW o, told' = Append(told, o), o.tool = t,
           Noted(log, "tool_attempt", t) = Asked(told, t),
           NEW f, f.tool = t, f.on_call = Number(t), o.outcome = OutcomeOf(f.kind)
    PROVE  Met(f)'
<1> DEFINE n == Len(told) + 1
<1>1. told' = told \o <<o>> /\ IsSequence(<<o>>)
  BY OneMore, Single
<1>2. Len(<<o>>) = 1 /\ <<o>>[1] = o
  OBVIOUS
<1>3. /\ Len(told) \in Nat
      /\ DOMAIN told' = 1..n
      /\ told'[n] = o
  <2>1. /\ Len(told) \in Nat
        /\ DOMAIN told' = 1..(Len(told) + Len(<<o>>))
        /\ \A i \in 1..Len(<<o>>) : told'[Len(told) + i] = <<o>>[i]
    BY <1>1, Followed
  <2> QED
    BY <1>2, <2>1
<1>4. Asked(told', t) = f.on_call
  <2>1. Asked(told', t) = Asked(told, t) + Asked(<<o>>, t)
    BY <1>1, CountsAdd
  <2>2. Asked(<<o>>, t) = 1
    BY SingleCounts
  <2>3. Number(t) = Noted(log, "tool_attempt", t) + 1
    BY DEF Number, Noted
  <2> QED
    BY <2>1, <2>2, <2>3
<1>5. Cardinality({k \in 1..n : told'[k].tool = f.tool}) = f.on_call
  BY <1>3, <1>4 DEF Asked
<1>6. n \in DOMAIN told'
  BY <1>3
<1> HIDE DEF n
<1> QED
  BY <1>3, <1>5, <1>6 DEF Met, OutcomeOf

-----------------------------------------------------------------------------
\* Every step keeps the invariant.

\* A tool call adds its attempt and what became of it.  If the refund handler
\* was started, it is executed in the log, with the preconditions it missed; if
\* the log has a fault, it is the planned one and what the agent was told.
LEMMA CallKeeps ==
    ASSUME RefundInv, NEW t \in Requests, NEW outcome, NEW value,
           NEW events, IsSequence(events), Tell(t, outcome, value, events),
           run # NoRun, result.status # "pass", UNCHANGED <<run, result>>,
           \A e \in Within(events) : e.kind # "tool_attempt",
           \A e \in Within(events) : e.kind = "tool_fault" =>
               /\ e.tool = t /\ e.number = Number(t)
               /\ \E f \in FaultsOf(t) : outcome = OutcomeOf(f.kind),
           \/ ran' = ran /\ Noted(events, "tool_executed", RefundTool) = 0
           \/ /\ ran' = Append(ran, world) /\ t = RefundTool
              /\ Noted(events, "tool_executed", RefundTool) = 1
              /\ Missed(t) # {} =>
                    \E e \in Within(events) : /\ e.kind = "precondition_failed"
                                              /\ e.tool = t /\ e.missed = Missed(t)
    PROVE  RefundInv'
<1> DEFINE a == Event("tool_attempt", t)
           o == [tool |-> t, outcome |-> outcome, value |-> value]
           mid == log \o <<a>>
<1>1. /\ told' = Append(told, o) /\ log' = mid \o events
      /\ o.tool = t /\ o.outcome = outcome
      /\ a.kind = "tool_attempt" /\ a.tool = t
  BY DEF Tell, Event
<1>2. IsSequence(log) /\ IsSequence(told) /\ IsSequence(ran)
  BY DEF RefundInv
<1>3. IsSequence(<<a>>) /\ Within(<<a>>) = {a}
  BY Single
<1> HIDE DEF a, o
<1>4. IsSequence(mid) /\ Within(mid) = Within(log) \cup {a}
  <2>1. IsSequence(mid)
    BY <1>2, <1>3, Followed
  <2>2. Within(mid) = Within(log) \cup Within(<<a>>)
    BY <1>2, <1>3, Joined
  <2> QED
    BY <1>3, <2>1, <2>2
<1>5. told' = told \o <<o>> /\ IsSequence(<<o>>)
  BY <1>1, <1>2, OneMore, Single
<1>6. /\ \A kind, tool : Noted(mid, kind, tool) = Noted(log, kind, tool) + Noted(<<a>>, kind, tool)
      /\ \A kind, tool : Noted(log, kind, tool) \in Nat
      /\ \A kind : Seen(mid, kind) = Seen(log, kind) + Seen(<<a>>, kind)
      /\ \A kind : Seen(log, kind) \in Nat
  <2>1. ASSUME NEW kind, NEW tool
        PROVE  /\ Noted(mid, kind, tool) = Noted(log, kind, tool) + Noted(<<a>>, kind, tool)
               /\ Noted(log, kind, tool) \in Nat
    <3>1. Noted(mid, kind, tool) = Noted(log, kind, tool) + Noted(<<a>>, kind, tool)
      BY <1>2, <1>3, CountsAdd
    <3>2. Noted(log, kind, tool) \in Nat
      BY <1>2, <1>3, CountsAdd
    <3> QED
      BY <3>1, <3>2
  <2>2. ASSUME NEW kind
        PROVE  /\ Seen(mid, kind) = Seen(log, kind) + Seen(<<a>>, kind)
               /\ Seen(log, kind) \in Nat
    BY <1>2, <1>3, SeenAdd
  <2> QED
    BY <2>1, <2>2
<1> HIDE DEF mid
<1>7. Within(log') = Within(log) \cup {a} \cup Within(events)
  <2>1. Within(mid \o events) = Within(mid) \cup Within(events)
    BY <1>4, Joined
  <2> QED
    BY <1>1, <1>4, <2>1
<1>8. IsSequence(log)' /\ IsSequence(told)' /\ IsSequence(ran)'
  <2>1. IsSequence(mid \o events)
    BY <1>4, Followed
  <2>2. IsSequence(told \o <<o>>)
    BY <1>2, <1>5, Followed
  <2>3. IsSequence(<<world>>)
    BY Single
  <2>4. IsSequence(ran \o <<world>>)
    BY <1>2, <2>3, Followed
  <2>5. Append(ran, world) = ran \o <<world>>
    BY <1>2, OneMore
  <2>6. IsSequence(ran')
    BY <1>2, <2>4, <2>5
  <2>7. IsSequence(log') /\ IsSequence(told')
    BY <1>1, <1>5, <2>1, <2>2
  <2> QED
    BY <2>6, <2>7 DEF IsSequence
<1>9. CountsAgree'
  <2>1. Noted(log', "tool_executed", RefundTool)
          = Noted(log, "tool_executed", RefundTool) + Noted(events, "tool_executed", RefundTool)
    <3>1. Noted(<<a>>, "tool_executed", RefundTool) = 0
      BY <1>1, SingleCounts
    <3>2. Noted(mid \o events, "tool_executed", RefundTool)
            = Noted(mid, "tool_executed", RefundTool) + Noted(events, "tool_executed", RefundTool)
      BY <1>4, CountsAdd
    <3> QED
      BY <1>1, <1>6, <3>1, <3>2
  <2>2. Len(ran) \in Nat /\ Len(Append(ran, world)) = Len(ran) + 1
    <3>1. PICK E : ran \in Seq(E)
      BY <1>2 DEF IsSequence
    <3> DEFINE F == E \cup {world}
    <3>2. ran \in Seq(F) /\ world \in F
      <4>1. \A i \in 1..Len(ran) : ran[i] \in F
        BY <3>1
      <4> QED
        BY <3>1, <4>1
    <3> HIDE DEF F
    <3> QED
      BY <3>2
  <2>3. Noted(log', "tool_executed", RefundTool) = Len(ran')
    BY <2>1, <2>2 DEF RefundInv, CountsAgree
  <2>4. Len(told) \in Nat /\ Len(told') = Len(told) + 1
    <3>1. Len(<<o>>) = 1
      OBVIOUS
    <3>2. Len(told) \in Nat /\ Len(told \o <<o>>) = Len(told) + Len(<<o>>)
      BY <1>2, <1>5, Followed
    <3> QED
      BY <1>5, <3>1, <3>2
  <2>5. Seen(log', "tool_attempt") = Seen(log, "tool_attempt") + 1
    <3>1. Seen(<<a>>, "tool_attempt") = 1
      BY <1>1, SingleCounts
    <3>2. Seen(events, "tool_attempt") = 0
      BY NoneCounted
    <3>3. Seen(mid \o events, "tool_attempt")
            = Seen(mid, "tool_attempt") + Seen(events, "tool_attempt")
      BY <1>4, SeenAdd
    <3> QED
      BY <1>1, <1>6, <3>1, <3>2, <3>3
  <2>6. Seen(log', "tool_attempt") = Len(told')
    BY <2>4, <2>5 DEF RefundInv, CountsAgree
  <2>7. ASSUME NEW tool \in Requests
        PROVE  Noted(log', "tool_attempt", tool) = Asked(told', tool)
    <3>1. Noted(<<a>>, "tool_attempt", tool) = Asked(<<o>>, tool)
      <4>1. Noted(<<a>>, "tool_attempt", tool) = IF t = tool THEN 1 ELSE 0
        BY <1>1, SingleCounts
      <4>2. Asked(<<o>>, tool) = IF t = tool THEN 1 ELSE 0
        <5>1. /\ Asked(<<o>>, tool) = IF o.tool = tool THEN 1 ELSE 0
              /\ Seen(<<o>>, RefundTool) = IF o.kind = RefundTool THEN 1 ELSE 0
              /\ Noted(<<o>>, RefundTool, tool) = IF o.kind = RefundTool /\ o.tool = tool THEN 1 ELSE 0
          BY SingleCounts
        <5> QED
          BY <1>1, <5>1
      <4> QED
        BY <4>1, <4>2
    <3>2. Noted(events, "tool_attempt", tool) = 0
      BY NoneCounted
    <3>3. Noted(mid \o events, "tool_attempt", tool)
            = Noted(mid, "tool_attempt", tool) + Noted(events, "tool_attempt", tool)
      BY <1>4, CountsAdd
    <3>4. Asked(told \o <<o>>, tool) = Asked(told, tool) + Asked(<<o>>, tool)
          /\ Asked(<<o>>, tool) \in Nat /\ Asked(told, tool) \in Nat
      BY <1>2, <1>5, AskedAdd
    <3>5. Noted(log, "tool_attempt", tool) = Asked(told, tool)
      BY DEF RefundInv, CountsAgree
    <3> QED
      BY <1>1, <1>5, <1>6, <3>1, <3>2, <3>3, <3>4, <3>5
  <2> QED
    BY <2>3, <2>6, <2>7 DEF CountsAgree, Noted, Seen, Asked
<1>10. Case' = Case
  BY DEF Case, Submitted
<1>11. FaultsAreMet'
  <2> SUFFICES ASSUME NEW e \in Within(log'), e.kind = "tool_fault"
               PROVE  \E f \in ToSet(Case.faults) :
                         f.tool = e.tool /\ f.on_call = e.number /\ Met(f)'
    BY <1>10 DEF FaultsAreMet, Within
  <2>1. CASE e \in Within(log)
    <3>1. PICK f \in ToSet(Case.faults) : f.tool = e.tool /\ f.on_call = e.number /\ Met(f)
      BY <2>1 DEF RefundInv, FaultsAreMet
    <3>2. Met(f)'
      BY <1>1, <1>2, <3>1, MetKept
    <3> QED
      BY <3>1, <3>2
  <2>2. CASE e \in Within(events)
    <3>1. e.tool = t /\ e.number = Number(t)
      BY <2>2
    <3>2. PICK f \in FaultsOf(t) : outcome = OutcomeOf(f.kind)
      BY <2>2
    <3>3. f \in ToSet(Case.faults) /\ f.tool = t /\ f.on_call = Number(t)
      BY <3>2 DEF FaultsOf
    <3>4. Noted(log, "tool_attempt", t) = Asked(told, t)
      BY DEF RefundInv, CountsAgree
    <3>5. Met(f)'
      BY <1>1, <1>2, <3>2, <3>3, <3>4, MetNow
    <3> QED
      BY <3>1, <3>3, <3>5
  <2> QED
    BY <1>1, <1>7, <2>1, <2>2
<1>12. MissesAreLogged'
  <2> SUFFICES ASSUME NEW q \in Case.assertions, q.type = "precondition", q.tool = RefundTool,
                      NEW n \in DOMAIN ran'
               PROVE  Holds(ran'[n], q) \/ MissedIn(log', q)
    BY <1>10 DEF MissesAreLogged, MissedIn, Within
  <2>1. MissedIn(log, q) => MissedIn(log', q)
    BY <1>7 DEF MissedIn
  <2>2. ASSUME n \in DOMAIN ran, ran'[n] = ran[n]
        PROVE  Holds(ran'[n], q) \/ MissedIn(log', q)
    BY <2>1, <2>2 DEF RefundInv, MissesAreLogged
  <2>3. CASE ran' = ran
    BY <2>2, <2>3
  <2>4. CASE ran' # ran
    <3>1. /\ ran' = ran \o <<world>> /\ IsSequence(<<world>>)
          /\ t = RefundTool
          /\ Missed(t) # {} =>
                \E e \in Within(events) : /\ e.kind = "precondition_failed"
                                          /\ e.tool = t /\ e.missed = Missed(t)
      BY <1>2, <2>4, OneMore, Single
    <3>2. Len(<<world>>) = 1 /\ <<world>>[1] = world
      OBVIOUS
    <3>3. /\ Len(ran) \in Nat /\ DOMAIN ran = 1..Len(ran)
          /\ DOMAIN ran' = 1..(Len(ran) + 1)
          /\ \A i \in 1..Len(ran) : ran'[i] = ran[i]
          /\ ran'[Len(ran) + 1] = world
      <4>1. /\ Len(ran) \in Nat /\ DOMAIN ran = 1..Len(ran)
            /\ DOMAIN ran' = 1..(Len(ran) + Len(<<world>>))
            /\ \A i \in 1..Len(ran) : ran'[i] = ran[i]
            /\ \A i \in 1..Len(<<world>>) : ran'[Len(ran) + i] = <<world>>[i]
        BY <1>2, <3>1, Followed
      <4> QED
        BY <3>2, <4>1
    <3>4. CASE n \in 1..Len(ran)
      BY <2>2, <3>3, <3>4
    <3>5. CASE n = Len(ran) + 1 /\ ~Holds(world, q)
      <4>1. q \in Missed(t)
        BY <3>1, <3>5 DEF Missed, Holds
      <4>2. PICK e \in Within(events) : /\ e.kind = "precondition_failed"
                                        /\ e.tool = t /\ e.missed = Missed(t)
        BY <3>1, <4>1
      <4>3. MissedIn(log', q)
        BY <1>7, <3>1, <4>1, <4>2 DEF MissedIn
      <4> QED
        BY <4>3
    <3>6. CASE n = Len(ran) + 1 /\ Holds(world, q)
      BY <3>3, <3>6
    <3> QED
      BY <3>3, <3>4, <3>5, <3>6
  <2> QED
    BY <2>3, <2>4
<1>13. PassesFindNothing'
  BY DEF PassesFindNothing
<1>14. (run = NoRun => log = <<>> /\ told = <<>> /\ ran = <<>>)'
  OBVIOUS
<1> QED
  BY <1>8, <1>9, <1>11, <1>12, <1>13, <1>14 DEF RefundInv

\* A refused call and one that meets a fault before its handler start nothing.
LEMMA RejectKeeps ==
    ASSUME RefundInv, NEW t \in Requests, Reject(t)
    PROVE  RefundInv'
<1> DEFINE e == Event("tool_rejected", t)
<1>1. /\ Tell(t, "rejected", NoDocument, <<e>>)
      /\ run # NoRun /\ result = NoResult /\ UNCHANGED <<run, ran, result>>
  BY DEF Reject, Ready
<1>2. e.kind = "tool_rejected"
  BY DEF Event
<1> HIDE DEF e
<1>3. IsSequence(<<e>>) /\ Within(<<e>>) = {e}
  BY Single
<1>4. Noted(<<e>>, "tool_executed", RefundTool) = 0
  BY <1>2, SingleCounts
<1>5. result.status # "pass"
  BY <1>1 DEF NoResult
<1>6. \A x \in Within(<<e>>) : x.kind # "tool_attempt" /\ x.kind # "tool_fault"
  BY <1>2, <1>3
<1> QED
  BY <1>1, <1>3, <1>4, <1>5, <1>6, CallKeeps

LEMMA InterceptKeeps ==
    ASSUME RefundInv, NEW t \in Requests, Intercept(t)
    PROVE  RefundInv'
<1> DEFINE e == Event("tool_fault", t)
           v == Event("tool_observation", t)
<1>1. /\ run # NoRun /\ result = NoResult /\ UNCHANGED <<run, ran, result>>
      /\ \E f \in FaultsOf(t) :
            \/ f.kind = "timeout_before" /\ Tell(t, "timeout", NoDocument, <<e>>)
            \/ f.kind = "stale_read" /\ Tell(t, "stale", f.value, <<e, v>>)
  BY DEF Intercept, Ready
<1>2. /\ e.kind = "tool_fault" /\ e.tool = t /\ e.number = Number(t)
      /\ v.kind = "tool_observation"
  BY DEF Event
<1> HIDE DEF e, v
<1>3. /\ IsSequence(<<e>>) /\ Within(<<e>>) = {e}
      /\ IsSequence(<<v>>) /\ Within(<<v>>) = {v}
  BY Single
<1>4. <<e, v>> = <<e>> \o <<v>>
  <2>1. \A s, u : s = <<e>> /\ u = <<e, v>> => u = Append(s, v)
    OBVIOUS
  <2> QED
    BY <1>3, <2>1, OneMore, Zenon
<1>5. IsSequence(<<e, v>>) /\ Within(<<e, v>>) = {e, v}
  <2>1. IsSequence(<<e>> \o <<v>>)
    BY <1>3, Followed
  <2>2. Within(<<e>> \o <<v>>) = Within(<<e>>) \cup Within(<<v>>)
    BY <1>3, Joined
  <2>3. {e} \cup {v} = {e, v}
    OBVIOUS
  <2> QED
    BY <1>3, <1>4, <2>1, <2>2, <2>3, Zenon
<1>6. /\ Noted(<<e>>, "tool_executed", RefundTool) = 0
      /\ Noted(<<e, v>>, "tool_executed", RefundTool) = 0
  <2>1. \A x \in {e, v} : x.kind # "tool_executed"
    BY <1>2
  <2> QED
    BY <1>3, <1>5, <2>1, NoneCounted
<1>7. result.status # "pass"
  BY <1>1 DEF NoResult
<1>8. \A x \in {e, v} : /\ x.kind # "tool_attempt"
                        /\ x.kind = "tool_fault" => x.tool = t /\ x.number = Number(t)
  BY <1>2
<1>9. PICK f \in FaultsOf(t) :
            \/ f.kind = "timeout_before" /\ Tell(t, "timeout", NoDocument, <<e>>)
            \/ f.kind = "stale_read" /\ Tell(t, "stale", f.value, <<e, v>>)
  BY <1>1
<1>10. CASE f.kind = "timeout_before" /\ Tell(t, "timeout", NoDocument, <<e>>)
  <2>1. "timeout" = OutcomeOf(f.kind)
    BY <1>10 DEF OutcomeOf
  <2>2. \A x \in Within(<<e>>) :
           /\ x.kind # "tool_attempt"
           /\ x.kind = "tool_fault" =>
                 /\ x.tool = t /\ x.number = Number(t)
                 /\ \E g \in FaultsOf(t) : "timeout" = OutcomeOf(g.kind)
    BY <1>3, <1>8, <2>1
  <2> QED
    BY <1>1, <1>3, <1>6, <1>7, <1>10, <2>2, CallKeeps
<1>11. CASE f.kind = "stale_read" /\ Tell(t, "stale", f.value, <<e, v>>)
  <2>1. "stale" = OutcomeOf(f.kind)
    BY <1>11 DEF OutcomeOf
  <2>2. \A x \in Within(<<e, v>>) :
           /\ x.kind # "tool_attempt"
           /\ x.kind = "tool_fault" =>
                 /\ x.tool = t /\ x.number = Number(t)
                 /\ \E g \in FaultsOf(t) : "stale" = OutcomeOf(g.kind)
    BY <1>5, <1>8, <2>1
  <2> QED
    BY <1>1, <1>5, <1>6, <1>7, <1>11, <2>2, CallKeeps
<1> QED
  BY <1>9, <1>10, <1>11

\* The evidence of an execution, before what it is answered.
Evidence(t, w, raised) ==
    Precheck(t) \o (IF raised THEN <<Event("tool_error", t)>> ELSE <<>>)
      \o <<[kind |-> "tool_executed", tool |-> t, number |-> Number(t),
            changes |-> Changes(world, w),
            status |-> IF raised THEN "error" ELSE "completed"]>>

LEMMA EvidenceHolds ==
    ASSUME NEW t \in Requests, NEW w, NEW raised \in BOOLEAN
    PROVE  /\ IsSequence(Evidence(t, w, raised))
           /\ \A e \in Within(Evidence(t, w, raised)) :
                 e.kind \in {"precondition_failed", "tool_error", "tool_executed"}
           /\ Noted(Evidence(t, w, raised), "tool_executed", RefundTool)
                = IF t = RefundTool THEN 1 ELSE 0
           /\ Missed(t) # {} =>
                 \E e \in Within(Evidence(t, w, raised)) :
                    e.kind = "precondition_failed" /\ e.tool = t /\ e.missed = Missed(t)
<1> DEFINE x == [kind |-> "tool_executed", tool |-> t, number |-> Number(t),
                 changes |-> Changes(world, w),
                 status |-> IF raised THEN "error" ELSE "completed"]
           p == [kind |-> "precondition_failed", tool |-> t, number |-> Number(t),
                 missed |-> Missed(t)]
           r == Event("tool_error", t)
           R == IF raised THEN <<r>> ELSE <<>>
           P == Precheck(t)
           mid == P \o R
<1>1. Evidence(t, w, raised) = mid \o <<x>>
  BY DEF Evidence
<1>2. P = IF Missed(t) = {} THEN <<>> ELSE <<p>>
  BY DEF Precheck
<1>3. /\ x.kind = "tool_executed" /\ x.tool = t
      /\ p.kind = "precondition_failed" /\ p.tool = t /\ p.missed = Missed(t)
      /\ r.kind = "tool_error"
  BY DEF Event
<1> HIDE DEF x, p, r
<1>4. /\ IsSequence(<<x>>) /\ Within(<<x>>) = {x}
      /\ IsSequence(<<p>>) /\ Within(<<p>>) = {p}
      /\ IsSequence(<<r>>) /\ Within(<<r>>) = {r}
      /\ IsSequence(<<>>) /\ Within(<<>>) = {}
  BY Single, Nothing
<1>5. IsSequence(P) /\ Within(P) = (IF Missed(t) = {} THEN {} ELSE {p})
  BY <1>2, <1>4
<1>6. IsSequence(R) /\ Within(R) \subseteq {r}
  BY <1>4
<1> HIDE DEF P, R
<1>7. IsSequence(mid) /\ Within(mid) = Within(P) \cup Within(R)
  BY <1>5, <1>6, Followed, Joined
<1>8. Noted(mid, "tool_executed", RefundTool) = 0
  <2>1. \A e \in Within(mid) : e.kind # "tool_executed"
    BY <1>3, <1>5, <1>6, <1>7
  <2> QED
    BY <2>1, NoneCounted
<1> HIDE DEF mid
<1>9. /\ IsSequence(mid \o <<x>>)
      /\ Within(mid \o <<x>>) = Within(mid) \cup Within(<<x>>)
  BY <1>4, <1>7, Followed, Joined
<1>10. Noted(mid \o <<x>>, "tool_executed", RefundTool) = IF t = RefundTool THEN 1 ELSE 0
  <2>1. Noted(mid \o <<x>>, "tool_executed", RefundTool)
          = Noted(mid, "tool_executed", RefundTool) + Noted(<<x>>, "tool_executed", RefundTool)
    BY <1>4, <1>7, CountsAdd
  <2>2. Noted(<<x>>, "tool_executed", RefundTool) = IF t = RefundTool THEN 1 ELSE 0
    BY <1>3, SingleCounts
  <2> QED
    BY <1>8, <2>1, <2>2
<1>11. Within(mid \o <<x>>) = Within(P) \cup Within(R) \cup {x}
  BY <1>4, <1>7, <1>9
<1>12. \A e \in Within(mid \o <<x>>) :
          e.kind \in {"precondition_failed", "tool_error", "tool_executed"}
  BY <1>3, <1>5, <1>6, <1>11
<1>13. Missed(t) # {} =>
          \E e \in Within(mid \o <<x>>) :
             e.kind = "precondition_failed" /\ e.tool = t /\ e.missed = Missed(t)
  BY <1>3, <1>5, <1>11
<1> QED
  BY <1>1, <1>9, <1>10, <1>12, <1>13

\* A call whose handler is started leaves its execution, and a fault only if its
\* response is lost.
LEMMA ExecutesKeeps ==
    ASSUME RefundInv, NEW t \in Requests, NEW w, NEW value, NEW raised \in BOOLEAN,
           Executes(t, w, value, raised)
    PROVE  RefundInv'
<1> DEFINE ev == Evidence(t, w, raised)
           l == Event("tool_fault", t)
           v == Event("tool_observation", t)
<1>1. /\ run # NoRun /\ result = NoResult /\ UNCHANGED <<run, result>>
      /\ ran' = IF t = RefundTool THEN Append(ran, world) ELSE ran
      /\ IF raised THEN Tell(t, "error", NoDocument, ev)
         ELSE IF Has(t, "response_lost_after_commit")
         THEN Tell(t, "lost", NoDocument, Append(ev, l))
         ELSE Tell(t, "result", value, Append(ev, v))
  BY DEF Executes, Ready, Evidence
<1>2. /\ IsSequence(ev)
      /\ \A e \in Within(ev) : e.kind \in {"precondition_failed", "tool_error", "tool_executed"}
      /\ Noted(ev, "tool_executed", RefundTool) = IF t = RefundTool THEN 1 ELSE 0
      /\ Missed(t) # {} =>
            \E e \in Within(ev) :
               e.kind = "precondition_failed" /\ e.tool = t /\ e.missed = Missed(t)
  BY EvidenceHolds
<1> HIDE DEF ev
<1>3. /\ l.kind = "tool_fault" /\ l.tool = t /\ l.number = Number(t)
      /\ v.kind = "tool_observation"
  BY DEF Event
<1> HIDE DEF l, v
<1>4. result.status # "pass"
  BY <1>1 DEF NoResult
<1>5. ASSUME NEW z, z.kind # "tool_executed"
      PROVE  /\ IsSequence(Append(ev, z))
             /\ Within(Append(ev, z)) = Within(ev) \cup {z}
             /\ Noted(Append(ev, z), "tool_executed", RefundTool)
                  = IF t = RefundTool THEN 1 ELSE 0
  <2>1. Append(ev, z) = ev \o <<z>> /\ IsSequence(<<z>>) /\ Within(<<z>>) = {z}
    BY <1>2, OneMore, Single
  <2>2. IsSequence(ev \o <<z>>) /\ Within(ev \o <<z>>) = Within(ev) \cup Within(<<z>>)
    BY <1>2, <2>1, Followed, Joined
  <2>3. Noted(ev \o <<z>>, "tool_executed", RefundTool)
          = Noted(ev, "tool_executed", RefundTool) + Noted(<<z>>, "tool_executed", RefundTool)
    BY <1>2, <2>1, CountsAdd
  <2>4. Noted(<<z>>, "tool_executed", RefundTool) = 0
    BY <1>5, SingleCounts
  <2>5. Noted(ev \o <<z>>, "tool_executed", RefundTool) = IF t = RefundTool THEN 1 ELSE 0
    BY <1>2, <2>3, <2>4
  <2> QED
    BY <2>1, <2>2, <2>5, Zenon
<1>6. ASSUME NEW events, IsSequence(events), NEW outcome, NEW answer,
             Tell(t, outcome, answer, events),
             \A e \in Within(ev) : e \in Within(events),
             \A e \in Within(events) : e \in Within(ev) \/ e = l \/ e = v,
             l \in Within(events) =>
                \E f \in FaultsOf(t) : outcome = OutcomeOf(f.kind),
             Noted(events, "tool_executed", RefundTool) = IF t = RefundTool THEN 1 ELSE 0
      PROVE  RefundInv'
  <2>1. \A e \in Within(events) :
           /\ e.kind # "tool_attempt"
           /\ e.kind = "tool_fault" =>
                 /\ e.tool = t /\ e.number = Number(t)
                 /\ \E f \in FaultsOf(t) : outcome = OutcomeOf(f.kind)
    BY <1>2, <1>3, <1>6
  <2>2. \/ ran' = ran /\ Noted(events, "tool_executed", RefundTool) = 0
        \/ /\ ran' = Append(ran, world) /\ t = RefundTool
           /\ Noted(events, "tool_executed", RefundTool) = 1
           /\ Missed(t) # {} =>
                 \E e \in Within(events) :
                    e.kind = "precondition_failed" /\ e.tool = t /\ e.missed = Missed(t)
    BY <1>1, <1>2, <1>6
  <2> QED
    BY <1>1, <1>4, <1>6, <2>1, <2>2, CallKeeps
<1>7. CASE raised
  <2>1. Tell(t, "error", NoDocument, ev)
    BY <1>1, <1>7
  <2>2. l \notin Within(ev)
    BY <1>2, <1>3
  <2> QED
    BY <1>2, <1>6, <2>1, <2>2
<1>8. CASE ~raised /\ Has(t, "response_lost_after_commit")
  <2>1. Tell(t, "lost", NoDocument, Append(ev, l))
    BY <1>1, <1>8
  <2>2. \E f \in FaultsOf(t) : "lost" = OutcomeOf(f.kind)
    BY <1>8 DEF Has, OutcomeOf
  <2>3. l.kind # "tool_executed"
    BY <1>3
  <2>4. /\ IsSequence(Append(ev, l)) /\ Within(Append(ev, l)) = Within(ev) \cup {l}
        /\ Noted(Append(ev, l), "tool_executed", RefundTool) = IF t = RefundTool THEN 1 ELSE 0
    BY <1>5, <2>3
  <2> QED
    BY <1>6, <2>1, <2>2, <2>4
<1>9. CASE ~raised /\ ~Has(t, "response_lost_after_commit")
  <2>1. Tell(t, "result", value, Append(ev, v))
    BY <1>1, <1>9
  <2>2. v.kind # "tool_executed"
    BY <1>3
  <2>3. /\ IsSequence(Append(ev, v)) /\ Within(Append(ev, v)) = Within(ev) \cup {v}
        /\ Noted(Append(ev, v), "tool_executed", RefundTool) = IF t = RefundTool THEN 1 ELSE 0
    BY <1>5, <2>2
  <2>4. l \notin Within(Append(ev, v))
    BY <1>2, <1>3, <2>3
  <2> QED
    BY <1>6, <2>1, <2>3, <2>4
<1> QED
  BY <1>7, <1>8, <1>9

-----------------------------------------------------------------------------
\* What is chosen, and the invariant in every behaviour.

\* A run is one of what was loaded.
RunIsChosen ==
    /\ run # NoRun => /\ run.submission \in DOMAIN Submissions
                      /\ run.case \in DOMAIN Submitted.cases
                      /\ run.endpoint \in Endpoints
    /\ result.status \in {"none", "refused", "pass", "fail", "error"}
    /\ result.status = "refused" => run = NoRun
    /\ Judged => run # NoRun
    /\ result # NoResult => result.status # "none"

LEMMA RunIsChosenInit == Init => RunIsChosen
  BY DEF Init, RunIsChosen, NoResult, Judged

LEMMA CallsKeepRun ==
    ASSUME NEW t, \/ Reject(t) \/ Intercept(t) \/ Look(t) \/ IssueRefund
    PROVE  UNCHANGED <<run, result>> /\ run # NoRun /\ result = NoResult
  BY DEF Reject, Intercept, Look, IssueRefund, Executes, Ready

LEMMA RunIsChosenNext == RunIsChosen /\ [Next]_vars => RunIsChosen'
<1> SUFFICES ASSUME RunIsChosen, [Next]_vars PROVE RunIsChosen'
  OBVIOUS
<1>1. CASE UNCHANGED <<run, result>>
  BY <1>1 DEF RunIsChosen, Submitted, Judged
<1>2. ASSUME NEW n \in DOMAIN Submissions, Refuse(n)
      PROVE  RunIsChosen'
  BY <1>2 DEF Refuse, RunIsChosen, NoResult, Judged
<1>3. ASSUME NEW n \in DOMAIN Submissions, NEW k \in DOMAIN Submissions[n].cases,
             NEW pair \in Submissions[n].runs, Begin(n, k, pair)
      PROVE  RunIsChosen'
  <2>1. pair[2] \in Endpoints
    BY SubmissionsLoaded
  <2>2. /\ run' = [submission |-> n, case |-> k, driver |-> pair[1], endpoint |-> pair[2]]
        /\ result = NoResult /\ result' = result
    BY <1>3 DEF Begin
  <2> QED
    BY <2>1, <2>2 DEF RunIsChosen, Submitted, Judged, NoResult
<1>4. ASSUME NEW d \in Decisions, End(d)
      PROVE  RunIsChosen'
  BY <1>4 DEF End, RunIsChosen, Submitted, Judged, NoResult
<1>5. CASE \E t \in Requests : Reject(t) \/ Intercept(t) \/ Look(t)
  BY <1>1, <1>5, CallsKeepRun
<1>6. CASE IssueRefund
  BY <1>1, <1>6, CallsKeepRun
<1>7. CASE UNCHANGED vars
  BY <1>1, <1>7 DEF vars
<1> QED
  BY <1>2, <1>3, <1>4, <1>5, <1>6, <1>7 DEF Next

\* What fails is a Boolean.
LEMMA EffectRaises ==
    ASSUME RunIsChosen, run # NoRun
    PROVE  RefundEffect.raised \in BOOLEAN
<1>1. run.endpoint \in Endpoints
  BY DEF RunIsChosen
<1>2. \A w : Leaves(w).raised \in BOOLEAN
  BY DEF Leaves
<1>3. CASE RefundCount \notin DOMAIN world
  BY <1>3 DEF RefundEffect
<1>4. CASE RefundCount \in DOMAIN world
  BY <1>1, <1>2, <1>4 DEF RefundEffect, Endpoints
<1> QED
  BY <1>3, <1>4

\* Before the first call.
NothingYet == log = <<>> /\ told = <<>> /\ ran = <<>> /\ result.status # "pass"

LEMMA EmptyRun == NothingYet => RefundInv
<1> SUFFICES ASSUME NothingYet PROVE RefundInv
  OBVIOUS
<1> USE DEF NothingYet
<1>1. IsSequence(<<>>) /\ Within(<<>>) = {}
  BY Nothing
<1>2. Noted(<<>>, "tool_executed", RefundTool) = 0 /\ Seen(<<>>, "tool_attempt") = 0
  BY <1>1, NoneCounted
<1>3. \A t : Noted(<<>>, "tool_attempt", t) = 0
  BY <1>1, NoneCounted
<1>4. \A t : Asked(<<>>, t) = 0
  <2>1. \A t : {i \in DOMAIN <<>> : (<<>>)[i].tool = t} = {}
    OBVIOUS
  <2> QED
    BY <2>1, FS_EmptySet DEF Asked
<1>5. Len(<<>>) = 0 /\ DOMAIN <<>> = {}
  OBVIOUS
<1>6. CountsAgree
  BY <1>2, <1>3, <1>4, <1>5 DEF CountsAgree
<1>7. FaultsAreMet /\ MissesAreLogged /\ PassesFindNothing
  BY <1>1, <1>5 DEF FaultsAreMet, MissesAreLogged, PassesFindNothing
<1> QED
  BY <1>1, <1>6, <1>7 DEF RefundInv

LEMMA RefundInvInit == Init => RefundInv
<1> SUFFICES ASSUME Init PROVE RefundInv
  OBVIOUS
<1>1. NothingYet
  BY DEF Init, NoResult, NothingYet
<1> QED
  BY <1>1, EmptyRun

LEMMA BeginKeeps ==
    ASSUME RefundInv, NEW n \in DOMAIN Submissions, NEW k \in DOMAIN Submissions[n].cases,
           NEW pair \in Submissions[n].runs, Begin(n, k, pair)
    PROVE  RefundInv'
<1>1. NothingYet'
  BY DEF Begin, RefundInv, NoRun, NoResult, NothingYet
<1> QED
  BY <1>1, EmptyRun, PTL

\* The invariant does not depend on a result that is no pass.
LEMMA EndKeeps ==
    ASSUME RefundInv, UNCHANGED <<run, world, log, told, ran>>,
           result'.status = "pass" => Findings = {}
    PROVE  RefundInv'
<1>1. IsSequence(log)' /\ IsSequence(told)' /\ IsSequence(ran)'
  BY DEF RefundInv
<1>2. CountsAgree'
  BY DEF RefundInv, CountsAgree
<1>3. FaultsAreMet'
  <2>1. Case' = Case /\ log' = log
    BY DEF Case, Submitted
  <2>2. \A f : Met(f) => Met(f)'
    BY DEF Met
  <2>3. FaultsAreMet
    BY DEF RefundInv
  <2> HIDE DEF Case
  <2> QED
    BY <2>1, <2>2, <2>3 DEF FaultsAreMet
<1>4. MissesAreLogged'
  BY DEF RefundInv, MissesAreLogged, Case, Submitted, MissedIn
<1>5. Findings' = Findings
  BY DEF Findings, Found, Case, Submitted
<1>6. PassesFindNothing'
  BY <1>5 DEF PassesFindNothing
<1>7. (run = NoRun => log = <<>> /\ told = <<>> /\ ran = <<>>)'
  BY DEF RefundInv
<1> QED
  BY <1>1, <1>2, <1>3, <1>4, <1>6, <1>7 DEF RefundInv

LEMMA RefundInvNext == RunIsChosen /\ RefundInv /\ [Next]_vars => RefundInv'
<1> SUFFICES ASSUME RunIsChosen, RefundInv, [Next]_vars PROVE RefundInv'
  OBVIOUS
<1>1. ASSUME NEW n \in DOMAIN Submissions, Refuse(n)
      PROVE  RefundInv'
  <2>1. UNCHANGED <<run, world, log, told, ran>> /\ result'.status = "refused"
    BY <1>1 DEF Refuse
  <2> QED
    BY <2>1, EndKeeps
<1>2. ASSUME NEW n \in DOMAIN Submissions, NEW k \in DOMAIN Submissions[n].cases,
             NEW pair \in Submissions[n].runs, Begin(n, k, pair)
      PROVE  RefundInv'
  BY <1>2, BeginKeeps
<1>3. ASSUME NEW t \in Requests, Look(t)
      PROVE  RefundInv'
  <2>1. Executes(t, world, Select(world, IF t = ReadTool THEN Order ELSE <<"caller">>), FALSE)
    BY <1>3 DEF Look
  <2>2. FALSE \in BOOLEAN
    OBVIOUS
  <2> QED
    BY ONLY RefundInv, <2>1, <2>2, ExecutesKeeps, t \in Requests
<1>4. CASE IssueRefund
  <2>1. run # NoRun
    BY <1>4, CallsKeepRun
  <2>2. RefundEffect.raised \in BOOLEAN
    BY <2>1, EffectRaises
  <2>3. Executes(RefundTool, RefundEffect.world, Receipt, RefundEffect.raised)
    BY <1>4 DEF IssueRefund
  <2>4. RefundTool \in Requests
    BY DEF Requests, PackTools
  <2> QED
    BY ONLY RefundInv, <2>2, <2>3, <2>4, ExecutesKeeps
<1>5. ASSUME NEW d \in Decisions, End(d)
      PROVE  RefundInv'
  <2>1. UNCHANGED <<run, world, log, told, ran>>
    BY <1>5 DEF End
  <2>2. result'.status = "pass" => Findings = {}
    BY <1>5 DEF End
  <2> QED
    BY <2>1, <2>2, EndKeeps
<1>6. CASE UNCHANGED vars
  <2>1. UNCHANGED <<run, world, log, told, ran, result>>
    BY <1>6 DEF vars
  <2>2. result'.status = "pass" => Findings = {}
    BY <2>1 DEF RefundInv, PassesFindNothing
  <2> QED
    BY <2>1, <2>2, EndKeeps
<1>7. ASSUME NEW t \in Requests, Reject(t) \/ Intercept(t)
      PROVE  RefundInv'
  BY <1>7, RejectKeeps, InterceptKeeps
<1> QED
  BY <1>1, <1>2, <1>3, <1>4, <1>5, <1>6, <1>7 DEF Next

\* In every behaviour.
LEMMA RefundInvariant == Spec => [](RunIsChosen /\ RefundInv)
<1>1. Init => RunIsChosen /\ RefundInv
  BY RunIsChosenInit, RefundInvInit
<1>2. RunIsChosen /\ RefundInv /\ [Next]_vars => (RunIsChosen /\ RefundInv)'
  BY RunIsChosenNext, RefundInvNext
<1> QED
  BY <1>1, <1>2, PTL DEF Spec

-----------------------------------------------------------------------------
\* What an assertion that finds nothing says.

LEMMA NoFailure == \A a, seq : Failure(a, seq) # {}
  BY DEF Failure

LEMMA CountHolds ==
    ASSUME NEW tool, NEW count, NEW kind, NEW found, NEW faults, NEW s,
           Evaluate(ToolCallCount(tool, count, kind), found, faults, s) = {}
    PROVE  Noted(s, kind, tool) = count
<1> DEFINE a == ToolCallCount(tool, count, kind)
<1>1. a.type = "count" /\ a.tool = tool /\ a.count = count /\ a.kind = kind
  BY DEF ToolCallCount
<1> HIDE DEF a
<1>2. CountFinding(a, s) = {}
  BY <1>1 DEF Evaluate, a
<1> QED
  BY <1>1, <1>2, NoFailure DEF CountFinding, Noted

LEMMA StateHolds ==
    ASSUME NEW path, NEW value, NEW faults, NEW s,
           Evaluate(StateEquals(path, value), Found(StateEquals(path, value)), faults, s) = {}
    PROVE  Value(world, path) = value
<1> DEFINE a == StateEquals(path, value)
<1>1. a.type = "state" /\ a.path = path /\ a.value = value
  BY DEF StateEquals
<1> HIDE DEF a
<1>2. StateFinding(a, Found(a), s) = {}
  BY <1>1 DEF Evaluate, a
<1>3. Found(a) = {a.value}
  BY <1>2, NoFailure DEF StateFinding
<1>4. path \in DOMAIN world /\ Select(world, path) = value
  BY <1>1, <1>3 DEF Found
<1> QED
  BY <1>4 DEF Value

LEMMA PreconditionHolds ==
    ASSUME NEW q, q.type = "precondition", NEW found, NEW faults, NEW s,
           Evaluate(q, found, faults, s) = {}
    PROVE  ~MissedIn(s, q)
<1>1. PreconditionFinding(q, s) = {}
  BY DEF Evaluate
<1>2. {i \in Positions(s, "precondition_failed", q.tool) :
          \E m \in s[i].missed : m.path = q.path} = {}
  BY <1>1, NoFailure DEF PreconditionFinding
<1> QED
  BY <1>2 DEF MissedIn, Within, Positions

LEMMA FaultHolds ==
    ASSUME NEW f, NEW found, NEW faults, NEW s,
           Evaluate(FaultTriggered(f), found, faults, s) = {}
    PROVE  \E e \in Within(s) : e.kind = "tool_fault" /\ e.tool = f.tool /\ e.number = f.on_call
<1> DEFINE a == FaultTriggered(f)
<1>1. a.type = "fault" /\ a.fault = f
  BY DEF FaultTriggered
<1> HIDE DEF a
<1>2. FaultFinding(a, faults, s) = {}
  BY <1>1 DEF Evaluate, a
<1>3. f \in Injected(faults, s)
  BY <1>1, <1>2, NoFailure DEF FaultFinding
<1> QED
  BY <1>3 DEF Injected, Positions, Within

\* A case has one fault for a call at most: prepare_case has seen to it.
LEMMA OneFaultPerCall ==
    ASSUME RunIsChosen, run # NoRun,
           NEW f \in ToSet(Case.faults), NEW g \in ToSet(Case.faults),
           f.tool = g.tool, f.on_call = g.on_call
    PROVE  f = g
<1> DEFINE s == Expanded(Submitted)
<1>1. run.submission \in DOMAIN Submissions /\ run.case \in DOMAIN Submitted.cases
  BY DEF RunIsChosen
<1>2. Submitted.cases # <<>>
  <2>1. DOMAIN <<>> = {}
    OBVIOUS
  <2> QED
    BY <1>1, <2>1
<1>3. Accepted(Submitted) /\ Submitted.cases = CasesOf(s)
  BY <1>1, <1>2, SubmissionsLoaded DEF Submitted
<1>4. Prepared(s)
  BY <1>3 DEF Accepted, MatrixAccepted, Expanded
<1> HIDE DEF s
<1>5. CaseValid(s, Case)
  BY <1>1, <1>3, <1>4 DEF Prepared, Case
<1> HIDE DEF Case
<1>6. \A n, k \in DOMAIN Case.faults :
          Case.faults[n].tool = Case.faults[k].tool
            /\ Case.faults[n].on_call = Case.faults[k].on_call => n = k
  BY <1>5 DEF CaseValid, FaultsValid
<1>7. PICK n, k \in DOMAIN Case.faults : f = Case.faults[n] /\ g = Case.faults[k]
  BY DEF ToSet
<1> QED
  BY <1>6, <1>7

\* What the assertions of a passed case say, taken together.
LEMMA PassIsPolicy ==
    ASSUME RunIsChosen, RefundInv
    PROVE  PassMeansPolicy
<1> SUFFICES ASSUME result.status = "pass", Submitted.kind = "pack"
             PROVE  /\ Len(ran) = IF MustRefund THEN 1 ELSE 0
                    /\ \A n \in DOMAIN ran : Allowed(ran[n])
                    /\ Value(world, RefundCount) =
                          IF MustRefund THEN Scalar("1") ELSE Value(Case.state, RefundCount)
                    /\ \A f \in ToSet(Case.faults) : Met(f)
  BY DEF PassMeansPolicy
<1> DEFINE final == IF MustRefund THEN Scalar("1") ELSE Value(Case.state, RefundCount)
           times == IF MustRefund THEN 1 ELSE 0
           Before(path, value) ==
               ToolPrecondition([tool |-> RefundTool, path |-> path, value |-> value])
<1>1. run # NoRun
  BY DEF RunIsChosen, Judged
<1>2. run.submission \in DOMAIN Submissions /\ run.case \in DOMAIN Submitted.cases
  BY <1>1 DEF RunIsChosen
<1>3. AssertsPolicy(Case)
  BY <1>2, PackAsserts DEF Case, Submitted
<1>4. \A a \in Case.assertions : Evaluate(a, Found(a), ToSet(Case.faults), log) = {}
  <2>1. Findings = {}
    BY DEF RefundInv, PassesFindNothing
  <2> QED
    BY <2>1 DEF Findings
<1>5. /\ StateEquals(RefundCount, final) \in Case.assertions
      /\ ToolCallCount(RefundTool, times, "tool_executed") \in Case.assertions
      /\ Before(Verified, Scalar("true")) \in Case.assertions
      /\ Before(OrderStatus, Scalar("delivered")) \in Case.assertions
      /\ Before(RefundCount, Scalar("0")) \in Case.assertions
      /\ \E owner : /\ Before(CallerId, owner) \in Case.assertions
                    /\ Before(OwnerId, owner) \in Case.assertions
      /\ \A f \in ToSet(Case.faults) : FaultTriggered(f) \in Case.assertions
  BY <1>3 DEF AssertsPolicy, MustRefund
<1> HIDE DEF final, times
<1>6. Len(ran) = times
  <2>1. Noted(log, "tool_executed", RefundTool) = times
    BY <1>4, <1>5, CountHolds
  <2> QED
    BY <2>1 DEF RefundInv, CountsAgree
<1>7. Value(world, RefundCount) = final
  BY <1>4, <1>5, StateHolds
<1>8. ASSUME NEW path, NEW value, Before(path, value) \in Case.assertions,
             NEW n \in DOMAIN ran
      PROVE  Value(ran[n], path) = value
  <2> DEFINE q == Before(path, value)
  <2>1. /\ q.type = "precondition" /\ q.tool = RefundTool
        /\ q.path = path /\ q.value = value
    BY DEF ToolPrecondition
  <2>2. q \in Case.assertions
    BY <1>8
  <2> HIDE DEF q
  <2>3. ~MissedIn(log, q)
    BY <1>4, <2>1, <2>2, PreconditionHolds
  <2>4. Holds(ran[n], q)
    BY <2>1, <2>2, <2>3 DEF RefundInv, MissesAreLogged
  <2> QED
    BY <2>1, <2>4 DEF Holds, Value
<1> HIDE DEF Before
<1>9. ASSUME NEW n \in DOMAIN ran
      PROVE  Allowed(ran[n])
  <2>1. Value(ran[n], Verified) = Scalar("true")
    BY <1>5, <1>8
  <2>2. Value(ran[n], OrderStatus) = Scalar("delivered")
    BY <1>5, <1>8
  <2>3. Value(ran[n], RefundCount) = Scalar("0")
    BY <1>5, <1>8
  <2>4. Value(ran[n], CallerId) = Value(ran[n], OwnerId)
    BY <1>5, <1>8
  <2> QED
    BY <2>1, <2>2, <2>3, <2>4 DEF Allowed
<1>10. ASSUME NEW f \in ToSet(Case.faults)
       PROVE  Met(f)
  <2>1. FaultTriggered(f) \in Case.assertions
    BY <1>5
  <2>2. PICK e \in Within(log) : /\ e.kind = "tool_fault" /\ e.tool = f.tool
                                 /\ e.number = f.on_call
    BY <1>4, <2>1, FaultHolds
  <2>3. PICK g \in ToSet(Case.faults) : g.tool = e.tool /\ g.on_call = e.number /\ Met(g)
    BY <2>2 DEF RefundInv, FaultsAreMet
  <2>4. g = f
    BY <1>1, <2>2, <2>3, OneFaultPerCall
  <2> QED
    BY <2>3, <2>4
<1> QED
  BY <1>6, <1>7, <1>9, <1>10 DEF final, times

\* A pass of a case of the pack means that the policy was kept, whatever the
\* agent, its refund service and the faults did (run_scenario's verdict, with
\* the assertions of refund_scenario and with_fault_matrix).
THEOREM PassKeepsPolicy == Spec => []PassMeansPolicy
<1>1. RunIsChosen /\ RefundInv => PassMeansPolicy
  BY PassIsPolicy
<1> QED
  BY <1>1, RefundInvariant, PTL

-----------------------------------------------------------------------------
\* Paths of documents.  Under(p, q): q is p or below it; Rest(p, q) is then the
\* way from p to q.

Under(p, q) == Len(p) <= Len(q) /\ \A i \in 1..Len(p) : p[i] = q[i]
Rest(p, q) == SubSeq(q, Len(p) + 1, Len(q))

LEMMA RestOfPath ==
    ASSUME NEW K, NEW p \in Seq(K), NEW q \in Seq(K), Under(p, q)
    PROVE  /\ Rest(p, q) \in Seq(K) /\ Len(Rest(p, q)) = Len(q) - Len(p)
           /\ \A i \in 1..Len(Rest(p, q)) : Rest(p, q)[i] = q[Len(p) + i]
           /\ p \o Rest(p, q) = q
<1> DEFINE m == Len(p) + 1
           n == Len(q)
<1>1. m \in Int /\ n \in Int /\ Len(p) \in Nat /\ Len(q) \in Nat /\ Len(p) <= Len(q)
  BY DEF Under
<1>2. \A i \in m..n : q[i] \in K
  OBVIOUS
<1>3. /\ SubSeq(q, m, n) \in Seq(K)
      /\ Len(SubSeq(q, m, n)) = IF m <= n THEN n - m + 1 ELSE 0
      /\ \A i \in 1..n - m + 1 : SubSeq(q, m, n)[i] = q[m + i - 1]
  <2> HIDE DEF m, n
  <2> QED
    BY <1>1, <1>2, SubSeqProperties
<1>4. Len(SubSeq(q, m, n)) = Len(q) - Len(p)
  BY <1>1, <1>3
<1>5. \A i \in 1..Len(SubSeq(q, m, n)) : SubSeq(q, m, n)[i] = q[Len(p) + i]
  <2> SUFFICES ASSUME NEW i \in 1..(Len(q) - Len(p))
               PROVE  SubSeq(q, m, n)[i] = q[Len(p) + i]
    BY <1>4
  <2>1. i \in 1..n - m + 1 /\ m + i - 1 = Len(p) + i
    BY <1>1
  <2> QED
    BY <1>3, <2>1
<1> DEFINE r == SubSeq(q, m, n)
<1> HIDE DEF r
<1>6. r \in Seq(K) /\ Len(r) = Len(q) - Len(p) /\ \A i \in 1..Len(r) : r[i] = q[Len(p) + i]
  BY <1>3, <1>4, <1>5 DEF r
<1>7. p \o r \in Seq(K) /\ Len(p \o r) = Len(q)
  BY <1>1, <1>6
<1>8. \A i \in 1..Len(q) : (p \o r)[i] = q[i]
  <2> SUFFICES ASSUME NEW i \in 1..Len(q) PROVE (p \o r)[i] = q[i]
    OBVIOUS
  <2>1. CASE i <= Len(p)
    BY <1>1, <1>6, <2>1 DEF Under
  <2>2. CASE i > Len(p)
    <3>1. i - Len(p) \in 1..Len(r) /\ Len(p) + (i - Len(p)) = i
      BY <1>1, <1>6, <2>2
    <3>2. (p \o r)[i] = r[i - Len(p)]
      BY <1>1, <1>6, <2>2
    <3> QED
      BY <1>6, <3>1, <3>2
  <2>3. i <= Len(p) \/ i > Len(p)
    BY <1>1
  <2> QED
    BY <2>1, <2>2, <2>3, Zenon
<1>9. p \o r = q
  BY <1>7, <1>8, SeqEqual
<1> QED
  BY <1>6, <1>9 DEF r, Rest

LEMMA PathBelow ==
    ASSUME NEW K, NEW p \in Seq(K), NEW r \in Seq(K)
    PROVE  p \o r \in Seq(K) /\ Under(p, p \o r) /\ Rest(p, p \o r) = r
<1>1. p \o r \in Seq(K) /\ Len(p \o r) = Len(p) + Len(r) /\ Len(p) \in Nat /\ Len(r) \in Nat
  OBVIOUS
<1>2. Under(p, p \o r)
  BY <1>1 DEF Under
<1> DEFINE q == p \o r
           s == Rest(p, q)
<1>3. s \in Seq(K) /\ Len(s) = Len(r) /\ \A i \in 1..Len(s) : s[i] = q[Len(p) + i]
  <2>1. q \in Seq(K) /\ Under(p, q) /\ Len(q) = Len(p) + Len(r)
    BY <1>1, <1>2
  <2> HIDE DEF q
  <2> QED
    BY <1>1, <2>1, RestOfPath
<1>4. \A i \in 1..Len(r) : q[Len(p) + i] = r[i]
  BY <1>1
<1> HIDE DEF s, q
<1>5. s = r
  BY <1>3, <1>4, SeqEqual
<1> QED
  BY <1>1, <1>2, <1>5 DEF s, q

LEMMA NoWay ==
    ASSUME NEW K, NEW p \in Seq(K)
    PROVE  p \o <<>> = p /\ Under(p, p) /\ Rest(p, p) = <<>> /\ <<>> \in Seq(K)
<1>1. p \o <<>> = p /\ <<>> \in Seq(K)
  BY ConcatEmptySeq
<1>2. Under(p, p \o <<>>) /\ Rest(p, p \o <<>>) = <<>>
  BY <1>1, PathBelow
<1> QED
  BY <1>1, <1>2

LEMMA PrefixIsUnder ==
    ASSUME NEW K, NEW p \in Seq(K), NEW q \in Seq(K)
    PROVE  IsPrefix(p, q) <=> Under(p, q)
<1>1. Len(p) \in Nat /\ Len(q) \in Nat /\ SubSeq(p, 1, Len(p)) = p
  BY SubSeqFull
<1>2. CASE Len(p) <= Len(q)
  <2>1. /\ SubSeq(q, 1, Len(p)) \in Seq(K) /\ Len(SubSeq(q, 1, Len(p))) = Len(p)
        /\ \A i \in 1..Len(p) : SubSeq(q, 1, Len(p))[i] = q[i]
    <3>1. \A i \in 1..Len(p) : q[i] \in K
      BY <1>1, <1>2
    <3>2. 1 \in Int /\ Len(p) \in Int
      BY <1>1
    <3>3. /\ SubSeq(q, 1, Len(p)) \in Seq(K)
          /\ Len(SubSeq(q, 1, Len(p))) = IF 1 <= Len(p) THEN Len(p) - 1 + 1 ELSE 0
          /\ \A i \in 1..Len(p) - 1 + 1 : SubSeq(q, 1, Len(p))[i] = q[1 + i - 1]
      BY <3>1, <3>2, SubSeqProperties
    <3> QED
      BY <1>1, <3>3
  <2>2. p = SubSeq(q, 1, Len(p)) <=> \A i \in 1..Len(p) : p[i] = q[i]
    BY <2>1, SeqEqual
  <2> QED
    BY <1>1, <1>2, <2>2 DEF IsPrefix, Under
<1>3. CASE ~(Len(p) <= Len(q))
  BY <1>3 DEF IsPrefix, Under
<1> QED
  BY <1>2, <1>3

LEMMA AncestorIsUnder ==
    ASSUME NEW K, NEW p \in Seq(K)
    PROVE  /\ \A q \in Ancestors(p) : q \in Seq(K) /\ Under(q, p) /\ Len(q) < Len(p)
           /\ \A q \in Seq(K) : Under(q, p) /\ Len(q) < Len(p) => q \in Ancestors(p)
<1>1. ASSUME NEW n \in 0..Len(p) - 1
      PROVE  /\ SubSeq(p, 1, n) \in Seq(K) /\ Len(SubSeq(p, 1, n)) = n
             /\ \A i \in 1..n : SubSeq(p, 1, n)[i] = p[i]
  <2>1. \A i \in 1..n : p[i] \in K
    OBVIOUS
  <2>2. 1 \in Int /\ n \in Int
    OBVIOUS
  <2>3. /\ SubSeq(p, 1, n) \in Seq(K)
        /\ Len(SubSeq(p, 1, n)) = IF 1 <= n THEN n - 1 + 1 ELSE 0
        /\ \A i \in 1..n - 1 + 1 : SubSeq(p, 1, n)[i] = p[1 + i - 1]
    BY <2>1, <2>2, SubSeqProperties
  <2> QED
    BY <2>3
<1>2. \A q \in Ancestors(p) : q \in Seq(K) /\ Under(q, p) /\ Len(q) < Len(p)
  BY <1>1 DEF Ancestors, Under
<1>3. ASSUME NEW q \in Seq(K), Under(q, p), Len(q) < Len(p)
      PROVE  q \in Ancestors(p)
  <2>1. Len(q) \in 0..Len(p) - 1
    BY <1>3
  <2>2. q = SubSeq(p, 1, Len(q))
    BY <1>1, <1>3, <2>1, SeqEqual DEF Under
  <2> QED
    BY <2>1, <2>2 DEF Ancestors
<1> QED
  BY <1>2, <1>3

-----------------------------------------------------------------------------
\* Documents whose keys are in K.

Plain(K, d) == IsDocument(d) /\ DOMAIN d \subseteq Seq(K)

\* How the ways from a path compare: two paths to the same place are one above
\* the other, and nothing above p is below it.
LEMMA UnderFacts ==
    ASSUME NEW K, NEW p \in Seq(K), NEW q \in Seq(K), NEW r \in Seq(K)
    PROVE  /\ Under(p, p)
           /\ Under(p, q) /\ Under(q, r) => Under(p, r)
           /\ Under(p, r) /\ Under(q, r) => Under(p, q) \/ Under(q, p)
           /\ Under(p, q) /\ Len(q) <= Len(p) => p = q
           /\ <<>> \in Seq(K) /\ Under(<<>>, p) /\ (Under(p, <<>>) => p = <<>>)
<1>1. Len(p) \in Nat /\ Len(q) \in Nat /\ Len(r) \in Nat
  OBVIOUS
<1>2. Under(p, p)
  BY <1>1 DEF Under
<1>3. Under(p, q) /\ Under(q, r) => Under(p, r)
  <2> SUFFICES ASSUME Under(p, q), Under(q, r), NEW i \in 1..Len(p)
               PROVE  Len(p) <= Len(r) /\ p[i] = r[i]
    BY <1>1 DEF Under
  <2>1. Len(p) <= Len(q) /\ Len(q) <= Len(r)
    BY DEF Under
  <2>2. i \in 1..Len(q)
    BY <1>1, <2>1
  <2>3. p[i] = q[i] /\ q[i] = r[i]
    BY <2>2 DEF Under
  <2> QED
    BY <1>1, <2>1, <2>3
<1>4. Under(p, r) /\ Under(q, r) => Under(p, q) \/ Under(q, p)
  <2> SUFFICES ASSUME Under(p, r), Under(q, r)
               PROVE  Under(p, q) \/ Under(q, p)
    OBVIOUS
  <2>1. CASE Len(p) <= Len(q)
    <3>1. \A i \in 1..Len(p) : i \in 1..Len(q)
      BY <1>1, <2>1
    <3>2. \A i \in 1..Len(p) : p[i] = r[i] /\ q[i] = r[i]
      BY <3>1 DEF Under
    <3> QED
      BY <2>1, <3>2 DEF Under
  <2>2. CASE Len(q) <= Len(p)
    <3>1. \A i \in 1..Len(q) : i \in 1..Len(p)
      BY <1>1, <2>2
    <3>2. \A i \in 1..Len(q) : q[i] = r[i] /\ p[i] = r[i]
      BY <3>1 DEF Under
    <3> QED
      BY <2>2, <3>2 DEF Under
  <2> QED
    BY <1>1, <2>1, <2>2
<1>5. Under(p, q) /\ Len(q) <= Len(p) => p = q
  <2> SUFFICES ASSUME Under(p, q), Len(q) <= Len(p) PROVE p = q
    OBVIOUS
  <2>1. Len(p) = Len(q) /\ \A i \in 1..Len(p) : p[i] = q[i]
    BY <1>1 DEF Under
  <2> QED
    BY <2>1, SeqEqual
<1>6. <<>> \in Seq(K) /\ Under(<<>>, p)
  <2>1. <<>> \in Seq(K) /\ Len(<<>>) = 0
    OBVIOUS
  <2> QED
    BY <1>1, <2>1 DEF Under
<1>7. Under(p, <<>>) => p = <<>>
  <2>1. Len(<<>>) = 0
    OBVIOUS
  <2>2. Len(p) = 0 => p = <<>>
    OBVIOUS
  <2> QED
    BY <1>1, <2>1, <2>2 DEF Under
<1> QED
  BY <1>2, <1>3, <1>4, <1>5, <1>6, <1>7

\* What stands above a path of a document is a dict.
LEMMA AboveIsDict ==
    ASSUME NEW K, NEW d, DOMAIN d \subseteq Seq(K)
    PROVE  IsDocument(d) <=>
              /\ <<>> \in DOMAIN d
              /\ \A p \in DOMAIN d : \A q \in Seq(K) :
                    Under(q, p) /\ Len(q) < Len(p) => q \in DOMAIN d /\ d[q] = Dict
<1>1. \A p \in DOMAIN d : \A q \in Ancestors(p) : q \in Seq(K) /\ Under(q, p) /\ Len(q) < Len(p)
  BY AncestorIsUnder
<1>2. \A p \in DOMAIN d : \A q \in Seq(K) : Under(q, p) /\ Len(q) < Len(p) => q \in Ancestors(p)
  BY AncestorIsUnder
<1> QED
  BY <1>1, <1>2 DEF IsDocument

\* World.set: everything at the path is replaced, all else is kept.
LEMMA SetLeaves ==
    ASSUME NEW K, NEW d, DOMAIN d \subseteq Seq(K), NEW v, DOMAIN v \subseteq Seq(K),
           NEW p \in Seq(K)
    PROVE  /\ \A q : q \in DOMAIN Set(d, p, v) <=>
                        \/ q \in DOMAIN d /\ ~Under(p, q)
                        \/ q \in Seq(K) /\ Under(p, q) /\ Rest(p, q) \in DOMAIN v
           /\ \A q \in DOMAIN Set(d, p, v) :
                 Set(d, p, v)[q] = IF Under(p, q) THEN v[Rest(p, q)] ELSE d[q]
           /\ DOMAIN Set(d, p, v) \subseteq Seq(K)
<1> DEFINE D == (DOMAIN d \ Below(d, p)) \cup {p \o r : r \in DOMAIN v}
<1>1. DOMAIN Set(d, p, v) = D
  BY DEF Set
<1>2. \A q \in DOMAIN d : q \in Below(d, p) <=> Under(p, q)
  BY PrefixIsUnder DEF Below
<1>3. \A r \in DOMAIN v : p \o r \in Seq(K) /\ Under(p, p \o r) /\ Rest(p, p \o r) = r
  BY PathBelow
<1>4. \A q \in Seq(K) : Under(p, q) => p \o Rest(p, q) = q
  BY RestOfPath
<1>5. \A q : q \in D <=> \/ q \in DOMAIN d /\ ~Under(p, q)
                         \/ q \in Seq(K) /\ Under(p, q) /\ Rest(p, q) \in DOMAIN v
  <2>1. ASSUME NEW q, q \in D
        PROVE  \/ q \in DOMAIN d /\ ~Under(p, q)
               \/ q \in Seq(K) /\ Under(p, q) /\ Rest(p, q) \in DOMAIN v
    <3>1. CASE q \in DOMAIN d \ Below(d, p)
      BY <1>2, <3>1
    <3>2. CASE \E r \in DOMAIN v : q = p \o r
      BY <1>3, <3>2
    <3> QED
      BY <2>1, <3>1, <3>2
  <2>2. ASSUME NEW q, q \in DOMAIN d, ~Under(p, q)
        PROVE  q \in D
    BY <1>2, <2>2
  <2>3. ASSUME NEW q, q \in Seq(K), Under(p, q), Rest(p, q) \in DOMAIN v
        PROVE  q \in D
    <3>1. q = p \o Rest(p, q)
      BY <1>4, <2>3
    <3> QED
      BY <2>3, <3>1
  <2> HIDE DEF D
  <2> QED
    BY <2>1, <2>2, <2>3
<1>6. D \subseteq Seq(K)
  BY <1>5
<1>7. ASSUME NEW q \in D
      PROVE  Set(d, p, v)[q] = IF Under(p, q) THEN v[Rest(p, q)] ELSE d[q]
  <2>1. IsPrefix(p, q) <=> Under(p, q)
    BY <1>6, PrefixIsUnder
  <2>2. Set(d, p, v)[q] = IF IsPrefix(p, q) THEN v[SubSeq(q, Len(p) + 1, Len(q))] ELSE d[q]
    BY DEF Set
  <2> QED
    BY <2>1, <2>2 DEF Rest
<1> HIDE DEF D
<1> QED
  BY <1>1, <1>5, <1>6, <1>7

\* It leaves a document, if what is above the path is a dict.
HasParents(K, d, p) ==
    \A q \in Seq(K) : Under(q, p) /\ Len(q) < Len(p) => q \in DOMAIN d /\ d[q] = Dict

LEMMA SetIsPlain ==
    ASSUME NEW K, NEW d, Plain(K, d), NEW v, Plain(K, v),
           NEW p \in Seq(K), HasParents(K, d, p)
    PROVE  Plain(K, Set(d, p, v))
<1> DEFINE s == Set(d, p, v)
<1>1. /\ DOMAIN d \subseteq Seq(K) /\ DOMAIN v \subseteq Seq(K) /\ p \in Seq(K)
      /\ IsDocument(d) /\ IsDocument(v)
  BY DEF Plain
<1>2. /\ \A q : q \in DOMAIN s <=>
                   \/ q \in DOMAIN d /\ ~Under(p, q)
                   \/ q \in Seq(K) /\ Under(p, q) /\ Rest(p, q) \in DOMAIN v
      /\ \A q \in DOMAIN s : s[q] = IF Under(p, q) THEN v[Rest(p, q)] ELSE d[q]
      /\ DOMAIN s \subseteq Seq(K)
  BY <1>1, SetLeaves
<1> HIDE DEF s
<1>3. /\ <<>> \in DOMAIN d
      /\ \A r \in DOMAIN d : \A q \in Seq(K) :
            Under(q, r) /\ Len(q) < Len(r) => q \in DOMAIN d /\ d[q] = Dict
  BY <1>1, AboveIsDict
<1>4. /\ <<>> \in DOMAIN v
      /\ \A r \in DOMAIN v : \A q \in Seq(K) :
            Under(q, r) /\ Len(q) < Len(r) => q \in DOMAIN v /\ v[q] = Dict
  BY <1>1, AboveIsDict
<1>5. Rest(p, p) = <<>>
  <2>1. p \o <<>> = p /\ <<>> \in Seq(K)
    BY <1>1, ConcatEmptySeq
  <2> QED
    BY <1>1, <2>1, PathBelow
<1>6. p \in DOMAIN s
  BY <1>1, <1>2, <1>4, <1>5, UnderFacts
<1>7. ASSUME NEW r \in DOMAIN s, NEW q \in Seq(K), Under(q, r), Len(q) < Len(r)
      PROVE  q \in DOMAIN s /\ s[q] = Dict
  <2>1. r \in Seq(K)
    BY <1>2
  <2>2. CASE ~Under(p, r)
    <3>1. r \in DOMAIN d
      BY <1>2, <2>2
    <3>2. q \in DOMAIN d /\ d[q] = Dict
      BY <1>3, <1>7, <3>1
    <3>3. ~Under(p, q)
      BY <1>1, <1>7, <2>1, <2>2, UnderFacts
    <3> QED
      BY <1>2, <3>2, <3>3
  <2>3. CASE Under(p, r) /\ ~Under(p, q)
    <3>1. Under(q, p)
      BY <1>1, <1>7, <2>1, <2>3, UnderFacts
    <3>2. Len(q) < Len(p)
      <4>1. Len(p) <= Len(q) => q = p
        BY <1>1, <3>1, UnderFacts
      <4>2. Under(p, p)
        BY <1>1, UnderFacts
      <4>3. Len(p) \in Nat /\ Len(q) \in Nat
        BY <1>1
      <4> QED
        BY <2>3, <4>1, <4>2, <4>3
    <3>3. q \in DOMAIN d /\ d[q] = Dict
      BY <1>7, <3>1, <3>2 DEF HasParents
    <3> QED
      BY <1>2, <2>3, <3>3
  <2>4. CASE Under(p, r) /\ Under(p, q)
    <3>1. /\ Rest(p, r) \in Seq(K) /\ Len(Rest(p, r)) = Len(r) - Len(p)
          /\ \A i \in 1..Len(Rest(p, r)) : Rest(p, r)[i] = r[Len(p) + i]
          /\ Rest(p, q) \in Seq(K) /\ Len(Rest(p, q)) = Len(q) - Len(p)
          /\ \A i \in 1..Len(Rest(p, q)) : Rest(p, q)[i] = q[Len(p) + i]
      BY <1>1, <2>1, <2>4, RestOfPath
    <3>2. Len(p) \in Nat /\ Len(q) \in Nat /\ Len(r) \in Nat
      BY <1>1, <2>1
    <3>3. Len(Rest(p, q)) < Len(Rest(p, r))
      BY <1>7, <3>1, <3>2
    <3>4. ASSUME NEW i \in 1..Len(Rest(p, q))
          PROVE  Rest(p, q)[i] = Rest(p, r)[i]
      <4>1. i \in 1..Len(Rest(p, r)) /\ Len(p) + i \in 1..Len(q)
        BY <3>1, <3>2, <3>3
      <4>2. Rest(p, q)[i] = q[Len(p) + i] /\ Rest(p, r)[i] = r[Len(p) + i]
        BY <3>1, <4>1
      <4>3. q[Len(p) + i] = r[Len(p) + i]
        BY <1>7, <4>1 DEF Under
      <4> QED
        BY <4>2, <4>3
    <3>5. Under(Rest(p, q), Rest(p, r))
      BY <3>1, <3>2, <3>3, <3>4 DEF Under
    <3>6. Rest(p, r) \in DOMAIN v
      BY <1>2, <2>4
    <3>7. Rest(p, q) \in DOMAIN v /\ v[Rest(p, q)] = Dict
      BY <1>4, <3>1, <3>3, <3>5, <3>6
    <3> QED
      BY <1>2, <2>4, <3>7
  <2> QED
    BY <2>2, <2>3, <2>4
<1>8. <<>> \in DOMAIN s
  <2>1. <<>> \in Seq(K) /\ Under(<<>>, p) /\ (Len(p) = 0 => p = <<>>) /\ Len(p) \in Nat
    BY <1>1, UnderFacts
  <2>2. Len(<<>>) = 0
    OBVIOUS
  <2>3. Len(p) = 0 \/ Len(<<>>) < Len(p)
    BY <2>1, <2>2
  <2> QED
    BY <1>6, <1>7, <2>1, <2>3
<1> QED
  BY <1>2, <1>7, <1>8, AboveIsDict DEF Plain, s

\* World.get: what stands below the path, from there.
LEMMA SelectLeaves ==
    ASSUME NEW K, NEW d, DOMAIN d \subseteq Seq(K), NEW p \in Seq(K)
    PROVE  /\ \A r : r \in DOMAIN Select(d, p) <=> r \in Seq(K) /\ p \o r \in DOMAIN d
           /\ \A r \in DOMAIN Select(d, p) : Select(d, p)[r] = d[p \o r]
<1> DEFINE D == {SubSeq(q, Len(p) + 1, Len(q)) : q \in Below(d, p)}
<1>1. DOMAIN Select(d, p) = D /\ \A r \in D : Select(d, p)[r] = d[p \o r]
  BY DEF Select
<1>2. \A q \in DOMAIN d : q \in Below(d, p) <=> Under(p, q)
  BY PrefixIsUnder DEF Below
<1>3. D = {Rest(p, q) : q \in Below(d, p)} /\ Below(d, p) \subseteq DOMAIN d
  BY DEF Rest, Below
<1>4. \A q \in DOMAIN d : Under(p, q) => Rest(p, q) \in Seq(K) /\ p \o Rest(p, q) = q
  BY RestOfPath
<1>5. \A r \in Seq(K) : p \o r \in Seq(K) /\ Under(p, p \o r) /\ Rest(p, p \o r) = r
  BY PathBelow
<1> HIDE DEF D
<1>6. \A r : r \in D <=> r \in Seq(K) /\ p \o r \in DOMAIN d
  <2>1. ASSUME NEW r \in D PROVE r \in Seq(K) /\ p \o r \in DOMAIN d
    BY <1>2, <1>3, <1>4
  <2>2. ASSUME NEW r \in Seq(K), p \o r \in DOMAIN d PROVE r \in D
    <3>1. Under(p, p \o r) /\ Rest(p, p \o r) = r
      BY <1>5
    <3>2. p \o r \in Below(d, p)
      BY <1>2, <2>2, <3>1
    <3> QED
      BY <1>3, <3>1, <3>2
  <2> QED
    BY <2>1, <2>2
<1> QED
  BY <1>1, <1>6

LEMMA SelectIsPlain ==
    ASSUME NEW K, NEW d, Plain(K, d), NEW p \in DOMAIN d
    PROVE  Plain(K, Select(d, p))
<1> DEFINE s == Select(d, p)
<1>1. DOMAIN d \subseteq Seq(K) /\ p \in Seq(K) /\ IsDocument(d)
  BY DEF Plain
<1>2. /\ \A r : r \in DOMAIN s <=> r \in Seq(K) /\ p \o r \in DOMAIN d
      /\ \A r \in DOMAIN s : s[r] = d[p \o r]
  BY <1>1, SelectLeaves
<1> HIDE DEF s
<1>3. \A r \in DOMAIN d : \A q \in Seq(K) :
         Under(q, r) /\ Len(q) < Len(r) => q \in DOMAIN d /\ d[q] = Dict
  BY <1>1, AboveIsDict
<1>4. <<>> \in DOMAIN s
  <2>1. p \o <<>> = p /\ <<>> \in Seq(K)
    BY <1>1, ConcatEmptySeq
  <2> QED
    BY <1>2, <2>1
<1>5. ASSUME NEW r \in DOMAIN s, NEW q \in Seq(K), Under(q, r), Len(q) < Len(r)
      PROVE  q \in DOMAIN s /\ s[q] = Dict
  <2>1. r \in Seq(K) /\ p \o r \in DOMAIN d
    BY <1>2
  <2>2. /\ Len(p \o q) = Len(p) + Len(q) /\ Len(p \o r) = Len(p) + Len(r)
        /\ p \o q \in Seq(K) /\ p \o r \in Seq(K)
        /\ Len(p) \in Nat /\ Len(q) \in Nat /\ Len(r) \in Nat
    BY <1>1, <2>1
  <2>3. Under(p \o q, p \o r)
    <3>1. ASSUME NEW i \in 1..(Len(p) + Len(q))
          PROVE  (p \o q)[i] = (p \o r)[i]
      <4>1. CASE i <= Len(p)
        BY <1>1, <2>1, <2>2, <4>1
      <4>2. CASE i > Len(p)
        <5>1. i - Len(p) \in 1..Len(q) /\ i - Len(p) \in 1..Len(r)
          BY <1>5, <2>2, <4>2
        <5>2. (p \o q)[i] = q[i - Len(p)] /\ (p \o r)[i] = r[i - Len(p)]
          BY <1>1, <2>1, <2>2, <4>2, <5>1
        <5>3. q[i - Len(p)] = r[i - Len(p)]
          BY <1>5, <5>1 DEF Under
        <5> QED
          BY <5>2, <5>3
      <4>3. i <= Len(p) \/ i > Len(p)
        BY <2>2
      <4> QED
        BY <4>1, <4>2, <4>3, Zenon
    <3> QED
      BY <1>5, <2>2, <3>1 DEF Under
  <2>4. Len(p \o q) < Len(p \o r)
    BY <1>5, <2>2
  <2>5. p \o q \in DOMAIN d /\ d[p \o q] = Dict
    BY <1>3, <2>1, <2>2, <2>3, <2>4, Zenon
  <2> QED
    BY <1>2, <2>5
<1> QED
  BY <1>2, <1>4, <1>5, AboveIsDict DEF Plain, s

\* Without what is at a path other than the root, it is a document still.
LEMMA KeptIsPlain ==
    ASSUME NEW K, NEW d, Plain(K, d), NEW p \in Seq(K), p # <<>>,
           NEW s, s = [q \in DOMAIN d \ Below(d, p) |-> d[q]]
    PROVE  Plain(K, s) /\ s[<<>>] = d[<<>>]
<1>1. DOMAIN d \subseteq Seq(K) /\ IsDocument(d)
  BY DEF Plain
<1>2. \A q \in DOMAIN d : q \in Below(d, p) <=> Under(p, q)
  BY <1>1, PrefixIsUnder DEF Below
<1>3. /\ \A q : q \in DOMAIN s <=> q \in DOMAIN d /\ ~Under(p, q)
      /\ \A q \in DOMAIN s : s[q] = d[q]
  BY <1>2
<1>4. /\ <<>> \in DOMAIN d
      /\ \A r \in DOMAIN d : \A q \in Seq(K) :
            Under(q, r) /\ Len(q) < Len(r) => q \in DOMAIN d /\ d[q] = Dict
  BY <1>1, AboveIsDict
<1>5. <<>> \in DOMAIN s /\ s[<<>>] = d[<<>>]
  <2>1. ~Under(p, <<>>)
    BY UnderFacts
  <2> QED
    BY <1>3, <1>4, <2>1
<1>6. ASSUME NEW r \in DOMAIN s, NEW q \in Seq(K), Under(q, r), Len(q) < Len(r)
      PROVE  q \in DOMAIN s /\ s[q] = Dict
  <2>1. r \in DOMAIN d /\ ~Under(p, r) /\ r \in Seq(K)
    BY <1>1, <1>3
  <2>2. q \in DOMAIN d /\ d[q] = Dict
    BY <1>4, <1>6, <2>1
  <2>3. ~Under(p, q)
    BY <1>6, <2>1, UnderFacts
  <2> QED
    BY <1>3, <2>2, <2>3
<1>7. DOMAIN s \subseteq Seq(K)
  BY <1>1, <1>3
<1>8. Plain(K, s)
  BY <1>5, <1>6, <1>7, AboveIsDict DEF Plain
<1> QED
  BY <1>5, <1>8

LEMMA ScalarIsPlain ==
    ASSUME NEW K, NEW text
    PROVE  Plain(K, Scalar(text))
<1>1. DOMAIN Scalar(text) = {<<>>} /\ <<>> \in Seq(K) /\ Len(<<>>) = 0
  BY DEF Scalar
<1>2. \A p \in DOMAIN Scalar(text) : \A q \in Seq(K) : ~(Len(q) < Len(p))
  BY <1>1
<1> QED
  BY <1>1, <1>2, AboveIsDict DEF Plain

LEMMA SetWithinIsPlain ==
    ASSUME NEW K, NEW d, Plain(K, d), NEW v, Plain(K, v), NEW p \in DOMAIN d
    PROVE  Plain(K, Set(d, p, v))
<1>1. DOMAIN d \subseteq Seq(K) /\ IsDocument(d) /\ p \in Seq(K)
  BY DEF Plain
<1>2. HasParents(K, d, p)
  BY <1>1, AboveIsDict DEF HasParents
<1> QED
  BY <1>1, <1>2, SetIsPlain

-----------------------------------------------------------------------------
\* The worlds of a run.

\* STRING, of which the provers do not know that these strings are in it.
Keys ==
    STRING \cup {"orders", "o_123", "refund_count", "status", "receipt",
                 "caller", "verified", "customer_id"}

WorldsArePlain ==
    run # NoRun => /\ Plain(Keys, world)
                   /\ \A n \in DOMAIN ran : IsDocument(ran[n])

LEMMA OrderPaths ==
    /\ RefundCount \in Seq(Keys) /\ Order \in Seq(Keys)
    /\ Under(Order, RefundCount) /\ Len(Order) < Len(RefundCount)
    /\ <<"status">> \in Seq(Keys) /\ <<"status">> # <<>>
    /\ <<"receipt">> \in Seq(Keys) /\ Len(<<"receipt">>) = 1
<1> DEFINE K == Keys
<1>1. /\ "orders" \in K /\ "o_123" \in K /\ "refund_count" \in K
      /\ "status" \in K /\ "receipt" \in K
  BY DEF Keys
<1> HIDE DEF K
<1>2. ASSUME NEW a \in K, NEW b \in K
      PROVE  /\ <<a, b>> \in Seq(K) /\ Len(<<a, b>>) = 2
             /\ <<a>> \in Seq(K) /\ Len(<<a>>) = 1 /\ <<a>> # <<>>
  OBVIOUS
<1>3. /\ Order \in Seq(K) /\ Len(Order) = 2
      /\ <<"refund_count">> \in Seq(K) /\ Len(<<"refund_count">>) = 1
      /\ <<"status">> \in Seq(K) /\ <<"status">> # <<>>
      /\ <<"receipt">> \in Seq(K) /\ Len(<<"receipt">>) = 1
  BY <1>1, <1>2 DEF Order
<1>4. RefundCount \in Seq(K) /\ Under(Order, RefundCount)
  BY <1>3, PathBelow DEF RefundCount
<1>5. Len(Order) < Len(RefundCount)
  <2>1. \A p, q \in Seq(K) : Len(p \o q) = Len(p) + Len(q)
    OBVIOUS
  <2>2. Len(RefundCount) = Len(Order) + Len(<<"refund_count">>)
    BY <1>3, <2>1, Zenon DEF RefundCount
  <2> QED
    BY <1>3, <2>2
<1> QED
  BY <1>3, <1>4, <1>5 DEF K

\* Whatever the refund service does, it leaves a document.
LEMMA EffectIsPlain ==
    ASSUME RunIsChosen, run # NoRun, Plain(Keys, world)
    PROVE  Plain(Keys, RefundEffect.world)
<1>1. CASE RefundCount \notin DOMAIN world
  BY <1>1 DEF RefundEffect
<1>2. CASE RefundCount \in DOMAIN world
  <2>1. Plain(Keys, Counted)
    <3>1. Plain(Keys, Scalar(Increment(world[RefundCount])))
      BY ScalarIsPlain
    <3> QED
      BY <1>2, <3>1, SetWithinIsPlain DEF Counted
  <2>2. Order \in DOMAIN world
    <3>1. DOMAIN world \subseteq Seq(Keys) /\ IsDocument(world)
      BY DEF Plain
    <3> QED
      BY <1>2, <3>1, OrderPaths, AboveIsDict
  <2>3. RefundCount \in DOMAIN Counted
    <3> DEFINE v == Scalar(Increment(world[RefundCount]))
    <3>1. DOMAIN v = {<<>>} /\ <<>> \in Seq(Keys)
      BY DEF Scalar
    <3> HIDE DEF v
    <3>2. DOMAIN world \subseteq Seq(Keys) /\ DOMAIN v \subseteq Seq(Keys)
      BY <3>1 DEF Plain
    <3>4. Under(RefundCount, RefundCount) /\ Rest(RefundCount, RefundCount) = <<>>
      BY OrderPaths, NoWay
    <3>5. RefundCount \in DOMAIN Set(world, RefundCount, v)
      BY <3>1, <3>2, <3>4, OrderPaths, SetLeaves
    <3> QED
      BY <3>5 DEF Counted, v
  <2>4. Order \in DOMAIN Counted /\ Counted[Order] = Dict
    <3>1. DOMAIN Counted \subseteq Seq(Keys) /\ IsDocument(Counted)
      BY <2>1 DEF Plain
    <3> QED
      BY <2>3, <3>1, OrderPaths, AboveIsDict
  <2>5. Plain(Keys, Replaced)
    <3> DEFINE order == Select(Counted, Order)
               kept == [p \in DOMAIN order \ Below(order, <<"status">>) |-> order[p]]
               next == Set(kept, <<"receipt">>, Scalar("r_1"))
    <3>1. Plain(Keys, order)
      BY <2>1, <2>4, SelectIsPlain
    <3>2. order[<<>>] = Dict
      <4>1. Order \o <<>> = Order /\ <<>> \in Seq(Keys)
        BY OrderPaths, NoWay
      <4>2. DOMAIN Counted \subseteq Seq(Keys)
        BY <2>1 DEF Plain
      <4>3. /\ \A q : q \in DOMAIN order <=> q \in Seq(Keys) /\ Order \o q \in DOMAIN Counted
            /\ \A q \in DOMAIN order : order[q] = Counted[Order \o q]
        BY <4>2, OrderPaths, SelectLeaves
      <4> HIDE DEF order
      <4> QED
        BY <2>4, <4>1, <4>3, Zenon
    <3> HIDE DEF order
    <3>3. Plain(Keys, kept) /\ kept[<<>>] = order[<<>>]
      <4>1. kept = [p \in DOMAIN order \ Below(order, <<"status">>) |-> order[p]]
        OBVIOUS
      <4> HIDE DEF kept
      <4>2. <<"status">> \in Seq(Keys) /\ <<"status">> # <<>>
        BY OrderPaths
      <4> QED
        BY <3>1, <4>1, <4>2, KeptIsPlain
    <3> HIDE DEF kept
    <3>4. HasParents(Keys, kept, <<"receipt">>)
      <4> SUFFICES ASSUME NEW q \in Seq(Keys), Len(q) < 1
                   PROVE  q \in DOMAIN kept /\ kept[q] = Dict
        BY OrderPaths DEF HasParents
      <4>1. q = <<>>
        OBVIOUS
      <4> QED
        BY <3>2, <3>3, <4>1 DEF Plain, IsDocument
    <3>5. Plain(Keys, next)
      BY <3>3, <3>4, OrderPaths, ScalarIsPlain, SetIsPlain
    <3> HIDE DEF next
    <3>6. Plain(Keys, Set(world, Order, next))
      BY <2>2, <3>5, SetWithinIsPlain
    <3> QED
      BY <3>6 DEF Replaced, order, kept, next
  <2>6. Plain(Keys, Set(Counted, Order, Scalar("closed")))
    BY <2>1, <2>4, ScalarIsPlain, SetWithinIsPlain
  <2>7. run.endpoint \in Endpoints
    BY DEF RunIsChosen
  <2> HIDE DEF Plain, Counted, Replaced
  <2> QED
    BY <1>2, <2>1, <2>5, <2>6, <2>7 DEF RefundEffect, Endpoints, Leaves
<1> QED
  BY <1>1, <1>2

\* An execution keeps the worlds documents if its effect is one.
LEMMA ExecutesPlain ==
    ASSUME WorldsArePlain, RefundInv, NEW t, NEW w, Plain(Keys, w), NEW value, NEW raised,
           Executes(t, w, value, raised)
    PROVE  WorldsArePlain'
<1>1. /\ run # NoRun /\ run' = run /\ world' = w
      /\ ran' = IF t = RefundTool THEN Append(ran, world) ELSE ran
  BY DEF Executes, Ready
<1>2. Plain(Keys, world) /\ \A n \in DOMAIN ran : IsDocument(ran[n])
  BY <1>1 DEF WorldsArePlain
<1>3. Plain(Keys, w)'
  OBVIOUS
<1>4. \A n \in DOMAIN ran' : IsDocument(ran'[n])
  <2>1. CASE ran' = ran
    BY <1>2, <2>1
  <2>2. CASE ran' = Append(ran, world)
    <3>1. ran' = ran \o <<world>> /\ Within(<<world>>) = {world} /\ IsSequence(<<world>>)
      BY <2>2, OneMore, Single DEF RefundInv
    <3>2. Within(ran') = Within(ran) \cup {world}
      BY <3>1, Joined DEF RefundInv
    <3>3. \A x \in Within(ran') : IsDocument(x)
      BY <1>2, <3>2 DEF Within, Plain
    <3> QED
      BY <3>3 DEF Within
  <2> QED
    BY <1>1, <2>1, <2>2
<1> QED
  BY <1>1, <1>4 DEF WorldsArePlain

LEMMA WorldsArePlainNext ==
    RunIsChosen /\ RefundInv /\ WorldsArePlain /\ [Next]_vars => WorldsArePlain'
<1> SUFFICES ASSUME RunIsChosen, RefundInv, WorldsArePlain, [Next]_vars
             PROVE  WorldsArePlain'
  OBVIOUS
<1>1. CASE UNCHANGED <<run, world, ran>>
  BY <1>1 DEF WorldsArePlain
<1>2. ASSUME NEW n \in DOMAIN Submissions, Refuse(n)
      PROVE  WorldsArePlain'
  BY <1>1, <1>2 DEF Refuse
<1>3. ASSUME NEW n \in DOMAIN Submissions, NEW k \in DOMAIN Submissions[n].cases,
             NEW pair \in Submissions[n].runs, Begin(n, k, pair)
      PROVE  WorldsArePlain'
  <2>1. Plain(Keys, Submissions[n].cases[k].state)
    <3>1. STRING \subseteq Keys
      BY DEF Keys
    <3>2. Seq(STRING) \subseteq Seq(Keys)
      BY <3>1, SeqMonotonic
    <3> QED
      BY <3>2, SubmissionsLoaded DEF Plain
  <2>2. world' = Submissions[n].cases[k].state /\ ran' = <<>>
    BY <1>3 DEF Begin, RefundInv
  <2>3. DOMAIN <<>> = {}
    OBVIOUS
  <2> QED
    BY <2>1, <2>2, <2>3 DEF WorldsArePlain
<1>4. ASSUME NEW t \in Requests, Reject(t) \/ Intercept(t)
      PROVE  WorldsArePlain'
  BY <1>1, <1>4 DEF Reject, Intercept
<1>5. ASSUME NEW t \in Requests, Look(t)
      PROVE  WorldsArePlain'
  <2>1. Executes(t, world, Select(world, IF t = ReadTool THEN Order ELSE <<"caller">>), FALSE)
    BY <1>5 DEF Look
  <2>2. Plain(Keys, world)
    BY <1>5, CallsKeepRun DEF WorldsArePlain
  <2> QED
    BY ONLY RefundInv, WorldsArePlain, <2>1, <2>2, ExecutesPlain
<1>6. CASE IssueRefund
  <2>1. Executes(RefundTool, RefundEffect.world, Receipt, RefundEffect.raised)
    BY <1>6 DEF IssueRefund
  <2>2. run # NoRun
    BY <1>6, CallsKeepRun
  <2>3. Plain(Keys, RefundEffect.world)
    BY <2>2, EffectIsPlain DEF WorldsArePlain
  <2> QED
    BY ONLY RefundInv, WorldsArePlain, <2>1, <2>3, ExecutesPlain
<1>7. ASSUME NEW d \in Decisions, End(d)
      PROVE  WorldsArePlain'
  BY <1>1, <1>7 DEF End
<1>8. CASE UNCHANGED vars
  BY <1>1, <1>8 DEF vars
<1> QED
  BY <1>2, <1>3, <1>4, <1>5, <1>6, <1>7, <1>8 DEF Next

\* Every World is a document, every run one of an accepted submission, and the
\* counters of the log, the answers and the handler's starts agree.
THEOREM RefundTypeCorrect == Spec => []RefundTypeOK
<1>1. Init => WorldsArePlain
  BY DEF Init, WorldsArePlain
<1>2. RunIsChosen /\ RefundInv /\ WorldsArePlain /\ [Next]_vars => WorldsArePlain'
  BY WorldsArePlainNext
<1>3. RunIsChosen /\ RefundInv /\ WorldsArePlain => RefundTypeOK
  <2> SUFFICES ASSUME RunIsChosen, RefundInv, WorldsArePlain PROVE RefundTypeOK
    OBVIOUS
  <2>1. run # NoRun => /\ run.submission \in DOMAIN Submissions
                       /\ run.case \in DOMAIN Submitted.cases
    BY DEF RunIsChosen
  <2>2. run # NoRun => IsDocument(world) /\ \A n \in DOMAIN ran : IsDocument(ran[n])
    BY DEF WorldsArePlain, Plain
  <2>3. /\ result.status \in {"none", "refused", "pass", "fail", "error"}
        /\ result.status = "refused" => run = NoRun
    BY DEF RunIsChosen
  <2>4. Len(ran) = Cardinality(Positions(log, "tool_executed", RefundTool))
    BY DEF RefundInv, CountsAgree, Noted
  <2>5. Len(told) = Attempts
    BY DEF RefundInv, CountsAgree, Seen, Attempts
  <2> QED
    BY <2>1, <2>2, <2>3, <2>4, <2>5 DEF RefundTypeOK
<1> QED
  BY <1>1, <1>2, <1>3, RefundInvariant, PTL DEF Spec

-----------------------------------------------------------------------------
\* The difference of two documents, applied to the first, gives the second.

LEMMA LeastLength ==
    ASSUME NEW N, N \subseteq Nat, N # {}
    PROVE  \E n \in N : \A m \in N : n <= m
<1>1. PICK n \in N : \A m \in N : ~(<<m, n>> \in OpToRel(<, Nat))
  BY NatLessThanWellFounded, WFMin, Zenon
<1>2. \A m \in N : ~(m < n)
  BY <1>1 DEF OpToRel
<1> QED
  BY <1>2

\* The entries of a difference: where documents part that are the same above.
Parts(b, a) == DOMAIN Changes(b, a)

LEMMA PartsAre ==
    ASSUME NEW K, NEW b, Plain(K, b), NEW a, Plain(K, a)
    PROVE  \A p : p \in Parts(b, a) <=>
              /\ p \in DOMAIN b \cup DOMAIN a
              /\ \A q \in Seq(K) : Under(q, p) /\ Len(q) < Len(p) => BothDicts(b, a, q)
              /\ ~BothDicts(b, a, p)
              /\ p \in DOMAIN b /\ p \in DOMAIN a => Select(b, p) # Select(a, p)
<1>1. DOMAIN b \cup DOMAIN a \subseteq Seq(K)
  BY DEF Plain
<1>2. \A p : p \in Parts(b, a) <=>
         /\ p \in DOMAIN b \cup DOMAIN a
         /\ \A q \in Ancestors(p) : BothDicts(b, a, q)
         /\ ~BothDicts(b, a, p)
         /\ p \in DOMAIN b /\ p \in DOMAIN a => Select(b, p) # Select(a, p)
  BY DEF Parts, Changes, Compared, BothDicts
<1>3. ASSUME NEW p \in DOMAIN b \cup DOMAIN a
      PROVE  (\A q \in Ancestors(p) : BothDicts(b, a, q))
               <=> \A q \in Seq(K) : Under(q, p) /\ Len(q) < Len(p) => BothDicts(b, a, q)
  BY <1>1, AncestorIsUnder
<1> QED
  BY <1>2, <1>3

\* Outside of its entries the documents are the same.
LEMMA SameElsewhere ==
    ASSUME NEW K, NEW b, Plain(K, b), NEW a, Plain(K, a),
           NEW q \in DOMAIN b \cup DOMAIN a,
           \A p \in Parts(b, a) : ~Under(p, q)
    PROVE  q \in DOMAIN b /\ q \in DOMAIN a /\ b[q] = a[q]
<1>1. /\ DOMAIN b \subseteq Seq(K) /\ IsDocument(b)
      /\ DOMAIN a \subseteq Seq(K) /\ IsDocument(a) /\ q \in Seq(K)
  BY DEF Plain
<1>2. /\ \A r \in DOMAIN b : \A u \in Seq(K) :
            Under(u, r) /\ Len(u) < Len(r) => u \in DOMAIN b /\ b[u] = Dict
      /\ \A r \in DOMAIN a : \A u \in Seq(K) :
            Under(u, r) /\ Len(u) < Len(r) => u \in DOMAIN a /\ a[u] = Dict
  BY <1>1, AboveIsDict
<1>3. CASE BothDicts(b, a, q)
  BY <1>3 DEF BothDicts
<1>4. CASE ~BothDicts(b, a, q)
  <2> DEFINE U == {u \in Seq(K) : Under(u, q) /\ ~BothDicts(b, a, u)}
             N == {Len(u) : u \in U}
  <2>1. q \in U
    BY <1>1, <1>4, UnderFacts
  <2>2. \A u \in U : Len(u) \in Nat
    OBVIOUS
  <2>3. PICK u \in U : \A w \in U : Len(u) <= Len(w)
    <3> HIDE DEF U
    <3>1. N \subseteq Nat /\ N # {}
      BY <2>1, <2>2
    <3>2. PICK n \in N : \A m \in N : n <= m
      <4> HIDE DEF N
      <4> QED
        BY <3>1, LeastLength
    <3>3. PICK u \in U : Len(u) = n
      BY <3>2
    <3> QED
      BY <3>2, <3>3
  <2>4. u \in Seq(K) /\ Under(u, q) /\ ~BothDicts(b, a, u)
    BY <2>3
  <2>5. ASSUME NEW w \in Seq(K), Under(w, u), Len(w) < Len(u)
        PROVE  BothDicts(b, a, w)
    <3>1. Under(w, q)
      BY <1>1, <2>4, <2>5, UnderFacts
    <3>2. Len(w) \in Nat /\ Len(u) \in Nat
      BY <2>4
    <3> QED
      BY <2>3, <2>5, <3>1, <3>2
  <2>6. u = q \/ Len(u) < Len(q)
    <3>1. Len(q) <= Len(u) => u = q
      BY <1>1, <2>4, UnderFacts
    <3>2. Len(u) \in Nat /\ Len(q) \in Nat
      BY <1>1, <2>4
    <3> QED
      BY <3>1, <3>2
  <2>7. (q \in DOMAIN b => u \in DOMAIN b) /\ (q \in DOMAIN a => u \in DOMAIN a)
    BY <1>2, <2>4, <2>6
  <2>8. u \notin Parts(b, a)
    BY <2>4
  <2>9. u \in DOMAIN b /\ u \in DOMAIN a /\ Select(b, u) = Select(a, u)
    BY <2>4, <2>5, <2>7, <2>8, PartsAre
  <2> DEFINE r == Rest(u, q)
  <2>10. r \in Seq(K) /\ u \o r = q
    BY <1>1, <2>4, RestOfPath
  <2> HIDE DEF r
  <2>11. /\ r \in DOMAIN Select(b, u) <=> u \o r \in DOMAIN b
         /\ r \in DOMAIN Select(a, u) <=> u \o r \in DOMAIN a
    BY <1>1, <2>4, <2>10, SelectLeaves
  <2>12. /\ r \in DOMAIN Select(b, u) => Select(b, u)[r] = b[u \o r]
         /\ r \in DOMAIN Select(a, u) => Select(a, u)[r] = a[u \o r]
    BY <1>1, <2>4, <2>10, SelectLeaves
  <2> QED
    BY <2>9, <2>10, <2>11, <2>12, Zenon
<1> QED
  BY <1>3, <1>4

\* Each entry says what was there, and no two are about the same part.
LEMMA ChangesExplain ==
    ASSUME NEW K, NEW b, Plain(K, b), NEW a, Plain(K, a)
    PROVE  Explains(Changes(b, a), b)
<1> DEFINE delta == Changes(b, a)
<1>1. \A p \in Parts(b, a) : delta[p] = Difference(b, a, p)
  BY DEF Parts, Changes
<1> SUFFICES ASSUME NEW p \in Parts(b, a)
             PROVE  /\ delta[p].before_exists = (p \in DOMAIN b)
                    /\ delta[p].before = Value(b, p)
                    /\ \A q \in Parts(b, a) \ {p} : ~IsPrefix(p, q)
  BY DEF Explains, Parts
<1>2. delta[p].before_exists = (p \in DOMAIN b) /\ delta[p].before = Value(b, p)
  <2>1. Difference(b, a, p).before_exists = (p \in DOMAIN b)
    BY Zenon DEF Difference
  <2>2. Difference(b, a, p).before = Value(b, p)
    BY DEF Difference
  <2> QED
    BY <1>1, <2>1, <2>2, Zenon
<1>3. ASSUME NEW q \in Parts(b, a), q # p, IsPrefix(p, q)
      PROVE  FALSE
  <2>1. p \in Seq(K) /\ q \in Seq(K) /\ ~BothDicts(b, a, p)
    BY PartsAre DEF Plain
  <2>2. Under(p, q)
    BY <1>3, <2>1, PrefixIsUnder
  <2>3. Len(p) < Len(q)
    <3>1. Len(q) <= Len(p) => p = q
      BY <2>1, <2>2, UnderFacts
    <3>2. Len(p) \in Nat /\ Len(q) \in Nat
      BY <2>1
    <3> QED
      BY <1>3, <3>1, <3>2
  <2> QED
    BY <2>1, <2>2, <2>3, PartsAre
<1> QED
  BY <1>2, <1>3

\* Applied to the first document, the entries give the second.
IsFunction(d) == d = [p \in DOMAIN d |-> d[p]]

LEMMA ChangesApply ==
    ASSUME NEW K, NEW b, Plain(K, b), NEW a, Plain(K, a), IsFunction(a)
    PROVE  Applied(b, Changes(b, a)) = a
<1> DEFINE delta == Changes(b, a)
           About(q) == {p \in DOMAIN delta : IsPrefix(p, q)}
           kept == {q \in DOMAIN b : About(q) = {}}
           there == {q \in DOMAIN delta : delta[q].after_exists}
           Placed(p) == {p \o r : r \in DOMAIN delta[p].after}
           new == UNION {Placed(p) : p \in there}
           Leaf(q) == LET p == CHOOSE p \in About(q) : TRUE
                      IN  delta[p].after[SubSeq(q, Len(p) + 1, Len(q))]
<1>1. Applied(b, delta) = [q \in kept \cup new |-> IF q \in kept THEN b[q] ELSE Leaf(q)]
  BY DEF Applied
<1>2. /\ DOMAIN b \subseteq Seq(K) /\ IsDocument(b)
      /\ DOMAIN a \subseteq Seq(K) /\ IsDocument(a)
  BY DEF Plain
<1>3. DOMAIN delta = Parts(b, a) /\ Parts(b, a) \subseteq DOMAIN b \cup DOMAIN a
  BY PartsAre DEF Parts
<1>4. \A p \in Parts(b, a) : delta[p] = Difference(b, a, p)
  BY DEF Parts, Changes
<1>5. ASSUME NEW p \in Parts(b, a)
      PROVE  /\ delta[p].after_exists <=> p \in DOMAIN a
             /\ p \in DOMAIN a => delta[p].after = Select(a, p)
  <2>1. Difference(b, a, p).after_exists = (p \in DOMAIN a)
    BY Zenon DEF Difference
  <2>2. Difference(b, a, p).after = Value(a, p)
    BY DEF Difference
  <2>3. delta[p].after_exists <=> p \in DOMAIN a
    BY <1>4, <2>1, Zenon
  <2>4. p \in DOMAIN a => delta[p].after = Select(a, p)
    BY <1>4, <2>2 DEF Value
  <2> QED
    BY <2>3, <2>4
<1> HIDE DEF delta
<1>6. \A q \in Seq(K) : \A p : p \in About(q) <=> p \in Parts(b, a) /\ Under(p, q)
  <2>1. Parts(b, a) \subseteq Seq(K)
    BY <1>2, <1>3
  <2> QED
    BY <1>3, <2>1, PrefixIsUnder
<1> HIDE DEF About
<1>7. \A q : q \in kept <=> q \in DOMAIN b /\ \A p \in Parts(b, a) : ~Under(p, q)
  BY <1>2, <1>6
<1>8. \A p : p \in there <=> p \in Parts(b, a) /\ p \in DOMAIN a
  BY <1>3, <1>5
<1> HIDE DEF there, kept
<1>9. ASSUME NEW p \in there
      PROVE  \A q : q \in Placed(p) <=> q \in DOMAIN a /\ Under(p, q)
  <2>1. p \in Parts(b, a) /\ p \in DOMAIN a /\ p \in Seq(K) /\ delta[p].after = Select(a, p)
    BY <1>2, <1>5, <1>8
  <2>2. \A r : r \in DOMAIN Select(a, p) <=> r \in Seq(K) /\ p \o r \in DOMAIN a
    BY <1>2, <2>1, SelectLeaves
  <2>3. \A r \in Seq(K) : Under(p, p \o r)
    BY <2>1, PathBelow
  <2>4. \A q \in Seq(K) : Under(p, q) => Rest(p, q) \in Seq(K) /\ p \o Rest(p, q) = q
    BY <2>1, RestOfPath
  <2>5. ASSUME NEW q \in Placed(p)
        PROVE  q \in DOMAIN a /\ Under(p, q)
    BY <2>1, <2>2, <2>3
  <2>6. ASSUME NEW q \in DOMAIN a, Under(p, q)
        PROVE  q \in Placed(p)
    <3>1. Rest(p, q) \in Seq(K) /\ p \o Rest(p, q) = q
      BY <1>2, <2>4, <2>6
    <3>2. Rest(p, q) \in DOMAIN delta[p].after
      BY <2>1, <2>2, <3>1
    <3> QED
      BY <3>1, <3>2
  <2> HIDE DEF Placed
  <2> QED
    BY <2>5, <2>6
<1>10. \A q : q \in new <=> \E p \in there : q \in Placed(p)
  BY Zenon
<1> HIDE DEF new, Placed
<1>11. \A q \in DOMAIN a : \A p \in Seq(K) : Under(p, q) => p \in DOMAIN a
  <2> SUFFICES ASSUME NEW q \in DOMAIN a, NEW p \in Seq(K), Under(p, q)
               PROVE  p \in DOMAIN a
    OBVIOUS
  <2>1. q \in Seq(K) /\ (Len(q) <= Len(p) => p = q)
    BY <1>2, UnderFacts
  <2>2. Len(p) < Len(q) => p \in DOMAIN a
    BY <1>2, AboveIsDict
  <2>3. Len(p) \in Nat /\ Len(q) \in Nat
    BY <2>1
  <2> QED
    BY <2>1, <2>2, <2>3
<1>12. \A q : q \in new <=> q \in DOMAIN a /\ \E p \in Parts(b, a) : Under(p, q)
  <2>1. ASSUME NEW q \in DOMAIN a, NEW p \in Parts(b, a), Under(p, q)
        PROVE  q \in new
    <3>1. p \in DOMAIN a
      BY <1>2, <1>3, <1>11, <2>1
    <3> QED
      BY <1>8, <1>9, <1>10, <2>1, <3>1
  <2>2. ASSUME NEW q \in new
        PROVE  q \in DOMAIN a /\ \E p \in Parts(b, a) : Under(p, q)
    BY <1>8, <1>9, <1>10
  <2> QED
    BY <2>1, <2>2
<1>13. kept \cup new = DOMAIN a
  <2>1. ASSUME NEW q \in DOMAIN a
        PROVE  q \in kept \cup new
    BY <1>7, <1>12, SameElsewhere
  <2>2. ASSUME NEW q \in kept
        PROVE  q \in DOMAIN a
    BY <1>7, SameElsewhere
  <2>3. \A q \in new : q \in DOMAIN a
    BY <1>12
  <2> QED
    BY <2>1, <2>2, <2>3
<1>14. ASSUME NEW q \in DOMAIN a
       PROVE  (IF q \in kept THEN b[q] ELSE Leaf(q)) = a[q]
  <2>1. CASE q \in kept
    <3>1. b[q] = a[q]
      BY <1>7, <2>1, SameElsewhere
    <3> QED
      BY <2>1, <3>1
  <2>2. CASE q \notin kept
    <3>1. q \in Seq(K) /\ \E p \in Parts(b, a) : Under(p, q)
      BY <1>2, <1>12, <1>13, <2>2
    <3> DEFINE p == CHOOSE p \in About(q) : TRUE
    <3>2. p \in About(q)
      BY <1>6, <3>1
    <3>3. Leaf(q) = delta[p].after[Rest(p, q)]
      BY DEF Rest
    <3> HIDE DEF p
    <3>4. p \in Parts(b, a) /\ Under(p, q) /\ p \in Seq(K)
      BY <1>2, <1>3, <1>6, <3>1, <3>2
    <3>5. p \in DOMAIN a /\ delta[p].after = Select(a, p)
      BY <1>5, <1>11, <3>4
    <3>6. Rest(p, q) \in Seq(K) /\ p \o Rest(p, q) = q
      BY <3>1, <3>4, RestOfPath
    <3>7. Select(a, p)[Rest(p, q)] = a[q]
      <4>1. /\ \A r : r \in DOMAIN Select(a, p) <=> r \in Seq(K) /\ p \o r \in DOMAIN a
            /\ \A r \in DOMAIN Select(a, p) : Select(a, p)[r] = a[p \o r]
        BY <1>2, <3>4, SelectLeaves
      <4> QED
        BY <3>6, <4>1
    <3>8. Leaf(q) = a[q]
      BY <3>3, <3>5, <3>7
    <3> HIDE DEF Leaf
    <3> QED
      BY <2>2, <3>8
  <2> QED
    BY <2>1, <2>2
<1> HIDE DEF Leaf
<1>15. Applied(b, delta) = [q \in DOMAIN a |-> a[q]]
  BY <1>1, <1>13, <1>14
<1> QED
  BY <1>15 DEF IsFunction, delta

-----------------------------------------------------------------------------
\* A log accounts for what became of d: replayed, it leads to w.

Replays(g, s, d) ==
    /\ g = [n \in 0..Len(s) |-> g[n]]
    /\ g[0] = d
    /\ \A n \in 1..Len(s) :
          g[n] = IF s[n].kind = "tool_executed" THEN Applied(g[n - 1], s[n].changes)
                 ELSE g[n - 1]

Accounts(s, d, w) ==
    \E g : /\ Replays(g, s, d) /\ g[Len(s)] = w
           /\ \A n \in Executions(s) : Explains(s[n].changes, g[n - 1])

LEMMA NothingAccounts ==
    ASSUME NEW d
    PROVE  Accounts(<<>>, d, d)
<1> DEFINE g == [n \in 0..0 |-> d]
<1>1. Len(<<>>) = 0 /\ DOMAIN <<>> = {} /\ 1..0 = {}
  OBVIOUS
<1>2. g = [n \in 0..0 |-> g[n]] /\ g[0] = d
  OBVIOUS
<1> HIDE DEF g
<1>3. Replays(g, <<>>, d)
  BY <1>1, <1>2 DEF Replays
<1>4. Executions(<<>>) = {}
  BY <1>1 DEF Executions
<1> QED
  BY <1>1, <1>2, <1>3, <1>4 DEF Accounts

\* Events that are no executions change nothing.
LEMMA OthersAccount ==
    ASSUME NEW s, IsSequence(s), NEW t, IsSequence(t), NEW d, NEW w, Accounts(s, d, w),
           \A e \in Within(t) : e.kind # "tool_executed"
    PROVE  Accounts(s \o t, d, w)
<1> DEFINE u == s \o t
<1>1. PICK g : /\ Replays(g, s, d) /\ g[Len(s)] = w
               /\ \A n \in Executions(s) : Explains(s[n].changes, g[n - 1])
  BY DEF Accounts
<1>2. /\ Len(s) \in Nat /\ Len(t) \in Nat /\ Len(u) = Len(s) + Len(t)
      /\ DOMAIN s = 1..Len(s) /\ DOMAIN t = 1..Len(t) /\ DOMAIN u = 1..Len(u)
  BY Followed
<1>3. /\ \A i \in 1..Len(s) : u[i] = s[i]
      /\ \A i \in 1..Len(t) : u[Len(s) + i] = t[i]
  BY Followed
<1> HIDE DEF u
<1>4. ASSUME NEW i \in 1..Len(u), i > Len(s)
      PROVE  u[i].kind # "tool_executed"
  <2>1. i - Len(s) \in 1..Len(t) /\ Len(s) + (i - Len(s)) = i
    BY <1>2, <1>4
  <2>2. u[i] = t[i - Len(s)]
    BY <1>3, <2>1
  <2> QED
    BY <1>2, <2>1, <2>2 DEF Within
<1> DEFINE h == [n \in 0..Len(u) |-> IF n <= Len(s) THEN g[n] ELSE w]
<1>5. /\ h = [n \in 0..Len(u) |-> h[n]]
      /\ \A n \in 0..Len(u) : h[n] = IF n <= Len(s) THEN g[n] ELSE w
  OBVIOUS
<1> HIDE DEF h
<1>6. h[0] = d /\ h[Len(u)] = w
  <2>1. h[0] = d
    BY <1>1, <1>2, <1>5 DEF Replays
  <2>2. h[Len(u)] = w
    <3>1. Len(u) \in 0..Len(u) /\ (Len(u) <= Len(s) => Len(u) = Len(s))
      <4>1. Len(s) \in Nat /\ Len(t) \in Nat /\ Len(u) = Len(s) + Len(t)
        BY <1>2
      <4> QED
        BY ONLY <4>1
    <3> QED
      BY <1>1, <1>5, <3>1
  <2> QED
    BY <2>1, <2>2
<1>7. ASSUME NEW n \in 1..Len(u)
      PROVE  h[n] = IF u[n].kind = "tool_executed" THEN Applied(h[n - 1], u[n].changes)
                    ELSE h[n - 1]
  <2>1. n \in 0..Len(u) /\ n - 1 \in 0..Len(u)
    BY <1>2
  <2>2. CASE n <= Len(s)
    <3>1. n \in 1..Len(s) /\ n - 1 <= Len(s)
      BY <1>2, <2>2
    <3>2. h[n] = g[n] /\ h[n - 1] = g[n - 1] /\ u[n] = s[n]
      BY <1>3, <1>5, <2>1, <2>2, <3>1
    <3>3. g[n] = IF s[n].kind = "tool_executed" THEN Applied(g[n - 1], s[n].changes)
                 ELSE g[n - 1]
      BY <1>1, <3>1 DEF Replays
    <3> QED
      BY <3>2, <3>3, Zenon
  <2>3. CASE n > Len(s)
    <3>1. u[n].kind # "tool_executed"
      BY <1>4, <2>3
    <3>2. h[n] = w
      BY <1>2, <1>5, <2>1, <2>3
    <3>3. h[n - 1] = w
      <4>1. n - 1 <= Len(s) => n - 1 = Len(s)
        BY <1>2, <2>3
      <4> QED
        BY <1>1, <1>5, <2>1, <4>1
    <3> QED
      BY <3>1, <3>2, <3>3
  <2> QED
    BY <1>2, <2>2, <2>3
<1>8. ASSUME NEW n \in Executions(u)
      PROVE  Explains(u[n].changes, h[n - 1])
  <2>1. n \in 1..Len(u) /\ u[n].kind = "tool_executed"
    BY <1>2 DEF Executions
  <2>2. n \in 1..Len(s)
    BY <1>2, <1>4, <2>1
  <2>3. n \in Executions(s) /\ u[n] = s[n]
    BY <1>2, <1>3, <2>1, <2>2 DEF Executions
  <2>4. h[n - 1] = g[n - 1]
    BY <1>2, <1>5, <2>2
  <2> QED
    BY <1>1, <2>3, <2>4
<1>9. Replays(h, u, d)
  BY <1>5, <1>6, <1>7 DEF Replays
<1> QED
  BY <1>6, <1>8, <1>9 DEF Accounts, u

\* An execution leads on, if its changes are those of the World.
LEMMA ExecutionAccounts ==
    ASSUME NEW s, IsSequence(s), NEW d, NEW w, Accounts(s, d, w), NEW e, NEW v,
           e.kind = "tool_executed", Applied(w, e.changes) = v, Explains(e.changes, w)
    PROVE  Accounts(s \o <<e>>, d, v)
<1> DEFINE u == s \o <<e>>
<1>1. PICK g : /\ Replays(g, s, d) /\ g[Len(s)] = w
               /\ \A n \in Executions(s) : Explains(s[n].changes, g[n - 1])
  BY DEF Accounts
<1>2. /\ Len(s) \in Nat /\ Len(u) = Len(s) + 1
      /\ DOMAIN s = 1..Len(s) /\ DOMAIN u = 1..Len(u)
      /\ \A i \in 1..Len(s) : u[i] = s[i]
      /\ u[Len(s) + 1] = e
  <2>1. IsSequence(<<e>>)
    BY Single
  <2>2. Len(<<e>>) = 1 /\ <<e>>[1] = e
    OBVIOUS
  <2>3. /\ Len(s) \in Nat /\ Len(u) = Len(s) + Len(<<e>>)
        /\ DOMAIN s = 1..Len(s) /\ DOMAIN u = 1..(Len(s) + Len(<<e>>))
        /\ \A i \in 1..Len(s) : u[i] = s[i]
        /\ \A i \in 1..Len(<<e>>) : u[Len(s) + i] = <<e>>[i]
    BY <2>1, Followed
  <2> HIDE DEF u
  <2>4. u[Len(s) + 1] = e
    BY <2>2, <2>3
  <2> QED
    BY <2>2, <2>3, <2>4
<1> HIDE DEF u
<1> DEFINE h == [n \in 0..Len(u) |-> IF n <= Len(s) THEN g[n] ELSE v]
<1>5. /\ h = [n \in 0..Len(u) |-> h[n]]
      /\ \A n \in 0..Len(u) : h[n] = IF n <= Len(s) THEN g[n] ELSE v
  OBVIOUS
<1> HIDE DEF h
<1>6. h[0] = d /\ h[Len(u)] = v /\ h[Len(s)] = w
  BY <1>1, <1>2, <1>5 DEF Replays
<1>7. ASSUME NEW n \in 1..Len(u)
      PROVE  h[n] = IF u[n].kind = "tool_executed" THEN Applied(h[n - 1], u[n].changes)
                    ELSE h[n - 1]
  <2>1. n \in 0..Len(u) /\ n - 1 \in 0..Len(u)
    BY <1>2
  <2>2. CASE n <= Len(s)
    <3>1. n \in 1..Len(s) /\ n - 1 <= Len(s)
      BY <1>2, <2>2
    <3>2. h[n] = g[n] /\ h[n - 1] = g[n - 1] /\ u[n] = s[n]
      BY <1>2, <1>5, <2>1, <2>2, <3>1
    <3>3. g[n] = IF s[n].kind = "tool_executed" THEN Applied(g[n - 1], s[n].changes)
                 ELSE g[n - 1]
      BY <1>1, <3>1 DEF Replays
    <3> QED
      BY <3>2, <3>3, Zenon
  <2>3. CASE n > Len(s)
    <3>1. n = Len(u) /\ n - 1 = Len(s) /\ n = Len(s) + 1
      BY <1>2, <2>3
    <3>2. u[n] = e
      BY <1>2, <3>1
    <3>3. h[n] = v /\ h[n - 1] = w
      BY <1>6, <3>1
    <3> QED
      BY <3>2, <3>3
  <2> QED
    BY <1>2, <2>2, <2>3
<1>8. ASSUME NEW n \in Executions(u)
      PROVE  Explains(u[n].changes, h[n - 1])
  <2>1. n \in 1..Len(u) /\ u[n].kind = "tool_executed"
    BY <1>2 DEF Executions
  <2>2. CASE n <= Len(s)
    <3>1. n \in 1..Len(s)
      BY <1>2, <2>1, <2>2
    <3>2. n \in Executions(s) /\ u[n] = s[n]
      BY <1>2, <2>1, <3>1 DEF Executions
    <3>3. h[n - 1] = g[n - 1]
      BY <1>2, <1>5, <3>1
    <3> QED
      BY <1>1, <3>2, <3>3
  <2>3. CASE n > Len(s)
    <3>1. n = Len(s) + 1 /\ n - 1 = Len(s)
      BY <1>2, <2>1, <2>3
    <3>2. u[n] = e /\ h[n - 1] = w
      BY <1>2, <1>6, <3>1
    <3> QED
      BY <3>2
  <2> QED
    BY <1>2, <2>1, <2>2, <2>3
<1>9. Replays(h, u, d)
  BY <1>5, <1>6, <1>7 DEF Replays
<1> QED
  BY <1>6, <1>8, <1>9 DEF Accounts, u

\* Two replays are the same.
LEMMA OneReplay ==
    ASSUME NEW s, IsSequence(s), NEW d, NEW g, Replays(g, s, d), NEW h, Replays(h, s, d)
    PROVE  g = h
<1>1. Len(s) \in Nat
  <2>1. PICK E : s \in Seq(E)
    BY DEF IsSequence
  <2> QED
    BY <2>1
<1> DEFINE N == {n \in 0..Len(s) : g[n] # h[n]}
<1>2. N = {}
  <2> SUFFICES ASSUME N # {} PROVE FALSE
    OBVIOUS
  <2>1. N \subseteq Nat
    OBVIOUS
  <2>2. PICK n \in N : \A m \in N : n <= m
    <3> HIDE DEF N
    <3> QED
      BY <2>1, LeastLength
  <2>3. n \in 0..Len(s) /\ g[n] # h[n]
    BY <2>2
  <2>4. n # 0
    BY <2>3 DEF Replays
  <2>5. n \in 1..Len(s) /\ n - 1 \in 0..Len(s) /\ ~(n <= n - 1)
    BY <1>1, <2>3, <2>4
  <2>6. g[n - 1] = h[n - 1]
    BY <2>2, <2>5
  <2>7. /\ g[n] = IF s[n].kind = "tool_executed" THEN Applied(g[n - 1], s[n].changes)
                  ELSE g[n - 1]
        /\ h[n] = IF s[n].kind = "tool_executed" THEN Applied(h[n - 1], s[n].changes)
                  ELSE h[n - 1]
    BY <2>5 DEF Replays
  <2> QED
    BY <2>3, <2>6, <2>7, Zenon
<1>3. \A n \in 0..Len(s) : g[n] = h[n]
  BY <1>2
<1>4. g = [n \in 0..Len(s) |-> g[n]] /\ h = [n \in 0..Len(s) |-> h[n]]
  BY DEF Replays
<1>5. [n \in 0..Len(s) |-> g[n]] = [n \in 0..Len(s) |-> h[n]]
  BY <1>3
<1> QED
  BY <1>4, <1>5, Zenon

-----------------------------------------------------------------------------
\* The log of a run accounts for its World.

WorldIsExplained ==
    run # NoRun => IsFunction(world) /\ Accounts(log, Case.state, world)

LEMMA Reassociated ==
    ASSUME NEW s, IsSequence(s), NEW t, IsSequence(t), NEW u, IsSequence(u)
    PROVE  s \o (t \o u) = (s \o t) \o u
<1>1. PICK A : s \in Seq(A)
  BY DEF IsSequence
<1>2. PICK B : t \in Seq(B)
  BY DEF IsSequence
<1>3. PICK C : u \in Seq(C)
  BY DEF IsSequence
<1> DEFINE D == A \cup B \cup C
<1>4. A \subseteq D /\ B \subseteq D /\ C \subseteq D
  OBVIOUS
<1> HIDE DEF D
<1>5. s \in Seq(D) /\ t \in Seq(D) /\ u \in Seq(D)
  BY <1>1, <1>2, <1>3, <1>4, SeqMonotonic
<1> QED
  BY <1>5, ConcatAssociative

LEMMA SetIsFunction == ASSUME NEW d, NEW p, NEW v PROVE IsFunction(Set(d, p, v))
  BY DEF IsFunction, Set

\* A call with no execution.
LEMMA TellsAccount ==
    ASSUME RefundInv, NEW t, NEW outcome, NEW value, NEW events, IsSequence(events),
           Tell(t, outcome, value, events),
           \A e \in Within(events) : e.kind # "tool_executed",
           NEW d, NEW w, Accounts(log, d, w)
    PROVE  Accounts(log', d, w)
<1> DEFINE a == Event("tool_attempt", t)
<1>1. log' = log \o <<a>> \o events
  BY DEF Tell
<1>2. a.kind = "tool_attempt"
  BY DEF Event
<1> HIDE DEF a
<1>3. IsSequence(<<a>>) /\ Within(<<a>>) = {a}
  BY Single
<1>4. IsSequence(log) /\ IsSequence(log \o <<a>>)
  BY <1>3, Followed DEF RefundInv
<1>5. Accounts(log \o <<a>>, d, w)
  BY <1>2, <1>3, <1>4, OthersAccount
<1>6. Accounts((log \o <<a>>) \o events, d, w)
  BY <1>4, <1>5, OthersAccount
<1> QED
  BY <1>1, <1>6

\* A call with one: the evidence of Executes, and what is left after it.
LEMMA ExecutesAccount ==
    ASSUME RefundInv, NEW t \in Requests, NEW w, NEW value, NEW raised \in BOOLEAN,
           Executes(t, w, value, raised),
           Plain(Keys, world), Plain(Keys, w), IsFunction(w),
           NEW d, Accounts(log, d, world)
    PROVE  Accounts(log', d, w)
<1> DEFINE a == Event("tool_attempt", t)
           l == Event("tool_fault", t)
           v == Event("tool_observation", t)
           r == Event("tool_error", t)
           p == [kind |-> "precondition_failed", tool |-> t, number |-> Number(t),
                 missed |-> Missed(t)]
           x == [kind |-> "tool_executed", tool |-> t, number |-> Number(t),
                 changes |-> Changes(world, w),
                 status |-> IF raised THEN "error" ELSE "completed"]
           P == IF Missed(t) = {} THEN <<>> ELSE <<p>>
           R == IF raised THEN <<r>> ELSE <<>>
           ev == P \o R \o <<x>>
<1>1. /\ IF raised THEN Tell(t, "error", NoDocument, ev)
         ELSE IF Has(t, "response_lost_after_commit")
         THEN Tell(t, "lost", NoDocument, Append(ev, l))
         ELSE Tell(t, "result", value, Append(ev, v))
  BY DEF Executes, Precheck
<1>2. \/ log' = log \o <<a>> \o ev
      \/ log' = log \o <<a>> \o Append(ev, l)
      \/ log' = log \o <<a>> \o Append(ev, v)
  BY <1>1 DEF Tell
<1>3. /\ a.kind = "tool_attempt" /\ l.kind = "tool_fault" /\ v.kind = "tool_observation"
      /\ r.kind = "tool_error" /\ p.kind = "precondition_failed"
      /\ x.kind = "tool_executed" /\ x.changes = Changes(world, w)
  BY DEF Event
<1> HIDE DEF a, l, v, r, p, x
<1>4. /\ IsSequence(<<a>>) /\ Within(<<a>>) = {a}
      /\ IsSequence(<<l>>) /\ Within(<<l>>) = {l}
      /\ IsSequence(<<v>>) /\ Within(<<v>>) = {v}
      /\ IsSequence(<<r>>) /\ Within(<<r>>) = {r}
      /\ IsSequence(<<p>>) /\ Within(<<p>>) = {p}
      /\ IsSequence(<<x>>)
      /\ IsSequence(<<>>) /\ Within(<<>>) = {}
  BY Single, Nothing
<1>5. /\ IsSequence(P) /\ \A e \in Within(P) : e.kind # "tool_executed"
      /\ IsSequence(R) /\ \A e \in Within(R) : e.kind # "tool_executed"
  BY <1>3, <1>4
<1> HIDE DEF P, R
<1> DEFINE before == log \o <<a>>
           mid == P \o R
<1>6. IsSequence(log) /\ IsSequence(before) /\ IsSequence(mid)
  BY <1>4, <1>5, Followed DEF RefundInv
<1>7. \A e \in Within(mid) : e.kind # "tool_executed"
  BY <1>5, Joined
<1>8. Accounts(before, d, world)
  <2>1. \A e \in Within(<<a>>) : e.kind # "tool_executed"
    BY <1>3, <1>4
  <2> QED
    BY <1>4, <1>6, <2>1, OthersAccount
<1> HIDE DEF before, mid
<1>9. Accounts(before \o mid, d, world) /\ IsSequence(before \o mid)
  BY <1>6, <1>7, <1>8, OthersAccount, Followed
<1> DEFINE all == (before \o mid) \o <<x>>
<1>10. Accounts(all, d, w)
  <2>1. Applied(world, x.changes) = w /\ Explains(x.changes, world)
    BY <1>3, ChangesApply, ChangesExplain
  <2> QED
    BY <1>3, <1>9, <2>1, ExecutionAccounts
<1>11. IsSequence(all) /\ IsSequence(mid \o <<x>>)
  BY <1>4, <1>6, <1>9, Followed
<1>12. before \o (mid \o <<x>>) = all
  BY <1>4, <1>6, Reassociated
<1> HIDE DEF all
<1>13. ASSUME NEW z, z.kind # "tool_executed"
       PROVE  Accounts(before \o Append(mid \o <<x>>, z), d, w)
  <2>1. IsSequence(<<z>>) /\ Within(<<z>>) = {z}
    BY Single
  <2>2. Append(mid \o <<x>>, z) = (mid \o <<x>>) \o <<z>>
    BY <1>11, OneMore
  <2>3. before \o ((mid \o <<x>>) \o <<z>>) = (before \o (mid \o <<x>>)) \o <<z>>
    BY <1>6, <1>11, <2>1, Reassociated
  <2>4. \A e \in Within(<<z>>) : e.kind # "tool_executed"
    BY <1>13, <2>1
  <2>5. Accounts(all \o <<z>>, d, w)
    BY <1>10, <1>11, <2>1, <2>4, OthersAccount
  <2> QED
    BY <1>12, <2>2, <2>3, <2>5, Zenon
<1>14. \/ log' = before \o (mid \o <<x>>)
       \/ log' = before \o Append(mid \o <<x>>, l)
       \/ log' = before \o Append(mid \o <<x>>, v)
  BY <1>2, Zenon DEF before, mid
<1>15. Accounts(before \o Append(mid \o <<x>>, l), d, w)
  BY <1>3, <1>13
<1>16. Accounts(before \o Append(mid \o <<x>>, v), d, w)
  BY <1>3, <1>13
<1> QED
  BY <1>10, <1>12, <1>14, <1>15, <1>16, Zenon

LEMMA EffectIsFunction ==
    ASSUME RunIsChosen, run # NoRun, IsFunction(world)
    PROVE  IsFunction(RefundEffect.world)
<1>1. CASE RefundCount \notin DOMAIN world
  BY <1>1 DEF RefundEffect
<1>2. CASE RefundCount \in DOMAIN world
  <2>1. IsFunction(Counted)
    BY SetIsFunction, Zenon DEF Counted
  <2>2. IsFunction(Replaced)
    BY SetIsFunction, Zenon DEF Replaced
  <2>3. IsFunction(Set(Counted, Order, Scalar("closed")))
    BY SetIsFunction
  <2>4. run.endpoint \in Endpoints
    BY DEF RunIsChosen
  <2> HIDE DEF IsFunction, Counted, Replaced
  <2> QED
    BY <1>2, <2>1, <2>2, <2>3, <2>4 DEF RefundEffect, Endpoints, Leaves
<1> QED
  BY <1>1, <1>2

LEMMA WorldIsExplainedNext ==
    RunIsChosen /\ RefundInv /\ WorldsArePlain /\ WorldIsExplained /\ [Next]_vars
      => WorldIsExplained'
<1> SUFFICES ASSUME RunIsChosen, RefundInv, WorldsArePlain, WorldIsExplained, [Next]_vars
             PROVE  WorldIsExplained'
  OBVIOUS
<1>1. ASSUME UNCHANGED <<run, world, log>>
      PROVE  WorldIsExplained'
  <2>1. Case' = Case
    BY <1>1 DEF Case, Submitted
  <2> HIDE DEF Case
  <2> QED
    BY <1>1, <2>1 DEF WorldIsExplained
<1>2. ASSUME NEW n \in DOMAIN Submissions, Refuse(n)
      PROVE  WorldIsExplained'
  BY <1>1, <1>2 DEF Refuse
<1>3. ASSUME NEW n \in DOMAIN Submissions, NEW k \in DOMAIN Submissions[n].cases,
             NEW pair \in Submissions[n].runs, Begin(n, k, pair)
      PROVE  WorldIsExplained'
  <2> DEFINE state == Submissions[n].cases[k].state
  <2>1. state \in [DOMAIN state -> STRING]
    BY SubmissionsLoaded
  <2>2. world' = state /\ log' = <<>>
    BY <1>3 DEF Begin, RefundInv
  <2>3. Case'.state = state
    BY <1>3 DEF Begin, Case, Submitted
  <2> HIDE DEF state
  <2>4. IsFunction(world')
    BY <2>1, <2>2 DEF IsFunction
  <2>5. Accounts(log', Case'.state, world')
    BY <2>2, <2>3, NothingAccounts
  <2> QED
    BY <2>4, <2>5 DEF WorldIsExplained
<1>4. ASSUME NEW t \in Requests, NEW outcome, NEW value, NEW events, IsSequence(events),
             Tell(t, outcome, value, events), UNCHANGED <<run, world>>, run # NoRun,
             \A e \in Within(events) : e.kind # "tool_executed"
      PROVE  WorldIsExplained'
  <2>1. Case' = Case
    BY <1>4 DEF Case, Submitted
  <2>2. Accounts(log', Case.state, world)
    BY <1>4, TellsAccount DEF WorldIsExplained
  <2>3. IsFunction(world)
    BY <1>4 DEF WorldIsExplained
  <2> HIDE DEF Case
  <2> QED
    BY <1>4, <2>1, <2>2, <2>3 DEF WorldIsExplained
<1>5. ASSUME NEW t \in Requests, Reject(t)
      PROVE  WorldIsExplained'
  <2> DEFINE e == Event("tool_rejected", t)
  <2>1. Tell(t, "rejected", NoDocument, <<e>>) /\ UNCHANGED <<run, world>> /\ run # NoRun
    BY <1>5 DEF Reject, Ready
  <2>2. e.kind = "tool_rejected"
    BY DEF Event
  <2> HIDE DEF e
  <2>3. IsSequence(<<e>>) /\ Within(<<e>>) = {e}
    BY Single
  <2> QED
    BY <1>4, <2>1, <2>2, <2>3
<1>6. ASSUME NEW t \in Requests, Intercept(t)
      PROVE  WorldIsExplained'
  <2> DEFINE e == Event("tool_fault", t)
             o == Event("tool_observation", t)
  <2>1. /\ UNCHANGED <<run, world>> /\ run # NoRun
        /\ \E f : \/ Tell(t, "timeout", NoDocument, <<e>>)
                  \/ Tell(t, "stale", f.value, <<e, o>>)
    BY <1>6 DEF Intercept, Ready
  <2>2. e.kind = "tool_fault" /\ o.kind = "tool_observation"
    BY DEF Event
  <2> HIDE DEF e, o
  <2>3. /\ IsSequence(<<e>>) /\ Within(<<e>>) = {e}
        /\ IsSequence(<<o>>) /\ Within(<<o>>) = {o}
    BY Single
  <2>4. <<e, o>> = <<e>> \o <<o>>
    <3>1. \A s, u : s = <<e>> /\ u = <<e, o>> => u = Append(s, o)
      OBVIOUS
    <3> QED
      BY <2>3, <3>1, OneMore, Zenon
  <2>5. IsSequence(<<e, o>>) /\ Within(<<e, o>>) = {e} \cup {o}
    <3>1. IsSequence(<<e>> \o <<o>>) /\ Within(<<e>> \o <<o>>) = Within(<<e>>) \cup Within(<<o>>)
      BY <2>3, Followed, Joined
    <3> QED
      BY <2>3, <2>4, <3>1, Zenon
  <2>6. /\ \A z \in Within(<<e>>) : z.kind # "tool_executed"
        /\ \A z \in Within(<<e, o>>) : z.kind # "tool_executed"
    BY <2>2, <2>3, <2>5
  <2> QED
    BY <1>4, <2>1, <2>3, <2>5, <2>6
<1>7. ASSUME NEW t \in Requests, NEW w, NEW value, NEW raised \in BOOLEAN,
             Executes(t, w, value, raised), Plain(Keys, w), IsFunction(w)
      PROVE  WorldIsExplained'
  <2>1. run # NoRun /\ run' = run /\ world' = w
    BY <1>7 DEF Executes, Ready
  <2>2. Plain(Keys, world) /\ Accounts(log, Case.state, world)
    BY <2>1 DEF WorldsArePlain, WorldIsExplained
  <2>3. Accounts(log', Case.state, w)
    BY <1>7, <2>2, ExecutesAccount
  <2>4. Case' = Case
    BY <2>1 DEF Case, Submitted
  <2> HIDE DEF Case
  <2>5. Accounts(log', Case'.state, world') /\ IsFunction(world')
    BY <1>7, <2>1, <2>3, <2>4
  <2> QED
    BY <2>5 DEF WorldIsExplained
<1>8. ASSUME NEW t \in Requests, Look(t)
      PROVE  WorldIsExplained'
  <2>1. Executes(t, world, Select(world, IF t = ReadTool THEN Order ELSE <<"caller">>), FALSE)
    BY <1>8 DEF Look
  <2>2. Plain(Keys, world) /\ IsFunction(world)
    BY <1>8, CallsKeepRun DEF WorldsArePlain, WorldIsExplained
  <2>3. FALSE \in BOOLEAN
    OBVIOUS
  <2> QED
    BY ONLY <1>7, <2>1, <2>2, <2>3, t \in Requests
<1>9. CASE IssueRefund
  <2>1. Executes(RefundTool, RefundEffect.world, Receipt, RefundEffect.raised)
    BY <1>9 DEF IssueRefund
  <2>2. run # NoRun
    BY <1>9, CallsKeepRun
  <2>3. RefundEffect.raised \in BOOLEAN
    BY <2>2, EffectRaises
  <2>4. Plain(Keys, RefundEffect.world)
    BY <2>2, EffectIsPlain DEF WorldsArePlain
  <2>5. IsFunction(RefundEffect.world)
    BY <2>2, EffectIsFunction DEF WorldIsExplained
  <2>6. RefundTool \in Requests
    BY DEF Requests, PackTools
  <2> QED
    BY ONLY <1>7, <2>1, <2>3, <2>4, <2>5, <2>6
<1>10. ASSUME NEW d \in Decisions, End(d)
       PROVE  WorldIsExplained'
  BY <1>1, <1>10 DEF End
<1>11. CASE UNCHANGED vars
  BY <1>1, <1>11 DEF vars
<1> QED
  BY <1>2, <1>3, <1>5, <1>6, <1>8, <1>9, <1>10, <1>11 DEF Next

\* What a reader of the report replays is the replay that accounts for the World.
LEMMA ReplayIsReplayed ==
    ASSUME RefundInv, NEW g, Replays(g, log, Case.state)
    PROVE  Replayed = g
<1> DEFINE Step(h, n) ==
        IF n = 0 THEN Case.state
        ELSE IF log[n].kind = "tool_executed" THEN Applied(h[n - 1], log[n].changes)
        ELSE h[n - 1]
           Solves(h) == h = [n \in 0..Len(log) |-> Step(h, n)]
<1>1. IsSequence(log) /\ Len(log) \in Nat
  BY Followed DEF RefundInv
<1>2. ASSUME NEW h, Replays(h, log, Case.state)
      PROVE  Solves(h)
  <2>1. \A n \in 0..Len(log) : n # 0 => n \in 1..Len(log)
    BY <1>1
  <2>2. \A n \in 0..Len(log) : h[n] = Step(h, n)
    BY <1>2, <2>1 DEF Replays
  <2>3. h = [n \in 0..Len(log) |-> h[n]]
    BY <1>2 DEF Replays
  <2> HIDE DEF Step
  <2>4. [n \in 0..Len(log) |-> h[n]] = [n \in 0..Len(log) |-> Step(h, n)]
    BY <2>2
  <2> QED
    BY <2>3, <2>4, Zenon
<1>3. ASSUME NEW h, Solves(h)
      PROVE  Replays(h, log, Case.state)
  <2>1. h = [n \in 0..Len(log) |-> Step(h, n)]
    BY <1>3
  <2>2. \A n \in 0..Len(log) : h[n] = Step(h, n)
    <3> HIDE DEF Step
    <3> QED
      BY <2>1
  <2>3. h = [n \in 0..Len(log) |-> h[n]]
    <3>1. [n \in 0..Len(log) |-> h[n]] = [n \in 0..Len(log) |-> Step(h, n)]
      BY <2>2
    <3> HIDE DEF Step
    <3> QED
      BY <2>1, <3>1, Zenon
  <2>4. 0 \in 0..Len(log) /\ \A n \in 1..Len(log) : n \in 0..Len(log) /\ n # 0
    BY <1>1
  <2>5. h[0] = Case.state
    BY <2>2, <2>4
  <2>6. \A n \in 1..Len(log) :
           h[n] = IF log[n].kind = "tool_executed" THEN Applied(h[n - 1], log[n].changes)
                  ELSE h[n - 1]
    BY <2>2, <2>4
  <2> QED
    BY <2>3, <2>5, <2>6 DEF Replays
<1>4. Replayed = CHOOSE h : Solves(h)
  BY DEF Replayed
<1>5. Solves(g)
  BY <1>2
<1>6. Solves(Replayed)
  <2> HIDE DEF Solves
  <2> QED
    BY <1>4, <1>5, Zenon
<1>7. Replays(Replayed, log, Case.state)
  BY <1>3, <1>6
<1> QED
  BY <1>1, <1>7, OneReplay

\* The changes that the log gives for each executed call, applied one after the
\* other to the case's state, give the World the run ends in (changes() of
\* state.py and the tool_executed events of ToolPort).
THEOREM ReplayGivesWorld == Spec => []EvidenceExplainsWorld
<1>1. Init => WorldsArePlain /\ WorldIsExplained
  BY DEF Init, WorldsArePlain, WorldIsExplained
<1>2. RunIsChosen /\ RefundInv /\ WorldsArePlain /\ WorldIsExplained /\ [Next]_vars
        => (WorldsArePlain /\ WorldIsExplained)'
  BY WorldsArePlainNext, WorldIsExplainedNext
<1>3. RunIsChosen /\ RefundInv /\ WorldIsExplained => EvidenceExplainsWorld
  <2> SUFFICES ASSUME RunIsChosen, RefundInv, WorldIsExplained, Judged
               PROVE  /\ Replayed[Len(log)] = world
                      /\ \A n \in Executions(log) :
                            Explains(log[n].changes, Replayed[n - 1])
    BY DEF EvidenceExplainsWorld
  <2>1. Accounts(log, Case.state, world)
    BY DEF RunIsChosen, WorldIsExplained
  <2>2. PICK g : /\ Replays(g, log, Case.state) /\ g[Len(log)] = world
                 /\ \A n \in Executions(log) : Explains(log[n].changes, g[n - 1])
    BY <2>1 DEF Accounts
  <2>3. Replayed = g
    BY <2>2, ReplayIsReplayed
  <2> QED
    BY <2>2, <2>3, Zenon
<1> QED
  BY <1>1, <1>2, <1>3, RefundInvariant, PTL DEF Spec

-----------------------------------------------------------------------------
\* Lists of variants and of overrides.

\* Sequences of V, one after the other, are one of V.
LEMMA Flattened ==
    ASSUME NEW V, NEW seqs \in Seq(Seq(V))
    PROVE  FlattenSeq(seqs) \in Seq(V)
<1> DEFINE L == Len(seqs)
           Step(h, i) == IF i = 1 THEN seqs[i] ELSE h[i - 1] \o seqs[i]
           Solves(h, n) == h = [i \in 1..n |-> Step(h, i)]
<1>1. L \in Nat /\ \A i \in 1..L : seqs[i] \in Seq(V)
  OBVIOUS
<1>2. CASE L = 0
  <2>1. seqs = <<>>
    BY <1>2
  <2>2. FlattenSeq(seqs) = <<>>
    BY <1>2, <2>1 DEF FlattenSeq
  <2>3. <<>> \in Seq(V)
    OBVIOUS
  <2> QED
    BY <2>2, <2>3
<1>3. \A n \in 1..L : \E h : Solves(h, n)
  <2> DEFINE N == {n \in 1..L : ~\E h : Solves(h, n)}
  <2> SUFFICES ASSUME N # {} PROVE FALSE
    OBVIOUS
  <2>1. N \subseteq Nat
    <3>1. N \subseteq 1..L
      BY Zenon
    <3>2. 1..L \subseteq Nat
      OBVIOUS
    <3> QED
      BY <3>1, <3>2, Zenon
  <2>2. PICK n \in N : \A m \in N : n <= m
    <3> HIDE DEF N
    <3> QED
      BY <2>1, LeastLength
  <2>3. n \in 1..L /\ ~\E h : Solves(h, n)
    BY <2>2
  <2>4. CASE n = 1
    <3> DEFINE h == [i \in 1..1 |-> seqs[1]]
    <3>1. \A i \in 1..1 : Step(h, i) = seqs[1]
      OBVIOUS
    <3>2. [i \in 1..1 |-> Step(h, i)] = [i \in 1..1 |-> seqs[1]]
      BY <3>1
    <3>3. Solves(h, 1)
      BY <3>2
    <3> QED
      BY <2>3, <2>4, <3>3
  <2>5. CASE n # 1
    <3>1. n - 1 \in 1..L /\ n - 1 \notin N
      <4>1. \A m \in N : m # n - 1
        <5>1. \A m \in N : m \in Nat /\ n <= m
          BY <2>1, <2>2, Zenon
        <5>2. n \in Nat
          BY <2>3
        <5> HIDE DEF N
        <5> QED
          BY <5>1, <5>2
      <4>2. n - 1 \in 1..L
        BY <1>1, <2>3, <2>5
      <4> HIDE DEF N
      <4> QED
        BY <4>1, <4>2, Zenon
    <3>2. PICK g : Solves(g, n - 1)
      BY <3>1
    <3> DEFINE h == [i \in 1..n |-> IF i = n THEN g[n - 1] \o seqs[n] ELSE g[i]]
    <3>3. \A i \in 1..(n - 1) : g[i] = Step(g, i)
      BY <3>2
    <3>4. ASSUME NEW i \in 1..n
          PROVE  h[i] = Step(h, i)
      <4>1. CASE i = n
        <5>1. n - 1 \in 1..n /\ n - 1 # n
          BY <1>1, <2>3, <2>5
        <5>2. h[n] = g[n - 1] \o seqs[n] /\ h[n - 1] = g[n - 1]
          BY <5>1, <4>1
        <5> QED
          BY <2>5, <4>1, <5>2
      <4>2. CASE i # n /\ i = 1
        <5>1. 1 \in 1..(n - 1)
          BY <2>3, <4>2
        <5> QED
          BY <3>3, <4>2, <5>1
      <4>3. CASE i # n /\ i # 1
        <5>1. i \in 1..(n - 1) /\ i - 1 \in 1..n /\ i - 1 # n
          BY <2>3, <4>3
        <5>2. h[i] = g[i] /\ h[i - 1] = g[i - 1]
          BY <4>3, <5>1
        <5> HIDE DEF h
        <5> QED
          BY <3>3, <4>3, <5>1, <5>2
      <4> QED
        BY <4>1, <4>2, <4>3
    <3>5. h = [i \in 1..n |-> h[i]]
      OBVIOUS
    <3> HIDE DEF h
    <3>6. [i \in 1..n |-> h[i]] = [i \in 1..n |-> Step(h, i)]
      <4> HIDE DEF Step
      <4> QED
        BY <3>4
    <3>7. Solves(h, n)
      <4> HIDE DEF Step
      <4> QED
        BY <3>5, <3>6, Zenon
    <3> QED
      BY <2>3, <3>7
  <2> QED
    BY <2>4, <2>5
<1>4. ASSUME NEW h, Solves(h, L), NEW n \in 1..L
      PROVE  h[n] \in Seq(V)
  <2> DEFINE N == {i \in 1..L : h[i] \notin Seq(V)}
  <2> SUFFICES ASSUME N # {} PROVE FALSE
    OBVIOUS
  <2>1. N \subseteq Nat
    BY <1>1
  <2>2. PICK i \in N : \A m \in N : i <= m
    <3> HIDE DEF N
    <3> QED
      BY <2>1, LeastLength
  <2>3. i \in 1..L /\ h[i] = Step(h, i) /\ h[i] \notin Seq(V)
    <3>1. \A j \in 1..L : h[j] = Step(h, j)
      <4> HIDE DEF Step
      <4> QED
        BY <1>4
    <3> QED
      BY <2>2, <3>1
  <2>4. CASE i = 1
    BY <1>1, <2>3, <2>4
  <2>5. CASE i # 1
    <3>1. i - 1 \in 1..L /\ i - 1 \notin N
      BY <1>1, <2>2, <2>3, <2>5
    <3>2. h[i - 1] \in Seq(V) /\ seqs[i] \in Seq(V)
      BY <1>1, <2>3, <3>1
    <3>3. h[i - 1] \o seqs[i] \in Seq(V)
      BY <3>2
    <3> QED
      BY <2>3, <2>5, <3>3
  <2> QED
    BY <2>4, <2>5
<1>5. CASE L # 0
  <2>1. FlattenSeq(seqs) = (CHOOSE h : Solves(h, L))[L]
    BY <1>5 DEF FlattenSeq
  <2>2. L \in 1..L
    BY <1>1, <1>5
  <2>3. Solves(CHOOSE h : Solves(h, L), L)
    <3>1. \E h : Solves(h, L)
      BY <1>3, <2>2
    <3> HIDE DEF Solves
    <3> QED
      BY <3>1, Zenon
  <2>4. (CHOOSE h : Solves(h, L))[L] \in Seq(V)
    <3> HIDE DEF Solves
    <3> QED
      BY <1>4, <2>2, <2>3
  <2> QED
    BY <2>1, <2>4
<1> QED
  BY <1>2, <1>5

\* At most one override: it is World.set, if its path exists.
LEMMA OverriddenOnce ==
    ASSUME NEW d, NEW o
    PROVE  /\ o = <<>> => Overridden(d, o) = d
           /\ Len(o) = 1 /\ o[1].path \in DOMAIN d =>
                 Overridden(d, o) = Set(d, o[1].path, o[1].value)
<1> DEFINE Then(e, q) == IF q.path \in DOMAIN e THEN Set(e, q.path, q.value) ELSE NoDocument
           Step(h, n) == IF n = 0 THEN d ELSE Then(h[n - 1], o[n])
           Solves(h) == h = [n \in 0..Len(o) |-> Step(h, n)]
<1>1. Overridden(d, o) = (CHOOSE h : Solves(h))[Len(o)]
  BY DEF Overridden
<1>2. ASSUME NEW g, Solves(g)
      PROVE  Solves(CHOOSE h : Solves(h))
  <2> HIDE DEF Solves
  <2> QED
    BY <1>2, Zenon
<1> HIDE DEF Then
<1>3. ASSUME o = <<>>
      PROVE  Overridden(d, o) = d
  <2> DEFINE g == [n \in 0..0 |-> d]
  <2>1. Len(o) = 0
    BY <1>3
  <2>2. \A n \in 0..0 : n = 0
    OBVIOUS
  <2>3. [n \in 0..0 |-> d] = [n \in 0..0 |-> Step(g, n)]
    BY <2>2
  <2>4. Solves(g)
    BY <2>1, <2>3
  <2>5. Solves(CHOOSE h : Solves(h))
    BY <1>2, <2>4
  <2>6. \A h : Solves(h) => h[0] = d
    BY <2>1
  <2> HIDE DEF Solves
  <2> QED
    BY <1>1, <2>1, <2>5, <2>6
<1>4. ASSUME Len(o) = 1, o[1].path \in DOMAIN d
      PROVE  Overridden(d, o) = Set(d, o[1].path, o[1].value)
  <2> DEFINE x == Then(d, o[1])
             g == [n \in 0..1 |-> IF n = 0 THEN d ELSE x]
  <2>1. \A n \in 0..1 : n = 0 \/ n = 1
    OBVIOUS
  <2>2. g[0] = d /\ g[1] = x
    OBVIOUS
  <2>3. \A n \in 0..1 : g[n] = Step(g, n)
    <3> HIDE DEF g
    <3> QED
      BY <2>1, <2>2
  <2>4. g = [n \in 0..1 |-> g[n]]
    OBVIOUS
  <2> HIDE DEF g
  <2>5. [n \in 0..1 |-> g[n]] = [n \in 0..1 |-> Step(g, n)]
    <3> HIDE DEF Step
    <3> QED
      BY <2>3
  <2>6. Solves(g)
    <3> HIDE DEF Step
    <3> QED
      BY <1>4, <2>4, <2>5, Zenon
  <2>7. Solves(CHOOSE h : Solves(h))
    BY <1>2, <2>6
  <2>8. ASSUME NEW h, Solves(h)
        PROVE  h[1] = x
    <3>1. \A n \in 0..1 : h[n] = Step(h, n)
      <4> HIDE DEF Step
      <4> QED
        BY <1>4, <2>8
    <3>2. h[0] = d
      BY <3>1
    <3> QED
      BY <3>1, <3>2
  <2>9. x = Set(d, o[1].path, o[1].value)
    BY <1>4 DEF Then
  <2> HIDE DEF Solves, x
  <2> QED
    BY <1>1, <1>4, <2>7, <2>8, <2>9
<1> QED
  BY <1>3, <1>4

-----------------------------------------------------------------------------
\* The cases of a submission.

LEMMA ListedIsSequence ==
    ASSUME NEW s, Listed(s)
    PROVE  /\ IsSequence(s) /\ Within(s) = ToSet(s)
           /\ Len(s) \in Nat /\ DOMAIN s = 1..Len(s)
<1>1. s \in Seq(ToSet(s))
  BY DEF Listed
<1> HIDE DEF Listed
<1>2. IsSequence(s)
  BY <1>1 DEF IsSequence
<1>3. Len(s) \in Nat /\ DOMAIN s = 1..Len(s)
  BY <1>1
<1> QED
  BY <1>2, <1>3 DEF Within, ToSet

\* As many calls have a fault as there are faults, if none has two.
CallOf(f) == <<f.tool, f.on_call>>

LEMMA AsManyAsPlaces ==
    ASSUME NEW s, IsSequence(s), \A i, j \in DOMAIN s : CallOf(s[i]) = CallOf(s[j]) => i = j
    PROVE  Cardinality({CallOf(x) : x \in Within(s)}) = Len(s)
<1> DEFINE T == {CallOf(x) : x \in Within(s)}
           g == [i \in 1..Len(s) |-> CallOf(s[i])]
<1>1. Len(s) \in Nat /\ DOMAIN s = 1..Len(s)
  BY Nothing, Followed
<1>2. g \in [1..Len(s) -> T]
  BY <1>1 DEF Within
<1>3. \A t \in T : \E i \in 1..Len(s) : g[i] = t
  BY <1>1 DEF Within
<1>4. \A i, j \in 1..Len(s) : g[i] = g[j] => i = j
  BY <1>1
<1> HIDE DEF T, g
<1>5. g \in Bijection(1..Len(s), T)
  BY <1>2, <1>3, <1>4 DEF Bijection, Injection, Surjection, IsInjective
<1>6. IsFiniteSet(1..Len(s)) /\ Cardinality(1..Len(s)) = Len(s)
  <2>1. \A n \in Nat : n >= 1 => n - 1 + 1 = n
    OBVIOUS
  <2>2. \A n \in Nat : IF 1 > n THEN n = 0 ELSE n - 1 + 1 = n
    OBVIOUS
  <2> QED
    BY <1>1, <2>2, FS_Interval
<1>7. Cardinality(T) = Cardinality(1..Len(s))
  BY <1>5, <1>6, FS_Bijection DEF ExistsBijection
<1> QED
  BY <1>6, <1>7 DEF T

\* What was written by hand, and what the matrix made of a plan.
Written(v) == v \in ToSet(Scenario.variants)
Made(v) ==
    /\ Submitted.matrix
    /\ \E plan \in ToSet(Submitted.plans) : \E kind : \E call \in ToSet(plan.onCalls) :
          v = Generated(Scenario, plan, kind, call)

\* The variants a plan becomes.
LEMMA ExpansionIs ==
    ASSUME NEW s, NEW plan, Listed(plan.kinds), Listed(plan.onCalls), PlanValid(s, plan)
    PROVE  LET x == Expansion(s, plan)
           IN  /\ x \in Seq(ToSet(x))
               /\ \A v \in ToSet(x) : \E kind : \E call \in ToSet(plan.onCalls) :
                     v = Generated(s, plan, kind, call)
<1> DEFINE K == Len(plan.kinds)
           C == Len(plan.onCalls)
           KindAt(n) == plan.kinds[(n - 1) \div C + 1]
           x == [n \in 1 .. K * C |-> Generated(s, plan, KindAt(n), plan.onCalls[((n - 1) % C) + 1])]
<1>1. K \in Nat /\ C \in Nat /\ DOMAIN plan.onCalls = 1..C
  BY ListedIsSequence
<1>2. C > 0
  <2>1. plan.onCalls # <<>>
    BY DEF PlanValid
  <2>2. plan.onCalls \in Seq(ToSet(plan.onCalls))
    BY DEF Listed
  <2>3. C = 0 => plan.onCalls = <<>>
    BY <2>2
  <2> QED
    BY <1>1, <2>1, <2>3
<1>3. K * C \in Nat
  <2>1. \A a, b \in Nat : a * b \in Nat
    OBVIOUS
  <2> HIDE DEF K, C
  <2> QED
    BY <1>1, <2>1
<1>4. Expansion(s, plan) = x
  BY DEF Expansion
<1>5. \A n \in 1 .. K * C : ((n - 1) % C) + 1 \in DOMAIN plan.onCalls
  <2> HIDE DEF K, C
  <2>1. \A c \in Nat : c > 0 => \A m \in Int : m % c \in 0..(c - 1)
    OBVIOUS
  <2>2. \A n \in 1 .. K * C : (n - 1) % C \in 0..(C - 1)
    BY <1>1, <1>2, <2>1
  <2>3. \A c \in Nat : \A r \in 0..(c - 1) : r + 1 \in 1..c
    OBVIOUS
  <2> QED
    BY <1>1, <2>2, <2>3
<1>6. x \in Seq(ToSet(x))
  <2>1. DOMAIN x = 1 .. K * C /\ \A n \in 1 .. K * C : x[n] \in ToSet(x)
    BY DEF ToSet
  <2>2. x = [n \in 1 .. K * C |-> x[n]]
    OBVIOUS
  <2> HIDE DEF x, K, C
  <2>3. x \in [1 .. K * C -> ToSet(x)]
    BY <2>1, <2>2
  <2>4. \A L \in Nat : \A S : \A f \in [1..L -> S] : f \in Seq(S)
    OBVIOUS
  <2> QED
    BY <1>3, <2>3, <2>4
<1>7. ASSUME NEW v \in ToSet(x)
      PROVE  \E kind : \E call \in ToSet(plan.onCalls) : v = Generated(s, plan, kind, call)
  <2>1. PICK n \in 1 .. K * C : v = x[n]
    BY DEF ToSet
  <2>2. plan.onCalls[((n - 1) % C) + 1] \in ToSet(plan.onCalls)
    BY <1>5 DEF ToSet
  <2>3. v = Generated(s, plan, KindAt(n), plan.onCalls[((n - 1) % C) + 1])
    BY <2>1
  <2> HIDE DEF KindAt
  <2> QED
    BY <2>2, <2>3
<1> QED
  BY <1>4, <1>6, <1>7

\* What was submitted and accepted.
LEMMA SubmissionIs ==
    ASSUME RunIsChosen, run # NoRun
    PROVE  LET s == Submitted
               E == Expanded(s)
           IN  /\ Accepted(s) /\ Prepared(E) /\ s.cases = CasesOf(E)
               /\ \A f \in s.fixtures : FixtureValid(f)
               /\ s.matrix => MatrixAccepted(s.scenario, s.plans, s.maxCases)
               /\ run.case \in DOMAIN CasesOf(E) /\ Case = CasesOf(E)[run.case]
               /\ E.handlers = Scenario.handlers /\ E.state = Scenario.state
               /\ E.faults = Scenario.faults /\ E.assertions = Scenario.assertions
               /\ E.variants =
                     IF s.matrix
                     THEN Scenario.variants
                            \o FlattenSeq([n \in DOMAIN s.plans |-> Expansion(Scenario, s.plans[n])])
                     ELSE Scenario.variants
<1> DEFINE s == Submitted
           E == Expanded(s)
           F == FlattenSeq([n \in DOMAIN s.plans |-> Expansion(Scenario, s.plans[n])])
<1>1. run.submission \in DOMAIN Submissions /\ run.case \in DOMAIN s.cases
  BY DEF RunIsChosen
<1>2. s.cases # <<>>
  <2>1. DOMAIN <<>> = {}
    OBVIOUS
  <2> QED
    BY <1>1, <2>1
<1>3. Accepted(s) /\ s.cases = CasesOf(E)
  BY <1>1, <1>2, SubmissionsLoaded DEF Submitted
<1>4. Prepared(E)
  BY <1>3 DEF Accepted, MatrixAccepted, Expanded
<1>5. /\ \A f \in s.fixtures : FixtureValid(f)
      /\ s.matrix => MatrixAccepted(s.scenario, s.plans, s.maxCases)
  BY <1>3 DEF Accepted
<1>6. {"state", "handlers", "assertions", "faults", "variants"} \subseteq DOMAIN Scenario
  BY <1>1, SubmissionsAreBuilt DEF Submitted, Scenario
<1>7. CASE s.matrix
  <2>1. E = [Scenario EXCEPT !.variants = @ \o F]
    BY <1>7 DEF Expanded, WithFaultMatrix, Scenario
  <2> HIDE DEF F, s, Scenario
  <2>2. /\ E.handlers = Scenario.handlers /\ E.state = Scenario.state
        /\ E.faults = Scenario.faults /\ E.assertions = Scenario.assertions
        /\ E.variants = Scenario.variants \o F
    BY <1>6, <2>1
  <2> QED
    BY <1>1, <1>3, <1>4, <1>5, <1>7, <2>2 DEF s, F, Case
<1>8. CASE ~s.matrix
  <2>1. E = Scenario
    BY <1>8 DEF Expanded, Scenario
  <2> QED
    BY <1>1, <1>3, <1>4, <1>5, <1>8, <2>1 DEF Case
<1> QED
  BY <1>7, <1>8

LEMMA OneThenMore ==
    ASSUME NEW b, NEW s, IsSequence(s)
    PROVE  /\ DOMAIN (<<b>> \o s) = 1..(1 + Len(s))
           /\ (<<b>> \o s)[1] = b
           /\ \A m \in 1..Len(s) : (<<b>> \o s)[1 + m] = s[m]
<1>1. IsSequence(<<b>>) /\ Len(<<b>>) = 1 /\ (<<b>>)[1] = b
  BY Single
<1>2. /\ DOMAIN (<<b>> \o s) = 1..(Len(<<b>>) + Len(s))
      /\ \A m \in 1..Len(<<b>>) : (<<b>> \o s)[m] = (<<b>>)[m]
      /\ \A m \in 1..Len(s) : (<<b>> \o s)[Len(<<b>>) + m] = s[m]
  BY <1>1, Followed
<1>3. 1 \in 1..1
  OBVIOUS
<1> QED
  BY <1>1, <1>2, <1>3

\* The cases of an expanded scenario, by their numbers.
LEMMA CasesAreListed ==
    ASSUME NEW E, IsSequence(E.variants)
    PROVE  /\ DOMAIN CasesOf(E) = 1..(1 + Len(E.variants)) /\ Len(E.variants) \in Nat
           /\ DOMAIN E.variants = 1..Len(E.variants)
           /\ CasesOf(E)[1] = [id |-> Base, state |-> E.state, assertions |-> E.assertions,
                              faults |-> E.faults]
           /\ \A m \in DOMAIN E.variants : CasesOf(E)[1 + m] = CaseOf(E, E.variants[m])
<1> DEFINE L == Len(E.variants)
           B == [id |-> Base, state |-> E.state, assertions |-> E.assertions, faults |-> E.faults]
           C == [n \in DOMAIN E.variants |-> CaseOf(E, E.variants[n])]
           R == {C[n] : n \in 1..L}
<1>1. DOMAIN E.variants = 1..L /\ L \in Nat
  BY Followed
<1>2. CasesOf(E) = <<B>> \o C
  BY DEF CasesOf
<1>3. \A m \in DOMAIN E.variants : C[m] = CaseOf(E, E.variants[m])
  OBVIOUS
<1>4. C \in [1..L -> R]
  BY <1>1
<1> HIDE DEF B, C, R, L
<1>5. C \in Seq(R) /\ Len(C) = L
  <2>1. \A n \in Nat : \A S : \A f \in [1..n -> S] : f \in Seq(S) /\ Len(f) = n
    OBVIOUS
  <2> QED
    BY <1>1, <1>4, <2>1
<1>6. IsSequence(C)
  BY <1>5 DEF IsSequence
<1>7. /\ DOMAIN (<<B>> \o C) = 1..(1 + Len(C))
      /\ (<<B>> \o C)[1] = B
      /\ \A m \in 1..Len(C) : (<<B>> \o C)[1 + m] = C[m]
  BY <1>6, OneThenMore
<1> QED
  BY <1>1, <1>2, <1>3, <1>5, <1>7 DEF B, L

\* The variants of what is expanded: the written ones come first.
LEMMA VariantsAre ==
    ASSUME RunIsChosen, run # NoRun
    PROVE  LET variants == Expanded(Submitted).variants
           IN  /\ IsSequence(variants)
               /\ \A m \in DOMAIN variants :
                     /\ m \in Nat
                     /\ Made(variants[m])
                          \/ (Written(variants[m]) /\ m <= Len(Scenario.variants))
<1> DEFINE s == Submitted
           E == Expanded(s)
           X == [n \in DOMAIN s.plans |-> Expansion(Scenario, s.plans[n])]
           F == FlattenSeq(X)
           V == UNION {ToSet(X[n]) : n \in DOMAIN X}
           W == Scenario.variants
<1>1. /\ s.matrix => MatrixAccepted(s.scenario, s.plans, s.maxCases)
      /\ E.variants = IF s.matrix THEN W \o F ELSE W
  BY SubmissionIs
<1>2. /\ Listed(W) /\ Listed(s.plans)
      /\ \A plan \in ToSet(s.plans) : Listed(plan.kinds) /\ Listed(plan.onCalls)
  BY SubmissionsAreBuilt DEF RunIsChosen, Submitted, Scenario
<1>3. s.matrix => F \in Seq(V) /\ \A v \in V : Made(v)
  <2> SUFFICES ASSUME s.matrix PROVE F \in Seq(V) /\ \A v \in V : Made(v)
    OBVIOUS
  <2>1. DOMAIN X = 1..Len(s.plans) /\ Len(s.plans) \in Nat /\ DOMAIN s.plans = 1..Len(s.plans)
    BY <1>2, ListedIsSequence
  <2>2. ASSUME NEW n \in DOMAIN s.plans
        PROVE  /\ X[n] \in Seq(ToSet(X[n]))
               /\ \A v \in ToSet(X[n]) : Made(v)
    <3>1. s.plans[n] \in ToSet(s.plans) /\ PlanValid(Scenario, s.plans[n])
      BY <1>1 DEF MatrixAccepted, ToSet, Scenario
    <3>2. /\ X[n] \in Seq(ToSet(X[n]))
          /\ \A v \in ToSet(X[n]) : \E kind : \E call \in ToSet(s.plans[n].onCalls) :
                v = Generated(Scenario, s.plans[n], kind, call)
      BY <1>2, <3>1, ExpansionIs
    <3> HIDE DEF X
    <3> QED
      BY <3>1, <3>2 DEF Made
  <2>3. \A n \in DOMAIN X : X[n] \in Seq(V)
    <3>1. \A S, T, q : q \in Seq(S) /\ S \subseteq T => q \in Seq(T)
      <4> SUFFICES ASSUME NEW S, NEW T, NEW q \in Seq(S), S \subseteq T PROVE q \in Seq(T)
        OBVIOUS
      <4>1. \A i \in 1..Len(q) : q[i] \in T
        OBVIOUS
      <4> QED
        BY <4>1, IsASeq
    <3>2. \A n \in DOMAIN X : ToSet(X[n]) \subseteq V
      OBVIOUS
    <3>3. DOMAIN X = DOMAIN s.plans
      OBVIOUS
    <3> HIDE DEF X, V
    <3> QED
      BY <2>2, <3>1, <3>2, <3>3
  <2>4. X \in Seq(Seq(V))
    <3>1. X = [n \in 1..Len(s.plans) |-> X[n]]
      BY <2>1
    <3> HIDE DEF X, V, s
    <3>2. X \in [1..Len(s.plans) -> Seq(V)]
      BY <2>1, <2>3, <3>1
    <3>3. \A L \in Nat : \A S : \A f \in [1..L -> S] : f \in Seq(S)
      OBVIOUS
    <3> QED
      BY <2>1, <3>2, <3>3
  <2>5. \A v \in V : Made(v)
    <3>1. DOMAIN X = DOMAIN s.plans
      OBVIOUS
    <3>2. \A v \in V : \E n \in DOMAIN X : v \in ToSet(X[n])
      OBVIOUS
    <3> HIDE DEF X, V
    <3> QED
      BY <2>2, <3>1, <3>2
  <2> HIDE DEF X, V
  <2> QED
    BY <2>4, <2>5, Flattened
<1> HIDE DEF F, V, X
<1>4. /\ IsSequence(W) /\ Len(W) \in Nat
      /\ \A m \in 1..Len(W) : Written(W[m])
  BY <1>2, ListedIsSequence DEF Written, ToSet
<1>5. /\ IsSequence(E.variants)
      /\ \A m \in DOMAIN E.variants :
            m \in Nat /\ (Made(E.variants[m]) \/ (Written(E.variants[m]) /\ m <= Len(W)))
  <2>1. CASE s.matrix
    <3>1. IsSequence(F) /\ \A i \in 1..Len(F) : Made(F[i])
      BY <1>3, <2>1 DEF IsSequence
    <3> HIDE DEF W
    <3>2. /\ IsSequence(W \o F) /\ DOMAIN (W \o F) = 1..(Len(W) + Len(F)) /\ Len(F) \in Nat
          /\ \A i \in 1..Len(W) : (W \o F)[i] = W[i]
          /\ \A i \in 1..Len(F) : (W \o F)[Len(W) + i] = F[i]
      BY <1>4, <3>1, Followed
    <3>3. E.variants = W \o F
      BY <1>1, <2>1
    <3> HIDE DEF W, E, s
    <3>4. ASSUME NEW m \in 1..(Len(W) + Len(F))
          PROVE  m \in Nat /\ (Made((W \o F)[m]) \/ (Written((W \o F)[m]) /\ m <= Len(W)))
      <4>1. CASE m <= Len(W)
        BY <1>4, <3>2, <4>1
      <4>2. CASE m > Len(W)
        <5>1. m - Len(W) \in 1..Len(F) /\ Len(W) + (m - Len(W)) = m
          BY <1>4, <3>2, <4>2
        <5>2. (W \o F)[m] = F[m - Len(W)]
          BY <3>2, <5>1
        <5> QED
          BY <3>1, <5>1, <5>2
      <4> QED
        BY <1>4, <4>1, <4>2
    <3> QED
      BY <3>2, <3>3, <3>4
  <2>2. CASE ~s.matrix
    <3>1. E.variants = W
      BY <1>1, <2>2
    <3>2. DOMAIN W = 1..Len(W)
      BY <1>2, ListedIsSequence
    <3> HIDE DEF W, E, s
    <3> QED
      BY <1>4, <3>1, <3>2
  <2> QED
    BY <2>1, <2>2
<1> QED
  BY <1>5

\* Each case is the base or that of a variant.
LEMMA CaseIs ==
    ASSUME RunIsChosen, run # NoRun
    PROVE  /\ CaseValid(Expanded(Submitted), Case) /\ run.case \in Nat
           /\ \/ /\ run.case = 1
                 /\ Case = [id |-> Base, state |-> Scenario.state,
                            assertions |-> Scenario.assertions, faults |-> Scenario.faults]
              \/ \E v : /\ Case = CaseOf(Expanded(Submitted), v)
                        /\ Made(v) \/ (Written(v) /\ run.case <= Len(Scenario.variants) + 1)
<1> DEFINE E == Expanded(Submitted)
           L == Len(E.variants)
           W == Scenario.variants
<1>1. /\ Prepared(E) /\ run.case \in DOMAIN CasesOf(E) /\ Case = CasesOf(E)[run.case]
      /\ E.state = Scenario.state /\ E.assertions = Scenario.assertions
      /\ E.faults = Scenario.faults
  BY SubmissionIs
<1>2. /\ IsSequence(E.variants)
      /\ \A m \in DOMAIN E.variants :
            m \in Nat /\ (Made(E.variants[m]) \/ (Written(E.variants[m]) /\ m <= Len(W)))
  BY VariantsAre
<1>3. CaseValid(E, Case)
  BY <1>1 DEF Prepared
<1> HIDE DEF E
<1>4. /\ DOMAIN CasesOf(E) = 1..(1 + L) /\ L \in Nat /\ DOMAIN E.variants = 1..L
      /\ CasesOf(E)[1] = [id |-> Base, state |-> E.state, assertions |-> E.assertions,
                         faults |-> E.faults]
      /\ \A m \in DOMAIN E.variants : CasesOf(E)[1 + m] = CaseOf(E, E.variants[m])
  BY <1>2, CasesAreListed
<1> HIDE DEF L, W
<1>5. run.case \in Nat /\ (run.case = 1 \/ (run.case - 1 \in 1..L /\ 1 + (run.case - 1) = run.case))
  BY <1>1, <1>4
<1>6. CASE run.case = 1
  BY <1>1, <1>3, <1>4, <1>5, <1>6 DEF E
<1>7. CASE run.case # 1
  <2> DEFINE m == run.case - 1
  <2>1. m \in DOMAIN E.variants /\ 1 + m = run.case
    BY <1>4, <1>5, <1>7
  <2>2. Case = CaseOf(E, E.variants[m])
    BY <1>1, <1>4, <2>1
  <2>3. Made(E.variants[m]) \/ (Written(E.variants[m]) /\ m <= Len(W))
    BY <1>2, <2>1
  <2>4. Len(W) \in Nat
    BY SubmissionsAreBuilt, ListedIsSequence DEF RunIsChosen, Submitted, Scenario, W
  <2>5. m <= Len(W) => run.case <= Len(W) + 1
    BY <1>5, <2>4
  <2>6. \E v : Case = CaseOf(E, v) /\ (Made(v) \/ (Written(v) /\ run.case <= Len(W) + 1))
    BY <2>2, <2>3, <2>5
  <2> QED
    BY <1>3, <1>5, <2>6 DEF E, W
<1> QED
  BY <1>6, <1>7

\* A sequence of faults as Fault() makes them.
Faulted(s) == IsSequence(s) /\ \A f \in Within(s) : f.on_call \in Nat \ {0}

LEMMA FaultedTogether ==
    ASSUME NEW s, Faulted(s), NEW t, Faulted(t)
    PROVE  Faulted(s \o t)
<1>1. IsSequence(s \o t)
  BY Followed DEF Faulted
<1>2. Within(s \o t) = Within(s) \cup Within(t)
  BY Joined DEF Faulted
<1> QED
  BY <1>1, <1>2 DEF Faulted

\* The one fault of a case that a plan was made into.
LEMMA MadeIs ==
    ASSUME RunIsChosen, run # NoRun, NEW v, Made(v), Case = CaseOf(Expanded(Submitted), v)
    PROVE  /\ Submitted.matrix /\ Len(Case.faults) = 1
           /\ Case.faults[1].on_call \in Nat \ {0} /\ IsSequence(Case.faults)
           /\ FaultTriggered(Case.faults[1]) \in Case.assertions
           /\ \E plan \in ToSet(Submitted.plans) : v.overrides = plan.overrides
<1>1. PICK plan \in ToSet(Submitted.plans) :
          \E kind : \E call \in ToSet(plan.onCalls) : v = Generated(Scenario, plan, kind, call)
  BY DEF Made
<1>2. PICK kind : \E call \in ToSet(plan.onCalls) : v = Generated(Scenario, plan, kind, call)
  BY <1>1
<1>3. PICK call \in ToSet(plan.onCalls) : v = Generated(Scenario, plan, kind, call)
  BY <1>2
<1>4. MatrixAccepted(Scenario, Submitted.plans, Submitted.maxCases) /\ Submitted.matrix
      /\ Expanded(Submitted).faults = Scenario.faults
  BY SubmissionIs DEF Made, Scenario
<1> DEFINE f == Fault(plan.tool, kind, call,
                      IF kind = "stale_read" THEN CHOOSE x \in plan.stale : TRUE ELSE Null)
           own == IF plan.assertions = {} THEN Scenario.assertions ELSE UNION plan.assertions
<1>5. /\ v.faults = <<f>> /\ v.assertions = own \cup {FaultTriggered(f)}
      /\ v.overrides = plan.overrides
  <2> HIDE DEF f, own
  <2>1. v = [id |-> <<"fault", plan.tool, kind, call>>, overrides |-> plan.overrides,
             assertions |-> own \cup {FaultTriggered(f)}, faults |-> <<f>>]
    BY <1>3, Zenon DEF Generated, f, own
  <2> QED
    BY <2>1
<1>6. call \in Nat \ {0}
  <2>1. PICK n \in DOMAIN Submitted.plans : plan = Submitted.plans[n]
    BY DEF ToSet
  <2>2. PlanValid(Scenario, plan)
    BY <1>4, <2>1 DEF MatrixAccepted
  <2>3. PICK i \in DOMAIN plan.onCalls : call = plan.onCalls[i]
    BY DEF ToSet
  <2>4. call \in 1 .. Scenario.maxCalls
    BY <2>2, <2>3 DEF PlanValid
  <2> QED
    BY <2>4
<1>7. f.on_call = call
  BY DEF Fault
<1> HIDE DEF f, own
<1>8. Case.faults = <<>> \o <<f>> /\ Case.assertions = v.assertions
  BY <1>4, <1>5 DEF CaseOf, MatrixAccepted
<1>9. <<>> \o <<f>> = <<f>> /\ Len(<<f>>) = 1 /\ (<<f>>)[1] = f
  OBVIOUS
<1>10. IsSequence(<<f>>)
  BY Single
<1>11. Case.faults = <<f>>
  BY <1>8, <1>9
<1> QED
  BY <1>4, <1>5, <1>6, <1>7, <1>8, <1>9, <1>10, <1>11

\* Whatever a case's faults come from, Fault() has made them.
LEMMA CaseIsFaulted ==
    ASSUME RunIsChosen, run # NoRun
    PROVE  Faulted(Case.faults)
<1>1. AreFaults(Scenario.faults) /\ \A v \in ToSet(Scenario.variants) : AreFaults(v.faults)
  BY SubmissionsAreBuilt DEF RunIsChosen, Submitted, Scenario
<1>2. ASSUME NEW s, AreFaults(s)
      PROVE  Faulted(s)
  BY <1>2, ListedIsSequence DEF AreFaults, Faulted
<1>3. CASE Case = [id |-> Base, state |-> Scenario.state,
                   assertions |-> Scenario.assertions, faults |-> Scenario.faults]
  BY <1>1, <1>2, <1>3
<1>4. ASSUME NEW v, Case = CaseOf(Expanded(Submitted), v), Written(v)
      PROVE  Faulted(Case.faults)
  <2>1. Case.faults = Scenario.faults \o v.faults
    BY <1>4, SubmissionIs DEF CaseOf
  <2>2. Faulted(Scenario.faults) /\ Faulted(v.faults)
    BY <1>1, <1>2, <1>4 DEF Written
  <2> QED
    BY <2>1, <2>2, FaultedTogether
<1>5. ASSUME NEW v, Case = CaseOf(Expanded(Submitted), v), Made(v)
      PROVE  Faulted(Case.faults)
  <2>1. /\ Submitted.matrix /\ Len(Case.faults) = 1
        /\ Case.faults[1].on_call \in Nat \ {0} /\ IsSequence(Case.faults)
    BY <1>5, MadeIs
  <2>2. DOMAIN Case.faults = 1..1
    BY <2>1, Followed
  <2>3. Within(Case.faults) = {Case.faults[1]}
    BY <2>2 DEF Within
  <2> QED
    BY <2>1, <2>3 DEF Faulted
<1> QED
  BY <1>3, <1>4, <1>5, CaseIs

-----------------------------------------------------------------------------
\* What a case replaces.

\* World.set leaves what stands neither above nor below the path.
LEMMA SetElsewhere ==
    ASSUME NEW K, NEW d, DOMAIN d \subseteq Seq(K), NEW v, DOMAIN v \subseteq Seq(K),
           NEW p \in Seq(K), NEW q \in Seq(K), ~Under(p, q), ~Under(q, p), q \in DOMAIN d
    PROVE  Value(Set(d, p, v), q) = Value(d, q)
<1> DEFINE e == Set(d, p, v)
           s == Select(d, q)
           t == Select(e, q)
<1>1. /\ \A x : x \in DOMAIN e <=> \/ x \in DOMAIN d /\ ~Under(p, x)
                                   \/ x \in Seq(K) /\ Under(p, x) /\ Rest(p, x) \in DOMAIN v
      /\ \A x \in DOMAIN e : e[x] = IF Under(p, x) THEN v[Rest(p, x)] ELSE d[x]
      /\ DOMAIN e \subseteq Seq(K)
  BY SetLeaves
<1> HIDE DEF e
<1>2. ASSUME NEW r \in Seq(K)
      PROVE  ~Under(p, q \o r)
  <2>1. q \o r \in Seq(K) /\ Under(q, q \o r)
    BY PathBelow
  <2> QED
    BY <2>1, UnderFacts
<1>3. /\ \A r : r \in DOMAIN s <=> r \in Seq(K) /\ q \o r \in DOMAIN d
      /\ \A r \in DOMAIN s : s[r] = d[q \o r]
  BY SelectLeaves
<1>4. /\ \A r : r \in DOMAIN t <=> r \in Seq(K) /\ q \o r \in DOMAIN e
      /\ \A r \in DOMAIN t : t[r] = e[q \o r]
  BY <1>1, SelectLeaves
<1>5. s = [r \in DOMAIN s |-> s[r]] /\ t = [r \in DOMAIN t |-> t[r]]
  BY DEF Select
<1> HIDE DEF s, t
<1>6. DOMAIN s = DOMAIN t /\ \A r \in DOMAIN s : s[r] = t[r]
  BY <1>1, <1>2, <1>3, <1>4
<1>7. s = t
  BY <1>5, <1>6
<1>8. q \in DOMAIN e
  BY <1>1
<1> QED
  BY <1>7, <1>8 DEF Value, e, s, t

\* One fact at most is another than in the fixture.
LEMMA OneFactDeparts ==
    ASSUME NEW f, FixtureValid(f), DOMAIN f.state \subseteq Seq(STRING),
           NEW o, OneFact(o, f)
    PROVE  Cardinality({n \in Names : Value(Overridden(f.state, o), f.bindings[n])
                                        # Value(f.state, f.bindings[n])}) <= 1
<1> DEFINE e == Overridden(f.state, o)
           D == {n \in Names : Value(e, f.bindings[n]) # Value(f.state, f.bindings[n])}
<1>1. /\ \A n \in Names : f.bindings[n] \in DOMAIN f.state /\ f.bindings[n] \in Seq(STRING)
      /\ \A m, n \in Names : m # n => ~IsPrefix(f.bindings[m], f.bindings[n])
  BY DEF FixtureValid
<1>2. CASE o = <<>>
  <2>1. e = f.state
    BY <1>2, OverriddenOnce
  <2>2. D = {}
    BY <2>1
  <2> HIDE DEF D
  <2> QED
    BY <2>2, FS_EmptySet DEF D
<1>3. CASE o # <<>>
  <2>1. /\ Len(o) = 1 /\ o[1].path \in {f.bindings[n] : n \in Names}
        /\ DOMAIN o[1].value \subseteq Seq(STRING)
    BY <1>3 DEF OneFact
  <2>2. PICK m \in Names : o[1].path = f.bindings[m]
    BY <2>1
  <2>3. e = Set(f.state, f.bindings[m], o[1].value)
    BY <1>1, <2>1, <2>2, OverriddenOnce
  <2> HIDE DEF e
  <2>4. ASSUME NEW n \in Names, n # m
        PROVE  Value(e, f.bindings[n]) = Value(f.state, f.bindings[n])
    <3> DEFINE p == f.bindings[m]
               q == f.bindings[n]
               v == o[1].value
               d == f.state
    <3>1. p \in Seq(STRING) /\ q \in Seq(STRING) /\ q \in DOMAIN d
      BY <1>1
    <3>2. ~Under(p, q) /\ ~Under(q, p)
      BY <1>1, <2>4, PrefixIsUnder
    <3>3. DOMAIN d \subseteq Seq(STRING) /\ DOMAIN v \subseteq Seq(STRING)
      BY <2>1
    <3>4. Value(e, q) = Value(Set(d, p, v), q)
      BY <2>3
    <3> HIDE DEF p, q, v, d
    <3>5. Value(Set(d, p, v), q) = Value(d, q)
      BY <3>1, <3>2, <3>3, SetElsewhere
    <3> QED
      BY <3>4, <3>5 DEF q, d
  <2>5. D = {} \/ D = {m}
    BY <2>4
  <2> HIDE DEF D
  <2>6. Cardinality(D) \in {0, 1}
    BY <2>5, FS_EmptySet, FS_Singleton
  <2> QED
    BY <2>6 DEF D, e
<1> QED
  BY <1>2, <1>3

LEMMA CaseDeparts ==
    ASSUME RunIsChosen, run # NoRun, NEW f \in Submitted.fixtures
    PROVE  Cardinality({n \in Names : Value(Case.state, f.bindings[n])
                                        # Value(f.state, f.bindings[n])}) <= 1
<1>1. FixtureValid(f) /\ Expanded(Submitted).state = Scenario.state
  BY SubmissionIs
<1>2. /\ Scenario.state = f.state
      /\ \A o \in {v.overrides : v \in ToSet(Scenario.variants)}
                    \cup {plan.overrides : plan \in ToSet(Submitted.plans)} : OneFact(o, f)
  BY SubmissionsAreBuilt DEF RunIsChosen, Submitted, Scenario
<1>3. DOMAIN f.state \subseteq Seq(STRING)
  <2>1. run.submission \in DOMAIN Submissions
    BY DEF RunIsChosen
  <2>2. Submitted.cases = CasesOf(Expanded(Submitted)) /\ Prepared(Expanded(Submitted))
    BY SubmissionIs
  <2>3. 1 \in DOMAIN Submitted.cases /\ Submitted.cases[1].state = Scenario.state
    <3> DEFINE E == Expanded(Submitted)
    <3>1. IsSequence(E.variants)
      BY VariantsAre
    <3>2. /\ DOMAIN CasesOf(E) = 1..(1 + Len(E.variants)) /\ Len(E.variants) \in Nat
          /\ CasesOf(E)[1] = [id |-> Base, state |-> E.state, assertions |-> E.assertions,
                             faults |-> E.faults]
      BY <3>1, CasesAreListed
    <3> HIDE DEF E
    <3>3. 1 \in DOMAIN CasesOf(E) /\ CasesOf(E)[1].state = E.state
      BY <3>2
    <3> QED
      BY <1>1, <2>2, <3>3 DEF E
  <2>4. \A k \in DOMAIN Submitted.cases : DOMAIN Submitted.cases[k].state \subseteq Seq(STRING)
    BY <2>1, SubmissionsLoaded DEF Submitted
  <2> QED
    BY <1>2, <2>3, <2>4
<1>4. ASSUME Case.state = Scenario.state
      PROVE  Cardinality({n \in Names : Value(Case.state, f.bindings[n])
                                          # Value(f.state, f.bindings[n])}) <= 1
  <2>1. {n \in Names : Value(Case.state, f.bindings[n]) # Value(f.state, f.bindings[n])} = {}
    BY <1>2, <1>4
  <2> QED
    BY <2>1, FS_EmptySet
<1>5. ASSUME NEW v, Case = CaseOf(Expanded(Submitted), v), OneFact(v.overrides, f)
      PROVE  Cardinality({n \in Names : Value(Case.state, f.bindings[n])
                                          # Value(f.state, f.bindings[n])}) <= 1
  <2>1. Case.state = Overridden(f.state, v.overrides)
    BY <1>1, <1>2, <1>5 DEF CaseOf
  <2> QED
    BY <1>1, <1>3, <1>5, <2>1, OneFactDeparts
<1>6. ASSUME NEW v, Case = CaseOf(Expanded(Submitted), v), Written(v) \/ Made(v)
      PROVE  OneFact(v.overrides, f)
  <2>1. CASE Written(v)
    BY <1>2, <2>1 DEF Written
  <2>2. CASE Made(v)
    BY <1>2, <1>6, <2>2, MadeIs
  <2> QED
    BY <1>6, <2>1, <2>2
<1>7. CASE Case = [id |-> Base, state |-> Scenario.state,
                   assertions |-> Scenario.assertions, faults |-> Scenario.faults]
  <2>1. Case.state = Scenario.state
    BY <1>7
  <2> QED
    BY <1>4, <2>1
<1> QED
  BY <1>5, <1>6, <1>7, CaseIs

\* Whatever runs is a case that means something.
LEMMA ChosenIsSound == RunIsChosen => CasesAreSound
<1> DEFINE faults == Case.faults
           E == Expanded(Submitted)
<1> SUFFICES ASSUME RunIsChosen, run # NoRun
             PROVE  /\ Cardinality({<<f.tool, f.on_call>> : f \in ToSet(faults)}) = Len(faults)
                    /\ \A f \in ToSet(faults) : f.tool \in Scenario.handlers
                                                /\ f.on_call \in Nat \ {0}
                    /\ \A a \in Case.assertions :
                          /\ a.type \in {"state", "precondition"} => a.path \in DOMAIN Case.state
                          /\ a.type \in {"count", "precondition"} => a.tool \in Scenario.handlers
                    /\ \A f \in Submitted.fixtures :
                          Cardinality({n \in Names : Value(Case.state, f.bindings[n])
                                                       # Value(f.state, f.bindings[n])}) <= 1
                    /\ Submitted.matrix /\ run.case > Len(Scenario.variants) + 1 =>
                          Len(faults) = 1 /\ FaultTriggered(faults[1]) \in Case.assertions
  BY DEF CasesAreSound
<1>1. CaseValid(E, Case) /\ E.handlers = Scenario.handlers
  BY CaseIs, SubmissionIs
<1>2. /\ \A n \in DOMAIN faults : faults[n].tool \in Scenario.handlers
      /\ \A n, k \in DOMAIN faults :
            faults[n].tool = faults[k].tool /\ faults[n].on_call = faults[k].on_call => n = k
      /\ \A a \in Case.assertions : ~Misplaced(a, Case.state, Scenario.handlers)
  BY <1>1 DEF CaseValid, FaultsValid, AssertionsValid
<1>3. Faulted(faults) /\ Within(faults) = ToSet(faults)
  BY CaseIsFaulted DEF Within, ToSet
<1>4. Cardinality({<<f.tool, f.on_call>> : f \in ToSet(faults)}) = Len(faults)
  <2>1. \A n, k \in DOMAIN faults : CallOf(faults[n]) = CallOf(faults[k]) => n = k
    BY <1>2 DEF CallOf
  <2>2. Cardinality({CallOf(f) : f \in Within(faults)}) = Len(faults)
    BY <1>3, <2>1, AsManyAsPlaces DEF Faulted
  <2> QED
    BY <1>3, <2>2 DEF CallOf
<1>5. \A f \in ToSet(faults) : f.tool \in Scenario.handlers /\ f.on_call \in Nat \ {0}
  BY <1>2, <1>3 DEF Faulted, ToSet
<1>6. ASSUME NEW a \in Case.assertions
      PROVE  /\ a.type \in {"state", "precondition"} => a.path \in DOMAIN Case.state
             /\ a.type \in {"count", "precondition"} => a.tool \in Scenario.handlers
  BY <1>2 DEF Misplaced
<1>7. ASSUME Submitted.matrix, run.case > Len(Scenario.variants) + 1
      PROVE  Len(faults) = 1 /\ FaultTriggered(faults[1]) \in Case.assertions
  <2>1. Len(Scenario.variants) \in Nat
    BY SubmissionsAreBuilt, ListedIsSequence DEF RunIsChosen, Submitted, Scenario
  <2>2. run.case # 1
    BY <1>7, <2>1
  <2>3. run.case \in Int
    BY CaseIs
  <2>4. PICK v : Case = CaseOf(E, v) /\ Made(v)
    BY <1>7, <2>1, <2>2, <2>3, CaseIs
  <2> QED
    BY <2>4, MadeIs
<1> QED
  BY <1>4, <1>5, <1>6, <1>7, CaseDeparts

\* Whatever was submitted, what run_scenario runs is a case that means something:
\* it has at most one fault for a call of a registered tool, asserts of what the
\* World holds at the start, differs from its fixture in one fact at most and, if
\* with_fault_matrix made it, has one fault that it requires (prepare_case,
\* validate_assertions, with_fault_matrix and refund_scenario).
THEOREM SubmissionsAreSound == Spec => []CasesAreSound
<1>1. RunIsChosen /\ RefundInv => CasesAreSound
  BY ChosenIsSound
<1> QED
  BY <1>1, RefundInvariant, PTL
=============================================================================
