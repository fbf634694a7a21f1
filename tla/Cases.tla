------------------------------- MODULE Cases -------------------------------
(***************************************************************************)
(* How a scenario becomes runnable cases: prepare_case and                 *)
(* validate_assertions of validation.py, with_fault_matrix of faults.py.   *)
(* They accept a scenario whole or raise ValueError before any agent is    *)
(* invoked.  The syntax of identifiers and schemas, the check that a       *)
(* handler can be called, and the manifest's hash are left out.            *)
(*                                                                         *)
(* A scenario is a record with state, handlers, specs (the tools that have *)
(* a ToolSpec), readOnly, assertions, faults, maxCalls and variants; a     *)
(* variant has id, overrides, assertions and faults.                       *)
(***************************************************************************)
EXTENDS Documents, Assertions

FaultKinds == {"timeout_before", "stale_read", "response_lost_after_commit"}

\* A fault, with the document a stale read answers; Fault() refuses others.
Fault(tool, kind, on_call, value) ==
    [tool |-> tool, kind |-> kind, on_call |-> on_call, value |-> value]

Base == <<"base">>

-----------------------------------------------------------------------------
\* validate_assertions.

\* What an assertion is about, and what it says of it.
Subject(a) ==
    CASE a.type = "state" -> <<"state", a.path>>
      [] a.type = "precondition" -> <<"precondition", a.tool, a.path>>
      [] a.type = "count" -> <<"count", a.tool, a.kind>>
      [] a.type = "order" -> <<"order">>

Expected(a) ==
    CASE a.type \in {"state", "precondition"} -> a.value
      [] a.type = "count" -> a.count
      [] a.type = "order" -> a.tools

Misplaced(a, state, handlers) ==
    CASE a.type = "state" -> a.path \notin DOMAIN state
      [] a.type = "precondition" -> a.path \notin DOMAIN state \/ a.tool \notin handlers
      [] a.type = "count" -> a.tool \notin handlers
      [] a.type = "order" -> \E n \in DOMAIN a.tools : a.tools[n] \notin handlers
      [] a.type = "fault" -> FALSE

AssertionsValid(assertions, state, handlers) ==
    /\ assertions # {}
    /\ \A a \in assertions : ~Misplaced(a, state, handlers)
    /\ \A a, b \in {x \in assertions : x.type # "fault"} :
          Subject(a) = Subject(b) => Expected(a) = Expected(b)

-----------------------------------------------------------------------------
\* prepare_case.

\* The overrides of a variant, in order; each path must exist by then.
Overridden(state, overrides) ==
    LET after[n \in 0..Len(overrides)] ==
            IF n = 0 THEN state
            ELSE LET d == after[n - 1]
                     o == overrides[n]
                 IN  IF o.path \in DOMAIN d THEN Set(d, o.path, o.value) ELSE NoDocument
    IN  after[Len(overrides)]

CaseOf(s, v) ==
    [id |-> v.id, state |-> Overridden(s.state, v.overrides),
     assertions |-> v.assertions, faults |-> s.faults \o v.faults]

\* The base case first, then one case for each variant.
CasesOf(s) ==
    <<[id |-> Base, state |-> s.state, assertions |-> s.assertions, faults |-> s.faults]>>
      \o [n \in DOMAIN s.variants |-> CaseOf(s, s.variants[n])]

\* Mutant: a variant's faults are checked without the scenario's own.
FaultsValid_OnePerVariant(s, faults) ==
    /\ \A n \in DOMAIN faults : faults[n].tool \in s.handlers
    /\ \A n, k \in DOMAIN faults \ DOMAIN s.faults :
          faults[n].tool = faults[k].tool /\ faults[n].on_call = faults[k].on_call => n = k

\* At most one fault for a call; only a tool known to write cannot be stale.
FaultsValid(s, faults) ==
    /\ \A n \in DOMAIN faults :
          /\ faults[n].tool \in s.handlers
          /\ faults[n].kind = "stale_read" /\ s.specs # {} => faults[n].tool \in s.readOnly
    /\ \A n, k \in DOMAIN faults :
          faults[n].tool = faults[k].tool /\ faults[n].on_call = faults[k].on_call => n = k

CaseValid(s, case) ==
    /\ case.state # NoDocument
    /\ AssertionsValid(case.assertions, case.state, s.handlers)
    /\ FaultsValid(s, case.faults)

Distinct(seq) == \A n, k \in DOMAIN seq : seq[n] = seq[k] => n = k

Prepared(s) ==
    /\ s.maxCalls >= 1
    /\ s.specs \in {{}, s.handlers}
    /\ Distinct([n \in DOMAIN s.variants |-> s.variants[n].id])
    /\ LET cases == CasesOf(s)
       IN  \A n \in DOMAIN cases : CaseValid(s, cases[n])

-----------------------------------------------------------------------------
\* with_fault_matrix.

\* A FaultPlan.  It has its own assertions or none, a stale value or none:
\* sets of at most one element.
FaultPlan(tool, kinds, onCalls, assertions, overrides, stale) ==
    [tool |-> tool, kinds |-> kinds, onCalls |-> onCalls, assertions |-> assertions,
     overrides |-> overrides, stale |-> stale]

PlanValid(s, plan) ==
    /\ plan.kinds # <<>> /\ plan.onCalls # <<>>
    /\ Distinct(plan.kinds) /\ Distinct(plan.onCalls)
    /\ "stale_read" \in ToSet(plan.kinds) =>
          plan.tool \in s.readOnly \cap s.specs /\ plan.stale # {}
    /\ \A n \in DOMAIN plan.onCalls : plan.onCalls[n] \in 1 .. s.maxCalls
    /\ plan.assertions # {{}}

\* One variant with one fault, which must be reached.
Generated(s, plan, kind, call) ==
    LET fault == Fault(plan.tool, kind, call,
                       IF kind = "stale_read" THEN CHOOSE v \in plan.stale : TRUE ELSE Null)
        own == IF plan.assertions = {} THEN s.assertions ELSE UNION plan.assertions
    IN  [id |-> <<"fault", plan.tool, kind, call>>, overrides |-> plan.overrides,
         assertions |-> own \cup {FaultTriggered(fault)}, faults |-> <<fault>>]

\* Kinds times occurrences, the occurrences of a kind next to each other.
Expansion(s, plan) ==
    [n \in 1 .. Len(plan.kinds) * Len(plan.onCalls) |->
        Generated(s, plan, plan.kinds[(n - 1) \div Len(plan.onCalls) + 1],
                  plan.onCalls[((n - 1) % Len(plan.onCalls)) + 1])]

WithFaultMatrix(s, plans) ==
    [s EXCEPT !.variants = @ \o FlattenSeq([n \in DOMAIN plans |-> Expansion(s, plans[n])])]

Total(plans) ==
    FoldLeft(LAMBDA sum, plan : sum + Len(plan.kinds) * Len(plan.onCalls), 0, plans)

MatrixAccepted(s, plans, maxCases) ==
    /\ maxCases >= 1
    /\ s.faults = <<>>
    /\ Prepared(s)
    /\ Total(plans) <= maxCases
    /\ \A n \in DOMAIN plans : PlanValid(s, plans[n])
    /\ Prepared(WithFaultMatrix(s, plans))
=============================================================================
