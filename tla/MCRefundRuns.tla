---------------------------- MODULE MCRefundRuns ----------------------------
(***************************************************************************)
(* Submissions for RefundRuns: the scenario pack, the two example          *)
(* scenarios, every plan of up to two faults over every initial state,     *)
(* worlds that lack a fact, and submissions with a mistake.                *)
(***************************************************************************)
EXTENDS RefundRuns

Kept == {"counts", "replaces", "closes", "fails"}
PackRuns ==
    ({"safe", "scripted"} \X Kept) \cup {<<"blind", "counts">>}
      \cup ({"any"} \X (Kept \cup {"forgets"}))

-----------------------------------------------------------------------------
\* Every plan of up to two faults, over every combination of the policy's facts.

Stale == Fault(ReadTool, "stale_read", 1, Select(DefaultState, Order))
Missing(tool, n) == <<Fault(tool, Time, n, Null), Fault(tool, Lose, n, Null)>>
Candidates ==
    <<Stale>> \o Missing(ReadTool, 1) \o Missing(ReadTool, 2) \o Missing(ReadTool, 3)
      \o Missing(ReadTool, 4) \o Missing(IdentityTool, 1) \o Missing(RefundTool, 1)
      \o Missing(RefundTool, 2)

\* No fault, one, or two.
Plans ==
    LET size == Len(Candidates)
        First(n) == (n - 1) \div size + 1
        Second(n) == ((n - 1) % size) + 1
        Single(n) == First(n) = Second(n)
        plans == SelectSeq([n \in 1..size * size |-> n], LAMBDA n : First(n) <= Second(n))
    IN  <<<<>>>> \o [k \in DOMAIN plans |->
            LET n == plans[k]
            IN  IF Single(n) THEN <<Candidates[First(n)]>>
                ELSE <<Candidates[First(n)], Candidates[Second(n)]>>]

OnePerCall(plan) ==
    \A f, g \in ToSet(plan) : f # g => <<f.tool, f.on_call>> # <<g.tool, g.on_call>>

Facts == <<<<Verified, "false">>, <<CallerId, "c_other">>, <<RefundCount, "1">>,
           <<OrderStatus, "processing">>>>
Everything ==
    [n \in 1..16 |->
        [id |-> <<"facts", n>>, faults |-> <<>>,
         overrides |-> FlattenSeq([k \in 1..4 |->
             IF ((n - 1) \div (2 ^ (k - 1))) % 2 = 1 THEN Override(Facts[k][1], Facts[k][2])
             ELSE <<>>]),
         assertions |-> {a \in BaseScenario.assertions : a.type = "precondition"}]]

Planned ==
    LET plans == SelectSeq(Plans, OnePerCall)
    IN  [n \in DOMAIN plans |->
            Submission(ByHand([BaseScenario EXCEPT !.faults = plans[n], !.variants = Everything,
                                 !.assertions = Everything[1].assertions]),
                       "plan", {"safe", "scripted"} \X {"counts"})]

-----------------------------------------------------------------------------
\* Mistakes, and some edges that are none.

Fixtures ==
    LET d == DefaultFixture
        At(name, path) == [d EXCEPT !.bindings[name] = path]
        With(path, text) == [d EXCEPT !.state = Set(@, path, Scalar(text))]
    IN  <<At("caller", OwnerId), At("owner", <<"orders">>), At("status", Order \o <<"none">>),
          At("count", OwnerId), With(Verified, "false"), With(RefundCount, "1"),
          With(CallerId, "c_other"), With(OrderStatus, "processing"),
          [d EXCEPT !.readOnly = {ReadTool}], [d EXCEPT !.handlers = @ \ {IdentityTool}],
          [d EXCEPT !.handlers = @ \cup {"unregistered"}]>>

Scenarios ==
    LET b == BaseScenario
        read == Fault(ReadTool, Time, 1, Null)
        twice == Faulty("twice", <<>>, b.assertions, ReadTool, Lose, Null)
        With(assertion) == [b EXCEPT !.assertions = @ \cup {assertion}]
    IN  <<[b EXCEPT !.faults = <<read>>, !.variants = <<twice>>],
          [b EXCEPT !.faults = <<read, Fault(ReadTool, Lose, 1, Null)>>],
          [b EXCEPT !.faults = <<Fault("unregistered", Time, 1, Null)>>],
          [b EXCEPT !.faults = <<Fault(RefundTool, "stale_read", 1, Null)>>],
          [b EXCEPT !.variants = <<twice, twice>>],
          [b EXCEPT !.variants = <<Variant("nowhere", Override(<<"nowhere">>, "0"), b.assertions)>>],
          [b EXCEPT !.variants = <<Variant("flat", Override(Order, "closed"), b.assertions)>>],
          [b EXCEPT !.variants = <<Variant("empty", <<>>, {})>>],
          With(StateEquals(RefundCount, Scalar("0"))),
          With(StateEquals(<<"nowhere">>, Null)),
          With(ToolCallOrder(<<ReadTool, "unregistered">>)),
          With(ToolCallOrder(<<ReadTool, IdentityTool, ReadTool, RefundTool>>)),
          With(ToolCallCount("unregistered", 0, "tool_attempt")),
          [b EXCEPT !.maxCalls = 0],
          [b EXCEPT !.maxCalls = 2],
          [b EXCEPT !.faults = <<read>>, !.maxCalls = 1]>>

Matrices ==
    LET p == Pack(DefaultFixture)
        Planning(plan) == [p EXCEPT !.plans = <<plan>>]
    IN  <<[p EXCEPT !.maxCases = 8], [p EXCEPT !.maxCases = 0],
          [p EXCEPT !.scenario.faults = <<Stale>>],
          [p EXCEPT !.plans = @ \o @],
          Planning(FaultPlan(ReadTool, <<Time, Time>>, <<1>>, {}, <<>>, {})),
          Planning(FaultPlan(ReadTool, <<Time>>, <<>>, {}, <<>>, {})),
          Planning(FaultPlan(ReadTool, <<Time>>, <<13>>, {}, <<>>, {})),
          Planning(FaultPlan(ReadTool, <<Time>>, <<0>>, {}, <<>>, {})),
          Planning(FaultPlan(ReadTool, <<Time>>, <<1>>, {{}}, <<>>, {})),
          Planning(FaultPlan(ReadTool, <<"stale_read">>, <<1>>, {}, <<>>, {})),
          Planning(FaultPlan(RefundTool, <<"stale_read">>, <<1>>, {}, <<>>, {Null})),
          Planning(FaultPlan("unregistered", <<Time>>, <<1>>, {}, <<>>, {}))>>

\* Worlds in which a fact is missing, or true is written as a number: what the
\* agents without a claim about them make of it.
Untyped ==
    LET In(state) ==
            ByHand([BaseScenario EXCEPT !.state = state, !.variants = <<>>,
                       !.assertions = {ToolCallCount(RefundTool, 0, "tool_executed")}])
        Without(path) == [p \in DOMAIN DefaultState \ {path} |-> DefaultState[p]]
        worlds == <<Without(Verified), Without(CallerId), Without(OwnerId),
                    Without(OrderStatus), Without(RefundCount),
                    Set(DefaultState, Verified, Scalar("1"))>>
    IN  [n \in DOMAIN worlds |->
            Submission(In(worlds[n]), "untyped", {"blind", "simple"} \X {"counts"})]

Odd(submissions) ==
    [n \in DOMAIN submissions |-> Submission(submissions[n], "odd", {<<"any", "counts">>})]

Examples ==
    <<Submission(Pack(DefaultFixture), "pack", PackRuns),
      Submission(ByHand(RefundOrder), "example", {<<"simple", "counts">>}),
      Submission(ByHand(LangGraphRefund), "example", {<<"scripted", "counts">>})>>

AllSubmissions ==
    Load(Examples \o Planned \o Untyped
           \o Odd([n \in DOMAIN Fixtures |-> Pack(Fixtures[n])])
           \o Odd([n \in DOMAIN Scenarios |-> ByHand(Scenarios[n])])
           \o Odd(Matrices))

\* TLC evaluates AllSubmissions once; under a LET its coverage statistics do not
\* repeat the whole of it at each use of Submissions.
MCSubmissions == LET all == AllSubmissions IN all
=============================================================================
