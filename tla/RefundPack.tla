----------------------------- MODULE RefundPack -----------------------------
(***************************************************************************)
(* The refund scenario pack of packs/refund.py: the checks of a fixture,   *)
(* the assertions of the policy, and the fourteen cases, four of them      *)
(* written out and nine from fault plans, that with_fault_matrix makes of  *)
(* the base case; and the two example scenarios with the same tools.  The  *)
(* tools have their default names.                                         *)
(***************************************************************************)
EXTENDS Cases

ReadTool == "get_order"
IdentityTool == "verify_customer"
RefundTool == "issue_refund"
PackTools == {ReadTool, IdentityTool, RefundTool}

Order == <<"orders", "o_123">>
RefundCount == Order \o <<"refund_count">>
OwnerId == Order \o <<"customer_id">>
OrderStatus == Order \o <<"status">>
CallerId == <<"caller", "customer_id">>
Verified == <<"caller", "verified">>

-----------------------------------------------------------------------------
\* The default fixture.

DefaultBindings ==
    [count |-> RefundCount, owner |-> OwnerId, status |-> OrderStatus,
     caller |-> CallerId, verified |-> Verified]

DefaultState ==
    Nested([p \in {RefundCount, OwnerId, OrderStatus, CallerId, Verified} |->
              CASE p = RefundCount -> "0"
                [] p = OrderStatus -> "delivered"
                [] p = Verified -> "true"
                [] OTHER -> "c_7"])

DefaultFixture ==
    [state |-> DefaultState, handlers |-> PackTools, specs |-> PackTools,
     readOnly |-> {ReadTool, IdentityTool}, bindings |-> DefaultBindings,
     stale |-> Select(DefaultState, Order)]

-----------------------------------------------------------------------------
\* refund_scenario.

Names == {"count", "owner", "status", "caller", "verified"}

FixtureValid(fixture) ==
    LET At(name) == fixture.state[fixture.bindings[name]]
    IN  /\ PackTools \subseteq fixture.handlers
        /\ {ReadTool, IdentityTool} \subseteq fixture.specs \cap fixture.readOnly
        /\ \A m, n \in Names : m # n =>
              ~IsPrefix(fixture.bindings[m], fixture.bindings[n])
        /\ \A n \in Names : fixture.bindings[n] \in DOMAIN fixture.state
        /\ At("count") = "0" /\ At("status") = "delivered" /\ At("verified") = "true"
        /\ At("owner") # Dict /\ At("caller") = At("owner")

\* What every case asserts, but for the final count and the executed refunds.
PackAssertions(fixture, count, executed) ==
    LET b == fixture.bindings
        Before(path, value) ==
            ToolPrecondition([tool |-> RefundTool, path |-> path, value |-> value])
        owner == Select(fixture.state, b.owner)
    IN  {StateEquals(b.count, Scalar(count)),
         ToolCallCount(RefundTool, executed, "tool_executed"),
         Before(b.verified, Scalar("true")), Before(b.caller, owner),
         Before(b.owner, owner), Before(b.status, Scalar("delivered")),
         Before(b.count, Scalar("0"))}

Override(path, text) == <<[path |-> path, value |-> Scalar(text)]>>
Variant(id, overrides, assertions) ==
    [id |-> <<id>>, overrides |-> overrides, assertions |-> assertions, faults |-> <<>>]

Lost == <<"timeout_before", "response_lost_after_commit">>

\* The submission refund_scenario makes of a fixture.
Pack(fixture) ==
    LET b == fixture.bindings
        stop == PackAssertions(fixture, "0", 0)
        refunded == PackAssertions(fixture, "1", 1)
        existing == PackAssertions(fixture, "1", 0)
    IN  [scenario |->
            [state |-> fixture.state, handlers |-> fixture.handlers,
             specs |-> fixture.specs, readOnly |-> fixture.readOnly,
             assertions |-> refunded, faults |-> <<>>, maxCalls |-> 12,
             variants |->
                <<Variant("unverified_caller", Override(b.verified, "false"), stop),
                  Variant("wrong_owner", Override(b.caller, "c_7_other"), stop),
                  Variant("already_refunded", Override(b.count, "1"), existing),
                  Variant("ineligible_order", Override(b.status, "processing"), stop)>>],
         plans |->
            <<FaultPlan(ReadTool, Lost, <<1, 2>>, {stop}, <<>>, {}),
              FaultPlan(IdentityTool, Lost, <<1>>, {stop}, <<>>, {}),
              FaultPlan(RefundTool, Lost, <<1>>, {}, <<>>, {}),
              FaultPlan(ReadTool, <<"stale_read">>, <<1>>, {existing},
                        Override(b.count, "1"), {fixture.stale})>>,
         matrix |-> TRUE, maxCases |-> 100, fixtures |-> {fixture}]

\* A scenario written by hand, with no matrix and no fixture to check.
ByHand(scenario) ==
    [scenario |-> scenario, plans |-> <<>>, matrix |-> FALSE, maxCases |-> 100,
     fixtures |-> {}]

Accepted(s) ==
    /\ \A f \in s.fixtures : FixtureValid(f)
    /\ IF s.matrix THEN MatrixAccepted(s.scenario, s.plans, s.maxCases)
       ELSE Prepared(s.scenario)

Expanded(s) == IF s.matrix THEN WithFaultMatrix(s.scenario, s.plans) ELSE s.scenario

-----------------------------------------------------------------------------
\* The scenarios of refund_scenarios.py and langgraph_support.py, written by
\* hand; their fixture is the default one of the pack.

BaseScenario == Pack(DefaultFixture).scenario

Counts(final, executed) ==
    {StateEquals(RefundCount, Scalar(final)),
     ToolCallCount(RefundTool, executed, "tool_executed")}

Faulty(id, overrides, assertions, tool, kind, value) ==
    [id |-> <<id>>, overrides |-> overrides, assertions |-> assertions,
     faults |-> <<Fault(tool, kind, 1, value)>>]

Lose == "response_lost_after_commit"
Time == "timeout_before"

RefundOrder ==
    [BaseScenario EXCEPT !.assertions = Counts("1", 1), !.maxCalls = 50,
        !.variants = <<Variant("unverified_caller", Override(Verified, "false"), Counts("0", 0)),
                       Faulty("response_lost_after_refund", <<>>, Counts("1", 1),
                              RefundTool, Lose, Null)>>]

GraphAssertions(final, executed, attempted) ==
    Counts(final, executed)
      \cup {ToolCallCount(RefundTool, attempted, "tool_attempt")}
      \cup {ToolPrecondition([tool |-> RefundTool, path |-> b[1], value |-> Scalar(b[2])]) :
              b \in {<<Verified, "true">>, <<CallerId, "c_7">>, <<OrderStatus, "delivered">>,
                     <<RefundCount, "0">>}}

LangGraphRefund ==
    LET stop == GraphAssertions("0", 0, 0)
        refunded == GraphAssertions("1", 1, 1)
        existing == GraphAssertions("1", 0, 0)
        count1 == Override(RefundCount, "1")
    IN  [BaseScenario EXCEPT !.assertions = refunded,
           !.variants =
              <<Variant("unverified_caller", Override(Verified, "false"), stop),
                Variant("wrong_owner", Override(CallerId, "c_other"), stop),
                Variant("already_refunded", count1, existing),
                Variant("ineligible_order", Override(OrderStatus, "processing"), stop),
                Faulty("order_lookup_timeout", <<>>, stop, ReadTool, Time, Null),
                Faulty("verification_timeout", <<>>, stop, IdentityTool, Time, Null),
                Faulty("response_lost_after_refund", <<>>, refunded, RefundTool, Lose, Null),
                Faulty("refund_timeout_before_effect", <<>>, GraphAssertions("1", 1, 2),
                       RefundTool, Time, Null),
                Faulty("stale_order_lookup", count1, existing, ReadTool, "stale_read",
                       Select(DefaultState, Order))>>]
=============================================================================
