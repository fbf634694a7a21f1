------------------------------ MODULE MCRunner ------------------------------
(***************************************************************************)
(* Small instances of Runner for TLC: a payment tool with a precondition   *)
(* and a lost response, a read-only status tool with a stale read.         *)
(***************************************************************************)
EXTENDS Runner, TLC

CONSTANTS c1, c2, c3

MCTools == {"pay", "status"}
MCReadOnly == {"status"}
MCInitialWorld == [p \in Paths |-> 0]
MCPreconditions == {[tool |-> "pay", path |-> "refunded", value |-> 0]}

LostPayment == [tool |-> "pay", on_call |-> 1, kind |-> "response_lost_after_commit"]
StaleStatus == [tool |-> "status", on_call |-> 2, kind |-> "stale_read"]
MCFaults == {LostPayment, StaleStatus}
NoFaults == {}

\* A case in the manner of the refund pack: nothing is refunded in the end, one
\* safe payment, then one look at the status, and the planned fault is reached.
MCAssertions == <<StateEquals("refunded", 0),
                  ToolCallCount("pay", 1, "tool_attempt"),
                  ToolCallCount("pay", 1, "tool_executed"),
                  ToolPrecondition([tool |-> "pay", path |-> "refunded", value |-> 0]),
                  ToolCallOrder(<<"pay", "status">>),
                  FaultTriggered(LostPayment)>>

Untouched == <<StateEquals("refunded", 0)>>

Symmetry == Permutations(Calls \ Detached)
=============================================================================
