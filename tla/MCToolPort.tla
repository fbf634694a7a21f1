----------------------------- MODULE MCToolPort -----------------------------
(***************************************************************************)
(* Small instances of ToolPort for TLC.                                    *)
(***************************************************************************)
EXTENDS ToolPort, TLC

CONSTANTS c1, c2, c3

MCTools == {"pay", "status", "unregistered"}
MCHandlers == {"pay", "status"}
MCReadOnly == {"status"}
MCInitialWorld == [p \in Paths |-> 0]
MCPreconditions == {[tool |-> "pay", path |-> "refunded", value |-> 0]}

\* Each kind of fault, two of them on a second call.
MCFaults == {[tool |-> "pay", on_call |-> 1, kind |-> "response_lost_after_commit"],
             [tool |-> "pay", on_call |-> 2, kind |-> "timeout_before"],
             [tool |-> "status", on_call |-> 2, kind |-> "stale_read"]}

Symmetry == Permutations(Calls)
=============================================================================
