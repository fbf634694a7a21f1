--------------------------- MODULE MCToolBoundary ---------------------------
(***************************************************************************)
(* A small instance of ToolBoundary for TLC: two wrapped functions, a      *)
(* fault of each kind, and a call that need not return.                    *)
(***************************************************************************)
EXTENDS ToolBoundary

CONSTANTS c1, c2, c3

MCFaults == {[tool |-> "pay", on_call |-> 1, kind |-> "response_lost_after_commit"],
             [tool |-> "pay", on_call |-> 2, kind |-> "timeout_before"],
             [tool |-> "status", on_call |-> 1, kind |-> "stale_read"]}

Repeated(t) == [tool |-> t, input |-> "500 cents"]
Unnamed(t) == [tool |-> t, input |-> Opaque]

\* One input three times, beside an opaque one, and on two tools at once.
MCPrograms == {[c \in Calls |-> Repeated("pay")],
               [c \in Calls |-> IF c = c1 THEN Unnamed("pay") ELSE Repeated("pay")],
               [c \in Calls |-> Repeated(IF c = c1 THEN "pay" ELSE "status")]}
=============================================================================
