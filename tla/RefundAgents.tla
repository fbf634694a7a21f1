---------------------------- MODULE RefundAgents ----------------------------
(***************************************************************************)
(* The example agents that run the refund cases, as relations between what *)
(* an agent has been told so far and what it does next.  Each is           *)
(* deterministic: told is a sequence of [tool, outcome, value], and a      *)
(* decision is a tool call, an answer or an exception that leaves run().   *)
(***************************************************************************)
EXTENDS RefundPack

Call(tool) == [do |-> "call", what |-> tool]
Answer(text) == [do |-> "answer", what |-> text]
Raise == [do |-> "raise", what |-> "exception"]

Answered(o) == o.outcome \in {"result", "stale"}
Unheard(o) == o.outcome \in {"timeout", "lost"}    \* ToolTimeout, ToolResponseLost
Refused(o) == ~Answered(o) /\ ~Unheard(o)          \* any other exception

\* The field of a tool's answer, and whether there is one: a subscript of what
\* has none raises KeyError or TypeError.
Tells(o, key) == <<key>> \in DOMAIN o.value
Part(o, key) == Select(o.value, <<key>>)

\* What Python takes for false, and what it compares with a number: of the
\* numbers, documents hold the first integers.
Falsy == {"false", "null", "0", "", "[]", Dict}
Numerals == <<"0", "1", "2", "3", "4", "5", "6">>
Numbers == {"true", "false"} \cup ToSet(Numerals)

Truthy(o, key) == Part(o, key) \notin {Scalar(text) : text \in Falsy}
IsNumber(o, key) == Tells(o, key) /\ Part(o, key) \in {Scalar(text) : text \in Numbers}

Delivered(order) == Part(order, "status") = Scalar("delivered")
Owns(order, caller) == Part(order, "customer_id") = Part(caller, "customer_id")

RefundsIn(told) == {n \in DOMAIN told : told[n].tool = RefundTool}

\* Mutant: a failed refund is retried without another look at the order.
SafeRetries_Blindly(told, d) ==
    LET o == told[Len(told)]
    IN  \/ o.tool = RefundTool /\ Answered(o) /\ d = Answer("confirmed")
        \/ o.tool = RefundTool /\ Unheard(o)
           /\ d = IF Cardinality(RefundsIn(told)) < 2 THEN Call(RefundTool)
                  ELSE Answer("unable")

\* After the first refund attempt: recheck before retrying, at most once.
SafeRetries(told, d) ==
    LET o == told[Len(told)]
        Looked == o.tool = ReadTool /\ Answered(o)
        Readable == Tells(o, "refund_count")
    IN  \/ o.tool = RefundTool /\ Answered(o) /\ d = Answer("confirmed")
        \/ o.tool = RefundTool /\ Unheard(o) /\ d = Call(ReadTool)
        \/ o.tool = ReadTool /\ Unheard(o) /\ d = Answer("unable")
        \/ Looked /\ ~Readable /\ d = Raise
        \/ Looked /\ Readable /\ Truthy(o, "refund_count") /\ d = Answer("confirmed")
        \/ Looked /\ Readable /\ ~Truthy(o, "refund_count")
           /\ d = IF Cardinality(RefundsIn(told)) < 2 THEN Call(RefundTool)
                  ELSE Answer("unable")

\* refund_pack.py: look, identify, look again, refund, recheck before a retry.
\* What the first look shows is not used.
SafeDecides(told, d) ==
    LET n == Len(told)
        order == told[3]
        caller == told[2]
        Eligible == Owns(order, caller) /\ Delivered(order)
        Readable == /\ Tells(order, "customer_id") /\ Tells(caller, "customer_id")
                    /\ Owns(order, caller) => Tells(order, "status")
                    /\ Eligible => Tells(order, "refund_count")
    IN  \/ n = 0 /\ d = Call(ReadTool)
        \/ n > 0 /\ Refused(told[n]) /\ d = Raise
        \/ n \in 1..3 /\ Unheard(told[n]) /\ d = Answer("later")
        \/ n = 1 /\ Answered(told[1]) /\ d = Call(IdentityTool)
        \/ n = 2 /\ Answered(caller) /\ ~Tells(caller, "verified") /\ d = Raise
        \/ n = 2 /\ Answered(caller) /\ Tells(caller, "verified")
           /\ d = IF Truthy(caller, "verified") THEN Call(ReadTool) ELSE Answer("unverified")
        \/ n = 3 /\ Answered(order) /\ ~Readable /\ d = Raise
        \/ n = 3 /\ Answered(order) /\ Readable /\ ~Eligible /\ d = Answer("ineligible")
        \/ n = 3 /\ Answered(order) /\ Readable /\ Eligible
           /\ d = IF Truthy(order, "refund_count") THEN Answer("exists") ELSE Call(RefundTool)
        \/ n > 3 /\ ~Refused(told[n]) /\ SafeRetries(told, d)

\* refund_pack_unsafe.py: the same agent behind a client that repeats a refund
\* whose response was lost.  The agent sees the second answer only.
BlindDecides(told, d) ==
    LET n == Len(told)
        Repeated(k) == k > 1 /\ told[k].tool = RefundTool /\ told[k - 1].tool = RefundTool
        seen == SelectSeq([k \in 1..n |-> k], LAMBDA k : ~(k < n /\ Repeated(k + 1)))
        Retry == n > 0 /\ told[n].tool = RefundTool /\ told[n].outcome = "lost"
                       /\ ~Repeated(n)
    IN  IF Retry THEN d = Call(RefundTool)
        ELSE SafeDecides([k \in DOMAIN seen |-> told[seen[k]]], d)

\* refund_scenarios.py: one look, and a recheck only after a lost response.
SimpleDecides(told, d) ==
    LET n == Len(told)
        order == told[1]
        caller == told[2]
        Readable == /\ Tells(caller, "verified")
                    /\ Truthy(caller, "verified") =>
                          Tells(caller, "customer_id") /\ Tells(order, "customer_id")
        MayRefund == Truthy(caller, "verified") /\ Owns(order, caller)
        IsZero(o) == Part(o, "refund_count") \in {Scalar("0"), Scalar("false")}
    IN  \/ n = 0 /\ d = Call(ReadTool)
        \/ n = 3 /\ told[3].outcome = "lost" /\ d = Call(ReadTool)
        \/ n > 0 /\ ~Answered(told[n]) /\ ~(n = 3 /\ told[3].outcome = "lost") /\ d = Raise
        \/ n = 1 /\ Answered(told[1]) /\ d = Call(IdentityTool)
        \/ n = 2 /\ Answered(told[2]) /\ ~Readable /\ d = Raise
        \/ n = 2 /\ Answered(told[2]) /\ Readable
           /\ d = IF MayRefund THEN Call(RefundTool) ELSE Answer("unverified")
        \/ n \in {3, 5} /\ Answered(told[n]) /\ d = Answer("confirmed")
        \/ n = 4 /\ Answered(told[4]) /\ ~Tells(told[4], "refund_count") /\ d = Raise
        \/ n = 4 /\ Answered(told[4]) /\ Tells(told[4], "refund_count")
           /\ d = IF IsZero(told[4]) THEN Call(RefundTool) ELSE Answer("confirmed")

\* ScriptedRefundModel of langgraph_refund_demo.py in the graph of
\* langgraph_support.py, which turns every exception of a tool into a message.
ScriptedDecides(told, d) ==
    LET n == Len(told)
        o == told[n]
        callers == {k \in 1..n : told[k].tool = IdentityTool /\ Answered(told[k])}
        caller == told[Max(callers)]
        Looked == o.tool = ReadTool /\ Answered(o)
        Readable == /\ IsNumber(o, "refund_count")
                    /\ Truthy(o, "refund_count") \/ Tells(o, "status")
        Fresh == Looked /\ Readable /\ ~Truthy(o, "refund_count") /\ Delivered(o)
        Comparable == /\ Tells(caller, "verified")
                      /\ Truthy(caller, "verified") =>
                            Tells(caller, "customer_id") /\ Tells(o, "customer_id")
        Granted == Truthy(caller, "verified") /\ Owns(o, caller)
    IN  \/ n = 0 /\ d = Call(ReadTool)
        \/ n > 0 /\ ~Answered(o)
           /\ d = IF o.tool = RefundTool THEN Call(ReadTool) ELSE Answer("later")
        \/ n > 0 /\ Answered(o) /\ o.tool = RefundTool /\ d = Answer("confirmed")
        \/ n > 0 /\ Answered(o) /\ o.tool = IdentityTool /\ ~Tells(o, "verified") /\ d = Raise
        \/ n > 0 /\ Answered(o) /\ o.tool = IdentityTool /\ Tells(o, "verified")
           /\ d = IF Truthy(o, "verified") THEN Call(ReadTool) ELSE Answer("unverified")
        \/ n > 0 /\ Looked /\ ~Readable /\ d = Raise
        \/ n > 0 /\ Looked /\ Readable /\ ~Fresh
           /\ d = IF Truthy(o, "refund_count") THEN Answer("exists") ELSE Answer("ineligible")
        \/ n > 0 /\ Fresh /\ callers = {} /\ d = Call(IdentityTool)
        \/ n > 0 /\ Fresh /\ callers # {} /\ ~Comparable /\ d = Raise
        \/ n > 0 /\ Fresh /\ callers # {} /\ Comparable /\ ~Granted /\ d = Answer("ineligible")
        \/ n > 0 /\ Fresh /\ callers # {} /\ Comparable /\ Granted
           /\ d = IF Cardinality(RefundsIn(told)) < 2 THEN Call(RefundTool)
                  ELSE Answer("unable")
=============================================================================
