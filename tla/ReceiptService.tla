--------------------------- MODULE ReceiptService ---------------------------
(***************************************************************************)
(* The service behind the two tools of execute_verified: a write with an   *)
(* operation key, and a read-only hook that returns the receipt of a key.  *)
(* It is the refund service of examples/verification_support.py, whose     *)
(* write is atomic under the tool port's lock, with what                   *)
(* docs/VERIFICATION.md says a real one may do: a write may still be on    *)
(* its way when the caller has given it up, a key is kept for a declared   *)
(* time, a pending operation settles later, and a failure it reports does  *)
(* not promise that no side effects occurred.                              *)
(***************************************************************************)
EXTENDS Integers, FiniteSets

CONSTANTS
    Clients,    \* the invocations of execute_verified
    Ids,        \* operation keys
    Requests,   \* business arguments, told apart by their fingerprint
    Operation,  \* what each client executes: [id, arguments, created_at]
    Modes,      \* what the service may make of a new key
    Retention,  \* how long it keeps a key
    Delay,      \* how long a write may be on its way
    MaxNow      \* bound: the clock stops there

\* "failed" fails before its effect, "failed_late" after it.
ModeKinds == {"normal", "false_success", "pending", "failed", "failed_late", "partial",
              "wrong_amount"}

ASSUME ServiceConfigured ==
    /\ Operation \in [Clients -> [id : Ids, arguments : Requests, created_at : Nat]]
    /\ Requests # {}
    /\ Modes \subseteq ModeKinds
    /\ Retention \in Nat /\ Delay \in Nat /\ MaxNow \in Nat

VARIABLES
    now,        \* true time
    writes,     \* the writes on their way: [client, attempt, sent]
    ledger,     \* "operations": the last record of each key
    recorded,   \* when it was made
    forgotten,  \* the keys whose retention is over
    effects     \* refund_count: how often the effect of each key was produced

serviceVars == <<now, writes, ledger, recorded, forgotten, effects>>

Id(c) == Operation[c].id

Record(status, arguments, amount, count) ==
    [status |-> status, arguments |-> arguments, amount |-> amount, count |-> count]
NoRecord == Record("not_found", CHOOSE r \in Requests : TRUE, "none", 0)

ServiceInit ==
    /\ now = 0
    /\ writes = {}
    /\ ledger = [i \in Ids |-> NoRecord]
    /\ recorded = [i \in Ids |-> 0]
    /\ forgotten = {}
    /\ effects = [i \in Ids |-> 0]

\* The service recognises the key of a request it has kept.
Known(i) == ledger[i].status # "not_found" /\ i \notin forgotten

HasEffect(mode) == mode \in {"normal", "failed_late", "partial", "wrong_amount"}

\* The record of a new key in each mode of the service.
NewRecord(mode, i, arguments) ==
    LET count == effects[i] + 1
    IN  CASE mode = "normal" -> Record("succeeded", arguments, "full", count)
          [] mode = "wrong_amount" -> Record("succeeded", arguments, "half", count)
          [] mode = "partial" -> Record("partial", arguments, "half", count)
          [] mode = "failed_late" -> Record("failed", arguments, "none", 0)
          [] OTHER -> Record(mode, arguments, "none", 0)

\* A write that changes nothing: its key is known, with the same arguments (a
\* repeated request, answered from its record) or with others (an error), or
\* the service answers with a success it has not produced.
Ignored(w, mode) == Known(Id(w.client)) \/ mode = "false_success"

\* A write arrives and is handled atomically.
Arrive(w, mode) ==
    LET i == Id(w.client)
    IN  /\ writes' = writes \ {w}
        /\ IF Ignored(w, mode)
           THEN UNCHANGED <<ledger, recorded, forgotten, effects>>
           ELSE /\ ledger' = [ledger EXCEPT ![i] =
                                NewRecord(mode, i, Operation[w.client].arguments)]
                /\ recorded' = [recorded EXCEPT ![i] = now]
                /\ forgotten' = forgotten \ {i}
                /\ effects' = [effects EXCEPT ![i] = @ + (IF HasEffect(mode) THEN 1 ELSE 0)]
        /\ UNCHANGED now

\* A write is lost: a timeout before execution.
Lose(w) ==
    /\ writes' = writes \ {w}
    /\ UNCHANGED <<now, ledger, recorded, forgotten, effects>>

\* A pending operation comes to its end.
Settle(i, mode) ==
    /\ ledger[i].status = "pending"
    /\ mode \in {"normal", "failed", "failed_late", "partial"}
    /\ ledger' = [ledger EXCEPT ![i] = NewRecord(mode, i, @.arguments)]
    /\ effects' = [effects EXCEPT ![i] = @ + (IF HasEffect(mode) THEN 1 ELSE 0)]
    /\ UNCHANGED <<now, writes, recorded, forgotten>>

\* The declared retention of a key is over.
Forget(i) ==
    /\ Known(i)
    /\ now >= recorded[i] + Retention
    /\ forgotten' = forgotten \cup {i}
    /\ UNCHANGED <<now, writes, ledger, recorded, effects>>

Deliver == \E w \in writes : Lose(w) \/ \E mode \in Modes : Arrive(w, mode)

ServiceStep ==
    \/ Deliver
    \/ \E i \in Ids : (\E mode \in Modes : Settle(i, mode)) \/ Forget(i)

\* Time passes, but no write is on its way for longer than Delay.
Elapse ==
    /\ now < MaxNow
    /\ \A w \in writes : now < w.sent + Delay
    /\ now' = now + 1
    /\ UNCHANGED <<writes, ledger, recorded, forgotten, effects>>

-----------------------------------------------------------------------------
\* What the status hook may return.

\* A receipt: whether its identity (key, tool, authoritative) is the expected
\* one, whether it carries a receipt id, and the record it tells.
Receipt(trusted, receipt_id, record) ==
    [trusted |-> trusted, receipt_id |-> receipt_id, record |-> record]

\* get_refund_status: the record of the key, or that there is none.
Current(i) == IF Known(i) THEN Receipt(TRUE, TRUE, ledger[i])
              ELSE Receipt(TRUE, FALSE, NoRecord)

\* A receipt that says all went well for these arguments.
Claim(trusted, receipt_id, arguments) ==
    Receipt(trusted, receipt_id, Record("succeeded", arguments, "full", 1))

\* The receipt a read may give the client: the current one; an earlier state of
\* the key, absent or pending; a success from a cache or of another operation,
\* which is not authoritative for this one; one without a receipt id.
Answers(c) ==
    {Current(Id(c)),
     Receipt(TRUE, FALSE, NoRecord),
     Claim(FALSE, TRUE, Operation[c].arguments),
     Claim(TRUE, FALSE, Operation[c].arguments)}
    \cup (IF Known(Id(c))
          THEN {Receipt(TRUE, FALSE, [ledger[Id(c)] EXCEPT !.status = "pending"])}
          ELSE {})
=============================================================================
