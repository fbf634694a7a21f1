--------------------------- MODULE ExecuteVerified ---------------------------
(***************************************************************************)
(* execute_verified of verification.py: a client submits a write under an  *)
(* operation key, checks its receipt through the status tool, and may      *)
(* resubmit, under attempt, check and time budgets.  Several invocations   *)
(* for the same operation may run at once or after a crash (resume).       *)
(*                                                                         *)
(* An invocation awaits the write ("sending"), the status tool             *)
(* ("checking") and the poll interval ("sleeping"); between two awaits it  *)
(* is one step.  How the write's own response went (transport) is not      *)
(* modelled: every response, error or timeout leads to the same check.     *)
(***************************************************************************)
EXTENDS ReceiptService

CONSTANTS
    Fresh,        \* the invocations with resume=False
    Behind,       \* how far each client's wall clock is behind true time
    Window,       \* idempotency_window_seconds, 0 disables resubmission
    MaxAttempts,  \* max_attempts
    MaxChecks,    \* max_checks
    Timeout       \* timeout_seconds

(***************************************************************************)
(* What ToolContract and VERIFICATION.md ask of the application: a window  *)
(* is declared only if the service keeps a key long enough for any write   *)
(* submitted in it; without one only the first invocation is not a resume. *)
(* A retried operation keeps its created_at.                               *)
(***************************************************************************)
ASSUME ContractDeclared ==
    /\ Fresh \subseteq Clients
    /\ Behind \in [Clients -> Nat]
    /\ Window \in Nat /\ Timeout \in Nat
    /\ MaxAttempts \in Nat \ {0} /\ MaxChecks \in Nat \ {0}
    /\ Window > 0 => \A c \in Clients : Retention >= Window + Behind[c] + Delay
    /\ \A c, d \in Clients :
          Id(c) = Id(d) => /\ Operation[c].created_at = Operation[d].created_at
                           /\ Window = 0 /\ {c, d} \subseteq Fresh => c = d

VARIABLES
    pc,        \* where each invocation is: its await, or how it ended
    left,      \* the time left before its deadline
    attempts,  \* its writes so far
    checks,    \* its checks so far
    checked,   \* history: how many writes it had made when it last checked
    answer,    \* the receipt on its way to it, NoAnswer if there is none
    outcome    \* status and reason so far, in the end the ToolOutcome's

clientVars == <<pc, left, attempts, checks, checked, answer, outcome>>
verifyVars == <<serviceVars, clientVars>>

NoAnswer == [trusted |-> FALSE, receipt_id |-> FALSE, record |-> NoRecord]
Verdict(status, reason) == [status |-> status, reason |-> reason]
NoEvidence == Verdict("unknown", "no_evidence")

Awaits == {"sending", "checking", "sleeping"}
Ended == {"returned", "cancelled", "refused"}

VerifyInit ==
    /\ ServiceInit
    /\ pc = [c \in Clients |-> "idle"]
    /\ left = [c \in Clients |-> 0]
    /\ attempts = [c \in Clients |-> 0]
    /\ checks = [c \in Clients |-> 0]
    /\ checked = [c \in Clients |-> 0]
    /\ answer = [c \in Clients |-> NoAnswer]
    /\ outcome = [c \in Clients |-> NoEvidence]

-----------------------------------------------------------------------------
\* Reading a receipt.

\* Mutant: the receipt of another request under the same key is believed.
Assess_AnyRequest(c, r) ==
    IF ~r.trusted THEN Verdict("unknown", "untrusted_or_mismatched_receipt")
    ELSE IF r.record.status = "not_found" THEN Verdict("unknown", "not_found")
    ELSE IF r.record.status = "pending" THEN Verdict("pending", "operation_pending")
    ELSE IF ~r.receipt_id THEN Verdict("unknown", "missing_receipt_id")
    ELSE IF r.record.status = "failed"
         THEN Verdict("confirmed_failure", "service_reported_failure")
    ELSE IF r.record.status = "partial" THEN Verdict("partial", "partial_effect")
    ELSE IF r.record.amount # "full" \/ r.record.count # 1
         THEN Verdict("contract_violation", "unexpected_effect")
    ELSE Verdict("confirmed_success", "postconditions_verified")

\* Mutant: what the service does not find has failed.
Assess_AbsenceFails(c, r) ==
    IF r.trusted /\ r.record.status = "not_found"
    THEN Verdict("confirmed_failure", "service_reported_failure")
    ELSE Assess_AnyRequest(c, r)

\* Mutant: the service's own status is passed on.
Assess_EchoesStatus(c, r) ==
    IF ~r.trusted THEN Verdict("unknown", "untrusted_or_mismatched_receipt")
    ELSE IF r.record.status = "not_found" THEN Verdict("unknown", "not_found")
    ELSE Verdict(r.record.status, "operation_pending")

\* _assess: identity first, then presence, the request's fingerprint, and only
\* then what the receipt says.
Assess(c, r) ==
    IF ~r.trusted THEN Verdict("unknown", "untrusted_or_mismatched_receipt")
    ELSE IF r.record.status = "not_found" THEN Verdict("unknown", "not_found")
    ELSE IF r.record.arguments # Operation[c].arguments
         THEN Verdict("unknown", "untrusted_or_mismatched_receipt")
    ELSE IF r.record.status = "pending" THEN Verdict("pending", "operation_pending")
    ELSE IF ~r.receipt_id THEN Verdict("unknown", "missing_receipt_id")
    ELSE IF r.record.status = "failed"
         THEN Verdict("confirmed_failure", "service_reported_failure")
    ELSE IF r.record.status = "partial" THEN Verdict("partial", "partial_effect")
    ELSE IF r.record.amount # "full" \/ r.record.count # 1
         THEN Verdict("contract_violation", "unexpected_effect")
    ELSE Verdict("confirmed_success", "postconditions_verified")

Terminal == {"confirmed_success", "confirmed_failure", "partial", "contract_violation"}

-----------------------------------------------------------------------------
\* The steps between two awaits.

Age(c) == now - Behind[c] - Operation[c].created_at

\* retry_window_open, on the client's wall clock.
WindowOpen(c) == 0 <= Age(c) /\ Age(c) < Window

\* A step ends the client's interest in the receipt it was given.
Answered(c) == answer' = [answer EXCEPT ![c] = NoAnswer]

\* send() up to its await: the write leaves the client.
Submit(c) ==
    /\ writes' = writes \cup
         {[client |-> c, attempt |-> attempts[c] + 1, sent |-> now]}
    /\ attempts' = [attempts EXCEPT ![c] = @ + 1]
    /\ pc' = [pc EXCEPT ![c] = "sending"]
    /\ Answered(c)
    /\ UNCHANGED <<checks, checked>>

\* The next check, up to its await: it will assign status and reason anew,
\* whatever its end, so what they were is forgotten.
Check(c) ==
    /\ checks' = [checks EXCEPT ![c] = @ + 1]
    /\ checked' = [checked EXCEPT ![c] = attempts[c]]
    /\ pc' = [pc EXCEPT ![c] = "checking"]
    /\ outcome' = [outcome EXCEPT ![c] = NoEvidence]
    /\ Answered(c)
    /\ UNCHANGED <<writes, attempts>>

\* A step that neither writes nor checks, to the await or the end.
Turn(c, to) ==
    /\ pc' = [pc EXCEPT ![c] = to]
    /\ Answered(c)
    /\ UNCHANGED <<writes, attempts, checks, checked>>

\* The head of the loop over the checks.
NextCheck(c) ==
    IF checks[c] < MaxChecks THEN Check(c)
    ELSE Turn(c, "returned") /\ UNCHANGED outcome

\* Nothing but the client, and the write it submits, moves in its steps.
ServiceStays == UNCHANGED <<now, ledger, recorded, forgotten, effects>>

\* The clock of an operation created in the future is refused.
Refuse(c) ==
    /\ pc[c] = "idle"
    /\ Age(c) < 0
    /\ pc' = [pc EXCEPT ![c] = "refused"]
    /\ UNCHANGED <<serviceVars, left, attempts, checks, checked, answer, outcome>>

\* A fresh invocation writes, unless its key has expired.
WritesFirst(c) == c \in Fresh /\ (Window = 0 \/ WindowOpen(c))

\* Invocations start while their deadline is within the clock's bound.
Begin(c) ==
    /\ pc[c] = "idle"
    /\ Age(c) >= 0
    /\ now + Timeout <= MaxNow
    /\ left' = [left EXCEPT ![c] = Timeout]
    /\ IF WritesFirst(c) THEN Submit(c) /\ UNCHANGED outcome ELSE NextCheck(c)
    /\ ServiceStays

\* The write returned, raised or timed out, wherever it is now.
SendEnds(c) ==
    /\ pc[c] = "sending"
    /\ NextCheck(c)
    /\ ServiceStays /\ UNCHANGED left

\* The status tool reads: its answer may be old when it arrives.
Read(c) ==
    /\ pc[c] = "checking"
    /\ answer[c] = NoAnswer
    /\ \E r \in Answers(c) : answer' = [answer EXCEPT ![c] = r]
    /\ UNCHANGED <<serviceVars, pc, left, attempts, checks, checked, outcome>>

\* Mutant: a write is resubmitted though no check is left to verify it.
MayResubmit_LastCheck(c, verdict) ==
    /\ verdict.reason = "not_found"
    /\ attempts[c] < MaxAttempts
    /\ WindowOpen(c)

\* Mutant: an operation that did not show up in time is submitted again.
MayResubmit_Unbounded(c, verdict) ==
    /\ verdict.reason = "not_found"
    /\ checks[c] < MaxChecks
    /\ attempts[c] < MaxAttempts

MayResubmit(c, verdict) ==
    /\ verdict.reason = "not_found"
    /\ checks[c] < MaxChecks
    /\ attempts[c] < MaxAttempts
    /\ WindowOpen(c)

\* After a check: return, resubmit, or sleep before the next one.
Continue(c, verdict) ==
    /\ outcome' = [outcome EXCEPT ![c] = verdict]
    /\ IF verdict.status \in Terminal THEN Turn(c, "returned")
       ELSE IF MayResubmit(c, verdict) THEN Submit(c)
       ELSE IF checks[c] < MaxChecks THEN Turn(c, "sleeping")
       ELSE Turn(c, "returned")
    /\ ServiceStays /\ UNCHANGED left

Receive(c) ==
    /\ pc[c] = "checking"
    /\ answer[c] # NoAnswer
    /\ Continue(c, Assess(c, answer[c]))

\* The status tool fails, or returns no receipt at all.
CheckFails(c) ==
    /\ pc[c] = "checking"
    /\ \E reason \in {"verification_unavailable", "invalid_receipt"} :
          Continue(c, Verdict("unknown", reason))

Wake(c) ==
    /\ pc[c] = "sleeping"
    /\ NextCheck(c)
    /\ ServiceStays /\ UNCHANGED left

\* Mutant: the deadline does not cover the write.
Deadline_NotSending(c) ==
    /\ pc[c] \in Awaits \ {"sending"}
    /\ left[c] = 0
    /\ Turn(c, "returned")
    /\ outcome' = [outcome EXCEPT ![c] = Verdict("unknown", "verification_deadline")]
    /\ ServiceStays /\ UNCHANGED left

\* asyncio.timeout cancels the await, whatever it waits for.
Deadline(c) ==
    /\ pc[c] \in Awaits
    /\ left[c] = 0
    /\ Turn(c, "returned")
    /\ outcome' = [outcome EXCEPT ![c] = Verdict("unknown", "verification_deadline")]
    /\ ServiceStays /\ UNCHANGED left

\* The caller cancels the invocation, or crashes: no outcome is returned, and
\* no write that has left is called back.
Cancel(c) ==
    /\ pc[c] \in Awaits
    /\ pc' = [pc EXCEPT ![c] = "cancelled"]
    /\ Answered(c)
    /\ UNCHANGED <<serviceVars, left, attempts, checks, checked, outcome>>

ClientStep(c) ==
    \/ Refuse(c)
    \/ Begin(c)
    \/ SendEnds(c)
    \/ Read(c)
    \/ Receive(c)
    \/ CheckFails(c)
    \/ Wake(c)
    \/ Deadline(c)
    \/ Cancel(c)

Tick ==
    /\ Elapse
    /\ left' = [c \in Clients |-> IF left[c] > 0 THEN left[c] - 1 ELSE 0]
    /\ UNCHANGED <<pc, attempts, checks, checked, answer, outcome>>

VerifyNext ==
    \/ \E c \in Clients : ClientStep(c)
    \/ ServiceStep /\ UNCHANGED clientVars
    \/ Tick

VerifySpec == VerifyInit /\ [][VerifyNext]_verifyVars

\* Time passes, the network delivers or loses what it carries, and the event
\* loop fires an expired deadline.
VerifyFairness ==
    /\ WF_verifyVars(Tick)
    /\ WF_verifyVars(Deliver /\ UNCHANGED clientVars)
    /\ \A c \in Clients : WF_verifyVars(Deadline(c))

FairVerifySpec == VerifySpec /\ VerifyFairness

-----------------------------------------------------------------------------
\* Properties.

Records == [status : {"not_found", "pending", "failed", "partial", "succeeded"},
            arguments : Requests, amount : {"none", "half", "full"}, count : Nat]
Receipts == [trusted : BOOLEAN, receipt_id : BOOLEAN, record : Records]
Reasons == {"no_evidence", "untrusted_or_mismatched_receipt", "not_found",
            "operation_pending", "missing_receipt_id", "service_reported_failure",
            "partial_effect", "unexpected_effect", "postconditions_verified",
            "verification_unavailable", "invalid_receipt", "verification_deadline"}

\* Every variable has the shape the code gives it; the budgets are kept.
VerifyTypeOK ==
    /\ now \in 0..MaxNow
    /\ writes \subseteq [client : Clients, attempt : 1..MaxAttempts, sent : 0..MaxNow]
    /\ ledger \in [Ids -> Records]
    /\ recorded \in [Ids -> 0..MaxNow]
    /\ forgotten \subseteq Ids
    /\ effects \in [Ids -> Nat]
    /\ pc \in [Clients -> {"idle"} \cup Awaits \cup Ended]
    /\ left \in [Clients -> 0..Timeout]
    /\ attempts \in [Clients -> 0..MaxAttempts]
    /\ checks \in [Clients -> 0..MaxChecks]
    /\ checked \in [Clients -> 0..MaxAttempts]
    /\ answer \in [Clients -> Receipts]
    /\ outcome \in [Clients -> [status : Terminal \cup {"pending", "unknown"},
                                reason : Reasons]]

\* However the submissions, resubmissions, resumed invocations, late writes and
\* stale receipts of an operation interleave, its effect is produced at most
\* once.
AtMostOneEffect == \A i \in Ids : effects[i] <= 1

\* A definite outcome is the truth about this very request, and remains it:
\* no write that is still on its way, and no other caller, changes what a
\* client was told.  That nothing was done is never told: the effect of a failed
\* operation may have been produced, once.
OutcomeIsTrue ==
    \A c \in Clients :
        pc[c] = "returned" /\ outcome[c].status \in Terminal =>
            LET record == ledger[Id(c)]
                verdict == outcome[c].status
            IN  /\ record.arguments = Operation[c].arguments
                /\ record.status = CASE verdict = "confirmed_failure" -> "failed"
                                     [] verdict = "partial" -> "partial"
                                     [] OTHER -> "succeeded"
                /\ verdict = "confirmed_success" <=>
                      record.status = "succeeded" /\ record.amount = "full"
                /\ verdict # "confirmed_failure" => effects[Id(c)] = 1

\* An invocation that was not interrupted never returns on evidence from before
\* its last write: the budgets leave a check for every resubmission.
LastWriteIsChecked ==
    \A c \in Clients :
        pc[c] = "returned" /\ outcome[c].reason # "verification_deadline"
            => checked[c] = attempts[c]

\* Every invocation ends, whatever its tools do: its deadline covers each await.
InvocationEnds == \A c \in Clients : pc[c] \in Awaits ~> pc[c] \in Ended

\* The keys' fates and the answers given are those of VerifiedOutcome.
Promise == INSTANCE VerifiedOutcome WITH
    Key <- [c \in Clients |-> Id(c)],
    Arguments <- [c \in Clients |-> Operation[c].arguments],
    fate <- [i \in Ids |-> [status |-> ledger[i].status,
                            arguments |-> ledger[i].arguments,
                            amount |-> ledger[i].amount,
                            effects |-> effects[i]]],
    told <- [c \in Clients |-> IF pc[c] = "returned" THEN outcome[c].status
                               ELSE "open"]

\* Each key meets one fate, and definite answers are told only of it.
KeepsPromise == Promise!Spec
=============================================================================
