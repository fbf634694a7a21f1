----------------------- MODULE ExecuteVerifiedProofs -----------------------
(***************************************************************************)
(* Theorems about execute_verified, for any number of invocations, keys    *)
(* and requests, any clocks, budgets and delays, and any contract that     *)
(* meets ContractDeclared.                                                 *)
(***************************************************************************)
EXTENDS ExecuteVerified, TLAPS

-----------------------------------------------------------------------------
\* The inductive invariant.

Created(c) == Operation[c].created_at
New(i) == ledger[i].status = "not_found"
Settled == {"failed", "partial", "succeeded"}

\* The record of a key tells what was done for it; a failed one only that it was
\* not done twice.
RecordsTell ==
    \A i \in Ids :
        /\ ledger[i].status \in {"not_found", "pending"} => effects[i] = 0
        /\ ledger[i].status = "failed" => effects[i] \in {0, 1}
        /\ ledger[i].status \in {"partial", "succeeded"} =>
              effects[i] = 1 /\ ledger[i].count = 1
        /\ ledger[i].status = "partial" => ledger[i].amount = "half"

\* A write on its way left after its operation was created, at most Delay ago,
\* and within the window if there is one.
WritesAreRecent ==
    \A w \in writes :
        /\ Created(w.client) <= w.sent /\ w.sent <= now
        /\ now <= w.sent + Delay
        /\ Window > 0 => w.sent < Created(w.client) + Behind[w.client] + Window

\* No key was recorded before its operation was created.
RecordsAreDated ==
    \A c \in Clients : ~New(Id(c)) => Created(c) <= recorded[Id(c)]

\* Only records whose retention is over are forgotten.
ForgottenAreOld ==
    \A i \in forgotten : ~New(i) /\ recorded[i] + Retention <= now

\* Without a window only the fresh invocation of a key writes, once, and what
\* it wrote is on its way, lost or recorded, but not two of these.
OneWriteWithoutWindow ==
    Window = 0 =>
        /\ \A c \in Clients :
              attempts[c] > 0 => c \in Fresh /\ attempts[c] = 1
        /\ \A w \in writes : attempts[w.client] = 1
        /\ \A w, v \in writes : w.client = v.client => w = v
        /\ \A i \in Ids : ~New(i) =>
              /\ \E c \in Clients : Id(c) = i /\ attempts[c] = 1
              /\ \A w \in writes : Id(w.client) # i

\* A trusted receipt of a settled operation, read however long ago, is current.
SettledAnswersHold ==
    \A c \in Clients :
        answer[c].trusted /\ answer[c].receipt_id
            /\ answer[c].record.status \in Settled
        => answer[c].record = ledger[Id(c)]

\* What a definite verdict says of the record of a key.
Tells(verdict, c) ==
    /\ ledger[Id(c)].arguments = Operation[c].arguments
    /\ ledger[Id(c)].status = CASE verdict = "confirmed_failure" -> "failed"
                                [] verdict = "partial" -> "partial"
                                [] OTHER -> "succeeded"
    /\ verdict = "confirmed_success" <=>
          ledger[Id(c)].status = "succeeded" /\ ledger[Id(c)].amount = "full"

\* A client holds a definite outcome only once it has returned, and it is the
\* record of its key.
DefiniteOutcomesHold ==
    \A c \in Clients :
        outcome[c].status \in Terminal =>
            pc[c] = "returned" /\ Tells(outcome[c].status, c)

\* How many writes each invocation had made when it last checked.
ChecksFollowWrites ==
    \A c \in Clients :
        /\ pc[c] = "idle" => attempts[c] = 0 /\ checks[c] = 0 /\ checked[c] = 0
        /\ pc[c] = "sending" => checks[c] < MaxChecks
        /\ pc[c] \in {"checking", "sleeping"} => checked[c] = attempts[c]
        /\ pc[c] = "returned" =>
              checked[c] = attempts[c] \/ outcome[c].reason = "verification_deadline"

VerifyInv ==
    /\ VerifyTypeOK
    /\ RecordsTell
    /\ WritesAreRecent
    /\ RecordsAreDated
    /\ ForgottenAreOld
    /\ OneWriteWithoutWindow
    /\ SettledAnswersHold
    /\ DefiniteOutcomesHold
    /\ ChecksFollowWrites

-----------------------------------------------------------------------------
\* What the definitions say.

Verdicts == [status : Terminal \cup {"pending", "unknown"}, reason : Reasons]

\* Every verdict the client can assign is one of the outcomes.
LEMMA VerdictType ==
    ASSUME NEW status \in Terminal \cup {"pending", "unknown"}, NEW reason \in Reasons
    PROVE  Verdict(status, reason) \in Verdicts
  BY DEF Verdict, Verdicts

\* Every record the service makes is one.
LEMMA RecordType ==
    ASSUME NEW mode \in ModeKinds \ {"false_success"}, NEW i \in Ids, NEW arguments \in Requests,
           effects[i] \in Nat
    PROVE  NewRecord(mode, i, arguments) \in Records
  BY DEF NewRecord, Record, Records, ModeKinds

\* The absence of a record, and of an answer, have the shape of one.
LEMMA NoRecordType == NoRecord \in Records /\ NoAnswer \in Receipts
<1>1. (CHOOSE r \in Requests : TRUE) \in Requests
  BY ServiceConfigured
<1>2. NoRecord \in Records
  BY <1>1 DEF NoRecord, Record, Records
<1> QED
  BY <1>2 DEF NoAnswer, Receipts

\* A receipt read is a receipt, and one of a settled operation that is trusted
\* and complete is current.
LEMMA AnswersHold ==
    ASSUME VerifyTypeOK, NEW c \in Clients, NEW r \in Answers(c)
    PROVE  /\ r \in Receipts
           /\ r.trusted /\ r.receipt_id /\ r.record.status \in Settled
                => r.record = ledger[Id(c)]
<1>1. Id(c) \in Ids /\ Operation[c].arguments \in Requests
  BY ServiceConfigured DEF Id
<1>2. ledger[Id(c)] \in Records
  BY <1>1 DEF VerifyTypeOK
<1>3. [ledger[Id(c)] EXCEPT !.status = "pending"] \in Records
  BY <1>2 DEF Records
<1>4. Record("succeeded", Operation[c].arguments, "full", 1) \in Records
  BY <1>1 DEF Record, Records
<1>5. \A b, d \in BOOLEAN, k \in Records :
        /\ Receipt(b, d, k) \in Receipts
        /\ Receipt(b, d, k).trusted = b
        /\ Receipt(b, d, k).receipt_id = d
        /\ Receipt(b, d, k).record = k
  BY DEF Receipt, Receipts
<1>6. CASE r = Current(Id(c))
  BY <1>2, <1>5, <1>6, NoRecordType DEF Current
<1>7. CASE r # Current(Id(c))
  <2>1. \/ r = Receipt(TRUE, FALSE, NoRecord)
        \/ r = Claim(FALSE, TRUE, Operation[c].arguments)
        \/ r = Claim(TRUE, FALSE, Operation[c].arguments)
        \/ r = Receipt(TRUE, FALSE, [ledger[Id(c)] EXCEPT !.status = "pending"])
    BY <1>7 DEF Answers
  <2>2. CASE r = Receipt(TRUE, FALSE, NoRecord)
    BY <2>2, <1>5, NoRecordType
  <2>3. CASE r = Claim(FALSE, TRUE, Operation[c].arguments)
    BY <2>3, <1>4, <1>5 DEF Claim
  <2>4. CASE r = Claim(TRUE, FALSE, Operation[c].arguments)
    BY <2>4, <1>4, <1>5 DEF Claim
  <2>5. CASE r = Receipt(TRUE, FALSE, [ledger[Id(c)] EXCEPT !.status = "pending"])
    BY <2>5, <1>3, <1>5
  <2> QED
    BY <2>1, <2>2, <2>3, <2>4, <2>5
<1> QED
  BY <1>6, <1>7

\* An assessment is a verdict.
LEMMA AssessType ==
    ASSUME NEW c \in Clients, NEW r \in Receipts
    PROVE  Assess(c, r) \in Verdicts
  BY VerdictType DEF Assess, Terminal, Reasons

\* A definite assessment is the truth about the request.
LEMMA AssessTells ==
    ASSUME VerifyInv, NEW c \in Clients, Assess(c, answer[c]).status \in Terminal
    PROVE  Tells(Assess(c, answer[c]).status, c)
<1> DEFINE r == answer[c]
<1>1. r \in Receipts /\ Id(c) \in Ids
  BY ServiceConfigured DEF VerifyInv, VerifyTypeOK, Id
<1>2. r.record.status \in {"not_found", "pending", "failed", "partial", "succeeded"}
  BY <1>1 DEF Receipts, Records
<1>3. /\ r.trusted /\ r.receipt_id
      /\ r.record.status \in Settled
      /\ r.record.arguments = Operation[c].arguments
  BY <1>2 DEF Assess, Verdict, Terminal, Settled
<1>4. r.record = ledger[Id(c)]
  BY <1>3 DEF VerifyInv, SettledAnswersHold
<1>5. r.record.status \in {"partial", "succeeded"} => r.record.count = 1
  BY <1>1, <1>4 DEF VerifyInv, RecordsTell
<1> HIDE DEF r
<1>6. CASE r.record.status = "failed"
  BY <1>3, <1>4, <1>6 DEF Tells, Assess, Verdict, r
<1>7. CASE r.record.status = "partial"
  BY <1>3, <1>4, <1>7 DEF Tells, Assess, Verdict, r
<1>8. CASE r.record.status = "succeeded"
  BY <1>3, <1>4, <1>5, <1>8 DEF Tells, Assess, Verdict, r
<1> QED
  BY <1>3, <1>6, <1>7, <1>8 DEF Settled

\* While a write is on its way, its key is still known if it ever was: the
\* contract keeps a key longer than any write of its window can take.
LEMMA KeyOutlivesWrites ==
    ASSUME VerifyInv, NEW w \in writes, ~Known(Id(w.client))
    PROVE  New(Id(w.client)) /\ Id(w.client) \notin forgotten
<1> DEFINE c == w.client
<1> DEFINE i == Id(c)
<1>1. c \in Clients /\ w.sent \in Nat /\ now \in Nat
  BY DEF VerifyInv, VerifyTypeOK
<1>2. /\ i \in Ids /\ Created(c) \in Nat
      /\ Behind[c] \in Nat /\ Window \in Nat /\ Delay \in Nat /\ Retention \in Nat
  BY <1>1, ServiceConfigured, ContractDeclared DEF Id, Created
<1>3. recorded[i] \in Nat
  BY <1>2 DEF VerifyInv, VerifyTypeOK
<1>4. ASSUME i \in forgotten PROVE FALSE
  <2>1. ~New(i) /\ recorded[i] + Retention <= now
    BY <1>4 DEF VerifyInv, ForgottenAreOld
  <2>2. Created(c) <= recorded[i]
    BY <1>1, <2>1 DEF VerifyInv, RecordsAreDated
  <2>3. CASE Window > 0
    <3>1. w.sent < Created(c) + Behind[c] + Window /\ now <= w.sent + Delay
      BY <2>3 DEF VerifyInv, WritesAreRecent
    <3>2. Retention >= Window + Behind[c] + Delay
      BY <1>1, <2>3, ContractDeclared
    <3> QED
      BY <1>1, <1>2, <1>3, <2>1, <2>2, <3>1, <3>2
  <2>4. CASE Window = 0
    BY <1>2, <2>1, <2>4 DEF VerifyInv, OneWriteWithoutWindow
  <2> QED
    BY <1>2, <2>3, <2>4
<1> QED
  BY <1>4 DEF Known, New

-----------------------------------------------------------------------------
\* The client's steps: each submits, checks, or turns to another await or the
\* end, and leaves the service's records alone.

\* What one invocation's step may make of its outcome.
OutcomeMoves(c, verdict) ==
    /\ verdict \in Verdicts
    /\ outcome' = [outcome EXCEPT ![c] = verdict]

\* What is said of the records alone stays true while they stay.
LEMMA RecordsStay ==
    ASSUME VerifyInv, ServiceStays
    PROVE  RecordsTell' /\ RecordsAreDated' /\ ForgottenAreOld'
  BY DEF ServiceStays, VerifyInv, RecordsTell, RecordsAreDated, ForgottenAreOld, New

\* A client that has not returned holds no definite outcome.
LEMMA OpenOutcome ==
    ASSUME VerifyInv, NEW c \in Clients, pc[c] # "returned"
    PROVE  outcome[c] \in Verdicts /\ outcome[c].status \notin Terminal
  BY DEF VerifyInv, VerifyTypeOK, DefiniteOutcomesHold, Verdicts

\* An invocation submits only before its first check or after a check, with
\* attempts and checks to spare, and inside the window if there is one.
LEMMA SubmitInv ==
    ASSUME VerifyInv, NEW c \in Clients, NEW verdict,
           Submit(c), ServiceStays, OutcomeMoves(c, verdict),
           left' \in [Clients -> 0..Timeout],
           verdict.status \notin Terminal, pc[c] \in {"idle", "checking"},
           attempts[c] < MaxAttempts, checks[c] < MaxChecks, 0 <= Age(c),
           Window > 0 => Age(c) < Window,
           Window = 0 => c \in Fresh /\ attempts[c] = 0
    PROVE  VerifyInv'
<1> DEFINE w == [client |-> c, attempt |-> attempts[c] + 1, sent |-> now]
<1>0. /\ now \in 0..MaxNow /\ attempts[c] \in 0..MaxAttempts
      /\ MaxAttempts \in Nat /\ MaxNow \in Nat /\ Delay \in Nat
      /\ Behind[c] \in Nat /\ Created(c) \in Nat /\ Window \in Nat
      /\ Id(c) \in Ids
  BY ServiceConfigured, ContractDeclared
     DEF VerifyInv, VerifyTypeOK, Created, Id
<1>1. VerifyTypeOK'
  <2>1. w \in [client : Clients, attempt : 1..MaxAttempts, sent : 0..MaxNow]
    BY <1>0
  <2>2. writes' \subseteq [client : Clients, attempt : 1..MaxAttempts, sent : 0..MaxNow]
    BY <2>1 DEF Submit, VerifyInv, VerifyTypeOK
  <2>3. attempts' \in [Clients -> 0..MaxAttempts]
    BY <1>0 DEF Submit, VerifyInv, VerifyTypeOK
  <2>4. pc' \in [Clients -> {"idle"} \cup Awaits \cup Ended]
    BY DEF Submit, VerifyInv, VerifyTypeOK, Awaits
  <2>5. answer' \in [Clients -> Receipts]
    BY NoRecordType DEF Submit, Answered, VerifyInv, VerifyTypeOK
  <2>6. outcome' \in [Clients -> Verdicts]
    BY DEF OutcomeMoves, VerifyInv, VerifyTypeOK, Verdicts
  <2> QED
    BY <2>2, <2>3, <2>4, <2>5, <2>6
       DEF Submit, ServiceStays, VerifyInv, VerifyTypeOK, Verdicts
<1>2. RecordsTell' /\ RecordsAreDated' /\ ForgottenAreOld'
  BY RecordsStay
<1>3. writes' = writes \cup {w} /\ now' = now
  BY DEF Submit, ServiceStays
<1>4. WritesAreRecent'
  <2>1. Created(c) <= now /\ now <= now + Delay
    BY <1>0 DEF Age, Created
  <2>2. Window > 0 => now < Created(c) + Behind[c] + Window
    BY <1>0 DEF Age, Created
  <2>3. /\ Created(w.client) <= w.sent /\ w.sent <= now
        /\ now <= w.sent + Delay
        /\ Window > 0 => w.sent < Created(w.client) + Behind[w.client] + Window
    BY <1>0, <2>1, <2>2
  <2> HIDE DEF w
  <2> QED
    BY <1>3, <2>3 DEF VerifyInv, WritesAreRecent, Created
<1>5. OneWriteWithoutWindow'
  <2> SUFFICES ASSUME Window = 0 PROVE OneWriteWithoutWindow'
    BY DEF OneWriteWithoutWindow
  <2>1. c \in Fresh /\ attempts[c] = 0
    OBVIOUS
  <2>2. attempts' = [attempts EXCEPT ![c] = 1]
    BY <2>1 DEF Submit
  <2>3. \A d \in Clients : attempts'[d] = IF d = c THEN 1 ELSE attempts[d]
    BY <2>2 DEF VerifyInv, VerifyTypeOK
  <2>4. \A v \in writes : v.client \in Clients /\ v.client # c
    BY <2>1 DEF VerifyInv, VerifyTypeOK, OneWriteWithoutWindow
  <2>5. \A d \in Clients : attempts[d] > 0 => Id(d) # Id(c)
    BY <2>1, ContractDeclared DEF VerifyInv, OneWriteWithoutWindow
  <2>6. ASSUME NEW i \in Ids, ~New(i)
        PROVE  \E d \in Clients : Id(d) = i /\ attempts[d] = 1 /\ d # c /\ i # Id(c)
    BY <2>5, <2>6 DEF VerifyInv, OneWriteWithoutWindow
  <2>7. \A d \in Clients : attempts'[d] > 0 => d \in Fresh /\ attempts'[d] = 1
    BY <2>1, <2>3 DEF VerifyInv, OneWriteWithoutWindow
  <2>8. \A v \in writes' : attempts'[v.client] = 1
    BY <1>3, <2>3, <2>4 DEF VerifyInv, OneWriteWithoutWindow
  <2>9. \A v, u \in writes' : v.client = u.client => v = u
    BY <1>3, <2>4 DEF VerifyInv, OneWriteWithoutWindow
  <2>10. ASSUME NEW i \in Ids, ~New(i)'
         PROVE  /\ \E d \in Clients : Id(d) = i /\ attempts'[d] = 1
                /\ \A v \in writes' : Id(v.client) # i
    <3>1. ~New(i)
      BY <2>10 DEF New, ServiceStays
    <3>2. /\ \E d \in Clients : Id(d) = i /\ attempts'[d] = 1
          /\ i # Id(c)
      BY <2>3, <2>6, <3>1
    <3>3. \A v \in writes : Id(v.client) # i
      BY <3>1 DEF VerifyInv, OneWriteWithoutWindow
    <3> QED
      BY <1>3, <3>2, <3>3
  <2> QED
    BY <2>7, <2>8, <2>9, <2>10 DEF OneWriteWithoutWindow, Id
<1>6. SettledAnswersHold'
  BY DEF Submit, Answered, ServiceStays, NoAnswer, VerifyInv, VerifyTypeOK,
         SettledAnswersHold, Id
<1>7. DefiniteOutcomesHold'
  <2>1. \A d \in Clients : Tells(outcome[d].status, d)' <=> Tells(outcome'[d].status, d)
    BY DEF ServiceStays, Tells, Id
  <2> QED
    BY <2>1 DEF Submit, ServiceStays, OutcomeMoves, VerifyInv, VerifyTypeOK,
         DefiniteOutcomesHold, Tells, Id
<1>8. ChecksFollowWrites'
  BY DEF Submit, OutcomeMoves, VerifyInv, VerifyTypeOK, ChecksFollowWrites
<1> QED
  BY <1>1, <1>2, <1>4, <1>5, <1>6, <1>7, <1>8 DEF VerifyInv

\* A step that submits nothing keeps what is said of writes and of the first
\* invocation, and a receipt let go says nothing.
LEMMA NothingSubmitted ==
    ASSUME VerifyInv, NEW c \in Clients, Answered(c), ServiceStays,
           UNCHANGED <<writes, attempts>>
    PROVE  WritesAreRecent' /\ OneWriteWithoutWindow' /\ SettledAnswersHold'
<1>1. WritesAreRecent'
  BY DEF ServiceStays, VerifyInv, WritesAreRecent, Created
<1>2. OneWriteWithoutWindow'
  BY DEF ServiceStays, VerifyInv, OneWriteWithoutWindow, New, Id
<1>3. SettledAnswersHold'
  BY DEF Answered, ServiceStays, NoAnswer, VerifyInv, VerifyTypeOK,
         SettledAnswersHold, Id
<1> QED
  BY <1>1, <1>2, <1>3

\* The step to the next check forgets what the last one told.
LEMMA CheckInv ==
    ASSUME VerifyInv, NEW c \in Clients, Check(c), ServiceStays,
           left' \in [Clients -> 0..Timeout],
           pc[c] # "returned", checks[c] < MaxChecks
    PROVE  VerifyInv'
<1>1. VerifyTypeOK'
  <2>1. checks' \in [Clients -> 0..MaxChecks]
    BY ContractDeclared DEF Check, VerifyInv, VerifyTypeOK
  <2>2. checked' \in [Clients -> 0..MaxAttempts]
    BY DEF Check, VerifyInv, VerifyTypeOK
  <2>3. pc' \in [Clients -> {"idle"} \cup Awaits \cup Ended]
    BY DEF Check, VerifyInv, VerifyTypeOK, Awaits
  <2>4. answer' \in [Clients -> Receipts]
    BY NoRecordType DEF Check, Answered, VerifyInv, VerifyTypeOK
  <2>5. outcome' \in [Clients -> Verdicts]
    BY VerdictType DEF Check, NoEvidence, VerifyInv, VerifyTypeOK, Verdicts, Reasons
  <2> QED
    BY <2>1, <2>2, <2>3, <2>4, <2>5
       DEF Check, ServiceStays, VerifyInv, VerifyTypeOK, Verdicts
<1>2. RecordsTell' /\ RecordsAreDated' /\ ForgottenAreOld'
  BY RecordsStay
<1>3. WritesAreRecent' /\ OneWriteWithoutWindow' /\ SettledAnswersHold'
  BY NothingSubmitted DEF Check
<1>4. DefiniteOutcomesHold'
  BY DEF Check, ServiceStays, NoEvidence, Verdict, Terminal, VerifyInv, VerifyTypeOK,
         DefiniteOutcomesHold, Tells, Id
<1>5. ChecksFollowWrites'
  BY DEF Check, VerifyInv, VerifyTypeOK, ChecksFollowWrites
<1> QED
  BY <1>1, <1>2, <1>3, <1>4, <1>5 DEF VerifyInv

\* A step to the next sleep or the end: a definite outcome is the truth and
\* comes at the end, and any but the deadline's follows a check.
LEMMA TurnInv ==
    ASSUME VerifyInv, NEW c \in Clients, NEW verdict, NEW to \in {"sleeping", "returned"},
           Turn(c, to), ServiceStays, OutcomeMoves(c, verdict), left' = left,
           verdict.status \in Terminal => to = "returned" /\ Tells(verdict.status, c),
           \/ checked[c] = attempts[c]
           \/ to = "returned" /\ verdict.reason = "verification_deadline"
    PROVE  VerifyInv'
<1>1. VerifyTypeOK'
  <2>1. pc' \in [Clients -> {"idle"} \cup Awaits \cup Ended]
    BY DEF Turn, VerifyInv, VerifyTypeOK, Awaits, Ended
  <2>2. answer' \in [Clients -> Receipts]
    BY NoRecordType DEF Turn, Answered, VerifyInv, VerifyTypeOK
  <2>3. outcome' \in [Clients -> Verdicts]
    BY DEF OutcomeMoves, VerifyInv, VerifyTypeOK, Verdicts
  <2> QED
    BY <2>1, <2>2, <2>3
       DEF Turn, ServiceStays, VerifyInv, VerifyTypeOK, Verdicts
<1>2. RecordsTell' /\ RecordsAreDated' /\ ForgottenAreOld'
  BY RecordsStay
<1>3. WritesAreRecent' /\ OneWriteWithoutWindow' /\ SettledAnswersHold'
  BY NothingSubmitted DEF Turn
<1>4. DefiniteOutcomesHold'
  BY DEF Turn, ServiceStays, OutcomeMoves, VerifyInv, VerifyTypeOK,
         DefiniteOutcomesHold, Tells, Id
<1>5. ChecksFollowWrites'
  BY DEF Turn, OutcomeMoves, VerifyInv, VerifyTypeOK, ChecksFollowWrites
<1> QED
  BY <1>1, <1>2, <1>3, <1>4, <1>5 DEF VerifyInv

\* The head of the loop, from the write's end or from a sleep.
LEMMA NextCheckInv ==
    ASSUME VerifyInv, NEW c \in Clients, NextCheck(c), ServiceStays, UNCHANGED left,
           pc[c] \in {"sending", "sleeping"}
    PROVE  VerifyInv'
<1>1. left' \in [Clients -> 0..Timeout]
  BY DEF VerifyInv, VerifyTypeOK
<1>2. CASE checks[c] < MaxChecks
  BY <1>1, <1>2, CheckInv DEF NextCheck
<1>3. CASE ~(checks[c] < MaxChecks)
  <2>1. checked[c] = attempts[c]
    BY <1>3 DEF VerifyInv, ChecksFollowWrites
  <2>2. outcome[c] \in Verdicts /\ outcome[c].status \notin Terminal
    BY OpenOutcome
  <2>3. OutcomeMoves(c, outcome[c])
    BY <1>3, <2>2 DEF NextCheck, OutcomeMoves, VerifyInv, VerifyTypeOK
  <2>4. Turn(c, "returned")
    BY <1>3 DEF NextCheck
  <2> QED
    BY <2>1, <2>2, <2>3, <2>4, TurnInv
<1> QED
  BY <1>2, <1>3

\* After a check, with its verdict.
LEMMA ContinueInv ==
    ASSUME VerifyInv, NEW c \in Clients, NEW verdict \in Verdicts,
           pc[c] = "checking", Continue(c, verdict),
           verdict.status \in Terminal => Tells(verdict.status, c)
    PROVE  VerifyInv'
<1>1. ServiceStays /\ UNCHANGED left /\ OutcomeMoves(c, verdict)
  BY DEF Continue, OutcomeMoves
<1>2. checked[c] = attempts[c] /\ left' \in [Clients -> 0..Timeout]
  BY <1>1 DEF VerifyInv, VerifyTypeOK, ChecksFollowWrites
<1>3. CASE verdict.status \notin Terminal /\ MayResubmit(c, verdict)
  <2>1. Submit(c)
    BY <1>3 DEF Continue
  <2>2. /\ attempts[c] < MaxAttempts /\ checks[c] < MaxChecks
        /\ 0 <= Age(c) /\ Age(c) < Window
    BY <1>3 DEF MayResubmit, WindowOpen
  <2>3. Window # 0
    <3>1. now \in Int /\ Behind[c] \in Int /\ Operation[c].created_at \in Int
      BY ServiceConfigured, ContractDeclared DEF VerifyInv, VerifyTypeOK
    <3> QED
      BY <2>2, <3>1 DEF Age
  <2> QED
    BY <1>1, <1>2, <1>3, <2>1, <2>2, <2>3, SubmitInv
<1>4. CASE verdict.status \in Terminal \/ ~MayResubmit(c, verdict)
  <2>1. PICK to \in {"sleeping", "returned"} :
           Turn(c, to) /\ (verdict.status \in Terminal => to = "returned")
    BY <1>4 DEF Continue
  <2>2. verdict.status \in Terminal => to = "returned" /\ Tells(verdict.status, c)
    BY <2>1
  <2> QED
    BY <1>1, <1>2, <2>1, <2>2, TurnInv
<1> QED
  BY <1>3, <1>4

\* An invocation's first step.
LEMMA BeginInv ==
    ASSUME VerifyInv, NEW c \in Clients, Begin(c)
    PROVE  VerifyInv'
<1>1. pc[c] = "idle" /\ 0 <= Age(c) /\ ServiceStays
  <2>1. now \in Int /\ Behind[c] \in Int /\ Operation[c].created_at \in Int
    BY ServiceConfigured, ContractDeclared DEF VerifyInv, VerifyTypeOK
  <2> QED
    BY <2>1 DEF Begin, Age
<1>2. left' \in [Clients -> 0..Timeout]
  BY ContractDeclared DEF Begin, VerifyInv, VerifyTypeOK
<1>3. /\ attempts[c] = 0 /\ attempts[c] < MaxAttempts
      /\ checks[c] = 0 /\ checks[c] < MaxChecks
  BY <1>1, ContractDeclared DEF VerifyInv, ChecksFollowWrites
<1>4. CASE WritesFirst(c)
  <2>1. outcome[c] \in Verdicts /\ outcome[c].status \notin Terminal
    BY <1>1, OpenOutcome
  <2>2. Submit(c) /\ OutcomeMoves(c, outcome[c])
    BY <1>4, <2>1 DEF Begin, OutcomeMoves, VerifyInv, VerifyTypeOK
  <2>3. /\ Window > 0 => Age(c) < Window
        /\ Window = 0 => c \in Fresh /\ attempts[c] = 0
    BY <1>3, <1>4, ContractDeclared DEF WritesFirst, WindowOpen
  <2> QED
    BY <1>1, <1>2, <1>3, <2>1, <2>2, <2>3, SubmitInv
<1>5. CASE ~WritesFirst(c)
  BY <1>1, <1>2, <1>3, <1>5, CheckInv DEF Begin, NextCheck
<1> QED
  BY <1>4, <1>5

\* Every step of an invocation.
LEMMA ClientStepInv ==
    ASSUME VerifyInv, NEW c \in Clients, ClientStep(c)
    PROVE  VerifyInv'
<1>1. CASE Refuse(c) \/ Cancel(c)
  <2>1. /\ UNCHANGED <<serviceVars, left, attempts, checks, checked, outcome>>
        /\ answer' = answer \/ Answered(c)
        /\ pc[c] # "returned"
        /\ pc' = [pc EXCEPT ![c] = "refused"] \/ pc' = [pc EXCEPT ![c] = "cancelled"]
    BY <1>1 DEF Refuse, Cancel, Awaits
  <2>2. ServiceStays /\ UNCHANGED <<writes, attempts>>
    BY <2>1 DEF ServiceStays, serviceVars
  <2>3. VerifyTypeOK'
    BY <2>1, NoRecordType DEF serviceVars, Answered, VerifyInv, VerifyTypeOK, Ended
  <2>4. RecordsTell' /\ RecordsAreDated' /\ ForgottenAreOld'
    BY <2>2, RecordsStay
  <2>5. WritesAreRecent'
    BY <2>2 DEF ServiceStays, VerifyInv, WritesAreRecent, Created
  <2>6. OneWriteWithoutWindow'
    BY <2>2 DEF ServiceStays, VerifyInv, OneWriteWithoutWindow, New, Id
  <2>7. SettledAnswersHold'
    BY <2>1, <2>2 DEF Answered, NoAnswer, ServiceStays, VerifyInv, VerifyTypeOK,
                      SettledAnswersHold, Id
  <2>8. DefiniteOutcomesHold'
    BY <2>1, <2>2 DEF ServiceStays, VerifyInv, VerifyTypeOK, DefiniteOutcomesHold,
                      Tells, Id
  <2>9. ChecksFollowWrites'
    BY <2>1 DEF VerifyInv, VerifyTypeOK, ChecksFollowWrites
  <2> QED
    BY <2>3, <2>4, <2>5, <2>6, <2>7, <2>8, <2>9 DEF VerifyInv
<1>2. CASE Begin(c)
  BY <1>2, BeginInv
<1>3. CASE SendEnds(c) \/ Wake(c)
  BY <1>3, NextCheckInv DEF SendEnds, Wake
<1>4. CASE Read(c)
  <2>1. PICK r \in Answers(c) : answer' = [answer EXCEPT ![c] = r]
    BY <1>4 DEF Read
  <2>2. /\ r \in Receipts
        /\ r.trusted /\ r.receipt_id /\ r.record.status \in Settled
             => r.record = ledger[Id(c)]
    BY AnswersHold DEF VerifyInv
  <2>3. UNCHANGED <<serviceVars, pc, left, attempts, checks, checked, outcome>>
    BY <1>4 DEF Read
  <2>4. VerifyTypeOK'
    BY <2>1, <2>2, <2>3 DEF serviceVars, VerifyInv, VerifyTypeOK
  <2>5. SettledAnswersHold'
    BY <2>1, <2>2, <2>3 DEF serviceVars, VerifyInv, VerifyTypeOK,
                            SettledAnswersHold, Id
  <2>6. /\ RecordsTell' /\ WritesAreRecent' /\ RecordsAreDated' /\ ForgottenAreOld'
        /\ OneWriteWithoutWindow' /\ DefiniteOutcomesHold' /\ ChecksFollowWrites'
    BY <2>3 DEF serviceVars, VerifyInv, RecordsTell, WritesAreRecent, RecordsAreDated,
                ForgottenAreOld, OneWriteWithoutWindow, DefiniteOutcomesHold,
                ChecksFollowWrites, New, Created, Tells, Id
  <2> QED
    BY <2>4, <2>5, <2>6 DEF VerifyInv
<1>5. CASE Receive(c)
  <2>1. answer[c] \in Receipts
    BY DEF VerifyInv, VerifyTypeOK
  <2>2. Assess(c, answer[c]) \in Verdicts
    BY <2>1, AssessType
  <2> QED
    BY <1>5, <2>2, AssessTells, ContinueInv DEF Receive
<1>6. CASE CheckFails(c)
  <2>1. PICK reason \in {"verification_unavailable", "invalid_receipt"} :
           Continue(c, Verdict("unknown", reason))
    BY <1>6 DEF CheckFails
  <2>2. /\ Verdict("unknown", reason) \in Verdicts
        /\ Verdict("unknown", reason).status \notin Terminal
    BY DEF Verdict, Verdicts, Reasons, Terminal
  <2> QED
    BY <1>6, <2>1, <2>2, ContinueInv DEF CheckFails
<1>7. CASE Deadline(c)
  <2> DEFINE verdict == Verdict("unknown", "verification_deadline")
  <2>1. /\ verdict \in Verdicts /\ verdict.status \notin Terminal
        /\ verdict.reason = "verification_deadline"
    BY DEF Verdict, Verdicts, Reasons, Terminal
  <2>2. /\ Turn(c, "returned") /\ ServiceStays /\ left' = left
        /\ OutcomeMoves(c, verdict)
    BY <1>7, <2>1 DEF Deadline, OutcomeMoves
  <2> HIDE DEF verdict
  <2> QED
    BY <2>1, <2>2, TurnInv
<1> QED
  BY <1>1, <1>2, <1>3, <1>4, <1>5, <1>6, <1>7 DEF ClientStep

-----------------------------------------------------------------------------
\* The service's steps.

\* A key without a fate meets one, by its write or its settlement.
Meets(i, mode, arguments) ==
    /\ ledger[i].status \in {"not_found", "pending"}
    /\ ledger' = [ledger EXCEPT ![i] = NewRecord(mode, i, arguments)]
    /\ effects' = [effects EXCEPT ![i] = @ + (IF HasEffect(mode) THEN 1 ELSE 0)]

\* What was told of settled keys stays true when another one meets its fate.
LEMMA MeetsInv ==
    ASSUME VerifyInv, NEW i \in Ids, NEW arguments \in Requests,
           NEW mode \in ModeKinds \ {"false_success"},
           Meets(i, mode, arguments), UNCHANGED clientVars
    PROVE  /\ ledger' \in [Ids -> Records] /\ effects' \in [Ids -> Nat]
           /\ ledger'[i].status # "not_found"
           /\ \A j \in Ids \ {i} : ledger'[j] = ledger[j]
           /\ RecordsTell' /\ SettledAnswersHold' /\ DefiniteOutcomesHold'
<1>0. /\ effects \in [Ids -> Nat] /\ ledger \in [Ids -> Records]
      /\ effects[i] = 0
  BY DEF VerifyInv, VerifyTypeOK, Meets, RecordsTell
<1>1. NewRecord(mode, i, arguments) \in Records
  BY <1>0, RecordType
<1>2. ledger' \in [Ids -> Records] /\ effects' \in [Ids -> Nat]
  BY <1>0, <1>1 DEF Meets
<1>3. /\ ledger'[i] = NewRecord(mode, i, arguments)
      /\ effects'[i] = IF HasEffect(mode) THEN 1 ELSE 0
      /\ \A j \in Ids \ {i} : ledger'[j] = ledger[j] /\ effects'[j] = effects[j]
  BY <1>0 DEF Meets
<1>4. /\ ledger'[i].status # "not_found"
      /\ ledger'[i].status = "pending" => effects'[i] = 0
      /\ ledger'[i].status = "failed" => effects'[i] \in {0, 1}
      /\ ledger'[i].status \in {"partial", "succeeded"} =>
            effects'[i] = 1 /\ ledger'[i].count = 1
      /\ ledger'[i].status = "partial" => ledger'[i].amount = "half"
  BY <1>0, <1>3 DEF NewRecord, Record, HasEffect, ModeKinds
<1>5. RecordsTell'
  <2> SUFFICES ASSUME NEW j \in Ids
               PROVE  /\ ledger'[j].status \in {"not_found", "pending"} => effects'[j] = 0
                      /\ ledger'[j].status = "failed" => effects'[j] \in {0, 1}
                      /\ ledger'[j].status \in {"partial", "succeeded"} =>
                            effects'[j] = 1 /\ ledger'[j].count = 1
                      /\ ledger'[j].status = "partial" => ledger'[j].amount = "half"
    BY DEF RecordsTell
  <2>1. CASE j = i
    BY <1>4, <2>1
  <2>2. CASE j # i
    BY <1>3, <2>2 DEF VerifyInv, RecordsTell
  <2> QED
    BY <2>1, <2>2
<1>6. SettledAnswersHold'
  <2> SUFFICES ASSUME NEW c \in Clients, answer[c].trusted, answer[c].receipt_id,
                      answer[c].record.status \in Settled
               PROVE  answer[c].record = ledger'[Id(c)]
    BY DEF SettledAnswersHold, clientVars, Id
  <2>1. answer[c].record = ledger[Id(c)] /\ Id(c) \in Ids
    BY ServiceConfigured DEF VerifyInv, SettledAnswersHold, Id
  <2>2. Id(c) # i
    BY <2>1 DEF Meets, Settled
  <2> QED
    BY <1>3, <2>1, <2>2
<1>7. DefiniteOutcomesHold'
  <2> SUFFICES ASSUME NEW c \in Clients, outcome[c].status \in Terminal
               PROVE  pc[c] = "returned" /\ Tells(outcome[c].status, c)'
    BY DEF DefiniteOutcomesHold, clientVars, Tells
  <2>1. pc[c] = "returned" /\ Tells(outcome[c].status, c) /\ Id(c) \in Ids
    BY ServiceConfigured DEF VerifyInv, DefiniteOutcomesHold, Id
  <2>2. Id(c) # i
    BY <2>1 DEF Meets, Tells
  <2>3. ledger'[Id(c)] = ledger[Id(c)]
    BY <1>3, <2>1, <2>2
  <2> QED
    BY <2>1, <2>3 DEF Tells, clientVars, Id
<1> QED
  BY <1>2, <1>3, <1>4, <1>5, <1>6, <1>7

\* A write arrives: at a key that is known it changes nothing, and one that is
\* not known is new.
LEMMA ArriveInv ==
    ASSUME VerifyInv, NEW w \in writes, NEW mode \in Modes, Arrive(w, mode),
           UNCHANGED clientVars
    PROVE  VerifyInv'
<1> DEFINE i == Id(w.client)
<1>0. /\ w.client \in Clients /\ i \in Ids
      /\ Operation[w.client].arguments \in Requests
      /\ w.sent \in Nat /\ now \in 0..MaxNow /\ MaxNow \in Nat
      /\ mode \in ModeKinds /\ writes' = writes \ {w} /\ now' = now
  BY ServiceConfigured DEF VerifyInv, VerifyTypeOK, Id, Arrive
<1>1. CASE Ignored(w, mode)
  <2>1. UNCHANGED <<now, ledger, recorded, forgotten, effects, clientVars>>
    BY <1>0, <1>1 DEF Arrive
  <2>2. VerifyTypeOK'
    BY <1>0, <2>1 DEF clientVars, VerifyInv, VerifyTypeOK
  <2>3. WritesAreRecent' /\ OneWriteWithoutWindow'
    BY <1>0, <2>1 DEF clientVars, VerifyInv, WritesAreRecent, Created,
                      OneWriteWithoutWindow, New, Id
  <2>4. /\ RecordsTell' /\ RecordsAreDated' /\ ForgottenAreOld'
        /\ SettledAnswersHold' /\ DefiniteOutcomesHold' /\ ChecksFollowWrites'
    BY <2>1 DEF clientVars, VerifyInv, RecordsTell, RecordsAreDated, ForgottenAreOld,
                SettledAnswersHold, DefiniteOutcomesHold, ChecksFollowWrites, New,
                Created, Tells, Id
  <2> QED
    BY <2>2, <2>3, <2>4 DEF VerifyInv
<1>2. CASE ~Ignored(w, mode)
  <2>1. New(i) /\ i \notin forgotten /\ mode # "false_success"
    BY <1>2, KeyOutlivesWrites DEF Ignored
  <2>2. /\ Meets(i, mode, Operation[w.client].arguments)
        /\ recorded' = [recorded EXCEPT ![i] = now]
        /\ forgotten' = forgotten \ {i}
    BY <1>2, <2>1 DEF Arrive, Meets, New
  <2>3. /\ ledger' \in [Ids -> Records] /\ effects' \in [Ids -> Nat]
        /\ \A j \in Ids \ {i} : ledger'[j] = ledger[j]
        /\ RecordsTell' /\ SettledAnswersHold' /\ DefiniteOutcomesHold'
    BY <1>0, <2>1, <2>2, MeetsInv
  <2>4. VerifyTypeOK'
    BY <1>0, <2>2, <2>3 DEF clientVars, VerifyInv, VerifyTypeOK
  <2>5. WritesAreRecent'
    BY <1>0 DEF VerifyInv, WritesAreRecent, Created
  <2>6. RecordsAreDated'
    <3> SUFFICES ASSUME NEW c \in Clients, ~New(Id(c))'
                 PROVE  Created(c) <= recorded'[Id(c)]
      BY DEF RecordsAreDated, Created, Id
    <3>1. CASE Id(c) = i
      <4>1. Created(c) = Created(w.client) /\ Created(c) \in Nat
        BY <1>0, <3>1, ServiceConfigured, ContractDeclared DEF Created
      <4>2. recorded'[i] = now
        BY <1>0, <2>2 DEF VerifyInv, VerifyTypeOK
      <4>3. Created(w.client) <= w.sent /\ w.sent <= now
        BY DEF VerifyInv, WritesAreRecent
      <4> QED
        BY <1>0, <3>1, <4>1, <4>2, <4>3
    <3>2. CASE Id(c) # i
      <4>1. Id(c) \in Ids
        BY ServiceConfigured DEF Id
      <4>2. recorded'[Id(c)] = recorded[Id(c)] /\ ~New(Id(c))
        BY <2>2, <2>3, <3>2, <4>1 DEF New, VerifyInv, VerifyTypeOK, Id
      <4> QED
        BY <4>2 DEF VerifyInv, RecordsAreDated
    <3> QED
      BY <3>1, <3>2
  <2>7. ForgottenAreOld'
    <3> SUFFICES ASSUME NEW j \in forgotten \ {i}
                 PROVE  ~New(j)' /\ recorded'[j] + Retention <= now
      BY <1>0, <2>2 DEF ForgottenAreOld, New
    <3>1. j \in Ids /\ recorded'[j] = recorded[j] /\ ledger'[j] = ledger[j]
      BY <2>2, <2>3 DEF VerifyInv, VerifyTypeOK
    <3> QED
      BY <3>1 DEF VerifyInv, ForgottenAreOld, New
  <2>8. OneWriteWithoutWindow'
    <3> SUFFICES ASSUME Window = 0 PROVE OneWriteWithoutWindow'
      BY DEF OneWriteWithoutWindow
    <3>1. attempts' = attempts
      BY DEF clientVars
    <3>2. ASSUME NEW v \in writes', Id(v.client) = i PROVE FALSE
      <4>1. v \in writes /\ v # w /\ v.client \in Clients
        BY <1>0 DEF VerifyInv, VerifyTypeOK
      <4>2. /\ attempts[v.client] = 1 /\ attempts[w.client] = 1
            /\ v.client \in Fresh /\ w.client \in Fresh
        BY <1>0, <4>1 DEF VerifyInv, OneWriteWithoutWindow
      <4>3. v.client = w.client
        BY <1>0, <3>2, <4>1, <4>2, ContractDeclared
      <4> QED
        BY <4>1, <4>3 DEF VerifyInv, OneWriteWithoutWindow
    <3>3. ASSUME NEW j \in Ids, ~New(j)'
          PROVE  /\ \E c \in Clients : Id(c) = j /\ attempts[c] = 1
                 /\ \A v \in writes' : Id(v.client) # j
      <4>1. CASE j = i
        <5>1. attempts[w.client] = 1
          BY DEF VerifyInv, OneWriteWithoutWindow
        <5> QED
          BY <1>0, <3>2, <4>1, <5>1
      <4>2. CASE j # i
        BY <1>0, <2>3, <3>3, <4>2 DEF VerifyInv, OneWriteWithoutWindow, New
      <4> QED
        BY <4>1, <4>2
    <3> QED
      BY <1>0, <3>1, <3>3 DEF VerifyInv, OneWriteWithoutWindow, Id
  <2>9. ChecksFollowWrites'
    BY DEF clientVars, VerifyInv, ChecksFollowWrites
  <2> QED
    BY <2>3, <2>4, <2>5, <2>6, <2>7, <2>8, <2>9 DEF VerifyInv
<1> QED
  BY <1>1, <1>2

\* A write is lost, or a key's time is over.
LEMMA LoseForgetInv ==
    ASSUME VerifyInv, UNCHANGED clientVars,
           (\E w \in writes : Lose(w)) \/ (\E i \in Ids : Forget(i))
    PROVE  VerifyInv'
<1>1. /\ UNCHANGED <<now, ledger, recorded, effects>>
      /\ writes' \subseteq writes
      /\ \A i \in forgotten' \ forgotten : ~New(i) /\ recorded[i] + Retention <= now
      /\ forgotten' \subseteq Ids
  <2>1. CASE \E w \in writes : Lose(w)
    <3>1. forgotten' = forgotten
      BY <2>1 DEF Lose
    <3> QED
      BY <2>1, <3>1 DEF Lose, VerifyInv, VerifyTypeOK
  <2>2. CASE \E i \in Ids : Forget(i)
    <3>1. PICK i \in Ids : Forget(i)
      BY <2>2
    <3>2. recorded[i] + Retention \in Nat /\ now \in Nat
      BY ServiceConfigured DEF VerifyInv, VerifyTypeOK
    <3> QED
      BY <3>1, <3>2 DEF Forget, Known, New, VerifyInv, VerifyTypeOK
  <2> QED
    BY <2>1, <2>2
<1>2. VerifyTypeOK'
  BY <1>1 DEF clientVars, VerifyInv, VerifyTypeOK
<1>3. RecordsTell' /\ RecordsAreDated' /\ SettledAnswersHold' /\ DefiniteOutcomesHold'
  BY <1>1 DEF clientVars, VerifyInv, RecordsTell, RecordsAreDated, SettledAnswersHold,
              DefiniteOutcomesHold, New, Created, Tells, Id
<1>4. ForgottenAreOld'
  BY <1>1 DEF VerifyInv, ForgottenAreOld, New
<1>5. WritesAreRecent'
  BY <1>1 DEF VerifyInv, WritesAreRecent, Created
<1>6. OneWriteWithoutWindow'
  BY <1>1 DEF clientVars, VerifyInv, OneWriteWithoutWindow, New, Id
<1>7. ChecksFollowWrites'
  BY DEF clientVars, VerifyInv, ChecksFollowWrites
<1> QED
  BY <1>2, <1>3, <1>4, <1>5, <1>6, <1>7 DEF VerifyInv

\* A pending operation comes to its end.
LEMMA SettleInv ==
    ASSUME VerifyInv, NEW i \in Ids, NEW mode \in Modes, Settle(i, mode),
           UNCHANGED clientVars
    PROVE  VerifyInv'
<1>1. ledger[i].arguments \in Requests
  BY DEF VerifyInv, VerifyTypeOK, Records
<1>2. /\ mode \in ModeKinds \ {"false_success"}
      /\ Meets(i, mode, ledger[i].arguments)
  BY DEF Settle, Meets, ModeKinds, VerifyInv, VerifyTypeOK
<1>3. UNCHANGED <<now, writes, recorded, forgotten>> /\ ~New(i)
  BY DEF Settle, New
<1>4. /\ ledger' \in [Ids -> Records] /\ effects' \in [Ids -> Nat]
      /\ ledger'[i].status # "not_found"
      /\ \A j \in Ids \ {i} : ledger'[j] = ledger[j]
      /\ RecordsTell' /\ SettledAnswersHold' /\ DefiniteOutcomesHold'
  BY <1>1, <1>2, MeetsInv
<1>5. \A j \in Ids : New(j)' <=> New(j)
  BY <1>3, <1>4 DEF New
<1>6. VerifyTypeOK'
  BY <1>3, <1>4 DEF clientVars, VerifyInv, VerifyTypeOK
<1>7. RecordsAreDated' /\ ForgottenAreOld' /\ OneWriteWithoutWindow'
  <2>1. \A c \in Clients : Id(c) \in Ids /\ (New(Id(c))' <=> New(Id(c)))
    BY <1>5, ServiceConfigured DEF Id, New
  <2>2. RecordsAreDated'
    BY <1>3, <2>1 DEF VerifyInv, RecordsAreDated, Created, Id
  <2>3. ForgottenAreOld'
    BY <1>3, <1>5 DEF VerifyInv, VerifyTypeOK, ForgottenAreOld
  <2>4. OneWriteWithoutWindow'
    BY <1>3, <1>5 DEF clientVars, VerifyInv, OneWriteWithoutWindow, Id
  <2> QED
    BY <2>2, <2>3, <2>4
<1>8. WritesAreRecent' /\ ChecksFollowWrites'
  BY <1>3 DEF clientVars, VerifyInv, WritesAreRecent, ChecksFollowWrites, Created
<1> QED
  BY <1>4, <1>6, <1>7, <1>8 DEF VerifyInv

\* Time passes, for writes that are not due yet.
LEMMA TickInv ==
    ASSUME VerifyInv, Tick
    PROVE  VerifyInv'
<1>1. /\ now' = now + 1 /\ now < MaxNow /\ now \in 0..MaxNow
      /\ MaxNow \in Nat /\ Delay \in Nat /\ Retention \in Nat /\ Timeout \in Nat
      /\ UNCHANGED <<writes, ledger, recorded, forgotten, effects>>
      /\ UNCHANGED <<pc, attempts, checks, checked, answer, outcome>>
      /\ \A w \in writes : now < w.sent + Delay
  BY ServiceConfigured, ContractDeclared DEF Tick, Elapse, VerifyInv, VerifyTypeOK
<1>2. left' \in [Clients -> 0..Timeout]
  BY <1>1 DEF Tick, VerifyInv, VerifyTypeOK
<1>3. VerifyTypeOK'
  BY <1>1, <1>2 DEF VerifyInv, VerifyTypeOK
<1>4. WritesAreRecent'
  <2> SUFFICES ASSUME NEW w \in writes
               PROVE  /\ Created(w.client) <= w.sent /\ w.sent <= now + 1
                      /\ now + 1 <= w.sent + Delay
                      /\ Window > 0 =>
                            w.sent < Created(w.client) + Behind[w.client] + Window
    BY <1>1 DEF WritesAreRecent, Created
  <2>1. w.sent \in Nat
    BY DEF VerifyInv, VerifyTypeOK
  <2> QED
    BY <1>1, <2>1 DEF VerifyInv, WritesAreRecent
<1>5. ForgottenAreOld'
  <2>1. \A i \in forgotten : recorded[i] \in Nat
    BY DEF VerifyInv, VerifyTypeOK
  <2> QED
    BY <1>1, <2>1 DEF VerifyInv, ForgottenAreOld, New
<1>6. /\ RecordsTell' /\ RecordsAreDated' /\ OneWriteWithoutWindow'
      /\ SettledAnswersHold' /\ DefiniteOutcomesHold' /\ ChecksFollowWrites'
  BY <1>1 DEF VerifyInv, RecordsTell, RecordsAreDated, OneWriteWithoutWindow,
              SettledAnswersHold, DefiniteOutcomesHold, ChecksFollowWrites, New,
              Created, Tells, Id
<1> QED
  BY <1>3, <1>4, <1>5, <1>6 DEF VerifyInv

-----------------------------------------------------------------------------
\* The theorems.

\* The invariant holds before anything has happened.
LEMMA VerifyInitInv == VerifyInit => VerifyInv
<1> SUFFICES ASSUME VerifyInit PROVE VerifyInv
  OBVIOUS
<1> USE DEF VerifyInit, ServiceInit
<1>1. VerifyTypeOK
  <2>1. NoEvidence \in Verdicts
    BY VerdictType DEF NoEvidence, Reasons
  <2> QED
    BY <2>1, NoRecordType, ServiceConfigured, ContractDeclared
       DEF VerifyTypeOK, Verdicts
<1>2. NoRecord.status = "not_found"
  BY DEF NoRecord, Record
<1>3. RecordsTell /\ WritesAreRecent /\ RecordsAreDated /\ ForgottenAreOld
  BY <1>2, ServiceConfigured
     DEF RecordsTell, WritesAreRecent, RecordsAreDated, ForgottenAreOld, New, Id
<1>4. OneWriteWithoutWindow
  BY <1>2 DEF OneWriteWithoutWindow, New
<1>5. SettledAnswersHold /\ DefiniteOutcomesHold /\ ChecksFollowWrites
  BY DEF SettledAnswersHold, DefiniteOutcomesHold, ChecksFollowWrites, NoAnswer,
         NoEvidence, Verdict, Terminal
<1> QED
  BY <1>1, <1>3, <1>4, <1>5 DEF VerifyInv

\* Every step of a client, of the service or of time keeps it.
LEMMA VerifyNextInv == VerifyInv /\ [VerifyNext]_verifyVars => VerifyInv'
<1> SUFFICES ASSUME VerifyInv, [VerifyNext]_verifyVars PROVE VerifyInv'
  OBVIOUS
<1>1. CASE \E c \in Clients : ClientStep(c)
  BY <1>1, ClientStepInv
<1>2. CASE ServiceStep /\ UNCHANGED clientVars
  BY <1>2, ArriveInv, SettleInv, LoseForgetInv DEF ServiceStep, Deliver
<1>3. CASE Tick
  BY <1>3, TickInv
<1>4. CASE UNCHANGED verifyVars
  BY <1>4 DEF verifyVars, serviceVars, clientVars, VerifyInv, VerifyTypeOK,
     RecordsTell, WritesAreRecent, RecordsAreDated, ForgottenAreOld,
     OneWriteWithoutWindow, SettledAnswersHold, DefiniteOutcomesHold,
     ChecksFollowWrites, New, Created, Tells, Id
<1> QED
  BY <1>1, <1>2, <1>3, <1>4 DEF VerifyNext

\* The inductive invariant holds in every reachable state of execute_verified.
THEOREM VerifyInvariance == VerifySpec => []VerifyInv
  BY VerifyInitInv, VerifyNextInv, PTL DEF VerifySpec

\* Every reachable state is well typed: the budgets of attempts and checks are
\* kept by every invocation.
THEOREM VerifyTypeCorrect == VerifySpec => []VerifyTypeOK
<1>1. VerifyInv => VerifyTypeOK
  BY DEF VerifyInv
<1> QED
  BY <1>1, VerifyInvariance, PTL

\* However many invocations of an operation run, resume and resubmit, and
\* however late their writes arrive, its effect is produced at most once.
THEOREM OneEffect == VerifySpec => []AtMostOneEffect
<1>1. VerifyInv => AtMostOneEffect
  BY DEF VerifyInv, VerifyTypeOK, Records, RecordsTell, AtMostOneEffect
<1> QED
  BY <1>1, VerifyInvariance, PTL

\* A definite outcome is, and stays, the truth about the request it was
\* returned for.
THEOREM DefiniteOutcomeIsTrue == VerifySpec => []OutcomeIsTrue
<1>1. ASSUME VerifyInv PROVE OutcomeIsTrue
  <2> SUFFICES ASSUME NEW c \in Clients, outcome[c].status \in Terminal
               PROVE  /\ Tells(outcome[c].status, c)
                      /\ outcome[c].status # "confirmed_failure" => effects[Id(c)] = 1
    BY DEF OutcomeIsTrue, Tells
  <2>1. Tells(outcome[c].status, c) /\ Id(c) \in Ids
    BY <1>1, ServiceConfigured DEF VerifyInv, DefiniteOutcomesHold, Id
  <2> QED
    BY <1>1, <2>1 DEF VerifyInv, RecordsTell, Tells, Terminal
<1> QED
  BY <1>1, VerifyInvariance, PTL

\* An invocation that its deadline did not interrupt returns on evidence from
\* after its last write.
THEOREM ReturnsOnFreshEvidence == VerifySpec => []LastWriteIsChecked
<1>1. VerifyInv => LastWriteIsChecked
  BY DEF VerifyInv, ChecksFollowWrites, LastWriteIsChecked
<1> QED
  BY <1>1, VerifyInvariance, PTL

-----------------------------------------------------------------------------
\* The refinement.

Fate(i) == [status |-> ledger[i].status, arguments |-> ledger[i].arguments,
            amount |-> ledger[i].amount, effects |-> effects[i]]
Fates == [i \in Ids |-> Fate(i)]
Told == [c \in Clients |-> IF pc[c] = "returned" THEN outcome[c].status ELSE "open"]

\* What a step of an invocation leaves alone; only a return tells an outcome.
LEMMA ClientStepTells ==
    ASSUME VerifyInv, NEW c \in Clients, ClientStep(c)
    PROVE  /\ UNCHANGED <<ledger, effects>>
           /\ pc[c] # "returned"
           /\ \A d \in Clients \ {c} : pc'[d] = pc[d] /\ outcome'[d] = outcome[d]
<1> DEFINE Alone ==
        /\ UNCHANGED <<ledger, effects>>
        /\ pc[c] # "returned"
        /\ \A d \in Clients \ {c} : pc'[d] = pc[d] /\ outcome'[d] = outcome[d]
<1>1. CASE Refuse(c) \/ Read(c) \/ Cancel(c)
  BY <1>1 DEF Refuse, Read, Cancel, Awaits, serviceVars, VerifyInv, VerifyTypeOK
<1>2. CASE Begin(c)
  BY <1>2 DEF Begin, Submit, NextCheck, Check, Turn, ServiceStays, VerifyInv,
              VerifyTypeOK
<1>3. CASE SendEnds(c) \/ Wake(c) \/ Deadline(c)
  BY <1>3 DEF SendEnds, Wake, Deadline, NextCheck, Check, Turn, ServiceStays, Awaits,
              VerifyInv, VerifyTypeOK
<1>4. ASSUME NEW verdict, pc[c] = "checking", Continue(c, verdict)
      PROVE  Alone
  BY <1>4 DEF Continue, Submit, Turn, ServiceStays, VerifyInv, VerifyTypeOK
<1>5. CASE Receive(c) \/ CheckFails(c)
  BY <1>4, <1>5 DEF Receive, CheckFails
<1> QED
  BY <1>1, <1>2, <1>3, <1>5 DEF ClientStep

\* So the step is a return that tells what happened, or nothing to the callers.
LEMMA ClientStepKeepsPromise ==
    ASSUME VerifyInv, VerifyInv', NEW c \in Clients, ClientStep(c)
    PROVE  [Promise!Next]_<<Fates, Told>>
<1>1. /\ UNCHANGED <<ledger, effects>>
      /\ pc[c] # "returned"
      /\ \A d \in Clients \ {c} : pc'[d] = pc[d] /\ outcome'[d] = outcome[d]
  BY ClientStepTells
<1>2. UNCHANGED Fates
  BY <1>1 DEF Fates, Fate
<1>3. CASE pc'[c] # "returned"
  BY <1>1, <1>2, <1>3, Zenon DEF Told
<1>4. CASE pc'[c] = "returned"
  <2>1. PICK verdict \in Terminal \cup {"pending", "unknown"} :
           outcome'[c].status = verdict
    BY DEF VerifyInv, VerifyTypeOK
  <2>2. Told' = [Told EXCEPT ![c] = verdict]
    BY <1>1, <1>4, <2>1 DEF Told
  <2>3. Told[c] = "open"
    BY <1>1 DEF Told
  <2>4. ASSUME verdict \in Terminal
        PROVE  /\ Fates[Id(c)].arguments = Operation[c].arguments
               /\ Promise!Supports(Fates[Id(c)], verdict)
    <3>1. Tells(verdict, c)' /\ Id(c) \in Ids
      BY <2>1, <2>4, ServiceConfigured DEF VerifyInv, DefiniteOutcomesHold, Id
    <3>2. Tells(verdict, c)
      BY <1>1, <3>1 DEF Tells, Id
    <3>3. ledger[Id(c)].status \in {"partial", "succeeded"} => effects[Id(c)] = 1
      BY <3>1 DEF VerifyInv, RecordsTell
    <3> QED
      BY <2>4, <3>1, <3>2, <3>3 DEF Tells, Fates, Fate, Terminal, Promise!Supports
  <2>5. Promise!Tell(c, verdict)
    BY <1>2, <2>2, <2>3, <2>4 DEF Promise!Tell, Promise!Definite, Terminal, Fates,
       Fate, Told
  <2> QED
    BY <2>1, <2>5 DEF Promise!Next, Promise!Definite, Terminal
<1> QED
  BY <1>3, <1>4

\* A key that meets its fate in the service meets it once in the promise.
LEMMA MeetsKeepsPromise ==
    ASSUME VerifyInv, VerifyInv', NEW i \in Ids, NEW arguments \in Requests,
           NEW mode \in ModeKinds \ {"false_success"},
           Meets(i, mode, arguments), UNCHANGED clientVars,
           ledger[i].status = "pending" => arguments = ledger[i].arguments
    PROVE  [Promise!Next]_<<Fates, Told>>
<1>1. /\ ledger'[i].status # "not_found"
      /\ \A j \in Ids \ {i} : ledger'[j] = ledger[j] /\ effects'[j] = effects[j]
  BY MeetsInv DEF Meets, VerifyInv, VerifyTypeOK
<1>2. ledger'[i].arguments = arguments
  BY DEF Meets, NewRecord, Record, ModeKinds, VerifyInv, VerifyTypeOK
<1>3. effects'[i] \in {0, 1}
  BY DEF VerifyInv, VerifyTypeOK, RecordsTell, Records
<1>4. /\ Fates'[i].status = ledger'[i].status
      /\ Fates'[i].arguments = ledger'[i].arguments
      /\ Fates'[i].effects = effects'[i]
      /\ Fates[i].status = ledger[i].status
      /\ Fates[i].arguments = ledger[i].arguments
  BY DEF Fates, Fate
<1>5. \A j \in Ids \ {i} : Fates'[j] = Fates[j]
  BY <1>1 DEF Fates, Fate
<1>6. UNCHANGED Told
  BY DEF Told, clientVars
<1>7. ledger[i].status \in {"not_found", "pending"}
  BY DEF Meets
<1>8. Promise!Meet(i)
  BY <1>1, <1>2, <1>3, <1>4, <1>5, <1>6, <1>7
     DEF Promise!Meet, Fates, Fate, Told
<1> QED
  BY <1>8 DEF Promise!Next

\* execute_verified, with the service behind it, keeps its promise: each key
\* meets one fate, and a definite outcome is told only of that fate.
THEOREM VerifiedKeepsPromise == VerifySpec => KeepsPromise
<1>1. VerifyInit => Promise!Init
  BY DEF VerifyInit, ServiceInit, Promise!Init, NoRecord, Record
<1>2. ASSUME VerifyInv, VerifyInv', [VerifyNext]_verifyVars
      PROVE  [Promise!Next]_<<Fates, Told>>
  <2>1. CASE \E c \in Clients : ClientStep(c)
    BY <1>2, <2>1, ClientStepKeepsPromise
  <2>2. CASE /\ \E w \in writes, mode \in Modes : Arrive(w, mode) /\ ~Ignored(w, mode)
             /\ UNCHANGED clientVars
    <3>1. PICK w \in writes, mode \in Modes : Arrive(w, mode) /\ ~Ignored(w, mode)
      BY <2>2
    <3>2. /\ New(Id(w.client)) /\ mode # "false_success"
          /\ w.client \in Clients /\ Id(w.client) \in Ids
          /\ mode \in ModeKinds
          /\ Operation[w.client].arguments \in Requests
      BY <1>2, <3>1, KeyOutlivesWrites, ServiceConfigured
         DEF Ignored, Id, VerifyInv, VerifyTypeOK
    <3>3. Meets(Id(w.client), mode, Operation[w.client].arguments)
      BY <3>1, <3>2 DEF Arrive, Meets, New
    <3> QED
      BY <1>2, <2>2, <3>2, <3>3, MeetsKeepsPromise DEF New
  <2>3. CASE (\E i \in Ids, mode \in Modes : Settle(i, mode)) /\ UNCHANGED clientVars
    <3>1. PICK i \in Ids, mode \in Modes : Settle(i, mode)
      BY <2>3
    <3>2. /\ Meets(i, mode, ledger[i].arguments)
          /\ ledger[i].arguments \in Requests
          /\ mode \in ModeKinds \ {"false_success"}
      BY <1>2, <3>1 DEF Settle, Meets, ModeKinds, VerifyInv, VerifyTypeOK, Records
    <3> QED
      BY <1>2, <2>3, <3>2, MeetsKeepsPromise
  <2>4. CASE UNCHANGED <<ledger, effects, pc, outcome>>
    BY <2>4 DEF Fates, Fate, Told
  <2>5. \/ \E c \in Clients : ClientStep(c)
        \/ /\ \E w \in writes, mode \in Modes : Arrive(w, mode) /\ ~Ignored(w, mode)
           /\ UNCHANGED clientVars
        \/ (\E i \in Ids, mode \in Modes : Settle(i, mode)) /\ UNCHANGED clientVars
        \/ UNCHANGED <<ledger, effects, pc, outcome>>
    <3>1. CASE ServiceStep /\ UNCHANGED clientVars
      BY <3>1 DEF ServiceStep, Deliver, Lose, Forget, Arrive, clientVars
    <3>2. CASE Tick
      BY <3>2 DEF Tick, Elapse
    <3>3. CASE UNCHANGED verifyVars
      BY <3>3 DEF verifyVars, serviceVars, clientVars
    <3> QED
      BY <1>2, <3>1, <3>2, <3>3 DEF VerifyNext
  <2> QED
    BY <2>1, <2>2, <2>3, <2>4, <2>5
<1>3. VerifyInv /\ VerifyInv' /\ [VerifyNext]_verifyVars => [Promise!Next]_<<Fates, Told>>
  BY <1>2
<1> QED
  BY <1>1, <1>3, VerifyInvariance, PTL
     DEF VerifySpec, KeepsPromise, Promise!Spec, Fates, Fate, Told
=============================================================================
