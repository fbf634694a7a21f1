--------------------------- MODULE ProcessExchange ---------------------------
(***************************************************************************)
(* exchange of adapters/process.py and RemoteTools of remote.py: the       *)
(* runner and the agent's process, one JSON line per message over two      *)
(* pipes, and stderr drained beside them.  A step of the runner is what    *)
(* exchange does from one await to the next.                               *)
(***************************************************************************)
EXTENDS Naturals, Sequences, SequencesExt

CONSTANTS
    Agents,      \* what may run: "client" uses RemoteTools, "any" is any program
    Ids,         \* the ids any program gives its calls
    MaxMessages, \* how many messages exchange reads
    MaxSaid,     \* bound: the messages a process writes
    OutRoom,     \* messages stdout holds before its writer waits
    ErrRoom      \* chunks stderr holds before its writer waits

ASSUME ExchangeConfigured ==
    /\ Agents \subseteq {"client", "any"}
    /\ Ids \subseteq Nat
    /\ {MaxMessages, MaxSaid, OutRoom, ErrRoom} \subseteq Nat \ {0}

VARIABLES
    agent,    \* which program runs
    noisy,    \* whether it writes to stderr before each message
    child,    \* its process: what it does, or how it ended
    next_id,  \* RemoteTools._next_id
    status,   \* its returncode
    stdout,   \* messages written and not read
    stdin,    \* replies written and not read
    stderr,   \* chunks written and not drained
    pc,       \* where exchange awaits
    reads,    \* messages read
    seen,     \* ids seen
    current,  \* call_id
    outcome,  \* how exchange ends, "none" before
    said,     \* history: messages written by the process
    executed  \* history: the ids whose tools were called

childVars == <<agent, noisy, child, next_id, status, stdout, stderr, said>>
loopVars == <<reads, seen, current, executed>>
exchangeVars == <<agent, noisy, child, next_id, status, stdout, stdin, stderr, pc,
                  reads, seen, current, outcome, said, executed>>

Call(i) == [kind |-> "call", id |-> i]
Result == [kind |-> "result", id |-> 0]
\* What is not JSON, not an object, no known method, wrongly typed or over one MiB.
Malformed == [kind |-> "malformed", id |-> 0]
Messages == {Result, Malformed} \cup {Call(i) : i \in Ids}

\* The first line on stdin is the task, the others are replies.
Task == [id |-> 0, ok |-> TRUE]

Dead == child \in {"exited", "killed"}

ExchangeInit ==
    /\ agent \in Agents
    /\ noisy \in BOOLEAN
    /\ child = "none"
    /\ next_id = 0
    /\ status = 0
    /\ stdout = <<>> /\ stdin = <<>> /\ stderr = 0
    /\ pc = "spawn"
    /\ reads = 0 /\ seen = {} /\ current = 0
    /\ outcome = "none"
    /\ said = <<>> /\ executed = <<>>

-----------------------------------------------------------------------------
\* The agent's process.

\* It writes one line, and before it a chunk of stderr if it is noisy; it waits
\* while either pipe is full.
WriteLine(message) ==
    /\ Len(said) < MaxSaid
    /\ Len(stdout) < OutRoom
    /\ noisy => stderr < ErrRoom
    /\ stdout' = Append(stdout, message)
    /\ stderr' = IF noisy THEN stderr + 1 ELSE stderr
    /\ said' = Append(said, message)

\* RemoteTools.__init__ reads the task.
Boot ==
    /\ agent = "client" /\ child = "boot" /\ stdin # <<>>
    /\ child' = "work"
    /\ stdin' = Tail(stdin)
    /\ UNCHANGED <<agent, noisy, next_id, status, stdout, stderr, said>>

\* RemoteTools.call: it numbers the line but checks neither the name's type nor
\* the line's size.  A client leaves room for its result.
Ask ==
    /\ agent = "client" /\ child = "work"
    /\ Len(said) + 1 < MaxSaid
    /\ \E message \in {Call(next_id + 1), Malformed} : WriteLine(message)
    /\ next_id' = next_id + 1
    /\ child' = "wait"
    /\ UNCHANGED <<agent, noisy, status, stdin>>

\* Its second half: a reply with another id or, unless the agent handles it, an
\* error ends the agent.
Get ==
    /\ agent = "client" /\ child = "wait" /\ stdin # <<>>
    /\ stdin' = Tail(stdin)
    /\ \/ /\ Head(stdin).id = next_id
          /\ child' = "work" /\ status' = status
       \/ /\ Head(stdin).id # next_id \/ ~Head(stdin).ok
          /\ child' = "exited" /\ status' = 1
    /\ UNCHANGED <<agent, noisy, next_id, stdout, stderr, said>>

\* RemoteTools.finish, which checks neither the text's type nor the line's size,
\* and after which the agent's script is at its end.
Answer ==
    /\ agent = "client" /\ child = "work"
    /\ \E message \in {Result, Malformed} : WriteLine(message)
    /\ child' = "answered"
    /\ UNCHANGED <<agent, noisy, next_id, status, stdin>>

\* The process ends, with success or an error: a client's script too may end
\* before it answers, or raise after it.
Exit(code) ==
    /\ child \in {"boot", "work", "mute", "answered"}
    /\ child' = "exited"
    /\ status' = code
    /\ UNCHANGED <<agent, noisy, next_id, stdout, stderr, said, stdin>>

\* Any other program starts, writes what it likes, reads what it is sent or
\* does not, and may close its stdout before it ends.
AnyStep ==
    /\ agent = "any"
    /\ \/ /\ child = "boot"
          /\ child' = "work"
          /\ UNCHANGED <<stdout, stdin, stderr, said>>
       \/ /\ child = "work"
          /\ \E message \in Messages : WriteLine(message)
          /\ UNCHANGED <<child, stdin>>
       \/ /\ child = "work" /\ stdin # <<>>
          /\ stdin' = Tail(stdin)
          /\ UNCHANGED <<child, stdout, stderr, said>>
       \/ /\ child = "work"
          /\ child' = "mute"
          /\ UNCHANGED <<stdout, stdin, stderr, said>>
    /\ UNCHANGED <<agent, noisy, next_id, status>>

ChildStep ==
    /\ \/ Boot \/ Ask \/ Get \/ Answer \/ AnyStep
       \/ \E code \in {0, 1} : Exit(code)
    /\ UNCHANGED <<loopVars, pc, outcome>>

-----------------------------------------------------------------------------
\* The runner.

Awaits == {"spawn", "drain", "read", "tool", "exit", "eof", "reap"}

\* Mutant: the process is killed where an Exception is handled, not in finally.
EndWith_KillsOnException(how) ==
    /\ outcome' = how
    /\ pc' = "reap"
    /\ child' = IF Dead \/ how = "cancelled" THEN child ELSE "killed"

\* exchange returns or raises: its finally clause kills the process group
\* before it awaits anything.
EndWith(how) ==
    /\ outcome' = how
    /\ pc' = "reap"
    /\ child' = IF Dead THEN child ELSE "killed"

Goto(await) == pc' = await /\ UNCHANGED <<child, outcome>>

\* create_subprocess_exec: the process runs before the runner goes on.
Fork ==
    /\ pc = "spawn" /\ child = "none"
    /\ child' = "boot"
    /\ UNCHANGED <<stdin, stdout, loopVars, pc, outcome>>

\* There is no such program: exchange has not come to its try statement.
SpawnFails ==
    /\ pc = "spawn" /\ child = "none"
    /\ pc' = "ended" /\ outcome' = "os_error"
    /\ UNCHANGED <<child, stdin, stdout, loopVars>>

\* Mutant: the last message is not read.
Exhausted_OffByOne == reads >= MaxMessages - 1

\* Mutant: the number of messages is not limited.
Exhausted_Never == FALSE

\* The loop has read its last message.
Exhausted == reads >= MaxMessages

\* The next iteration of the loop.
Loop == IF Exhausted THEN EndWith("limit") ELSE Goto("read")

\* send(): a line that json cannot encode or of more than one MiB is refused; of
\* any other, drain() awaits that it is read only when the buffers are full, and
\* raises when nobody can read it any more.
Send(message) ==
    \/ EndWith("too_long") /\ UNCHANGED stdin
    \/ /\ stdin' = Append(stdin, message)
       /\ \/ Loop /\ ~Dead
          \/ Goto("drain") /\ ~Dead
          \/ EndWith("send_error") /\ (Dead \/ agent = "any")

SendTask ==
    /\ pc = "spawn" /\ child # "none"
    /\ Send(Task)
    /\ UNCHANGED <<stdout, loopVars>>

Drained ==
    /\ pc = "drain" /\ stdin = <<>>
    /\ Loop
    /\ UNCHANGED <<stdin, stdout, loopVars>>

SendBroken ==
    /\ pc = "drain" /\ stdin # <<>> /\ (Dead \/ agent = "any")
    /\ EndWith("send_error")
    /\ UNCHANGED <<stdin, stdout, loopVars>>

\* Mutant: the ids of calls are not kept.
Seen_Nothing(id) == seen

Seen(id) == seen \cup {id}

\* readline() returns a line, and exchange acts on it.
Read ==
    /\ pc = "read" /\ stdout # <<>>
    /\ stdout' = Tail(stdout)
    /\ reads' = reads + 1
    /\ LET message == Head(stdout)
       IN  \/ /\ message.kind = "result"
              /\ Goto("exit")
              /\ UNCHANGED <<seen, current, executed>>
           \/ /\ message.kind = "malformed"
              /\ EndWith("malformed")
              /\ UNCHANGED <<seen, current, executed>>
           \/ /\ message.kind = "call" /\ message.id \in seen
              /\ EndWith("duplicate")
              /\ UNCHANGED <<seen, current, executed>>
           \/ /\ message.kind = "call" /\ message.id \notin seen
              /\ seen' = Seen(message.id)
              /\ current' = message.id
              /\ executed' = Append(executed, message.id)
              /\ Goto("tool")
    /\ UNCHANGED stdin

\* tools.call returns or raises an Exception; either is answered.
ToolEnds ==
    /\ pc = "tool"
    /\ \E ok \in BOOLEAN : Send([id |-> current, ok |-> ok])
    /\ UNCHANGED <<stdout, loopVars>>

\* readline() returns nothing more; without a result, exchange awaits the end.
ReadEOF ==
    /\ pc = "read" /\ stdout = <<>> /\ (Dead \/ child = "mute")
    /\ Goto("eof")
    /\ UNCHANGED <<stdin, stdout, loopVars>>

NoResult ==
    /\ pc = "eof" /\ Dead
    /\ EndWith("no_result")
    /\ UNCHANGED <<stdin, stdout, loopVars>>

\* Mutant: the exit status is not looked at.
Verdict_AnyStatus == "result"

Verdict == IF status = 0 THEN "result" ELSE "bad_exit"

\* After its result the process has two seconds to end.
Exited ==
    /\ pc = "exit" /\ Dead
    /\ EndWith(Verdict)
    /\ UNCHANGED <<stdin, stdout, loopVars>>

ExitsLate ==
    /\ pc = "exit"
    /\ EndWith("timeout")
    /\ UNCHANGED <<stdin, stdout, loopVars>>

\* The run's deadline or its caller cancels exchange, once.  While the process
\* is spawned asyncio itself kills it; in the finally clause it has been killed.
Cancel ==
    /\ pc \in Awaits /\ outcome # "cancelled"
    /\ IF pc \in {"spawn", "reap"}
       THEN /\ outcome' = "cancelled" /\ pc' = "ended"
            /\ child' = IF child = "none" \/ Dead THEN child ELSE "killed"
       ELSE EndWith("cancelled")
    /\ UNCHANGED <<stdin, stdout, loopVars>>

\* process.wait() in the finally clause.
Reaped ==
    /\ pc = "reap" /\ Dead
    /\ pc' = "ended"
    /\ UNCHANGED <<child, outcome, stdin, stdout, loopVars>>

RunnerStep ==
    /\ \/ Fork \/ SpawnFails \/ SendTask \/ Drained \/ SendBroken \/ Read \/ ToolEnds
       \/ ReadEOF \/ NoResult \/ Exited \/ ExitsLate \/ Cancel \/ Reaped
    /\ UNCHANGED <<agent, noisy, next_id, status, stderr, said>>

\* Mutant: stderr is read once the process has ended.
MayDrain_AtExit == Dead

MayDrain == pc \notin {"spawn", "ended"}

\* _drain, a task of its own.
DrainStderr ==
    /\ MayDrain /\ stderr > 0
    /\ stderr' = 0
    /\ UNCHANGED <<agent, noisy, child, next_id, status, stdout, stdin, pc,
                   loopVars, outcome, said>>

ExchangeNext == ChildStep \/ RunnerStep \/ DrainStderr
ExchangeSpec == ExchangeInit /\ [][ExchangeNext]_exchangeVars

-----------------------------------------------------------------------------
\* Properties.

\* How exchange ends by itself, and how a driver ends outside of it.
Endings == {"result", "bad_exit", "timeout", "no_result", "malformed", "duplicate",
            "too_long", "limit", "send_error", "os_error"}
             \cup {"unavailable", "timeout", "cleanup_failed", "cleanup_late"}
AllIds == Ids \cup 1..MaxSaid
Lines == {Result, Malformed} \cup {Call(i) : i \in AllIds}
Replies == [id : AllIds \cup {0}, ok : BOOLEAN]

\* Every variable of exchange has the shape the code gives it.
ExchangeTypeOK ==
    /\ agent \in Agents /\ noisy \in BOOLEAN
    /\ child \in {"none", "boot", "work", "wait", "answered", "mute", "exited", "killed"}
    /\ next_id \in 0..MaxSaid /\ status \in {0, 1}
    /\ stdout \in Seq(Lines) /\ stdin \in Seq(Replies) /\ stderr \in 0..ErrRoom
    /\ pc \in Awaits \cup {"ended"}
    /\ reads \in 0..MaxMessages /\ seen \subseteq AllIds /\ current \in AllIds \cup {0}
    /\ outcome \in {"none", "cancelled"} \cup Endings
    /\ said \in Seq(Lines) /\ executed \in Seq(AllIds)

\* Each call runs its tool once, in the order of the process's own lines, and
\* nothing after the first line that is no call does, however many lines the
\* process writes ahead.
ToolsInOrder ==
    /\ IsInjective(executed)
    /\ Len(executed) <= Len(said)
    /\ \A i \in DOMAIN executed : said[i] = Call(executed[i])

\* A result is taken only of a process that ended by itself with success, and
\* when each line before it was a call that ran.
AnswerIsEarned ==
    outcome = "result" =>
        /\ child = "exited" /\ status = 0
        /\ said[reads] = Result
        /\ Len(executed) = reads - 1

\* A client of RemoteTools sees no reply but its own, none of its calls is taken
\* for a repeated one, and each protocol error tells what the client did: it sent
\* a line that is malformed, or as many calls as the limit, or it ended without
\* an answer, badly, or before it read what it was sent.  One error is not its
\* own doing: a task or a reply that send() refuses (too_long).
HonestIsHeard ==
    agent = "client" =>
        /\ child = "wait" => \A i \in DOMAIN stdin : stdin[i].id = next_id
        /\ outcome # "duplicate"
        /\ outcome = "malformed" => said[reads] = Malformed
        /\ outcome = "limit" => next_id >= MaxMessages
        /\ outcome = "no_result" => child = "exited" /\ ~Contains(said, Result)
        /\ outcome = "bad_exit" => child = "exited" /\ status = 1
        /\ outcome = "send_error" => child = "exited"
=============================================================================
