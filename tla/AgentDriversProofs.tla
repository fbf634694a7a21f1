-------------------------- MODULE AgentDriversProofs --------------------------
(***************************************************************************)
(* Theorems about ProcessExchange and AgentDrivers: tools run once and in  *)
(* order, a result is earned, and nothing of the agent is left when its    *)
(* run is over, for every program, limit and pipe.                         *)
(***************************************************************************)
EXTENDS AgentDrivers, TLAPS

\* The lines not read yet are the last ones written.
Unread ==
    /\ Len(said) = reads + Len(stdout)
    /\ \A i \in 1..Len(stdout) : stdout[i] = said[reads + i]

\* While exchange goes on, each line it has read was a call that ran.
Loops == {"spawn", "drain", "read", "tool", "eof"}
AllCallsSoFar ==
    /\ Len(executed) <= reads
    /\ pc \in Loops => Len(executed) = reads
    /\ pc = "read" => reads < MaxMessages
    /\ agent = "client" => next_id <= Len(said)

\* A call that ran is the line of its number, and its id is kept.
RanAsSaid ==
    /\ \A i \in 1..Len(executed) : said[i] = Call(executed[i]) /\ executed[i] \in seen
    /\ \A i, j \in 1..Len(executed) : executed[i] = executed[j] => i = j

\* Waiting for the process to end, exchange has read a result.
ResultRead ==
    pc = "exit" =>
        /\ reads \in 1..Len(said)
        /\ said[reads] = Result
        /\ Len(executed) = reads - 1

\* The process is killed by the end of exchange, and dead after it.
KilledAtEnd ==
    /\ child = "killed" => pc \in {"reap", "ended"}
    /\ pc \in {"reap", "ended"} => child \in {"none", "exited", "killed"}
    /\ child = "none" => pc \in {"spawn", "ended"}
    /\ outcome = "result" => pc \in {"reap", "ended"}

Earned ==
    outcome = "result" =>
        /\ child = "exited" /\ status = 0
        /\ reads \in 1..Len(said) /\ said[reads] = Result
        /\ Len(executed) = reads - 1

\* The container belongs to the Docker driver, and to the time between the
\* start of the process and docker rm.
ContainerInv ==
    /\ ~Docker => container = "none"
    /\ child = "none" => container = "none"
    /\ stage \in {"inspect", "exchange"} => rm = "none"
    /\ stage = "inspect" => pc = "spawn" /\ child = "none"
    /\ stage \in {"rm", "confirm"} => pc = "ended"
    /\ stage \in {"over", "abandoned"} => pc = "ended" \/ child = "none"
    /\ rm = "done" => container # "running"
    /\ stage = "over" /\ outcome \notin {"cleanup_failed", "cleanup_late"}
         => container # "running"

ExchangeInv ==
    /\ ExchangeTypeOK /\ Unread /\ AllCallsSoFar /\ RanAsSaid /\ ResultRead
    /\ KilledAtEnd /\ Earned

DriverInv == ExchangeInv /\ DriverTypeOK /\ ContainerInv

-----------------------------------------------------------------------------
\* The ids and lines that occur are typed.
LEMMA Constants ==
    ASSUME ExchangeConfigured
    PROVE  /\ AllIds \subseteq Nat
           /\ Result \in Lines /\ Malformed \in Lines
           /\ \A i \in AllIds : Call(i) \in Lines
           /\ Messages \subseteq Lines
           /\ Task \in Replies
           /\ \A i \in AllIds \cup {0}, ok \in BOOLEAN : [id |-> i, ok |-> ok] \in Replies
<1>1. MaxSaid \in Nat /\ Ids \subseteq Nat
  BY DEF ExchangeConfigured
<1>2. AllIds \subseteq Nat
  BY <1>1 DEF AllIds
<1>3. Result \in Lines /\ Malformed \in Lines /\ \A i \in AllIds : Call(i) \in Lines
  BY DEF Lines
<1>4. Messages \subseteq Lines
  BY DEF Messages, Lines, AllIds
<1>5. \A i \in AllIds \cup {0}, ok \in BOOLEAN : [id |-> i, ok |-> ok] \in Replies
  BY DEF Replies
<1>6. Task \in Replies
  BY <1>5 DEF Task
<1> QED BY <1>2, <1>3, <1>4, <1>5, <1>6

\* Before the process is spawned the invariant holds.
LEMMA InitInv ==
    ASSUME ExchangeConfigured, DriversConfigured, DriverInit
    PROVE  DriverInv
<1>1. ExchangeTypeOK
  BY DEF ExchangeConfigured, DriverInit, ExchangeInit, ExchangeTypeOK, Awaits, Endings
<1>2. Unread /\ AllCallsSoFar /\ RanAsSaid /\ ResultRead /\ KilledAtEnd /\ Earned
  BY DEF DriverInit, ExchangeInit, Unread, AllCallsSoFar, RanAsSaid, ResultRead,
         KilledAtEnd, Earned, Loops, ExchangeConfigured
<1>3. DriverTypeOK /\ ContainerInv
  BY <1>1 DEF DriversConfigured, DriverInit, ExchangeInit, DriverTypeOK, ContainerInv, Docker
<1> QED BY <1>1, <1>2, <1>3 DEF DriverInv, ExchangeInv

\* Writing a line keeps what is known of lines.
LEMMA WriteKeeps ==
    ASSUME ExchangeConfigured, ExchangeInv, NEW message \in Lines, WriteLine(message)
    PROVE  /\ stdout' \in Seq(Lines) /\ said' \in Seq(Lines) /\ stderr' \in 0..ErrRoom
           /\ Len(said') = Len(said) + 1
           /\ Len(said') = reads + Len(stdout')
           /\ \A i \in 1..Len(stdout') : stdout'[i] = said'[reads + i]
           /\ \A i \in 1..Len(said) : said'[i] = said[i]
<1>1. /\ stdout \in Seq(Lines) /\ said \in Seq(Lines) /\ stderr \in 0..ErrRoom
      /\ reads \in Nat /\ ErrRoom \in Nat
      /\ Len(said) = reads + Len(stdout)
      /\ \A i \in 1..Len(stdout) : stdout[i] = said[reads + i]
  BY DEF ExchangeInv, ExchangeTypeOK, Unread, ExchangeConfigured
<1>2. stdout' = Append(stdout, message) /\ said' = Append(said, message)
  BY DEF WriteLine
<1>3. stderr' \in 0..ErrRoom
  BY <1>1 DEF WriteLine
<1>4. \A i \in 1..Len(said) : said'[i] = said[i]
  BY <1>1, <1>2
<1>5. ASSUME NEW i \in 1..Len(stdout')
      PROVE  stdout'[i] = said'[reads + i]
  <2>1. Len(stdout) \in Nat /\ Len(said) \in Nat /\ Len(stdout') = Len(stdout) + 1
    BY <1>1, <1>2
  <2>2. CASE i = Len(stdout) + 1
    <3>1. stdout'[i] = message /\ reads + i = Len(said) + 1
      BY <1>1, <1>2, <2>1, <2>2
    <3> QED BY <1>1, <1>2, <2>1, <3>1
  <2>3. CASE i \in 1..Len(stdout)
    <3>1. reads + i \in 1..Len(said)
      BY <1>1, <2>1, <2>3
    <3>2. stdout'[i] = stdout[i]
      BY <1>1, <1>2, <2>1, <2>3
    <3> QED BY <1>1, <1>4, <2>3, <3>1, <3>2
  <2> QED BY <2>1, <2>2, <2>3
<1>6. \A lines \in Seq(Lines) : /\ Append(lines, message) \in Seq(Lines)
                                /\ Len(Append(lines, message)) = Len(lines) + 1
                                /\ Len(lines) \in Nat
  OBVIOUS
<1>7. Len(said') = reads + Len(stdout')
  <2>1. Len(said') = Len(said) + 1 /\ Len(stdout') = Len(stdout) + 1
    BY <1>1, <1>2, <1>6
  <2> QED BY <1>1, <1>6, <2>1
<1> QED BY <1>1, <1>2, <1>3, <1>4, <1>5, <1>6, <1>7

\* A step of the agent's process keeps the invariant.
LEMMA ChildStepInv ==
    ASSUME ExchangeConfigured, ExchangeInv, ChildStep
    PROVE  ExchangeInv'
<1> USE DEF ExchangeInv
<1>0. /\ pc' = pc /\ reads' = reads /\ seen' = seen /\ current' = current
      /\ outcome' = outcome /\ executed' = executed
  BY DEF ChildStep, loopVars
<1>1. CASE \/ Ask \/ Answer
           \/ /\ agent = "any" /\ child = "work" /\ UNCHANGED <<child, stdin>>
              /\ \E message \in Messages : WriteLine(message)
              /\ UNCHANGED <<agent, noisy, next_id, status>>
  <2>1. PICK message \in Lines : WriteLine(message)
    <3>1. Ask => next_id + 1 \in AllIds
      BY DEF Ask, ExchangeTypeOK, AllCallsSoFar, AllIds, ExchangeConfigured
    <3> QED BY <1>1, <3>1, Constants DEF Ask, Answer
  <2>2. /\ stdout' \in Seq(Lines) /\ said' \in Seq(Lines) /\ stderr' \in 0..ErrRoom
        /\ Len(said') = Len(said) + 1
        /\ Unread'
        /\ \A i \in 1..Len(said) : said'[i] = said[i]
    BY <2>1, <1>0, WriteKeeps DEF Unread
  <2>3. /\ agent' = agent /\ noisy' = noisy /\ stdin' = stdin /\ status' = status
        /\ child = "work" /\ child' \in {"work", "wait", "answered"}
        /\ next_id' \in {next_id, next_id + 1}
        /\ next_id' = next_id + 1 => next_id + 1 \in 0..MaxSaid
    BY <1>1 DEF Ask, Answer, AllCallsSoFar, ExchangeTypeOK, ExchangeConfigured
  <2>4. ExchangeTypeOK'
    BY <1>0, <2>2, <2>3 DEF ExchangeTypeOK
  <2>5. AllCallsSoFar' /\ KilledAtEnd' /\ Earned' /\ ResultRead'
    BY <1>0, <2>2, <2>3 DEF AllCallsSoFar, KilledAtEnd, Earned, ResultRead, ExchangeTypeOK
  <2>6. RanAsSaid'
    <3>1. Len(executed) <= Len(said)
      BY DEF AllCallsSoFar, Unread, ExchangeTypeOK
    <3>2. ASSUME NEW i \in 1..Len(executed)
          PROVE  said'[i] = Call(executed[i]) /\ executed[i] \in seen
      <4>1. i \in 1..Len(said)
        BY <3>1 DEF ExchangeTypeOK
      <4> QED BY <2>2, <4>1 DEF RanAsSaid
    <3>3. \A i, j \in 1..Len(executed) : executed[i] = executed[j] => i = j
      BY DEF RanAsSaid
    <3>4. \A i : Call(executed[i])' = Call(executed[i])
      BY <1>0 DEF Call
    <3> QED BY <1>0, <3>2, <3>3, <3>4 DEF RanAsSaid
  <2> QED BY <2>2, <2>4, <2>5, <2>6
<1>2. CASE /\ UNCHANGED <<agent, noisy, next_id, stdout, stderr, said>>
           /\ stdin' \in Seq(Replies) /\ status' \in {0, 1}
           /\ child \in {"boot", "work", "wait", "answered", "mute"}
           /\ child' \in {"work", "mute", "exited"}
  <2>1. ExchangeTypeOK'
    BY <1>0, <1>2 DEF ExchangeTypeOK
  <2>2. Unread' /\ AllCallsSoFar' /\ RanAsSaid' /\ ResultRead'
    BY <1>0, <1>2 DEF Unread, AllCallsSoFar, RanAsSaid, ResultRead
  <2>3. KilledAtEnd' /\ Earned'
    BY <1>0, <1>2 DEF KilledAtEnd, Earned
  <2> QED BY <2>1, <2>2, <2>3
<1>3. stdin # <<>> => Tail(stdin) \in Seq(Replies)
  BY DEF ExchangeTypeOK
<1>4. stdin \in Seq(Replies) /\ status \in {0, 1}
  BY DEF ExchangeTypeOK
<1>5. CASE Boot \/ Get \/ \E code \in {0, 1} : Exit(code)
  BY <1>2, <1>3, <1>4, <1>5 DEF Boot, Get, Exit
<1>6. CASE AnyStep
  BY <1>1, <1>2, <1>3, <1>4, <1>6 DEF AnyStep
<1> QED BY <1>1, <1>5, <1>6 DEF ChildStep
\* exchange returns or raises in a state where it still waited for a line, a
\* tool or the process.
LEMMA EndKeeps ==
    ASSUME ExchangeInv, NEW how \in Endings \cup {"cancelled"}, EndWith(how),
           child # "none",
           how = "result" => /\ pc = "exit" /\ child = "exited" /\ status = 0,
           agent' = agent, noisy' = noisy, next_id' = next_id, status' = status,
           stdout' = stdout, stdin' \in Seq(Replies), stderr' = stderr, said' = said,
           loopVars' = loopVars
    PROVE  ExchangeInv'
<1> USE DEF ExchangeInv
<1>0. /\ reads' = reads /\ seen' = seen /\ current' = current /\ executed' = executed
      /\ outcome' = how /\ pc' = "reap"
      /\ child' \in {child, "killed"} /\ child' \in {"exited", "killed"}
      /\ child \in {"exited", "killed"} => child' = child
  BY DEF loopVars, EndWith, Dead
<1>1. ExchangeTypeOK'
  BY <1>0 DEF ExchangeTypeOK, Awaits
<1>2. Unread' /\ AllCallsSoFar' /\ RanAsSaid' /\ ResultRead'
  BY <1>0 DEF Unread, AllCallsSoFar, RanAsSaid, ResultRead, Loops
<1>3. KilledAtEnd'
  BY <1>0 DEF KilledAtEnd
<1>4. Earned'
  BY <1>0 DEF Earned, ResultRead
<1> QED BY <1>1, <1>2, <1>3, <1>4

\* exchange goes from one await to another without a new line.
LEMMA GotoKeeps ==
    ASSUME ExchangeInv, NEW await \in Awaits \ {"exit", "reap", "spawn"}, Goto(await),
           pc \in Loops, child # "none",
           await = "read" => reads < MaxMessages,
           agent' = agent, noisy' = noisy, next_id' = next_id, status' = status,
           stdout' = stdout, stdin' \in Seq(Replies), stderr' = stderr, said' = said,
           loopVars' = loopVars
    PROVE  ExchangeInv'
<1> USE DEF ExchangeInv
<1>0. /\ reads' = reads /\ seen' = seen /\ current' = current /\ executed' = executed
      /\ outcome' = outcome /\ pc' = await /\ child' = child
  BY DEF loopVars, Goto
<1>1. ExchangeTypeOK'
  BY <1>0 DEF ExchangeTypeOK, Awaits
<1>2. Unread' /\ AllCallsSoFar' /\ RanAsSaid' /\ ResultRead'
  BY <1>0 DEF Unread, AllCallsSoFar, RanAsSaid, ResultRead, Loops, Awaits
<1>3. KilledAtEnd' /\ Earned'
  BY <1>0 DEF KilledAtEnd, Earned, Awaits, Loops
<1> QED BY <1>1, <1>2, <1>3

\* A line is read and acted on.
LEMMA ReadInv ==
    ASSUME ExchangeConfigured, ExchangeInv, Read,
           agent' = agent, noisy' = noisy, next_id' = next_id, status' = status,
           stderr' = stderr, said' = said
    PROVE  ExchangeInv'
<1> USE DEF ExchangeInv
<1> DEFINE message == Head(stdout)
<1>1. /\ pc = "read" /\ stdout # <<>> /\ stdout' = Tail(stdout) /\ reads' = reads + 1
      /\ stdin' = stdin
      /\ child \notin {"none", "killed"} /\ outcome # "result"
  BY DEF Read, KilledAtEnd
<1>2. /\ stdout \in Seq(Lines) /\ said \in Seq(Lines) /\ executed \in Seq(AllIds)
      /\ reads \in Nat /\ MaxMessages \in Nat /\ reads < MaxMessages
      /\ Len(executed) = reads
  BY <1>1 DEF ExchangeTypeOK, ExchangeConfigured, AllCallsSoFar, Loops
<1>3. /\ Len(stdout) \in Nat /\ Len(stdout) > 0 /\ Len(said) \in Nat
      /\ stdout' \in Seq(Lines) /\ Len(stdout') = Len(stdout) - 1
      /\ \A i \in 1..Len(stdout') : stdout'[i] = stdout[i + 1]
  BY <1>1, <1>2
<1>4. /\ message \in Lines /\ message = said[reads + 1]
      /\ reads + 1 \in 1..Len(said)
  <2>1. message = stdout[1]
    BY <1>2, <1>3
  <2> QED BY <1>2, <1>3, <2>1 DEF Unread
<1>5. Unread'
  <2>1. Len(said') = reads' + Len(stdout')
    <3>1. Len(said) = reads + Len(stdout)
      BY DEF Unread
    <3> QED BY <1>1, <1>2, <1>3, <3>1
  <2>2. ASSUME NEW i \in 1..Len(stdout')
        PROVE  stdout'[i] = said'[reads' + i]
    <3>1. i + 1 \in 1..Len(stdout) /\ reads + (i + 1) = reads' + i
      BY <1>1, <1>2, <1>3
    <3> QED BY <1>3, <3>1 DEF Unread
  <2> QED BY <2>1, <2>2 DEF Unread
<1>6. CASE /\ UNCHANGED <<seen, current, executed>>
           /\ \/ message.kind = "result" /\ Goto("exit")
              \/ message.kind = "malformed" /\ EndWith("malformed")
              \/ message.kind = "call" /\ EndWith("duplicate")
  <2>1. /\ seen' = seen /\ current' = current /\ executed' = executed
        /\ pc' \in {"exit", "reap"}
        /\ pc' = "exit" => message.kind = "result" /\ child' = child /\ outcome' = outcome
        /\ pc' = "reap" => /\ child' \in {"exited", "killed"}
                          /\ outcome' \in {"malformed", "duplicate"}
    BY <1>1, <1>6 DEF Goto, EndWith, Dead
  <2>2. ExchangeTypeOK'
    BY <1>1, <1>2, <1>3, <2>1 DEF ExchangeTypeOK, Awaits, Endings
  <2>3. message.kind = "result" => message = Result
    BY <1>4 DEF Lines, Result, Malformed, Call
  <2>4. AllCallsSoFar' /\ RanAsSaid'
    BY <1>1, <1>2, <2>1 DEF AllCallsSoFar, RanAsSaid, Loops, ExchangeTypeOK, Call
  <2>5. ResultRead'
    <3>1. SUFFICES ASSUME pc' = "exit"
                   PROVE  /\ reads' \in 1..Len(said') /\ said'[reads'] = Result
                          /\ Len(executed') = reads' - 1
      BY DEF ResultRead, Result
    <3>2. said[reads + 1] = Result
      BY <1>4, <2>1, <2>3, <3>1
    <3>3. Len(executed') = reads' - 1
      BY <1>1, <1>2, <2>1
    <3> QED BY <1>1, <1>4, <3>2, <3>3
  <2>6. KilledAtEnd' /\ Earned'
    BY <1>1, <2>1 DEF KilledAtEnd, Earned
  <2> QED BY <1>5, <2>2, <2>4, <2>5, <2>6
<1>7. CASE /\ message.kind = "call" /\ message.id \notin seen
           /\ seen' = Seen(message.id) /\ current' = message.id
           /\ executed' = Append(executed, message.id)
           /\ Goto("tool")
  <2>1. message.id \in AllIds /\ message = Call(message.id)
    BY <1>4, <1>7 DEF Lines, Result, Malformed, Call
  <2>2. /\ pc' = "tool" /\ child' = child /\ outcome' = outcome
        /\ seen' = seen \cup {message.id} /\ current' = message.id
    BY <1>7 DEF Goto, Seen
  <2>3. /\ executed' \in Seq(AllIds) /\ Len(executed') = reads + 1
        /\ executed'[reads + 1] = message.id
        /\ \A i \in 1..Len(executed) : executed'[i] = executed[i]
    BY <1>2, <1>7, <2>1
  <2>4. ExchangeTypeOK'
    BY <1>1, <1>2, <1>3, <2>1, <2>2, <2>3 DEF ExchangeTypeOK, Awaits
  <2>5. AllCallsSoFar'
    BY <1>1, <1>2, <2>2, <2>3 DEF AllCallsSoFar
  <2>6. RanAsSaid'
    <3>1. ASSUME NEW i \in 1..Len(executed')
          PROVE  said[i] = Call(executed'[i]) /\ executed'[i] \in seen'
      <4>1. CASE i = reads + 1
        BY <1>4, <2>1, <2>2, <2>3, <4>1
      <4>2. CASE i \in 1..Len(executed)
        BY <2>2, <2>3, <4>2 DEF RanAsSaid
      <4> QED BY <1>2, <2>3, <4>1, <4>2
    <3>2. ASSUME NEW i \in 1..Len(executed'), NEW j \in 1..Len(executed'),
                 executed'[i] = executed'[j]
          PROVE  i = j
      <4>1. \A k \in 1..Len(executed) : executed'[k] # message.id
        BY <1>7, <2>3 DEF RanAsSaid
      <4>2. CASE i = reads + 1 \/ j = reads + 1
        BY <1>2, <2>3, <3>2, <4>1, <4>2
      <4>3. CASE i \in 1..Len(executed) /\ j \in 1..Len(executed)
        BY <2>3, <3>2, <4>3 DEF RanAsSaid
      <4> QED BY <1>2, <2>3, <4>2, <4>3
    <3> QED BY <3>1, <3>2 DEF RanAsSaid, Call
  <2>7. ResultRead' /\ KilledAtEnd' /\ Earned'
    BY <1>1, <2>2 DEF ResultRead, KilledAtEnd, Earned
  <2> QED BY <1>5, <2>4, <2>5, <2>6, <2>7
<1> QED BY <1>6, <1>7 DEF Read

\* send() leaves exchange at its next await, or ends it.
LEMMA SendKeeps ==
    ASSUME ExchangeConfigured, ExchangeInv, NEW message \in Replies, Send(message),
           pc \in {"spawn", "tool"}, child # "none",
           agent' = agent, noisy' = noisy, next_id' = next_id, status' = status,
           stdout' = stdout, stderr' = stderr, said' = said, loopVars' = loopVars
    PROVE  ExchangeInv'
<1>1. pc # "exit" /\ reads \in Nat /\ MaxMessages \in Nat /\ stdin \in Seq(Replies)
  BY DEF ExchangeInv, ExchangeTypeOK, ExchangeConfigured
<1>2. stdin' \in Seq(Replies)
  BY <1>1 DEF Send
<1>3. CASE \E how \in {"too_long", "limit", "send_error"} : EndWith(how)
  BY <1>2, <1>3, EndKeeps DEF Endings
<1>4. CASE Goto("drain")
  BY <1>2, <1>4, GotoKeeps DEF Awaits, Loops
<1>5. CASE reads < MaxMessages /\ Goto("read")
  BY <1>2, <1>5, GotoKeeps DEF Awaits, Loops
<1> QED BY <1>1, <1>3, <1>4, <1>5 DEF Send, Loop, Exhausted

\* A step of the runner keeps the invariant.
LEMMA RunnerStepInv ==
    ASSUME ExchangeConfigured, ExchangeInv, RunnerStep
    PROVE  ExchangeInv'
<1>0. /\ agent' = agent /\ noisy' = noisy /\ next_id' = next_id /\ status' = status
      /\ stderr' = stderr /\ said' = said
  BY DEF RunnerStep
<1>1. KilledAtEnd /\ ExchangeTypeOK
  BY DEF ExchangeInv
<1>2. CASE Fork \/ SpawnFails \/ Reaped \/ (Cancel /\ pc \in {"spawn", "reap"})
  <2>1. /\ stdin' = stdin /\ stdout' = stdout /\ reads' = reads /\ seen' = seen
        /\ current' = current /\ executed' = executed
        /\ pc \in {"spawn", "reap"} /\ pc' \in {"spawn", "ended"}
        /\ outcome' \in {outcome, "os_error", "cancelled"}
        /\ \/ pc' = "spawn" /\ pc = "spawn" /\ child = "none" /\ child' = "boot"
           \/ pc' = "ended" /\ child' \in {"none", "exited", "killed"}
        /\ child \in {"exited", "killed"} => child' = child
    BY <1>1, <1>2 DEF Fork, SpawnFails, Reaped, Cancel, loopVars, Dead, KilledAtEnd, ExchangeTypeOK
  <2>2. ExchangeTypeOK'
    BY <1>0, <1>1, <2>1 DEF ExchangeTypeOK, Awaits, Endings
  <2>3. Unread' /\ AllCallsSoFar' /\ RanAsSaid' /\ ResultRead'
    BY <1>0, <2>1 DEF ExchangeInv, Unread, AllCallsSoFar, RanAsSaid, ResultRead, Loops
  <2>4. KilledAtEnd' /\ Earned'
    <3>1. outcome' = "result" => outcome = "result" /\ pc \in {"reap", "ended"}
      BY <1>1, <2>1 DEF KilledAtEnd
    <3>2. KilledAtEnd'
      BY <1>1, <2>1, <3>1 DEF KilledAtEnd
    <3>3. Earned'
      BY <1>0, <2>1, <3>1 DEF ExchangeInv, Earned
    <3> QED BY <3>2, <3>3
  <2> QED BY <2>2, <2>3, <2>4 DEF ExchangeInv
<1>3. CASE Read
  BY <1>0, <1>3, ReadInv
<1>4. CASE SendTask \/ ToolEnds
  <2>1. child # "none" /\ pc \in {"spawn", "tool"} /\ stdout' = stdout /\ loopVars' = loopVars
    BY <1>1, <1>4 DEF SendTask, ToolEnds, KilledAtEnd
  <2>2. PICK message \in Replies : Send(message)
    BY <1>1, <1>4, Constants DEF SendTask, ToolEnds, ExchangeTypeOK
  <2> QED BY <1>0, <2>1, <2>2, SendKeeps
<1>5. CASE Drained \/ ReadEOF
  <2>1. /\ pc \in Loops /\ pc # "spawn" /\ child # "none" /\ stdin' \in Seq(Replies)
        /\ stdout' = stdout /\ loopVars' = loopVars
    BY <1>1, <1>5 DEF Drained, ReadEOF, Loops, KilledAtEnd, ExchangeTypeOK
  <2>2. CASE EndWith("limit")
    BY <1>0, <2>1, <2>2, EndKeeps DEF ExchangeInv, Endings, Loops
  <2>3. CASE Goto("eof")
    BY <1>0, <2>1, <2>3, GotoKeeps DEF Awaits
  <2>4. CASE reads < MaxMessages /\ Goto("read")
    BY <1>0, <2>1, <2>4, GotoKeeps DEF Awaits
  <2>5. reads \in Nat /\ MaxMessages \in Nat
    BY <1>1 DEF ExchangeTypeOK, ExchangeConfigured
  <2> QED BY <1>5, <2>2, <2>3, <2>4, <2>5 DEF Drained, ReadEOF, Loop, Exhausted
<1>6. CASE \/ SendBroken \/ NoResult \/ Exited \/ ExitsLate
           \/ (Cancel /\ pc \notin {"spawn", "reap"})
  <2>1. /\ pc \notin {"spawn", "reap", "ended"} /\ child # "none"
        /\ stdin' = stdin /\ stdout' = stdout /\ loopVars' = loopVars
    BY <1>1, <1>6 DEF SendBroken, NoResult, Exited, ExitsLate, Cancel, KilledAtEnd, Awaits
  <2>2. PICK how \in Endings \cup {"cancelled"} :
          /\ EndWith(how)
          /\ how = "result" => pc = "exit" /\ child = "exited" /\ status = 0
    BY <1>1, <1>6
    DEF SendBroken, NoResult, Exited, ExitsLate, Cancel, Endings, Verdict, Dead, KilledAtEnd
  <2>3. stdin' \in Seq(Replies)
    BY <1>1, <2>1 DEF ExchangeTypeOK
  <2> QED BY <1>0, <2>1, <2>2, <2>3, EndKeeps
<1> QED BY <1>2, <1>3, <1>4, <1>5, <1>6 DEF RunnerStep

\* So does draining stderr.
LEMMA DrainInv ==
    ASSUME ExchangeConfigured, ExchangeInv, DrainStderr
    PROVE  ExchangeInv'
<1>1. ExchangeTypeOK'
  BY DEF ExchangeInv, ExchangeTypeOK, DrainStderr, loopVars, ExchangeConfigured
<1>2. Unread' /\ AllCallsSoFar' /\ RanAsSaid' /\ ResultRead' /\ KilledAtEnd' /\ Earned'
  BY DEF ExchangeInv, DrainStderr, loopVars, Unread, AllCallsSoFar, RanAsSaid, ResultRead,
         KilledAtEnd, Earned
<1> QED BY <1>1, <1>2 DEF ExchangeInv

-----------------------------------------------------------------------------
\* The two sides of a client's conversation: what exchange has read and what
\* the client has been told, by what the client does.
Booting ==
    /\ child \in {"none", "boot"} /\ Len(said) = 0 /\ next_id = 0 /\ reads = 0
    /\ pc \in {"spawn", "drain", "read"}
    /\ Len(stdin) = IF pc = "spawn" THEN 0 ELSE 1
AtWork ==
    /\ child = "work" /\ Len(said) = next_id /\ reads = next_id
    /\ pc \in {"drain", "read"} /\ Len(stdin) = 0
Waiting ==
    /\ child = "wait" /\ Len(said) = next_id /\ next_id > 0
    /\ \/ reads = next_id - 1 /\ Len(stdin) = 0 /\ pc \in {"drain", "read"}
       \/ reads = next_id /\ Len(stdin) = 0 /\ pc = "tool" /\ current = next_id
       \/ /\ reads = next_id /\ Len(stdin) = 1 /\ stdin[1].id = next_id
          /\ pc \in {"drain", "read"}
Answered ==
    /\ child \in {"answered", "exited"}
    /\ Len(said) = next_id + 1 /\ said[next_id + 1] \in {Result, Malformed}
    /\ Len(stdin) = 0
    /\ \/ reads = next_id /\ pc \in {"drain", "read"}
       \/ reads = next_id + 1 /\ pc = "exit"
Failed ==
    /\ child = "exited" /\ Len(said) = next_id /\ reads = next_id
    /\ pc \in {"spawn", "drain", "read", "eof"}

Numbered ==
    /\ \A i \in 1..next_id : said[i] \in {Call(i), Malformed}
    /\ \A id \in seen : id <= Len(executed)

Lockstep ==
    agent = "client" =>
        /\ Numbered
        /\ pc \in {"reap", "ended"} \/ Booting \/ AtWork \/ Waiting \/ Answered \/ Failed

\* How exchange has ended with a client, if it has ended for the client's doing.
Reasons == {"malformed", "duplicate", "limit", "no_result", "bad_exit", "send_error"}
Told(how) ==
    /\ how # "duplicate"
    /\ how = "malformed" => said[reads] = Malformed
    /\ how = "limit" => next_id >= MaxMessages
    /\ how = "no_result" => child = "exited" /\ \A i \in 1..Len(said) : said[i] # Result
    /\ how = "bad_exit" => child = "exited" /\ status = 1
    /\ how = "send_error" => child = "exited"
Heard ==
    agent = "client" /\ outcome \in Reasons => pc \in {"reap", "ended"} /\ Told(outcome)

ClientInv == Lockstep /\ Heard

\* While exchange goes on, it has not ended for the client's doing.
LEMMA NotYetHeard ==
    ASSUME ClientInv, agent' = agent, outcome' = outcome, pc \notin {"reap", "ended"}
    PROVE  Heard'
BY DEF ClientInv, Heard

\* The client's own steps keep the two sides in step.
LEMMA ClientStepInv ==
    ASSUME ExchangeConfigured, ExchangeInv, ClientInv, ChildStep
    PROVE  ClientInv'
<1>0. /\ pc' = pc /\ reads' = reads /\ seen' = seen /\ current' = current
      /\ outcome' = outcome /\ executed' = executed /\ agent' = agent
  BY DEF ChildStep, loopVars, Boot, Ask, Get, Answer, Exit, AnyStep
<1>1. CASE agent # "client"
  BY <1>0, <1>1 DEF ClientInv, Lockstep, Heard
<1>2. CASE agent = "client"
  <2>1. Boot \/ Ask \/ Get \/ Answer \/ \E code \in {0, 1} : Exit(code)
    BY <1>2 DEF ChildStep, AnyStep
  <2>2. /\ next_id \in Nat /\ reads \in Nat /\ said \in Seq(Lines) /\ stdin \in Seq(Replies)
        /\ Len(said) \in Nat /\ Len(stdin) \in Nat
        /\ child \notin {"none", "exited", "killed"} /\ pc \notin {"reap", "ended"}
        /\ stdin # <<>> => Len(Tail(stdin)) = Len(stdin) - 1 /\ Len(stdin) > 0
                          /\ Head(stdin) = stdin[1]
    BY <2>1 DEF ExchangeInv, ExchangeTypeOK, KilledAtEnd, Boot, Ask, Get, Answer, Exit
  <2>3. Numbered /\ (Booting \/ AtWork \/ Waiting \/ Answered \/ Failed)
    BY <1>2, <2>2 DEF ClientInv, Lockstep
  <2>4. Heard'
    BY <1>0, <2>2, NotYetHeard
  <2>5. CASE Boot
    <3>1. AtWork'
      BY <1>0, <2>2, <2>3, <2>5 DEF Boot, Booting, AtWork, Waiting, Answered, Failed
    <3>2. Numbered'
      BY <1>0, <2>3, <2>5 DEF Boot, Numbered, Call, Malformed
    <3> QED BY <2>4, <3>1, <3>2 DEF ClientInv, Lockstep
  <2>6. CASE Ask
    <3> DEFINE lines == {Call(next_id + 1), Malformed}
    <3>1. PICK line \in lines :
            /\ AtWork /\ said' = Append(said, line) /\ next_id' = next_id + 1
            /\ child' = "wait" /\ stdin' = stdin
      BY <2>3, <2>6 DEF Ask, WriteLine, Booting, AtWork, Waiting, Answered, Failed
    <3>2. /\ Len(said') = Len(said) + 1 /\ said'[Len(said) + 1] \in lines
          /\ \A i \in 1..Len(said) : said'[i] = said[i]
      BY <2>2, <3>1
    <3>3. Waiting'
      BY <1>0, <2>2, <3>1, <3>2 DEF AtWork, Waiting
    <3>4. Numbered'
      BY <1>0, <2>2, <2>3, <3>1, <3>2 DEF AtWork, Numbered, Call, Malformed
    <3> QED BY <2>4, <3>3, <3>4 DEF ClientInv, Lockstep
  <2>7. CASE Answer
    <3>1. PICK line \in {Result, Malformed} :
            /\ AtWork /\ said' = Append(said, line) /\ next_id' = next_id
            /\ child' = "answered" /\ stdin' = stdin
      BY <2>3, <2>7 DEF Answer, WriteLine, Booting, AtWork, Waiting, Answered, Failed
    <3>2. /\ Len(said') = Len(said) + 1 /\ said'[Len(said) + 1] \in {Result, Malformed}
          /\ \A i \in 1..Len(said) : said'[i] = said[i]
      BY <2>2, <3>1
    <3>3. Answered'
      BY <1>0, <2>2, <3>1, <3>2 DEF AtWork, Answered, Result, Malformed
    <3>4. Numbered'
      BY <1>0, <2>2, <2>3, <3>1, <3>2 DEF AtWork, Numbered, Call, Malformed
    <3> QED BY <2>4, <3>3, <3>4 DEF ClientInv, Lockstep
  <2>8. CASE Get
    <3>1. AtWork' \/ Failed'
      BY <1>0, <2>2, <2>3, <2>8 DEF Get, Booting, AtWork, Waiting, Answered, Failed
    <3>2. Numbered'
      BY <1>0, <2>3, <2>8 DEF Get, Numbered, Call, Malformed
    <3> QED BY <2>4, <3>1, <3>2 DEF ClientInv, Lockstep
  <2>9. CASE \E code \in {0, 1} : Exit(code)
    <3>1. Answered' \/ Failed'
      BY <1>0, <1>2, <2>2, <2>3, <2>9
      DEF Exit, Booting, AtWork, Waiting, Answered, Failed, Result
    <3>2. Numbered'
      BY <1>0, <2>3, <2>9 DEF Exit, Numbered, Call, Malformed
    <3> QED BY <2>4, <3>1, <3>2 DEF ClientInv, Lockstep
  <2> QED BY <2>1, <2>5, <2>6, <2>7, <2>8, <2>9
<1> QED BY <1>1, <1>2

\* exchange ends with a client: nothing but how is left to show.
LEMMA ClientEnds ==
    ASSUME ClientInv, NEW how, EndWith(how), agent = "client", agent' = agent,
           next_id' = next_id, said' = said, status' = status, loopVars' = loopVars,
           Told(how)
    PROVE  ClientInv'
<1>1. Numbered'
  BY DEF ClientInv, Lockstep, Numbered, loopVars, Call, Malformed
<1>2. Heard'
  BY DEF EndWith, Heard, Told, Dead, loopVars, Result, Malformed
<1> QED BY <1>1, <1>2 DEF ClientInv, Lockstep, EndWith

\* So it does with a malformed line of the client.
LEMMA MalformedEnds ==
    ASSUME ExchangeInv, ClientInv, EndWith("malformed"), agent = "client", agent' = agent,
           next_id' = next_id, said' = said, seen' = seen, executed' = executed,
           reads' = reads + 1, said[reads + 1] = Malformed
    PROVE  ClientInv'
<1>1. Numbered'
  BY DEF ClientInv, Lockstep, Numbered, Call, Malformed
<1>2. Heard'
  BY DEF EndWith, Heard, Told, Malformed
<1> QED BY <1>1, <1>2 DEF ClientInv, Lockstep, EndWith

\* The runner's steps keep a client and exchange in step, and end exchange for
\* the client's doing only when it did what they say.
LEMMA RunnerKeepsClient ==
    ASSUME ExchangeConfigured, ExchangeInv, ClientInv, RunnerStep
    PROVE  ClientInv'
<1>0. /\ agent' = agent /\ noisy' = noisy /\ next_id' = next_id /\ status' = status
      /\ stderr' = stderr /\ said' = said
  BY DEF RunnerStep
<1>1. CASE agent # "client"
  BY <1>0, <1>1 DEF ClientInv, Lockstep, Heard
<1>2. CASE agent = "client"
  <2>1. /\ next_id \in Nat /\ reads \in Nat /\ said \in Seq(Lines) /\ stdin \in Seq(Replies)
        /\ Len(said) \in Nat /\ Len(stdin) \in Nat /\ MaxMessages \in Nat \ {0}
        /\ stdin = <<>> <=> Len(stdin) = 0
        /\ KilledAtEnd
    BY DEF ExchangeInv, ExchangeTypeOK, ExchangeConfigured
  <2>2. /\ Numbered
        /\ pc \in {"reap", "ended"} \/ Booting \/ AtWork \/ Waiting \/ Answered \/ Failed
    BY <1>2 DEF ClientInv, Lockstep
  <2>3. CASE \/ Fork \/ SpawnFails \/ Reaped
             \/ (Cancel /\ pc \in {"spawn", "reap"})
    <3>1. /\ stdin' = stdin /\ reads' = reads /\ seen' = seen /\ current' = current
          /\ executed' = executed
      BY <2>3 DEF Fork, SpawnFails, Reaped, Cancel, loopVars
    <3>2. Numbered'
      BY <1>0, <2>2, <3>1 DEF Numbered, Call, Malformed
    <3>3. CASE Fork
      <4>1. Booting'
        BY <1>0, <2>1, <2>2, <3>1, <3>3
        DEF Fork, KilledAtEnd, Booting, AtWork, Waiting, Answered, Failed
      <4>2. Heard'
        BY <1>0, <3>3, NotYetHeard DEF Fork, ClientInv, Heard
      <4> QED BY <3>2, <4>1, <4>2 DEF ClientInv, Lockstep
    <3>4. CASE SpawnFails \/ Reaped \/ (Cancel /\ pc \in {"spawn", "reap"})
      <4>1. pc' = "ended" /\ (outcome' \in {"os_error", "cancelled"}
                               \/ (outcome' = outcome /\ child' = child))
        BY <3>4 DEF SpawnFails, Reaped, Cancel
      <4>2. Heard'
        BY <1>0, <1>2, <3>1, <4>1 DEF ClientInv, Heard, Told, Reasons, Result, Malformed
      <4> QED BY <3>2, <4>1, <4>2 DEF ClientInv, Lockstep
    <3> QED BY <2>3, <3>3, <3>4
  <2>4. CASE SendTask \/ ToolEnds
    <3>1. loopVars' = loopVars /\ pc \in {"spawn", "tool"} /\ child # "none"
      BY <2>1, <2>4 DEF SendTask, ToolEnds, KilledAtEnd
    <3>2. /\ pc = "spawn" => (Booting \/ Failed)
          /\ pc = "tool" => Waiting /\ Len(stdin) = 0 /\ reads = next_id /\ current = next_id
      BY <2>2, <3>1 DEF Booting, AtWork, Waiting, Answered, Failed
    <3>3. PICK message \in Replies :
            Send(message) /\ (pc = "tool" => message.id = current)
      BY <2>4, Constants DEF SendTask, ToolEnds, ExchangeInv, ExchangeTypeOK
    <3>4. CASE EndWith("too_long") \/ (Exhausted /\ EndWith("limit"))
                 \/ (Dead /\ EndWith("send_error"))
      <4>1. Exhausted => next_id >= MaxMessages
        BY <2>1, <3>1, <3>2 DEF Exhausted, Booting, Failed
      <4>2. Dead => child = "exited"
        BY <3>1, <3>2 DEF Dead, Booting, Failed, Waiting
      <4>3. PICK how \in {"too_long", "limit", "send_error"} : EndWith(how) /\ Told(how)
        BY <3>4, <4>1, <4>2 DEF Told
      <4> QED BY <1>0, <1>2, <3>1, <4>3, ClientEnds
    <3>5. CASE /\ Goto("drain") \/ Goto("read")
               /\ stdin' = Append(stdin, message)
               /\ ~Dead
      <4>1. /\ reads' = reads /\ seen' = seen /\ current' = current /\ executed' = executed
            /\ child' = child /\ outcome' = outcome /\ pc' \in {"drain", "read"}
        BY <3>1, <3>5 DEF loopVars, Goto
      <4>2. Len(stdin') = Len(stdin) + 1 /\ (Len(stdin) = 0 => stdin'[1] = message)
        BY <2>1, <3>5
      <4>3. Booting' \/ Waiting'
        BY <1>0, <2>1, <3>1, <3>2, <3>3, <3>5, <4>1, <4>2 DEF Booting, Waiting, Failed, Dead
      <4>4. Heard'
        BY <1>0, <3>1, <4>1, NotYetHeard
      <4>5. Numbered'
        BY <1>0, <2>2, <4>1 DEF Numbered, Call, Malformed
      <4> QED BY <4>3, <4>4, <4>5 DEF ClientInv, Lockstep
    <3> QED BY <1>2, <3>3, <3>4, <3>5 DEF Send, Loop
  <2>5. CASE Drained \/ ReadEOF
    <3>1. loopVars' = loopVars /\ stdin' = stdin /\ pc \in {"drain", "read"}
      BY <2>5 DEF Drained, ReadEOF
    <3>2. CASE Exhausted /\ EndWith("limit")
      <4>1. pc = "drain"
        BY <2>5, <3>2 DEF Drained, ReadEOF, Goto, EndWith
      <4>2. Len(said) >= reads /\ Len(executed) = reads /\ RanAsSaid
        BY <4>1, <2>1 DEF ExchangeInv, Unread, AllCallsSoFar, Loops, ExchangeTypeOK
      <4>3. next_id >= reads
        BY <2>1, <2>2, <4>1 DEF Booting, AtWork, Waiting, Answered, Failed
      <4>4. Told("limit")
        BY <2>1, <3>2, <4>3 DEF Exhausted, Told
      <4> QED BY <1>0, <1>2, <3>1, <3>2, <4>4, ClientEnds
    <3>3. CASE Goto("read") /\ Drained
      <4>1. /\ reads' = reads /\ seen' = seen /\ current' = current /\ executed' = executed
            /\ child' = child /\ outcome' = outcome /\ pc' = "read" /\ pc = "drain"
        BY <3>1, <3>3 DEF loopVars, Goto, Drained
      <4>2. Booting' \/ AtWork' \/ Waiting' \/ Answered' \/ Failed'
        BY <1>0, <2>2, <3>1, <4>1 DEF Booting, AtWork, Waiting, Answered, Failed, Result
      <4>3. Heard'
        BY <1>0, <4>1, NotYetHeard
      <4>4. Numbered'
        BY <1>0, <2>2, <4>1 DEF Numbered, Call, Malformed
      <4> QED BY <4>2, <4>3, <4>4 DEF ClientInv, Lockstep
    <3>4. CASE ReadEOF
      <4>1. /\ reads' = reads /\ seen' = seen /\ current' = current /\ executed' = executed
            /\ child' = child /\ outcome' = outcome /\ pc' = "eof" /\ pc = "read"
            /\ Len(stdout) = 0 /\ child \in {"exited", "killed", "mute"}
        BY <3>1, <3>4 DEF loopVars, Goto, ReadEOF, Dead
      <4>2. Len(said) = reads
        BY <2>1, <4>1 DEF ExchangeInv, Unread
      <4>3. Failed'
        BY <1>0, <2>1, <2>2, <4>1, <4>2 DEF Booting, AtWork, Waiting, Answered, Failed
      <4>4. Heard'
        BY <1>0, <4>1, NotYetHeard
      <4>5. Numbered'
        BY <1>0, <2>2, <4>1 DEF Numbered, Call, Malformed
      <4> QED BY <4>3, <4>4, <4>5 DEF ClientInv, Lockstep
    <3> QED BY <2>5, <3>2, <3>3, <3>4 DEF Drained, Loop
  <2>6. CASE Read
    <3> DEFINE message == Head(stdout)
    <3>1. /\ pc = "read" /\ reads' = reads + 1 /\ stdin' = stdin /\ child # "killed"
          /\ message = said[reads + 1] /\ reads + 1 \in 1..Len(said)
      <4>1. stdout \in Seq(Lines) /\ stdout # <<>> /\ Len(stdout) \in Nat
        BY <2>6 DEF Read, ExchangeInv, ExchangeTypeOK
      <4>2. Len(stdout) >= 1 /\ message = stdout[1]
        BY <4>1
      <4> QED BY <2>1, <2>6, <4>1, <4>2 DEF Read, ExchangeInv, Unread, KilledAtEnd
    <3>2. \/ Waiting /\ reads = next_id - 1 /\ Len(stdin) = 0
          \/ Answered /\ reads = next_id
      BY <2>1, <2>2, <3>1 DEF Booting, AtWork, Waiting, Answered, Failed
    <3>3. CASE Waiting /\ reads = next_id - 1
      <4>1. message \in {Call(next_id), Malformed} /\ next_id \notin seen
        <5>1. Len(executed) = reads
          BY <3>1 DEF ExchangeInv, AllCallsSoFar, Loops
        <5>2. next_id \in 1..next_id /\ reads + 1 = next_id
          BY <2>1, <3>3 DEF Waiting
        <5>3. message \in {Call(next_id), Malformed}
          BY <2>2, <3>1, <5>2 DEF Numbered
        <5>4. ~(next_id <= reads)
          BY <2>1, <5>2
        <5> QED BY <2>2, <5>1, <5>3, <5>4 DEF Numbered
      <4>0. CASE message = Malformed
        BY <1>0, <1>2, <2>6, <3>1, <4>0, MalformedEnds DEF Read, Malformed
      <4> SUFFICES ASSUME message = Call(next_id)
                   PROVE  ClientInv'
        BY <4>0, <4>1
      <4>2. /\ message.kind = "call" /\ message.id = next_id
        BY <4>1 DEF Call
      <4>3. /\ seen' = seen \cup {next_id} /\ current' = next_id
            /\ executed' = Append(executed, next_id)
            /\ pc' = "tool" /\ child' = child /\ outcome' = outcome
        BY <2>6, <4>1, <4>2 DEF Read, Seen, Goto
      <4>4. Waiting'
        BY <1>0, <2>1, <3>1, <3>2, <3>3, <4>3 DEF Waiting, Answered
      <4>5. Numbered'
        <5>1. Len(executed) = reads /\ executed \in Seq(AllIds)
          BY <3>1 DEF ExchangeInv, AllCallsSoFar, Loops, ExchangeTypeOK
        <5>2. Len(executed') = next_id
          BY <2>1, <3>3, <4>3, <5>1
        <5>3. \A id \in seen : id <= next_id
          <6>1. \A id \in seen : id \in Nat
            BY Constants DEF ExchangeInv, ExchangeTypeOK
          <6> QED BY <2>1, <2>2, <3>3, <5>1, <6>1 DEF Numbered
        <5> QED BY <1>0, <2>1, <2>2, <4>3, <5>2, <5>3 DEF Numbered, Call, Malformed
      <4>6. Heard'
        BY <1>0, <3>1, <4>3, NotYetHeard
      <4> QED BY <4>4, <4>5, <4>6 DEF ClientInv, Lockstep
    <3>4. CASE Answered /\ reads = next_id
      <4>1. message \in {Result, Malformed}
        BY <3>1, <3>4 DEF Answered
      <4>0. CASE message = Malformed
        BY <1>0, <1>2, <2>6, <3>1, <4>0, MalformedEnds DEF Read, Malformed
      <4> SUFFICES ASSUME message = Result
                   PROVE  ClientInv'
        BY <4>0, <4>1
      <4>2. /\ seen' = seen /\ current' = current /\ executed' = executed
            /\ pc' = "exit" /\ child' = child /\ outcome' = outcome
        BY <2>6, <4>1 DEF Read, Result, Goto
      <4>3. Answered'
        BY <1>0, <2>1, <3>1, <3>4, <4>2 DEF Answered, Result
      <4>4. Heard'
        BY <1>0, <3>1, <4>2, NotYetHeard
      <4>5. Numbered'
        BY <1>0, <2>2, <4>2 DEF Numbered, Call, Malformed
      <4> QED BY <4>3, <4>4, <4>5 DEF ClientInv, Lockstep
    <3> QED BY <3>2, <3>3, <3>4
  <2>7. CASE \/ SendBroken \/ NoResult \/ Exited \/ ExitsLate
             \/ (Cancel /\ pc \notin {"spawn", "reap"})
    <3>1. /\ stdin' = stdin /\ loopVars' = loopVars /\ pc \notin {"spawn", "reap", "ended"}
      BY <2>7 DEF SendBroken, NoResult, Exited, ExitsLate, Cancel, Awaits
    <3>2. CASE SendBroken
      <4>1. Told("send_error")
        BY <1>2, <2>1, <2>2, <3>2
        DEF SendBroken, Dead, Told, Booting, AtWork, Waiting, Answered, Failed
      <4> QED BY <1>0, <1>2, <3>1, <3>2, <4>1, ClientEnds DEF SendBroken
    <3>3. CASE NoResult
      <4>1. child = "exited" /\ Len(said) = next_id
        BY <2>2, <3>3 DEF NoResult, Booting, AtWork, Waiting, Answered, Failed
      <4>2. \A i \in 1..Len(said) : said[i] # Result
        BY <2>2, <4>1 DEF Numbered, Call, Malformed, Result
      <4>3. Told("no_result")
        BY <4>1, <4>2 DEF Told
      <4> QED BY <1>0, <1>2, <3>1, <3>3, <4>3, ClientEnds DEF NoResult
    <3>4. CASE Exited
      <4>1. child = "exited" /\ status \in {0, 1}
        BY <2>1, <2>2, <3>4
        DEF Exited, Dead, Booting, AtWork, Waiting, Answered, Failed, ExchangeInv, ExchangeTypeOK
      <4>2. Told(Verdict)
        BY <4>1 DEF Told, Verdict
      <4> QED BY <1>0, <1>2, <3>1, <3>4, <4>2, ClientEnds DEF Exited
    <3>5. CASE ExitsLate \/ (Cancel /\ pc \notin {"spawn", "reap"})
      <4>1. EndWith("timeout") \/ EndWith("cancelled")
        BY <3>5 DEF ExitsLate, Cancel
      <4> QED BY <1>0, <1>2, <3>1, <4>1, ClientEnds DEF Told
    <3> QED BY <2>7, <3>2, <3>3, <3>4, <3>5
  <2> QED BY <2>3, <2>4, <2>5, <2>6, <2>7 DEF RunnerStep
<1> QED BY <1>1, <1>2

-----------------------------------------------------------------------------
\* A step of exchange within a driver keeps its container's part.
LEMMA ExchangeKeepsContainer ==
    ASSUME DriverInv, Exchange, ExchangeInv'
    PROVE  DriverInv'
<1>1. /\ stage = "exchange" /\ container' = Container
      /\ isolation' = isolation /\ stage' = stage /\ rm' = rm
  BY DEF Exchange, Within
<1>2. child \in {"exited", "killed"} => child' = child
  BY DEF Exchange, Within, ExchangeNext, ChildStep, Boot, Ask, Get, Answer, AnyStep, Exit,
         RunnerStep, Fork, SpawnFails, SendTask, Send, Loop, Goto, EndWith, Drained, SendBroken,
         Read, ToolEnds, ReadEOF, NoResult, Exited, ExitsLate, Cancel, Reaped, DrainStderr,
         Dead, childVars
<1>3. child' = "none" => child = "none"
  BY DEF Exchange, Within, ExchangeNext, ChildStep, Boot, Ask, Get, Answer, AnyStep, Exit,
         RunnerStep, Fork, SpawnFails, SendTask, Send, Loop, Goto, EndWith, Drained, SendBroken,
         Read, ToolEnds, ReadEOF, NoResult, Exited, ExitsLate, Cancel, Reaped, DrainStderr,
         Dead, childVars
<1>4. DriverTypeOK'
  BY <1>1 DEF DriverInv, ExchangeInv, DriverTypeOK, Container
<1>5. ContainerInv'
  BY <1>1, <1>3 DEF DriverInv, ContainerInv, Container, Docker
<1> QED BY <1>4, <1>5 DEF DriverInv

\* A step of a driver outside of exchange changes no more of exchange's state
\* than the outcome.
LEMMA OutsideKeeps ==
    ASSUME ExchangeInv, NEW how \in {outcome, "cancelled"} \cup Endings, outcome' = how,
           how # "result" \/ how = outcome,
           childVars' = childVars, stdin' = stdin, pc' = pc, loopVars' = loopVars
    PROVE  ExchangeInv'
<1>0. /\ agent' = agent /\ noisy' = noisy /\ child' = child /\ next_id' = next_id
      /\ status' = status /\ stdout' = stdout /\ stderr' = stderr /\ said' = said
      /\ reads' = reads /\ seen' = seen /\ current' = current /\ executed' = executed
  BY DEF childVars, loopVars
<1>1. ExchangeTypeOK'
  BY <1>0 DEF ExchangeInv, ExchangeTypeOK
<1>2. Unread' /\ AllCallsSoFar' /\ RanAsSaid' /\ ResultRead' /\ KilledAtEnd' /\ Earned'
  BY <1>0 DEF ExchangeInv, Unread, AllCallsSoFar, RanAsSaid, ResultRead, KilledAtEnd, Earned
<1> QED BY <1>1, <1>2 DEF ExchangeInv

\* Every step of a driver keeps the invariant.
LEMMA StepInv ==
    ASSUME ExchangeConfigured, DriverInv, [DriverNext]_driverVars
    PROVE  DriverInv'
<1>1. ExchangeInv /\ DriverTypeOK /\ ContainerInv
  BY DEF DriverInv
<1>2. CASE Exchange
  <2>1. ExchangeInv'
    BY <1>1, <1>2, ChildStepInv, RunnerStepInv, DrainInv DEF Exchange, Within, ExchangeNext
  <2> QED BY <1>2, <2>1, ExchangeKeepsContainer
<1>3. CASE \/ Inspect \/ ContainerEnds \/ ExchangeEnds \/ StartRm \/ RmActs
           \/ Confirm \/ CleanupFails \/ CancelDriver \/ UNCHANGED driverVars
  <2>1. /\ childVars' = childVars /\ stdin' = stdin /\ pc' = pc /\ loopVars' = loopVars
        /\ isolation' = isolation
        /\ outcome' = outcome \/ outcome' \in {"unavailable", "timeout", "cleanup_failed",
                                               "cleanup_late", "cancelled"}
    BY <1>3
    DEF Inspect, ContainerEnds, ExchangeEnds, StartRm, RmActs, Confirm, CleanupFails, Over,
        CancelDriver, driverVars, exchangeVars, childVars, loopVars
  <2>2. ExchangeInv'
    BY <1>1, <2>1, OutsideKeeps DEF Endings
  <2>3. child' = child /\ Docker' = Docker
    BY <2>1 DEF childVars, Docker
  <2>4. DriverTypeOK'
    BY <1>1, <1>3, <2>1, <2>2
    DEF DriverTypeOK, ExchangeInv, Inspect, ContainerEnds, ExchangeEnds, NextStage, StartRm,
        RmActs, Confirm, CleanupFails, Over, CancelDriver, driverVars
  <2>5. ContainerInv'
    <3>1. CASE Inspect
      BY <1>1, <2>1, <2>3, <3>1 DEF ContainerInv, Inspect, Docker
    <3>2. CASE ContainerEnds \/ UNCHANGED driverVars
      BY <1>1, <2>1, <2>3, <3>2 DEF ContainerInv, ContainerEnds, driverVars, exchangeVars, Docker
    <3>3. CASE ExchangeEnds
      BY <1>1, <2>1, <2>3, <3>3
      DEF ContainerInv, ExchangeEnds, NextStage, exchangeVars, Docker
    <3>4. CASE StartRm
      BY <1>1, <2>1, <2>3, <3>4 DEF ContainerInv, StartRm, exchangeVars, Docker
    <3>5. CASE RmActs
      BY <1>1, <2>1, <2>3, <3>5 DEF ContainerInv, RmActs, exchangeVars, Docker
    <3>6. CASE Confirm
      BY <1>1, <2>1, <2>3, <3>6 DEF ContainerInv, Confirm, Over, Docker
    <3>7. CASE CleanupFails
      BY <1>1, <2>1, <2>3, <3>7 DEF ContainerInv, CleanupFails, Over, Docker
    <3>8. CASE CancelDriver
      BY <1>1, <2>1, <2>3, <3>8 DEF ContainerInv, CancelDriver, Docker
    <3> QED BY <1>3, <3>1, <3>2, <3>3, <3>4, <3>5, <3>6, <3>7, <3>8
  <2> QED BY <2>2, <2>4, <2>5 DEF DriverInv
<1> QED BY <1>2, <1>3 DEF DriverNext

\* The invariant holds in every reachable state.
LEMMA Invariance ==
    ASSUME ExchangeConfigured, DriversConfigured
    PROVE  DriverSpec => []DriverInv
<1>1. DriverInit => DriverInv
  BY InitInv
<1>2. DriverInv /\ [DriverNext]_driverVars => DriverInv'
  BY StepInv
<1> QED BY <1>1, <1>2, PTL DEF DriverSpec

\* Every reachable state of a driver's run is well typed: exchange's counters
\* keep their limits whatever the program sends.
THEOREM DriverTypeCorrect ==
    ASSUME ExchangeConfigured, DriversConfigured
    PROVE  DriverSpec => []DriverTypeOK
<1>1. DriverInv => DriverTypeOK
  BY DEF DriverInv
<1> QED BY <1>1, Invariance, PTL

\* Each call a process sends runs its tool at most once, in the order of its
\* lines, and nothing after a line that is no call does.
THEOREM ToolsRunInOrder ==
    ASSUME ExchangeConfigured, DriversConfigured
    PROVE  DriverSpec => []ToolsInOrder
<1>1. DriverInv => ToolsInOrder
  <2>1. SUFFICES ASSUME DriverInv PROVE ToolsInOrder
    OBVIOUS
  <2>2. DOMAIN executed = 1..Len(executed) /\ Len(executed) <= Len(said)
    BY <2>1 DEF DriverInv, ExchangeInv, ExchangeTypeOK, AllCallsSoFar, Unread
  <2> QED BY <2>1, <2>2 DEF DriverInv, ExchangeInv, RanAsSaid, ToolsInOrder, IsInjective
<1> QED BY <1>1, Invariance, PTL

\* A result is taken only of a process that ended by itself and with success,
\* after nothing but calls that ran.
THEOREM ResultIsEarned ==
    ASSUME ExchangeConfigured, DriversConfigured
    PROVE  DriverSpec => []AnswerIsEarned
<1>1. DriverInv => AnswerIsEarned
  BY DEF DriverInv, ExchangeInv, Earned, AnswerIsEarned
<1> QED BY <1>1, Invariance, PTL

\* When a driver's run is over, no process of the agent and no container is
\* left, unless the driver reports that the container may be.
THEOREM NothingIsLeft ==
    ASSUME ExchangeConfigured, DriversConfigured
    PROVE  DriverSpec => []NothingLeft
<1>1. DriverInv => NothingLeft
  BY DEF DriverInv, ExchangeInv, KilledAtEnd, ContainerInv, NothingLeft
<1> QED BY <1>1, Invariance, PTL

\* Every step of a driver keeps a client and exchange in step.
LEMMA ClientInvStep ==
    ASSUME ExchangeConfigured, DriverInv, ClientInv, [DriverNext]_driverVars
    PROVE  ClientInv'
<1>1. ExchangeInv
  BY DEF DriverInv
<1>2. CASE Exchange
  <2>1. CASE ChildStep
    BY <1>1, <2>1, ClientStepInv
  <2>2. CASE RunnerStep
    BY <1>1, <2>2, RunnerKeepsClient
  <2>3. CASE DrainStderr
    <3>1. /\ agent' = agent /\ child' = child /\ next_id' = next_id /\ status' = status
          /\ stdin' = stdin /\ said' = said /\ pc' = pc /\ outcome' = outcome
          /\ reads' = reads /\ seen' = seen /\ current' = current /\ executed' = executed
      BY <2>3 DEF DrainStderr, loopVars
    <3> QED
      BY <3>1
      DEF ClientInv, Lockstep, Heard, Told, Numbered, Booting, AtWork, Waiting, Answered, Failed,
          Call, Result, Malformed
  <2> QED BY <1>2, <2>1, <2>2, <2>3 DEF Exchange, Within, ExchangeNext
<1>3. CASE \/ Inspect \/ ContainerEnds \/ ExchangeEnds \/ StartRm \/ RmActs
           \/ Confirm \/ CleanupFails \/ CancelDriver \/ UNCHANGED driverVars
  <2>1. /\ agent' = agent /\ child' = child /\ next_id' = next_id /\ status' = status
        /\ stdin' = stdin /\ said' = said /\ pc' = pc
        /\ reads' = reads /\ seen' = seen /\ current' = current /\ executed' = executed
        /\ outcome' = outcome \/ outcome' \in {"unavailable", "timeout", "cleanup_failed",
                                               "cleanup_late", "cancelled"}
    BY <1>3
    DEF Inspect, ContainerEnds, ExchangeEnds, StartRm, RmActs, Confirm, CleanupFails, Over,
        CancelDriver, driverVars, exchangeVars, childVars, loopVars
  <2>2. Lockstep'
    BY <2>1
    DEF ClientInv, Lockstep, Numbered, Booting, AtWork, Waiting, Answered, Failed, Call, Result,
        Malformed
  <2>3. Heard'
    BY <2>1 DEF ClientInv, Heard, Told, Reasons, Result, Malformed
  <2> QED BY <2>2, <2>3 DEF ClientInv
<1> QED BY <1>2, <1>3 DEF DriverNext

\* A client of RemoteTools sees no reply but its own, and each protocol error but
\* a task or reply that cannot be sent tells what the client itself did.
THEOREM ClientIsHeard ==
    ASSUME ExchangeConfigured, DriversConfigured
    PROVE  DriverSpec => []HonestIsHeard
<1>1. DriverInit => ClientInv
  BY DEF DriverInit, ExchangeInit, ClientInv, Lockstep, Heard, Reasons, Numbered, Booting
<1>2. DriverInv /\ ClientInv /\ [DriverNext]_driverVars => ClientInv'
  BY ClientInvStep
<1>3. DriverInv /\ ClientInv => HonestIsHeard
  <2>1. SUFFICES ASSUME DriverInv, ClientInv, agent = "client"
                 PROVE  HonestIsHeard
    BY DEF HonestIsHeard
  <2>2. KilledAtEnd /\ Lockstep /\ Heard /\ stdin \in Seq(Replies)
    BY <2>1 DEF DriverInv, ExchangeInv, ExchangeTypeOK, ClientInv
  <2>3. ASSUME child = "wait", NEW i \in DOMAIN stdin
        PROVE  stdin[i].id = next_id
    <3>1. Waiting
      BY <2>1, <2>2, <2>3 DEF KilledAtEnd, Lockstep, Booting, AtWork, Answered, Failed
    <3>2. i \in 1..Len(stdin) /\ Len(stdin) \in Nat
      BY <2>2, <2>3
    <3> QED BY <3>1, <3>2 DEF Waiting
  <2>4. outcome \in Reasons => Told(outcome)
    BY <2>1, <2>2 DEF Heard
  <2> QED BY <2>3, <2>4 DEF HonestIsHeard, Reasons, Told, Contains
<1> QED BY <1>1, <1>2, <1>3, Invariance, PTL DEF DriverSpec
=============================================================================
